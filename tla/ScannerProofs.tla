--------------------------- MODULE ScannerProofs ---------------------------
(***************************************************************************)
(* For every chain, page size, number of overlapping ticks and number of   *)
(* faults: the types of Scanner's variables; that the collection has no    *)
(* unexplained gap and reaches the genesis once the flag says so; that a   *)
(* queued row has a job, one per fault and one more; that the jobs are in  *)
(* the order of the blocks; and that both loops of the scanner advance.    *)
(*                                                                         *)
(* NoGap alone is not inductive: a page about to be stored was chosen from *)
(* a cursor read long before. The invariant IInv adds what makes a stale   *)
(* cursor harmless: a cursor stays linked to every stored signature.       *)
(* QueueInv adds the lock of the queueing ticks, and what the batch of the *)
(* tick that holds it says of the rows and the jobs.                       *)
(***************************************************************************)
EXTENDS Scanner, FiniteSetTheorems, TLAPS

Row == [id : 1..lastId, sig : Sigs \ Failed, queued : BOOLEAN, processed : BOOLEAN]

\* Everything between the cursor c and any stored signature is accounted for.
Linked(c) ==
  \A q \in Stored : \A x \in (c..q) \cup (q..c) : Accounted(x)

BackwardInv ==
  /\ state.isBackwardScanComplete => backward.pc = "done"
  /\ backward.pc = "check" => backward.before \in Stored
  /\ backward.pc \in {"fetch", "insert"} =>
       /\ backward.before = NoSig => rows = {}
       /\ backward.before # NoSig => Linked(backward.before)
  /\ backward.pc = "insert" =>
       /\ backward.lo <= backward.hi
       /\ backward.before # NoSig => backward.hi = backward.before - 1

ForwardInv ==
  \A t \in ScanTicks :
    /\ forward[t].pc # "idle" => forward[t].until \in Stored
    /\ forward[t].pc = "insert" =>
         /\ forward[t].until < forward[t].lo /\ forward[t].lo <= forward[t].hi
         /\ \A x \in (forward[t].until + 1)..(forward[t].lo - 1) : x \in skipped

IInv == TypeOK /\ NoGap /\ HistoryComplete /\ BackwardInv /\ ForwardInv

\* A batch insert adds only signatures of the batch, accounts for all of them
\* and keeps the collection well typed.
LEMMA InsertAccounts ==
  ASSUME TypeOK, NEW lo \in Sigs, NEW hi \in Sigs, lo <= hi,
         InsertBatchTransactionEvent(lo, hi), skipped' = skipped
  PROVE  /\ Stored \subseteq Stored'
         /\ Stored' \subseteq Stored \cup (lo..hi)
         /\ \A x \in lo..hi : Accounted(x)'
         /\ \A x : Accounted(x) => Accounted(x)'
         /\ lastId' \in Nat /\ lastId <= lastId'
         /\ rows' \subseteq Row'
         /\ lost' \subseteq Sigs
         /\ faults' \in 0..MaxFaults
<1> USE ScannerAssumption DEF ScannerAssumption, Sigs
<1>1. PICK stored \in SUBSET ((lo..hi) \ Failed) :
        /\ IF stored = (lo..hi) \ Failed THEN NoFault ELSE Fault
        /\ rows' = rows \cup
             {[id |-> lastId + 1 + (p - lo), sig |-> p,
               queued |-> FALSE, processed |-> FALSE] : p \in stored}
        /\ lastId' = IF stored = {} THEN lastId ELSE lastId + (hi - lo + 1)
        /\ lost' = lost \cup ((lo..hi) \ (Failed \cup stored))
  BY DEF InsertBatchTransactionEvent
<1>2. Stored' = Stored \cup stored
  <2> DEFINE NewRow(p) == [id |-> lastId + 1 + (p - lo), sig |-> p,
                           queued |-> FALSE, processed |-> FALSE]
  <2>1. rows' = rows \cup {NewRow(p) : p \in stored}
    BY <1>1
  <2>2. \A p \in stored : NewRow(p).sig = p
    OBVIOUS
  <2> HIDE DEF NewRow
  <2>3. {r.sig : r \in rows'} = {r.sig : r \in rows} \cup stored
    BY <2>1, <2>2
  <2> QED BY <2>3 DEF Stored
<1>3. lastId' \in Nat /\ lastId <= lastId'
  BY <1>1 DEF TypeOK
<1>4. rows' \subseteq [id : 1..lastId', sig : Sigs \ Failed,
                       queued : BOOLEAN, processed : BOOLEAN]
  <2>1. rows \subseteq [id : 1..lastId', sig : Sigs \ Failed,
                        queued : BOOLEAN, processed : BOOLEAN]
    BY <1>3 DEF TypeOK
  <2>2. ASSUME NEW p \in stored
        PROVE  [id |-> lastId + 1 + (p - lo), sig |-> p, queued |-> FALSE, processed |-> FALSE]
                 \in [id : 1..lastId', sig : Sigs \ Failed,
                      queued : BOOLEAN, processed : BOOLEAN]
    <3>1. lastId \in Nat /\ lastId' = lastId + (hi - lo + 1) /\ p \in lo..hi
      BY <1>1, <2>2 DEF TypeOK
    <3>2. lastId + 1 + (p - lo) \in 1..lastId'
      BY <3>1
    <3>3. p \in Sigs \ Failed
      BY <1>1, <2>2, <3>1
    <3> QED BY <3>2, <3>3
  <2> QED BY <1>1, <2>1, <2>2
<1>5. lost' \subseteq Sigs
  <2>1. lo..hi \subseteq Sigs
    OBVIOUS
  <2> QED BY <1>1, <2>1 DEF TypeOK
<1>7. faults' \in 0..MaxFaults
  <2>1. faults \in 0..MaxFaults
    BY DEF TypeOK
  <2> QED BY <1>1, <2>1 DEF NoFault, Fault
<1>6. /\ \A x \in lo..hi : Accounted(x)'
      /\ \A x : Accounted(x) => Accounted(x)'
  BY <1>1, <1>2 DEF Accounted
<1> QED BY <1>1, <1>2, <1>3, <1>4, <1>5, <1>6, <1>7 DEF Row

\* Marking rows, as queued or as processed, keeps their signatures.
LEMMA MarkKeepsStored ==
  ASSUME TypeOK, MarkProcessed \/ \E t \in QueueTicks : MarkQueued(t)
  PROVE  Stored' = Stored /\ rows' \subseteq Row
<1>0. rows \subseteq Row
  BY DEF TypeOK, Row
<1>1. ASSUME NEW t \in QueueTicks, MarkQueued(t)
      PROVE  Stored' = Stored /\ rows' \subseteq Row
  <2> DEFINE ids == {r.id : r \in queueing[t].batch}
             Mark(r) == IF r.id \in ids THEN [r EXCEPT !.queued = TRUE] ELSE r
  <2>1. rows' = {Mark(r) : r \in rows}
    BY <1>1 DEF MarkQueued
  <2>2. \A r \in Row : Mark(r).sig = r.sig /\ Mark(r) \in Row
    <3> HIDE DEF ids
    <3> QED BY DEF Row
  <2> HIDE DEF Mark
  <2>3. {r.sig : r \in rows'} = {r.sig : r \in rows}
    BY <1>0, <2>1, <2>2
  <2> QED BY <1>0, <2>1, <2>2, <2>3 DEF Stored
<1>2. CASE MarkProcessed
  <2>1. PICK r \in rows : rows' = (rows \ {r}) \cup {[r EXCEPT !.processed = TRUE]}
    BY <1>2 DEF MarkProcessed
  <2> DEFINE s == [r EXCEPT !.processed = TRUE]
  <2>2. s.sig = r.sig /\ s \in Row
    BY <1>0 DEF Row
  <2> HIDE DEF s
  <2>3. rows' = (rows \ {r}) \cup {s}
    BY <2>1 DEF s
  <2>4. {x.sig : x \in rows'} = {x.sig : x \in rows}
    BY <2>2, <2>3
  <2> QED BY <1>0, <2>2, <2>3, <2>4 DEF Stored
<1> QED BY <1>1, <1>2

----------------------------------------------------------------------------
(* Storing a page keeps cursors linked. *)

\* A page next to a linked cursor c -- just before it, or after it with only
\* accounted signatures in between -- leaves no gap, and its ends are linked.
LEMMA InsertKeepsLinks ==
  ASSUME TypeOK, NoGap, NEW lo \in Int, NEW hi \in Int, lo <= hi,
         Stored \subseteq Stored', Stored' \subseteq Stored \cup (lo..hi),
         \A x \in lo..hi : Accounted(x)',
         \A x : Accounted(x) => Accounted(x)',
         NEW c \in Int, Linked(c),
         \/ c = hi + 1
         \/ c < lo /\ \A x \in (c + 1)..(lo - 1) : Accounted(x)
  PROVE  NoGap' /\ Linked(lo)'
<1>0. Stored \subseteq Int
  BY ScannerAssumption DEF ScannerAssumption, TypeOK, Stored, Sigs
<1>1. ASSUME NEW p \in Stored', NEW q \in Stored', NEW x \in p..q
      PROVE  Accounted(x)'
  <2>1. CASE p \in Stored /\ q \in Stored
    BY <2>1 DEF NoGap
  <2>2. CASE p \in Stored /\ q \in lo..hi
    BY <1>0, <2>2 DEF Linked
  <2>3. CASE p \in lo..hi /\ q \in Stored
    BY <1>0, <2>3 DEF Linked
  <2>4. CASE p \in lo..hi /\ q \in lo..hi
    BY <2>4
  <2> QED BY <2>1, <2>2, <2>3, <2>4
<1>2. ASSUME NEW q \in Stored', NEW x \in (lo..q) \cup (q..lo)
      PROVE  Accounted(x)'
  <2>1. CASE q \in lo..hi
    BY <2>1
  <2>2. CASE q \in Stored
    BY <1>0, <2>2 DEF Linked
  <2> QED BY <2>1, <2>2
<1> QED BY <1>1, <1>2 DEF NoGap, Linked

\* A page after a stored signature u keeps every other linked cursor linked,
\* and keeps the collection reaching down to the genesis.
LEMMA InsertAfterStored ==
  ASSUME TypeOK, NEW lo \in Int, NEW hi \in Int, lo <= hi,
         Stored \subseteq Stored', Stored' \subseteq Stored \cup (lo..hi),
         \A x \in lo..hi : Accounted(x)',
         \A x : Accounted(x) => Accounted(x)',
         NEW u \in Stored, u < lo,
         \A x \in (u + 1)..(lo - 1) : Accounted(x)
  PROVE  /\ \A d \in Int : Linked(d) => Linked(d)'
         /\ (\A q \in Stored : \A x \in 1..q : Accounted(x))
              => \A q \in Stored' : \A x \in 1..q : Accounted(x)'
<1>0. Stored \subseteq Int
  BY ScannerAssumption DEF ScannerAssumption, TypeOK, Stored, Sigs
<1>1. ASSUME NEW d \in Int, Linked(d),
             NEW q \in Stored', NEW x \in (d..q) \cup (q..d)
      PROVE  Accounted(x)'
  <2>1. CASE q \in Stored
    BY <1>1, <2>1 DEF Linked
  <2>2. CASE q \in lo..hi
    <3>1. x \in (d..u) \cup (u..d) => Accounted(x)
      BY <1>1 DEF Linked
    <3> QED BY <1>0, <2>2, <3>1
  <2> QED BY <2>1, <2>2
<1>2. ASSUME \A q \in Stored : \A x \in 1..q : Accounted(x),
             NEW q \in Stored', NEW x \in 1..q
      PROVE  Accounted(x)'
  BY <1>0, <1>2
<1> QED BY <1>1, <1>2 DEF Linked

\* A step that stores nothing keeps every link.
LEMMA KeepsLinks ==
  ASSUME Stored' = Stored, \A x : Accounted(x) => Accounted(x)'
  PROVE  /\ NoGap => NoGap'
         /\ \A d \in Int : Linked(d) => Linked(d)'
         /\ (\A q \in Stored : \A x \in 1..q : Accounted(x))
              => \A q \in Stored' : \A x \in 1..q : Accounted(x)'
BY DEF NoGap, Linked

----------------------------------------------------------------------------
(* The inductive invariant *)

LEMMA InitIInv == Init => IInv
<1> SUFFICES ASSUME Init PROVE IInv
  OBVIOUS
<1> USE ScannerAssumption DEF ScannerAssumption, Init, StartUp, ResetFlags,
        IdleForward, IdleQueueing, NoSig
<1>1. TypeOK
  BY DEF TypeOK, Sigs
<1>2. Stored = {}
  BY DEF Stored
<1> QED BY <1>1, <1>2 DEF IInv, NoGap, HistoryComplete, BackwardInv, ForwardInv

BackwardTask ==
  [pc : {"down", "init", "check", "start", "fetch", "insert", "done", "dead"},
   before : 0..ChainLength, lo : 1..(ChainLength + 1), hi : 0..ChainLength]

Flags == [isBackwardScanComplete : BOOLEAN, isProcessingQueue : BOOLEAN]

\* Rows a queueing tick may hold once lastId ids were given out.
Batch(n) == [id : 1..n, sig : Sigs \ Failed, queued : {FALSE}, processed : {FALSE}]

QueueingTask(n) == [pc : {"idle", "find", "addBulk", "mark"}, batch : SUBSET Batch(n)]

LEMMA QueueingTaskGrows ==
  ASSUME NEW m \in Nat, NEW n \in Nat, m <= n
  PROVE  [QueueTicks -> QueueingTask(m)] \subseteq [QueueTicks -> QueueingTask(n)]
<1>1. Batch(m) \subseteq Batch(n)
  <2>1. 1..m \subseteq 1..n
    OBVIOUS
  <2> QED BY <2>1 DEF Batch
<1>2. QueueingTask(m) \subseteq QueueingTask(n)
  BY <1>1 DEF QueueingTask
<1> QED BY <1>2

\* What a step of the start-up task has to show for the types.
LEMMA BackwardTypes ==
  ASSUME TypeOK, NEW to \in BackwardTask, BackwardStep(to),
         lastId' \in Nat, lastId <= lastId', rows' \subseteq Row', lost' \subseteq Sigs,
         state' \in Flags, faults' \in 0..MaxFaults
  PROVE  TypeOK'
<1>1. /\ head' = head /\ jobs' = jobs /\ bulks' = bulks /\ forward' = forward
      /\ queueing' = queueing /\ skipped' = skipped /\ backward' = to
  BY DEF BackwardStep, queueVars
<1>2. 1..lastId \subseteq 1..lastId'
  BY DEF TypeOK
<1>3. jobs' \subseteq [bulk : 1..bulks', id : 1..lastId', sig : Sigs \ Failed]
  BY <1>1, <1>2 DEF TypeOK
<1>4. queueing' \in [QueueTicks -> QueueingTask(lastId')]
  BY <1>1, <1>2, QueueingTaskGrows DEF TypeOK, QueueingTask, Batch
<1> QED BY <1>1, <1>3, <1>4 DEF TypeOK, BackwardTask, Flags, Row, QueueingTask, Batch

\* ... when it also leaves the collection alone.
LEMMA BackwardTypesKept ==
  ASSUME TypeOK, NEW to \in BackwardTask, BackwardStep(to), UNCHANGED dbVars,
         state' \in Flags, NoFault \/ Fault
  PROVE  TypeOK'
<1>1. faults' \in 0..MaxFaults
  BY ScannerAssumption DEF ScannerAssumption, TypeOK, NoFault, Fault
<1>2. rows' \subseteq Row' /\ lastId' \in Nat /\ lastId <= lastId' /\ lost' \subseteq Sigs
  BY DEF TypeOK, dbVars, Row
<1> QED BY <1>1, <1>2, BackwardTypes

\* Steps of the start-up task.
LEMMA BackwardKeepsIInv ==
  ASSUME IInv, InitializeScanner \/ InitializeScannerFails
  PROVE  IInv'
<1>a. /\ ChainLength \in Nat /\ MaxFaults \in Nat
      /\ BackwardLimit \in Nat /\ BackwardLimit > 0
  BY ScannerAssumption DEF ScannerAssumption
<1> USE <1>a DEF NoSig
<1>t. TypeOK /\ NoGap /\ HistoryComplete /\ BackwardInv /\ ForwardInv
  BY DEF IInv
<1>s. Stored \subseteq Sigs
  BY <1>t DEF TypeOK, Stored
<1>o. \A sig \in OldestTransactionLocal :
        /\ sig \in 0..ChainLength
        /\ sig = NoSig => rows = {}
        /\ sig # NoSig => sig \in Stored
  <2> TAKE sig \in OldestTransactionLocal
  <2>1. (rows = {} /\ sig = NoSig) \/ sig \in Stored
    BY DEF OldestTransactionLocal, Stored
  <2>2. CASE rows = {} /\ sig = NoSig
    BY <2>2
  <2>3. CASE sig \in Stored
    BY <2>3, <1>s DEF Sigs
  <2> QED BY <2>1, <2>2, <2>3
<1>l. \A c \in Stored : Linked(c)
  BY <1>t DEF NoGap, Linked
<1>b. backward \in BackwardTask /\ state \in Flags
  BY <1>t DEF TypeOK, BackwardTask, Flags
<1>k. ASSUME UNCHANGED <<rows, lost, skipped>>
      PROVE  /\ NoGap' /\ Stored' = Stored
             /\ \A d \in Int : Linked(d) => Linked(d)'
             /\ (\A q \in Stored : \A x \in 1..q : Accounted(x))
                  => \A q \in Stored' : \A x \in 1..q : Accounted(x)'
  <2>1. Stored' = Stored /\ \A x : Accounted(x) => Accounted(x)'
    BY <1>k DEF Stored, Accounted
  <2> QED BY <2>1, <1>t, KeepsLinks
<1>1. CASE ReadOldest
  <2>1. PICK sig \in OldestTransactionLocal :
          backward' = [backward EXCEPT
            !.pc = IF sig = NoSig THEN "start" ELSE "check", !.before = sig]
    BY <1>1 DEF ReadOldest, BackwardStep
  <2>2. TypeOK'
    <3> DEFINE to == [backward EXCEPT
                 !.pc = IF sig = NoSig THEN "start" ELSE "check", !.before = sig]
    <3>1. to \in BackwardTask
      BY <1>b, <1>o, <2>1 DEF BackwardTask
    <3>2. BackwardStep(to) /\ UNCHANGED dbVars /\ state' = state /\ NoFault
      BY <1>1, <2>1 DEF ReadOldest, BackwardStep
    <3> HIDE DEF to
    <3> QED BY <1>t, <1>b, <3>1, <3>2, BackwardTypesKept
  <2> USE <1>1 DEF ReadOldest, BackwardStep, NoFault, dbVars, queueVars
  <2>3. BackwardInv'
    BY <1>b, <1>t, <1>o, <1>k, <2>1 DEF BackwardInv, BackwardTask, Flags
  <2>4. HistoryComplete' /\ ForwardInv'
    BY <1>t, <1>k DEF HistoryComplete, ForwardInv
  <2> QED BY <1>k, <2>2, <2>3, <2>4 DEF IInv
<1>2. CASE CheckGenesisReached
  <2>2. TypeOK'
    <3>1. /\ [backward EXCEPT !.pc = "start"] \in BackwardTask
          /\ [backward EXCEPT !.pc = "done"] \in BackwardTask
          /\ [state EXCEPT !.isBackwardScanComplete = TRUE] \in Flags
      BY <1>b DEF BackwardTask, Flags
    <3> QED BY <1>t, <1>b, <1>2, <3>1, BackwardTypesKept DEF CheckGenesisReached
  <2> USE <1>2 DEF CheckGenesisReached, BackwardStep, NoFault, Fault, dbVars, queueVars
  <2>3. BackwardInv'
    BY <1>t, <1>k DEF BackwardInv, TypeOK
  <2>4. HistoryComplete'
    <3>1. CASE backward.before = 1 /\ backward'.pc = "done"
      <4>1. Linked(1)
        BY <1>t, <1>l, <3>1 DEF BackwardInv
      <4> QED BY <4>1, <1>k, <1>s DEF HistoryComplete, Linked, Sigs
    <3>2. CASE UNCHANGED state
      BY <1>t, <1>k, <3>2 DEF HistoryComplete
    <3> QED BY <3>1, <3>2, <1>t DEF TypeOK
  <2>5. ForwardInv'
    BY <1>t, <1>k DEF ForwardInv
  <2> QED BY <1>k, <2>2, <2>3, <2>4, <2>5 DEF IInv
<1>3. CASE StartBackwardScan
  <2>1. PICK sig \in OldestTransactionLocal :
          backward' = [backward EXCEPT !.pc = "fetch", !.before = sig]
    BY <1>3 DEF StartBackwardScan, BackwardStep
  <2>2. TypeOK'
    <3> DEFINE to == [backward EXCEPT !.pc = "fetch", !.before = sig]
    <3>1. to \in BackwardTask
      BY <1>b, <1>o, <2>1 DEF BackwardTask
    <3>2. BackwardStep(to) /\ UNCHANGED dbVars /\ state' = state /\ NoFault
      BY <1>3, <2>1 DEF StartBackwardScan, BackwardStep
    <3> HIDE DEF to
    <3> QED BY <1>t, <1>b, <3>1, <3>2, BackwardTypesKept
  <2> USE <1>3 DEF StartBackwardScan, BackwardStep, NoFault, dbVars, queueVars
  <2>3. BackwardInv'
    BY <1>b, <1>t, <1>o, <1>k, <1>l, <2>1 DEF BackwardInv, BackwardTask, Flags
  <2>4. HistoryComplete' /\ ForwardInv'
    BY <1>t, <1>k DEF HistoryComplete, ForwardInv
  <2> QED BY <1>k, <2>2, <2>3, <2>4 DEF IInv
<1>4. CASE FetchBackward
  <2> DEFINE hi == IF backward.before = NoSig THEN head ELSE backward.before - 1
             lo == PageStart(0, hi, BackwardLimit)
  <2>1. hi \in 0..ChainLength /\ (hi # 0 => lo \in 1..hi)
    BY <1>t DEF TypeOK, PageStart, Max2
  <2>2. TypeOK'
    <3>1. /\ [backward EXCEPT !.pc = "done"] \in BackwardTask
          /\ [state EXCEPT !.isBackwardScanComplete = TRUE] \in Flags
      BY <1>b DEF BackwardTask, Flags
    <3>2. hi # 0 => [backward EXCEPT !.pc = "insert", !.hi = hi, !.lo = lo] \in BackwardTask
      <4> HIDE DEF lo, hi
      <4>1. ASSUME hi # 0
            PROVE  hi \in 0..ChainLength /\ lo \in 1..(ChainLength + 1)
        BY <2>1, <4>1
      <4> QED BY <1>b, <4>1 DEF BackwardTask
    <3> HIDE DEF lo
    <3> QED BY <1>t, <1>b, <1>4, <3>1, <3>2, BackwardTypesKept DEF FetchBackward, lo
  <2>p. /\ hi = 0 => backward' = [backward EXCEPT !.pc = "done"]
        /\ hi # 0 => /\ backward' = [backward EXCEPT !.pc = "insert", !.hi = hi, !.lo = lo]
                     /\ state' = state
        /\ backward.before # NoSig => hi = backward.before - 1
    BY <1>4 DEF FetchBackward, BackwardStep
  <2> USE <1>4 DEF FetchBackward, BackwardStep, NoFault, dbVars, queueVars
  <2>3. BackwardInv'
    <3>1. UNCHANGED <<rows, lost, skipped>> /\ backward.pc = "fetch"
      OBVIOUS
    <3> HIDE DEF lo, hi, FetchBackward
    <3>2. CASE hi = 0
      BY <1>b, <2>p, <3>2 DEF BackwardInv, BackwardTask
    <3>3. CASE hi # 0
      <4>1. /\ backward'.pc = "insert" /\ backward'.before = backward.before
            /\ backward'.lo = lo /\ backward'.hi = hi /\ lo <= hi
            /\ state' = state /\ rows' = rows
        <5>1. backward' = [backward EXCEPT !.pc = "insert", !.hi = hi, !.lo = lo]
          BY <2>p, <3>3
        <5>2. lo <= hi
          BY <2>1, <3>3
        <5>3. state' = state /\ rows' = rows
          BY <2>p, <3>1, <3>3
        <5> QED BY <1>b, <5>1, <5>2, <5>3 DEF BackwardTask
      <4>2. ~state.isBackwardScanComplete
        BY <1>t, <3>1 DEF BackwardInv
      <4>3. backward.before # NoSig => Linked(backward.before)'
        <5>1. backward.before \in Int
          BY <1>b DEF BackwardTask
        <5>2. PICK c \in Int : c = backward.before
          BY <5>1
        <5>3. c # NoSig => Linked(c)'
          BY <1>t, <1>k, <3>1, <5>2 DEF BackwardInv
        <5> QED BY <4>1, <5>2, <5>3
      <4> QED BY <1>t, <2>p, <3>1, <4>1, <4>2, <4>3 DEF BackwardInv
    <3> QED BY <3>2, <3>3
  <2>4. HistoryComplete'
    <3>1. CASE hi = 0
      <4>1. rows = {} \/ Linked(1)
        BY <1>t, <3>1 DEF BackwardInv, TypeOK
      <4>2. rows = {} => Stored = {}
        BY DEF Stored
      <4> QED BY <4>1, <4>2, <1>k, <1>s DEF HistoryComplete, Linked, Sigs
    <3>2. CASE hi # 0
      BY <1>t, <1>k, <3>2 DEF HistoryComplete
    <3> QED BY <3>1, <3>2
  <2>5. ForwardInv'
    BY <1>t, <1>k DEF ForwardInv
  <2> QED BY <1>k, <2>2, <2>3, <2>4, <2>5 DEF IInv
<1>5. CASE InsertBackward
  <2>1. PICK lo \in Sigs, hi \in Sigs :
          lo = backward.lo /\ hi = backward.hi /\ lo <= hi
    BY <1>5, <1>t DEF InsertBackward, BackwardInv, TypeOK, Sigs
  <2>i. lo \in Int /\ hi \in Int
    BY <2>1 DEF Sigs
  <2>p. /\ backward.pc = "insert" /\ InsertBatchTransactionEvent(lo, hi)
        /\ BackwardStep([backward EXCEPT !.pc = "fetch", !.before = lo])
        /\ state' = state /\ skipped' = skipped /\ forward' = forward
        /\ backward' = [backward EXCEPT !.pc = "fetch", !.before = lo]
    BY <1>5, <2>1 DEF InsertBackward, BackwardStep
  <2>2. /\ Stored \subseteq Stored' /\ Stored' \subseteq Stored \cup (lo..hi)
        /\ \A x \in lo..hi : Accounted(x)'
        /\ \A x : Accounted(x) => Accounted(x)'
        /\ lastId' \in Nat /\ lastId <= lastId' /\ rows' \subseteq Row'
        /\ lost' \subseteq Sigs /\ faults' \in 0..MaxFaults
    BY <1>t, <2>1, <2>p, InsertAccounts
  <2>3. TypeOK'
    <3>1. [backward EXCEPT !.pc = "fetch", !.before = lo] \in BackwardTask
      <4>1. lo \in 0..ChainLength
        BY <2>1 DEF Sigs
      <4> QED BY <1>b, <4>1 DEF BackwardTask
    <3> QED BY <1>t, <1>b, <2>p, <2>2, <3>1, BackwardTypes
  <2>4. NoGap' /\ Linked(lo)'
    <3>1. CASE backward.before = NoSig
      <4>1. Stored = {}
        BY <1>t, <2>p, <3>1 DEF BackwardInv, Stored
      <4>2. Stored' \subseteq lo..hi
        BY <2>2, <4>1
      <4> HIDE DEF Stored
      <4>3. ASSUME NEW p \in Stored', NEW q \in Stored', NEW x \in p..q
            PROVE  Accounted(x)'
        BY <2>i, <2>2, <4>2
      <4>4. ASSUME NEW q \in Stored', NEW x \in (lo..q) \cup (q..lo)
            PROVE  Accounted(x)'
        BY <2>i, <2>2, <4>2
      <4> QED BY <4>3, <4>4 DEF NoGap, Linked
    <3>2. CASE backward.before # NoSig
      <4>1. PICK c \in Int : c = backward.before
        BY <1>b DEF BackwardTask
      <4>2. Linked(c) /\ c = hi + 1
        BY <1>t, <2>1, <2>p, <2>i, <3>2, <4>1 DEF BackwardInv
      <4> QED BY <1>t, <2>1, <2>i, <2>2, <4>2, InsertKeepsLinks
    <3> QED BY <3>1, <3>2
  <2>5. BackwardInv'
    BY <1>t, <1>b, <2>1, <2>p, <2>4 DEF BackwardInv, BackwardTask, Flags, Sigs
  <2>6. HistoryComplete'
    BY <1>t, <2>p DEF BackwardInv, HistoryComplete
  <2>7. ForwardInv'
    BY <1>t, <2>p, <2>2 DEF ForwardInv
  <2> QED BY <2>3, <2>4, <2>5, <2>6, <2>7 DEF IInv
<1>6. CASE InitializeScannerFails
  <2>2. TypeOK'
    <3>1. [backward EXCEPT !.pc = "dead"] \in BackwardTask
      BY <1>b DEF BackwardTask
    <3> QED BY <1>t, <1>b, <1>6, <3>1, BackwardTypesKept DEF InitializeScannerFails
  <2> USE <1>6 DEF InitializeScannerFails, BackwardStep, Fault, dbVars, queueVars
  <2>3. BackwardInv' /\ HistoryComplete' /\ ForwardInv'
    BY <1>t, <1>k DEF BackwardInv, HistoryComplete, ForwardInv, TypeOK
  <2> QED BY <1>k, <2>2, <2>3 DEF IInv
<1> QED BY <1>1, <1>2, <1>3, <1>4, <1>5, <1>6 DEF InitializeScanner

ForwardTask == [pc : {"idle", "fetch", "insert"}, until : 0..ChainLength,
                lo : 1..(ChainLength + 1), hi : 0..ChainLength]

\* What a step of a forward tick has to show for the types.
LEMMA ForwardTypes ==
  ASSUME TypeOK, NEW t \in ScanTicks, NEW to \in ForwardTask, ForwardStep(t, to),
         lastId' \in Nat, lastId <= lastId', rows' \subseteq Row', lost' \subseteq Sigs,
         skipped' \subseteq Sigs, faults' \in 0..MaxFaults
  PROVE  TypeOK'
<1>1. /\ head' = head /\ jobs' = jobs /\ bulks' = bulks /\ backward' = backward
      /\ queueing' = queueing /\ state' = state
      /\ forward' = [forward EXCEPT ![t] = to]
  BY DEF ForwardStep, queueVars
<1>2. 1..lastId \subseteq 1..lastId'
  BY DEF TypeOK
<1>3. jobs' \subseteq [bulk : 1..bulks', id : 1..lastId', sig : Sigs \ Failed]
  BY <1>1, <1>2 DEF TypeOK
<1>4. queueing' \in [QueueTicks -> QueueingTask(lastId')]
  BY <1>1, <1>2, QueueingTaskGrows DEF TypeOK, QueueingTask, Batch
<1>5. forward' \in [ScanTicks -> ForwardTask]
  <2>1. forward \in [ScanTicks -> ForwardTask]
    BY DEF TypeOK, ForwardTask
  <2> QED BY <1>1, <2>1
<1> QED BY <1>1, <1>3, <1>4, <1>5 DEF TypeOK, ForwardTask, Row, QueueingTask, Batch

\* Steps of a forward tick.
LEMMA ForwardKeepsIInv ==
  ASSUME IInv, NEW t \in ScanTicks, ScanForwards(t) \/ ForwardScanFails(t)
  PROVE  IInv'
<1>a. /\ ChainLength \in Nat /\ MaxFaults \in Nat
      /\ ForwardLimit \in Nat /\ ForwardLimit > 0
  BY ScannerAssumption DEF ScannerAssumption
<1> USE <1>a DEF NoSig
<1>t. TypeOK /\ NoGap /\ HistoryComplete /\ BackwardInv /\ ForwardInv
  BY DEF IInv
<1>s. Stored \subseteq Sigs
  BY <1>t DEF TypeOK, Stored
<1>l. \A c \in Stored : Linked(c)
  BY <1>t DEF NoGap, Linked
<1>f. forward \in [ScanTicks -> ForwardTask]
  BY <1>t DEF TypeOK, ForwardTask
<1>b. backward \in BackwardTask
  BY <1>t DEF TypeOK, BackwardTask
<1>i. IdleForward \in ForwardTask
  BY DEF IdleForward, ForwardTask
<1>k. ASSUME UNCHANGED <<rows, lastId, lost, backward, state>>, skipped \subseteq skipped'
      PROVE  /\ Stored' = Stored /\ NoGap' /\ HistoryComplete' /\ BackwardInv'
  <2>1. Stored' = Stored /\ \A x : Accounted(x) => Accounted(x)'
    BY <1>k DEF Stored, Accounted
  <2>2. \A d \in Int : Linked(d) => Linked(d)'
    BY <2>1, KeepsLinks
  <2>3. NoGap' /\ HistoryComplete'
    BY <1>t, <1>k, <2>1, KeepsLinks DEF HistoryComplete
  <2>4. PICK c \in Int : c = backward.before
    BY <1>b DEF BackwardTask
  <2>5. Linked(c) => Linked(c)'
    BY <2>2
  <2>6. BackwardInv'
    BY <1>t, <1>k, <2>1, <2>4, <2>5 DEF BackwardInv
  <2> QED BY <2>1, <2>3, <2>6
<1>r. ASSUME UNCHANGED <<rows, lastId, lost>>
      PROVE  lastId' \in Nat /\ lastId <= lastId' /\ rows' \subseteq Row' /\ lost' \subseteq Sigs
  BY <1>t, <1>r DEF TypeOK, Row
<1>n. NoFault \/ Fault => faults' \in 0..MaxFaults
  BY <1>t DEF TypeOK, NoFault, Fault
<1>1. CASE StartForwardScan(t)
  <2>1. PICK sig \in NewestTransactionLocal :
          /\ sig # NoSig
          /\ ForwardStep(t, [IdleForward EXCEPT !.pc = "fetch", !.until = sig])
    BY <1>1 DEF StartForwardScan
  <2>2. sig \in Stored
    BY <2>1 DEF NewestTransactionLocal, Stored
  <2>3. UNCHANGED <<rows, lastId, lost, skipped, backward, state>> /\ NoFault
    BY <1>1, <2>1 DEF StartForwardScan, dbVars, ForwardStep
  <2> DEFINE to == [IdleForward EXCEPT !.pc = "fetch", !.until = sig]
  <2>4. ForwardStep(t, to) /\ forward' = [forward EXCEPT ![t] = to]
    BY <2>1 DEF ForwardStep
  <2>5. to \in ForwardTask /\ to.pc = "fetch" /\ to.until = sig
    <3>1. sig \in 0..ChainLength
      BY <1>s, <2>2 DEF Sigs
    <3> QED BY <1>i, <3>1 DEF ForwardTask
  <2>6. TypeOK'
    <3> HIDE DEF to
    <3> QED BY <1>t, <1>r, <1>n, <2>3, <2>4, <2>5, ForwardTypes DEF TypeOK
  <2>7. ForwardInv'
    <3> HIDE DEF to
    <3> QED BY <1>t, <1>f, <1>k, <2>2, <2>3, <2>4, <2>5 DEF ForwardInv
  <2> QED BY <1>k, <2>3, <2>6, <2>7 DEF IInv
<1>2. CASE FetchForward(t)
  <2>1. PICK u \in 0..ChainLength, h \in 0..ChainLength :
          u = forward[t].until /\ h = head
    BY <1>t, <1>f DEF TypeOK, ForwardTask
  <2> DEFINE lo == PageStart(u, h, ForwardLimit)
             to == IF h > u THEN [pc |-> "insert", until |-> u, lo |-> lo, hi |-> h]
                            ELSE IdleForward
  <2>2. /\ forward[t].pc = "fetch" /\ ForwardStep(t, to)
        /\ forward' = [forward EXCEPT ![t] = to]
        /\ skipped' = skipped \cup ((u + 1)..(lo - 1))
        /\ UNCHANGED <<rows, lastId, lost, backward, state>> /\ NoFault
    BY <1>2, <2>1 DEF FetchForward, ForwardStep, dbVars
  <2>3. u \in Stored /\ u \in Sigs
    BY <1>t, <1>s, <2>1, <2>2 DEF ForwardInv
  <2>4. /\ lo \in Int /\ u < lo /\ (u + 1)..(lo - 1) \subseteq Sigs
        /\ h > u => lo \in 1..h
    BY <2>1, <2>3 DEF PageStart, Max2, Sigs
  <2> HIDE DEF lo
  <2>5. to \in ForwardTask
    BY <1>i, <2>4 DEF ForwardTask
  <2>6. TypeOK'
    <3>1. skipped' \subseteq Sigs
      BY <1>t, <2>2, <2>4 DEF TypeOK
    <3> HIDE DEF to
    <3> QED BY <1>t, <1>r, <1>n, <2>2, <2>5, <3>1, ForwardTypes
  <2>7. ForwardInv'
    <3>1. skipped \subseteq skipped' /\ Stored' = Stored
      BY <1>k, <2>2
    <3>2. \A x \in (u + 1)..(lo - 1) : x \in skipped'
      BY <2>2
    <3>3. /\ to.pc # "idle" => to.until \in Stored'
          /\ to.pc = "insert" =>
               /\ to.until < to.lo /\ to.lo <= to.hi
               /\ \A x \in (to.until + 1)..(to.lo - 1) : x \in skipped'
      BY <2>3, <2>4, <3>1, <3>2 DEF IdleForward
    <3> HIDE DEF to
    <3>4. \A s \in ScanTicks : forward'[s] = IF s = t THEN to ELSE forward[s]
      BY <1>f, <2>2
    <3> QED BY <1>t, <3>1, <3>3, <3>4 DEF ForwardInv
  <2> QED BY <1>k, <2>2, <2>6, <2>7 DEF IInv
<1>3. CASE InsertForward(t)
  <2>1. PICK u \in Stored, lo \in Sigs, hi \in Sigs :
          /\ u = forward[t].until /\ lo = forward[t].lo /\ hi = forward[t].hi
          /\ u < lo /\ lo <= hi
          /\ \A x \in (u + 1)..(lo - 1) : x \in skipped
    <3>1. /\ forward[t].until \in Stored
          /\ forward[t].until < forward[t].lo /\ forward[t].lo <= forward[t].hi
          /\ \A x \in (forward[t].until + 1)..(forward[t].lo - 1) : x \in skipped
      BY <1>3, <1>t DEF InsertForward, ForwardInv
    <3>2. forward[t].lo \in Sigs /\ forward[t].hi \in Sigs
      BY <1>f, <3>1 DEF ForwardTask, Sigs
    <3> QED BY <3>1, <3>2
  <2>i. u \in Int /\ lo \in Int /\ hi \in Int
    BY <2>1, <1>s DEF Sigs
  <2>2. /\ InsertBatchTransactionEvent(lo, hi) /\ ForwardStep(t, IdleForward)
        /\ forward' = [forward EXCEPT ![t] = IdleForward]
        /\ skipped' = skipped /\ backward' = backward /\ state' = state
    BY <1>3, <2>1 DEF InsertForward, ForwardStep
  <2>3. /\ Stored \subseteq Stored' /\ Stored' \subseteq Stored \cup (lo..hi)
        /\ \A x \in lo..hi : Accounted(x)'
        /\ \A x : Accounted(x) => Accounted(x)'
        /\ lastId' \in Nat /\ lastId <= lastId' /\ rows' \subseteq Row'
        /\ lost' \subseteq Sigs /\ faults' \in 0..MaxFaults
    BY <1>t, <2>1, <2>2, InsertAccounts
  <2>4. TypeOK'
    <3>1. skipped' \subseteq Sigs
      BY <1>t, <2>2 DEF TypeOK
    <3> QED BY <1>t, <1>i, <2>2, <2>3, <3>1, ForwardTypes
  <2>5. \A x \in (u + 1)..(lo - 1) : Accounted(x)
    BY <2>1 DEF Accounted
  <2>6. NoGap'
    BY <1>t, <1>l, <2>1, <2>i, <2>3, <2>5, InsertKeepsLinks
  <2>7. /\ \A d \in Int : Linked(d) => Linked(d)'
        /\ (\A q \in Stored : \A x \in 1..q : Accounted(x))
              => \A q \in Stored' : \A x \in 1..q : Accounted(x)'
    BY <1>t, <2>1, <2>i, <2>3, <2>5, InsertAfterStored
  <2>8. HistoryComplete'
    BY <1>t, <2>2, <2>7 DEF HistoryComplete
  <2>9. BackwardInv'
    <3>1. PICK c \in Int : c = backward.before
      BY <1>b DEF BackwardTask
    <3>2. (Linked(c) => Linked(c)') /\ rows # {}
      BY <2>1, <2>7 DEF Stored
    <3> QED BY <1>t, <2>2, <2>3, <3>1, <3>2 DEF BackwardInv
  <2>10. ForwardInv'
    BY <1>t, <1>f, <2>2, <2>3 DEF ForwardInv, IdleForward
  <2> QED BY <2>4, <2>6, <2>8, <2>9, <2>10 DEF IInv
<1>4. CASE ForwardScanFails(t)
  <2>1. /\ ForwardStep(t, IdleForward) /\ forward' = [forward EXCEPT ![t] = IdleForward]
        /\ UNCHANGED <<rows, lastId, lost, skipped, backward, state>> /\ Fault
    BY <1>4 DEF ForwardScanFails, ForwardStep, dbVars
  <2>2. TypeOK'
    BY <1>t, <1>r, <1>n, <1>i, <2>1, ForwardTypes DEF TypeOK
  <2>3. ForwardInv'
    BY <1>t, <1>f, <1>k, <2>1 DEF ForwardInv, IdleForward
  <2> QED BY <1>k, <2>1, <2>2, <2>3 DEF IInv
<1> QED BY <1>1, <1>2, <1>3, <1>4 DEF ScanForwards

\* Steps of a queueing tick, of the chain, of the processor, and of the process.
LEMMA OtherKeepsIInv ==
  ASSUME IInv,
         \/ Confirm \/ MarkProcessed \/ Crash \/ Restart \/ UNCHANGED vars
         \/ \E t \in QueueTicks :
              ProcessUnprocessedTransactions(t) \/ QueueTransactionFails(t) \/ FindFails(t)
  PROVE  IInv'
<1>a. ChainLength \in Nat /\ MaxFaults \in Nat
  BY ScannerAssumption DEF ScannerAssumption
<1> USE <1>a DEF NoSig
<1>t. TypeOK /\ NoGap /\ HistoryComplete /\ BackwardInv /\ ForwardInv
  BY DEF IInv
<1>b. backward \in BackwardTask /\ state \in Flags
  BY <1>t DEF TypeOK, BackwardTask, Flags
<1>k. ASSUME Stored' = Stored, rows = {} => rows' = {}, UNCHANGED <<lost, skipped>>
      PROVE  /\ NoGap'
             /\ state'.isBackwardScanComplete = state.isBackwardScanComplete
                  => HistoryComplete'
             /\ UNCHANGED backward
                  /\ state'.isBackwardScanComplete = state.isBackwardScanComplete
                  => BackwardInv'
             /\ UNCHANGED forward => ForwardInv'
  <2>1. \A x : Accounted(x) => Accounted(x)'
    BY <1>k DEF Accounted
  <2>2. NoGap' /\ \A d \in Int : Linked(d) => Linked(d)'
    BY <1>t, <1>k, <2>1, KeepsLinks
  <2>3. (\A q \in Stored : \A x \in 1..q : Accounted(x))
              => \A q \in Stored' : \A x \in 1..q : Accounted(x)'
    BY <1>k, <2>1
  <2>4. PICK c \in Int : c = backward.before
    BY <1>b DEF BackwardTask
  <2>5. Linked(c) => Linked(c)'
    BY <2>2
  <2>6. ASSUME UNCHANGED backward,
               state'.isBackwardScanComplete = state.isBackwardScanComplete
        PROVE  BackwardInv'
    BY <1>t, <1>k, <2>4, <2>5, <2>6 DEF BackwardInv
  <2>7. ASSUME UNCHANGED forward
        PROVE  ForwardInv'
    BY <1>t, <1>k, <2>7 DEF ForwardInv
  <2>8. ASSUME state'.isBackwardScanComplete = state.isBackwardScanComplete
        PROVE  HistoryComplete'
    BY <1>t, <2>3, <2>8 DEF HistoryComplete
  <2> QED BY <2>2, <2>6, <2>7, <2>8
<1>r. rows' = rows => Stored' = Stored /\ (rows = {} => rows' = {})
  BY DEF Stored
<1>1. CASE Confirm
  <2>1. UNCHANGED <<rows, lost, skipped, backward, forward, state>>
    BY <1>1 DEF Confirm, dbVars, taskVars
  <2>2. TypeOK'
    <3>1. head' \in 0..ChainLength
      BY <1>t, <1>1 DEF Confirm, TypeOK
    <3>2. UNCHANGED <<lastId, jobs, bulks, queueing, faults>>
      BY <1>1 DEF Confirm, dbVars, queueVars, taskVars
    <3> QED BY <1>t, <2>1, <3>1, <3>2 DEF TypeOK
  <2> QED BY <1>k, <1>r, <2>1, <2>2 DEF IInv
<1>2. CASE MarkProcessed
  <2>1. /\ UNCHANGED <<head, lastId, lost, skipped, jobs, bulks, backward, forward,
                       queueing, state, faults>>
        /\ rows # {}
    BY <1>2 DEF MarkProcessed, queueVars, taskVars
  <2>2. Stored' = Stored /\ rows' \subseteq Row
    BY <1>t, <1>2, MarkKeepsStored
  <2>3. TypeOK'
    BY <1>t, <2>1, <2>2 DEF TypeOK, Row
  <2> QED BY <1>k, <2>1, <2>2, <2>3 DEF IInv
<1>3. CASE Crash
  <2>1. UNCHANGED <<head, rows, lastId, lost, jobs, bulks, skipped>> /\ Fault
    BY <1>3 DEF Crash, dbVars, queueVars
  <2>2. TypeOK'
    <3>1. backward' \in BackwardTask /\ state' \in Flags
      BY <1>3 DEF Crash, StartUp, ResetFlags, BackwardTask, Flags, NoSig
    <3>2. forward' \in [ScanTicks -> ForwardTask]
      BY <1>3 DEF Crash, IdleForward, ForwardTask, NoSig
    <3>3. queueing' \in [QueueTicks -> QueueingTask(lastId')]
      BY <1>3 DEF Crash, IdleQueueing, QueueingTask
    <3>4. faults' \in 0..MaxFaults
      BY <1>t, <2>1 DEF TypeOK, Fault
    <3> QED BY <1>t, <2>1, <3>1, <3>2, <3>3, <3>4
         DEF TypeOK, BackwardTask, Flags, ForwardTask, QueueingTask, Batch
  <2>3. HistoryComplete' /\ BackwardInv' /\ ForwardInv'
    BY <1>3 DEF Crash, HistoryComplete, BackwardInv, ForwardInv,
                StartUp, ResetFlags, IdleForward
  <2> QED BY <1>k, <1>r, <2>1, <2>2, <2>3 DEF IInv
<1>4. CASE Restart
  <2>1. /\ UNCHANGED <<head, rows, lastId, lost, jobs, bulks, skipped, forward,
                       queueing, state, faults>>
        /\ backward' = StartUp
    BY <1>4 DEF Restart, dbVars, queueVars
  <2>2. TypeOK'
    <3>1. backward' \in BackwardTask
      BY <2>1 DEF StartUp, BackwardTask, NoSig
    <3> QED BY <1>t, <2>1, <3>1 DEF TypeOK, BackwardTask
  <2>3. BackwardInv'
    BY <1>t, <1>4, <2>1 DEF Restart, BackwardInv, StartUp
  <2> QED BY <1>k, <1>r, <2>1, <2>2, <2>3 DEF IInv
<1>5. CASE UNCHANGED vars
  <2>1. TypeOK'
    BY <1>t, <1>5 DEF vars, TypeOK
  <2> QED BY <1>k, <1>r, <1>5, <2>1 DEF vars, IInv
<1>6. ASSUME NEW t \in QueueTicks,
             \/ ProcessUnprocessedTransactions(t)
             \/ QueueTransactionFails(t) \/ FindFails(t)
      PROVE  IInv'
  <2>1. UNCHANGED <<head, lastId, lost, skipped, backward, forward>>
    BY <1>6 DEF ProcessUnprocessedTransactions, StartQueueing, FindUnprocessed, AddBulk,
                MarkQueued, QueueTransactionFails, FindFails, QueueStep
  <2>2. state' \in Flags /\ state'.isBackwardScanComplete = state.isBackwardScanComplete
    BY <1>b, <1>6 DEF ProcessUnprocessedTransactions, StartQueueing, FindUnprocessed, AddBulk,
                MarkQueued, QueueTransactionFails, FindFails, Flags
  <2>3. faults' \in 0..MaxFaults
    BY <1>t, <1>6 DEF ProcessUnprocessedTransactions, StartQueueing, FindUnprocessed, AddBulk,
                MarkQueued, QueueTransactionFails, FindFails, NoFault, Fault, TypeOK
  <2>4. rows' \subseteq Row /\ Stored' = Stored /\ (rows = {} => rows' = {})
    <3>1. CASE MarkQueued(t)
      BY <1>t, <3>1, MarkKeepsStored DEF MarkQueued
    <3>2. CASE rows' = rows
      BY <1>t, <1>r, <3>2 DEF TypeOK, Row
    <3> QED BY <1>6, <3>1, <3>2
            DEF ProcessUnprocessedTransactions, StartQueueing, FindUnprocessed, AddBulk,
                QueueTransactionFails, FindFails
  <2>5. bulks' \in Nat /\ jobs' \subseteq [bulk : 1..bulks', id : 1..lastId, sig : Sigs \ Failed]
    <3>1. CASE AddBulk(t)
      <4>1. bulks' = bulks + 1 /\ bulks' \in Nat /\ bulks' \in 1..bulks'
        BY <1>t, <3>1 DEF AddBulk, TypeOK
      <4>2. jobs' = jobs \cup
              {[bulk |-> bulks', id |-> r.id, sig |-> r.sig] : r \in queueing[t].batch}
        BY <3>1 DEF AddBulk
      <4>3. \A r \in queueing[t].batch : r.id \in 1..lastId /\ r.sig \in Sigs \ Failed
        <5>1. queueing[t] \in QueueingTask(lastId)
          BY <1>t DEF TypeOK, QueueingTask, Batch
        <5> QED BY <5>1 DEF QueueingTask, Batch
      <4>4. jobs \subseteq [bulk : 1..bulks', id : 1..lastId, sig : Sigs \ Failed]
        BY <1>t, <4>1 DEF TypeOK
      <4> QED BY <4>1, <4>2, <4>3, <4>4
    <3>2. CASE bulks' = bulks /\ jobs' = jobs
      BY <1>t, <3>2 DEF TypeOK
    <3> QED BY <1>6, <3>1, <3>2
            DEF ProcessUnprocessedTransactions, StartQueueing, FindUnprocessed, MarkQueued,
                QueueTransactionFails, FindFails, queueVars
  <2>6. queueing' \in [QueueTicks -> QueueingTask(lastId)]
    <3>0. queueing \in [QueueTicks -> QueueingTask(lastId)]
      BY <1>t DEF TypeOK, QueueingTask, Batch
    <3>1. IdleQueueing \in QueueingTask(lastId)
      BY DEF IdleQueueing, QueueingTask
    <3>2. ASSUME NEW to \in QueueingTask(lastId), QueueStep(t, to)
          PROVE  queueing' \in [QueueTicks -> QueueingTask(lastId)]
      BY <3>0, <3>2 DEF QueueStep
    <3>3. [IdleQueueing EXCEPT !.pc = "find"] \in QueueingTask(lastId)
      BY <3>1 DEF QueueingTask
    <3>4. CASE FindUnprocessed(t)
      <4>1. Unqueued \subseteq Batch(lastId)
        BY <1>t DEF Unqueued, TypeOK, Batch
      <4>2. \A b \in FirstBatches : [pc |-> "addBulk", batch |-> b] \in QueueingTask(lastId)
        BY <4>1 DEF FirstBatches, QueueingTask
      <4>3. \/ QueueStep(t, IdleQueueing)
            \/ \E b \in FirstBatches : QueueStep(t, [pc |-> "addBulk", batch |-> b])
        BY <3>4 DEF FindUnprocessed
      <4> QED BY <3>1, <3>2, <4>2, <4>3
    <3>5. CASE AddBulk(t)
      <4>1. [queueing[t] EXCEPT !.pc = "mark"] \in QueueingTask(lastId)
        BY <3>0 DEF QueueingTask
      <4> QED BY <3>2, <3>5, <4>1 DEF AddBulk
    <3>6. CASE StartQueueing(t) \/ MarkQueued(t) \/ QueueTransactionFails(t)
      BY <3>2, <3>3, <3>6 DEF StartQueueing, MarkQueued, QueueTransactionFails
    <3>7. CASE FindFails(t)
      BY <3>1, <3>2, <3>7 DEF FindFails
    <3> QED BY <1>6, <3>4, <3>5, <3>6, <3>7 DEF ProcessUnprocessedTransactions
  <2>7. TypeOK'
    BY <1>t, <2>1, <2>2, <2>3, <2>4, <2>5, <2>6 DEF TypeOK, Row, Flags, QueueingTask, Batch
  <2> QED BY <1>k, <2>1, <2>2, <2>4, <2>7 DEF IInv
<1> QED BY <1>1, <1>2, <1>3, <1>4, <1>5, <1>6

\* Every step of the scanner keeps the invariant.
LEMMA NextIInv == IInv /\ [Next]_vars => IInv'
BY BackwardKeepsIInv, ForwardKeepsIInv, OtherKeepsIInv DEF Next

LEMMA IInvAlways == Spec => []IInv
BY InitIInv, NextIInv, PTL DEF Spec

----------------------------------------------------------------------------
(* Theorems *)

\* Rows, jobs, tasks and flags of ScannerService keep their types.
THEOREM TypeCorrect == Spec => []TypeOK
BY IInvAlways, PTL DEF IInv

\* The collection built by the overlapping scans (runBackwardScan and
\* scanForwards) never has an unexplained gap, restarts and faults included.
THEOREM NoGapAlways == Spec => []NoGap
BY IInvAlways, PTL DEF IInv

\* isBackwardScanComplete is set only when the collection reaches the genesis.
THEOREM HistoryCompleteAlways == Spec => []HistoryComplete
BY IInvAlways, PTL DEF IInv

----------------------------------------------------------------------------
(* Queued rows have jobs: the mark follows addBulk, per batch. *)

JobFor(id) == \E j \in jobs : j.id = id

QInv ==
  /\ QueuedHasJob
  /\ \A t \in QueueTicks :
       queueing[t].pc = "mark" => \A r \in queueing[t].batch : JobFor(r.id)

\* Only updateMany writes queued; an insert writes FALSE.
LEMMA QueuedHasJobStep == TypeOK /\ QInv /\ [Next]_vars => QInv'
<1> SUFFICES ASSUME TypeOK, QInv, [Next]_vars PROVE QInv'
  OBVIOUS
<1>q. queueing \in [QueueTicks -> QueueingTask(lastId)]
  BY DEF TypeOK, QueueingTask, Batch
<1>j. jobs \subseteq jobs' => \A id : JobFor(id) => JobFor(id)'
  BY DEF JobFor
<1>1. ASSUME jobs \subseteq jobs', UNCHANGED queueing,
             \A r \in rows' : r.queued => \E s \in rows : s.id = r.id /\ s.queued
      PROVE  QInv'
  <2>1. \A r \in rows' : r.queued => JobFor(r.id)'
    BY <1>1, <1>j DEF QInv, QueuedHasJob, JobFor
  <2>2. \A t \in QueueTicks :
          queueing'[t].pc = "mark" => \A r \in queueing'[t].batch : JobFor(r.id)'
    BY <1>1, <1>j DEF QInv
  <2> QED BY <2>1, <2>2 DEF QInv, QueuedHasJob, JobFor
<1>2. ASSUME NEW lo \in Int, NEW hi \in Int, InsertBatchTransactionEvent(lo, hi)
      PROVE  \A r \in rows' : r.queued => r \in rows
  <2>1. PICK stored \in SUBSET ((lo..hi) \ Failed) :
          rows' = rows \cup
             {[id |-> lastId + 1 + (p - lo), sig |-> p,
               queued |-> FALSE, processed |-> FALSE] : p \in stored}
    BY <1>2 DEF InsertBatchTransactionEvent
  <2> QED BY <2>1
<1>3. CASE InitializeScanner \/ InitializeScannerFails
  <2>1. UNCHANGED <<jobs, queueing>>
    BY <1>3 DEF InitializeScanner, InitializeScannerFails, ReadOldest, CheckGenesisReached,
         StartBackwardScan, FetchBackward, InsertBackward, BackwardStep, queueVars
  <2>2. CASE InsertBackward
    <3>1. backward.lo \in Int /\ backward.hi \in Int
      BY DEF TypeOK
    <3>2. InsertBatchTransactionEvent(backward.lo, backward.hi)
      BY <2>2 DEF InsertBackward
    <3> QED BY <1>1, <1>2, <2>1, <3>1, <3>2
  <2>3. CASE rows' = rows
    BY <1>1, <2>1, <2>3
  <2> QED BY <1>3, <2>2, <2>3 DEF InitializeScanner, InitializeScannerFails, ReadOldest,
         CheckGenesisReached, StartBackwardScan, FetchBackward, dbVars
<1>4. ASSUME NEW t \in ScanTicks, ScanForwards(t) \/ ForwardScanFails(t)
      PROVE  QInv'
  <2>1. UNCHANGED <<jobs, queueing>>
    BY <1>4 DEF ScanForwards, ForwardScanFails, StartForwardScan, FetchForward,
         InsertForward, ForwardStep, queueVars
  <2>2. CASE InsertForward(t)
    <3>1. forward[t].lo \in Int /\ forward[t].hi \in Int
      BY DEF TypeOK
    <3>2. InsertBatchTransactionEvent(forward[t].lo, forward[t].hi)
      BY <2>2 DEF InsertForward
    <3> QED BY <1>1, <1>2, <2>1, <3>1, <3>2
  <2>3. CASE rows' = rows
    BY <1>1, <2>1, <2>3
  <2> QED BY <1>4, <2>2, <2>3 DEF ScanForwards, ForwardScanFails, StartForwardScan,
         FetchForward, dbVars
<1>5. ASSUME NEW t \in QueueTicks,
             \/ ProcessUnprocessedTransactions(t)
             \/ QueueTransactionFails(t) \/ FindFails(t)
      PROVE  QInv'
  <2>1. ASSUME jobs \subseteq jobs', rows' = rows,
               NEW to, queueing' = [queueing EXCEPT ![t] = to],
               to.pc = "mark" => \A r \in to.batch : JobFor(r.id)'
        PROVE  QInv'
    BY <1>q, <1>j, <2>1 DEF QInv, QueuedHasJob, JobFor
  <2>2. CASE StartQueueing(t)
    BY <2>1, <2>2 DEF StartQueueing, QueueStep, IdleQueueing, queueVars
  <2>3. CASE FindUnprocessed(t)
    BY <2>1, <2>3 DEF FindUnprocessed, QueueStep, IdleQueueing, queueVars
  <2>4. CASE AddBulk(t)
    <3> DEFINE to == [queueing[t] EXCEPT !.pc = "mark"]
    <3>1. /\ queueing' = [queueing EXCEPT ![t] = to] /\ rows' = rows
          /\ jobs' = jobs \cup {[bulk |-> bulks', id |-> r.id, sig |-> r.sig]
                                  : r \in queueing[t].batch}
      BY <2>4 DEF AddBulk, QueueStep
    <3>2. to.batch = queueing[t].batch
      BY <1>q DEF QueueingTask
    <3> HIDE DEF to
    <3>3. ASSUME NEW r \in to.batch PROVE JobFor(r.id)'
      <4>1. [bulk |-> bulks', id |-> r.id, sig |-> r.sig] \in jobs'
        BY <3>1, <3>2, <3>3
      <4> QED BY <4>1 DEF JobFor
    <3> QED BY <2>1, <3>1, <3>3
  <2>5. CASE MarkQueued(t)
    <3>1. /\ queueing' = [queueing EXCEPT ![t] = [IdleQueueing EXCEPT !.pc = "find"]]
          /\ jobs' = jobs
      BY <2>5 DEF MarkQueued, QueueStep, queueVars
    <3>2. \A r \in queueing[t].batch : JobFor(r.id)
      BY <2>5 DEF MarkQueued, QInv
    <3> DEFINE ids == {r.id : r \in queueing[t].batch}
               Mark(r) == IF r.id \in ids THEN [r EXCEPT !.queued = TRUE] ELSE r
    <3>3. rows' = {Mark(r) : r \in rows}
      BY <2>5 DEF MarkQueued
    <3>4. \A r \in rows : Mark(r).id = r.id /\ (Mark(r).queued => r.queued \/ JobFor(r.id))
      <4>1. rows \subseteq Row
        BY DEF TypeOK, Row
      <4>2. \A r \in rows : r.id \in ids => JobFor(r.id)
        BY <3>2
      <4> HIDE DEF ids
      <4> QED BY <4>1, <4>2 DEF Row
    <3> HIDE DEF Mark
    <3>5. \A r \in rows' : r.queued => JobFor(r.id)
      BY <3>3, <3>4 DEF QInv, QueuedHasJob, JobFor
    <3>6. QueuedHasJob'
      BY <3>1, <3>5 DEF QueuedHasJob, JobFor
    <3>7. \A q \in QueueTicks :
            queueing'[q].pc = "mark" => \A r \in queueing'[q].batch : JobFor(r.id)
      BY <1>q, <3>1 DEF QInv, IdleQueueing
    <3> QED BY <3>1, <3>6, <3>7 DEF QInv, JobFor
  <2>6. CASE QueueTransactionFails(t) \/ FindFails(t)
    BY <2>1, <2>6 DEF QueueTransactionFails, FindFails, QueueStep, IdleQueueing, queueVars
  <2> QED BY <1>5, <2>2, <2>3, <2>4, <2>5, <2>6 DEF ProcessUnprocessedTransactions
<1>6. CASE MarkProcessed
  <2>1. PICK r \in rows : rows' = (rows \ {r}) \cup {[r EXCEPT !.processed = TRUE]}
    BY <1>6 DEF MarkProcessed
  <2>2. [r EXCEPT !.processed = TRUE].id = r.id /\ [r EXCEPT !.processed = TRUE].queued = r.queued
    BY DEF TypeOK
  <2>3. UNCHANGED <<jobs, queueing>>
    BY <1>6 DEF MarkProcessed, queueVars, taskVars
  <2> QED BY <1>1, <2>1, <2>2, <2>3
<1>7. CASE Crash
  <2>1. UNCHANGED <<jobs, rows>> /\ queueing' = [t \in QueueTicks |-> IdleQueueing]
    BY <1>7 DEF Crash, queueVars, dbVars
  <2> QED BY <2>1 DEF QInv, QueuedHasJob, IdleQueueing
<1>8. CASE Confirm \/ Restart \/ UNCHANGED vars
  BY <1>1, <1>8 DEF Confirm, Restart, vars, queueVars, taskVars, dbVars
<1> QED BY <1>3, <1>4, <1>5, <1>6, <1>7, <1>8 DEF Next

\* A row marked queued always has a job, whatever crashes between addBulk and
\* updateMany.
THEOREM QueuedHasJobAlways == Spec => []QueuedHasJob
<1>1. Init => QInv
  BY DEF Init, QInv, QueuedHasJob, IdleQueueing
<1> QED BY <1>1, QueuedHasJobStep, TypeCorrect, PTL DEF Spec, QInv

----------------------------------------------------------------------------
(* What a step does to the rows, the jobs and the queueing ticks. *)

\* No step of the chain, of a scan or of the start-up task touches what the
\* queueing ticks read, but for an insert; the flags only become true.
Unread ==
  /\ UNCHANGED <<rows, jobs, bulks, queueing>>
  /\ state'.isProcessingQueue = state.isProcessingQueue
  /\ state.isBackwardScanComplete => state'.isBackwardScanComplete

Insert ==
  /\ \E lo, hi \in Nat : InsertBatchTransactionEvent(lo, hi)
  /\ UNCHANGED <<jobs, bulks, queueing, state>>

Queueing(t) ==
  ProcessUnprocessedTransactions(t) \/ QueueTransactionFails(t) \/ FindFails(t)

\* Every step is one of five kinds.
LEMMA StepKinds ==
  ASSUME TypeOK, [Next]_vars
  PROVE  /\ \/ Unread \/ Insert \/ MarkProcessed \/ Crash
            \/ \E t \in QueueTicks : Queueing(t)
         /\ faults <= faults' /\ faults' \in Nat
         /\ lost \subseteq lost' /\ skipped \subseteq skipped'
<1>1. faults \in Nat
  BY ScannerAssumption DEF ScannerAssumption, TypeOK
<1>2. CASE InitializeScanner \/ InitializeScannerFails
  <2>1. UNCHANGED <<jobs, bulks, queueing, skipped>>
    BY <1>2 DEF InitializeScanner, InitializeScannerFails, ReadOldest, CheckGenesisReached,
         StartBackwardScan, FetchBackward, InsertBackward, BackwardStep, queueVars
  <2>2. CASE InsertBackward
    <3>1. backward.lo \in Nat /\ backward.hi \in Nat
      BY ScannerAssumption DEF ScannerAssumption, TypeOK
    <3>2. InsertBatchTransactionEvent(backward.lo, backward.hi) /\ state' = state
      BY <2>2 DEF InsertBackward
    <3>3. Insert
      BY <2>1, <3>1, <3>2 DEF Insert
    <3>4. faults <= faults' /\ faults' \in Nat /\ lost \subseteq lost'
      BY <1>1, <3>2 DEF InsertBatchTransactionEvent, NoFault, Fault
    <3> QED BY <2>1, <3>3, <3>4
  <2>3. CASE ReadOldest \/ CheckGenesisReached \/ StartBackwardScan \/ FetchBackward
             \/ InitializeScannerFails
    <3>1. UNCHANGED <<rows, lost>>
      BY <2>3 DEF ReadOldest, CheckGenesisReached, StartBackwardScan, FetchBackward,
           InitializeScannerFails, dbVars
    <3>2. /\ state'.isProcessingQueue = state.isProcessingQueue
          /\ state.isBackwardScanComplete => state'.isBackwardScanComplete
      BY <2>3 DEF ReadOldest, CheckGenesisReached, StartBackwardScan, FetchBackward,
           InitializeScannerFails, TypeOK
    <3>3. faults <= faults' /\ faults' \in Nat
      <4>1. Fault \/ NoFault
        BY <2>3 DEF ReadOldest, CheckGenesisReached, StartBackwardScan, FetchBackward,
             InitializeScannerFails
      <4> QED BY <1>1, <4>1 DEF Fault, NoFault
    <3> QED BY <2>1, <3>1, <3>2, <3>3 DEF Unread
  <2> QED BY <1>2, <2>2, <2>3 DEF InitializeScanner
<1>3. ASSUME NEW t \in ScanTicks, ScanForwards(t) \/ ForwardScanFails(t)
      PROVE  /\ Unread \/ Insert
             /\ faults <= faults' /\ faults' \in Nat
             /\ lost \subseteq lost' /\ skipped \subseteq skipped'
  <2>1. UNCHANGED <<jobs, bulks, queueing, state>>
    BY <1>3 DEF ScanForwards, ForwardScanFails, StartForwardScan, FetchForward,
         InsertForward, ForwardStep, queueVars
  <2>2. CASE InsertForward(t)
    <3>1. forward[t].lo \in Nat /\ forward[t].hi \in Nat
      BY ScannerAssumption DEF ScannerAssumption, TypeOK
    <3>2. InsertBatchTransactionEvent(forward[t].lo, forward[t].hi) /\ skipped' = skipped
      BY <2>2 DEF InsertForward
    <3>3. faults <= faults' /\ faults' \in Nat /\ lost \subseteq lost'
      BY <1>1, <3>2 DEF InsertBatchTransactionEvent, NoFault, Fault
    <3> QED BY <2>1, <3>1, <3>2, <3>3 DEF Insert
  <2>3. CASE StartForwardScan(t) \/ FetchForward(t) \/ ForwardScanFails(t)
    <3>1. UNCHANGED <<rows, lost>> /\ skipped \subseteq skipped'
      BY <2>3 DEF StartForwardScan, FetchForward, ForwardScanFails, dbVars
    <3>2. faults <= faults' /\ faults' \in Nat
      <4>1. Fault \/ NoFault
        BY <2>3 DEF StartForwardScan, FetchForward, ForwardScanFails
      <4> QED BY <1>1, <4>1 DEF Fault, NoFault
    <3> QED BY <2>1, <3>1, <3>2 DEF Unread
  <2> QED BY <1>3, <2>2, <2>3 DEF ScanForwards
<1>4. ASSUME NEW t \in QueueTicks, Queueing(t)
      PROVE  /\ faults <= faults' /\ faults' \in Nat
             /\ UNCHANGED <<lost, skipped>>
  BY <1>1, <1>4 DEF Queueing, ProcessUnprocessedTransactions, StartQueueing,
     FindUnprocessed, AddBulk, MarkQueued, QueueTransactionFails, FindFails, QueueStep,
     Fault, NoFault
<1>5. CASE MarkProcessed
  BY <1>1, <1>5 DEF MarkProcessed
<1>6. CASE Crash
  BY <1>1, <1>6 DEF Crash, Fault, dbVars
<1>7. CASE Confirm \/ Restart \/ UNCHANGED vars
  BY <1>1, <1>7 DEF Confirm, Restart, vars, Unread, dbVars, queueVars, taskVars
<1> QED BY <1>2, <1>3, <1>4, <1>5, <1>6, <1>7 DEF Next, Queueing

\* What an insert adds to the collection: rows with new ids, not queued.
LEMMA InsertedRows ==
  ASSUME TypeOK, Insert
  PROVE  /\ rows \subseteq rows'
         /\ \A r \in rows' \ rows :
              r.id \in Nat /\ r.id > lastId /\ ~r.queued /\ ~r.processed
         /\ \A r, s \in rows' \ rows : r.id = s.id => r = s
<1>1. PICK lo \in Nat, hi \in Nat : InsertBatchTransactionEvent(lo, hi)
  BY DEF Insert
<1> DEFINE New(p) == [id |-> lastId + 1 + (p - lo), sig |-> p,
                      queued |-> FALSE, processed |-> FALSE]
<1>2. PICK stored \in SUBSET ((lo..hi) \ Failed) : rows' = rows \cup {New(p) : p \in stored}
  BY <1>1 DEF InsertBatchTransactionEvent
<1>3. \A p \in stored : /\ p \in Nat /\ p >= lo
                        /\ New(p).id = lastId + 1 + (p - lo)
                        /\ ~New(p).queued /\ ~New(p).processed
  OBVIOUS
<1>4. \A r \in rows' \ rows : \E p \in stored : r = New(p)
  BY <1>2
<1>5. lastId \in Nat
  BY DEF TypeOK
<1> HIDE DEF New
<1>6. rows \subseteq rows'
  BY <1>2
<1>7. \A r \in rows' \ rows :
        r.id \in Nat /\ r.id > lastId /\ ~r.queued /\ ~r.processed
  BY <1>3, <1>4, <1>5
<1>8. ASSUME NEW p \in stored, NEW q \in stored, New(p).id = New(q).id PROVE p = q
  BY <1>3, <1>5, <1>8
<1> QED BY <1>4, <1>6, <1>7, <1>8

\* MarkProcessed and updateMany rewrite one flag of the rows they find.
LEMMA ProcessedRows ==
  ASSUME TypeOK, MarkProcessed
  PROVE  \E r \in rows, u \in rows' :
           /\ rows' = (rows \ {r}) \cup {u} /\ u.id = r.id /\ u.sig = r.sig
           /\ u.queued = r.queued /\ u.processed
<1>1. PICK r \in rows : rows' = (rows \ {r}) \cup {[r EXCEPT !.processed = TRUE]}
  BY DEF MarkProcessed
<1>2. r \in Row
  BY DEF TypeOK, Row
<1> DEFINE u == [r EXCEPT !.processed = TRUE]
<1>3. u.id = r.id /\ u.sig = r.sig /\ u.queued = r.queued /\ u.processed
  BY <1>2 DEF Row
<1> HIDE DEF u
<1>4. rows' = (rows \ {r}) \cup {u}
  BY <1>1 DEF u
<1> QED BY <1>1, <1>3, <1>4

----------------------------------------------------------------------------
(* One tick queues at a time, from rows the collection holds. *)

\* The tick that holds isProcessingQueue is alone, and started after the
\* backward scan.
LockInv ==
  \A t \in QueueTicks : queueing[t].pc # "idle" =>
    /\ state.isProcessingQueue /\ state.isBackwardScanComplete
    /\ \A u \in QueueTicks : queueing[u].pc # "idle" => u = t

UniqueIds == \A r, s \in rows : r.id = s.id => r = s

\* What the tick read is still there, not yet marked.
BatchInv ==
  \A t \in QueueTicks : queueing[t].pc \in {"addBulk", "mark"} =>
    \A b \in queueing[t].batch :
      \E r \in rows : r.id = b.id /\ r.sig = b.sig /\ ~r.queued

LBInv == LockInv /\ UniqueIds /\ BatchInv

\* The lock and the batch survive every step.
LEMMA LBStep ==
  ASSUME TypeOK, LBInv, [Next]_vars
  PROVE  LBInv'
<1>q. queueing \in [QueueTicks -> QueueingTask(lastId)] /\ rows \subseteq Row
  BY DEF TypeOK, QueueingTask, Batch, Row
<1>l. LockInv /\ UniqueIds /\ BatchInv
  BY DEF LBInv
<1>1. CASE Unread
  BY <1>l, <1>1 DEF Unread, LBInv, LockInv, UniqueIds, BatchInv
<1>2. CASE Insert
  <2>1. UNCHANGED <<queueing, state>>
    BY <1>2 DEF Insert
  <2>2. \A r \in rows : r.id \in Nat /\ r.id <= lastId
    BY <1>q DEF Row, TypeOK
  <2>3. UniqueIds'
    <3>1. ASSUME NEW r \in rows', NEW s \in rows', r.id = s.id PROVE r = s
      <4>1. CASE r \in rows /\ s \in rows
        BY <1>l, <3>1, <4>1 DEF UniqueIds
      <4>2. CASE r \notin rows /\ s \notin rows
        BY <1>2, <3>1, <4>2, InsertedRows
      <4>3. \A a \in rows, b \in rows' \ rows : a.id # b.id
        <5>1. \A b \in rows' \ rows : b.id \in Nat /\ b.id > lastId
          BY <1>2, InsertedRows
        <5>2. lastId \in Nat
          BY DEF TypeOK
        <5> QED BY <2>2, <5>1, <5>2
      <4> QED BY <3>1, <4>1, <4>2, <4>3
    <3> QED BY <3>1 DEF UniqueIds
  <2>4. rows \subseteq rows'
    BY <1>2, InsertedRows
  <2> QED BY <1>l, <2>1, <2>3, <2>4 DEF LBInv, LockInv, BatchInv
<1>3. CASE MarkProcessed
  <2>1. UNCHANGED <<queueing, state>>
    BY <1>3 DEF MarkProcessed, taskVars
  <2>2. PICK r \in rows, u \in rows' :
           /\ rows' = (rows \ {r}) \cup {u} /\ u.id = r.id /\ u.sig = r.sig
           /\ u.queued = r.queued
    BY <1>3, ProcessedRows
  <2>3. UniqueIds'
    BY <1>l, <2>2 DEF UniqueIds
  <2>4. \A s \in rows : \E v \in rows' : v.id = s.id /\ v.sig = s.sig /\ v.queued = s.queued
    BY <2>2
  <2>5. BatchInv'
    BY <1>l, <2>1, <2>4 DEF BatchInv
  <2> QED BY <1>l, <2>1, <2>3, <2>5 DEF LBInv, LockInv
<1>4. CASE Crash
  BY <1>l, <1>4 DEF Crash, dbVars, IdleQueueing, LBInv, LockInv, UniqueIds, BatchInv
<1>5. ASSUME NEW t \in QueueTicks, Queueing(t)
      PROVE  LBInv'
  <2>1. ASSUME NEW to, queueing' = [queueing EXCEPT ![t] = to], rows' = rows,
               queueing[t].pc # "idle", state' = state,
               to.pc \in {"addBulk", "mark"} =>
                 \A b \in to.batch : \E r \in rows : r.id = b.id /\ r.sig = b.sig /\ ~r.queued
        PROVE  LBInv'
    BY <1>q, <1>l, <2>1 DEF LBInv, LockInv, UniqueIds, BatchInv
  <2>2. ASSUME queueing' = [queueing EXCEPT ![t] = IdleQueueing], rows' = rows,
               queueing[t].pc # "idle"
        PROVE  LBInv'
    BY <1>q, <1>l, <2>2 DEF IdleQueueing, LBInv, LockInv, UniqueIds, BatchInv
  <2>3. CASE StartQueueing(t)
    <3>1. /\ queueing' = [queueing EXCEPT ![t] = [IdleQueueing EXCEPT !.pc = "find"]]
          /\ rows' = rows /\ state.isBackwardScanComplete /\ ~state.isProcessingQueue
          /\ state' = [state EXCEPT !.isProcessingQueue = TRUE]
      BY <2>3 DEF StartQueueing, QueueStep
    <3>2. \A u \in QueueTicks : queueing[u].pc = "idle"
      BY <1>l, <3>1 DEF LockInv
    <3>3. state'.isProcessingQueue /\ state'.isBackwardScanComplete
      BY <3>1 DEF TypeOK
    <3>4. \A u \in QueueTicks : queueing'[u].pc # "idle" => u = t
      BY <1>q, <3>1, <3>2
    <3>5. \A u \in QueueTicks : queueing'[u].pc \notin {"addBulk", "mark"}
      BY <1>q, <3>1, <3>2 DEF IdleQueueing
    <3> QED BY <1>l, <3>1, <3>3, <3>4, <3>5 DEF LBInv, LockInv, UniqueIds, BatchInv
  <2>4. CASE FindUnprocessed(t)
    <3>1. CASE QueueStep(t, IdleQueueing)
      BY <2>2, <2>4, <3>1 DEF FindUnprocessed, QueueStep
    <3>2. ASSUME NEW b \in FirstBatches, QueueStep(t, [pc |-> "addBulk", batch |-> b]),
                 UNCHANGED state
          PROVE  LBInv'
      <4>1. b \subseteq rows /\ \A r \in b : ~r.queued
        BY DEF FirstBatches, Unqueued
      <4> QED BY <2>1, <2>4, <3>2, <4>1 DEF FindUnprocessed, QueueStep
    <3> QED BY <2>4, <3>1, <3>2 DEF FindUnprocessed
  <2>5. CASE AddBulk(t)
    <3>1. /\ queueing' = [queueing EXCEPT ![t] = [queueing[t] EXCEPT !.pc = "mark"]]
          /\ UNCHANGED <<rows, state>> /\ queueing[t].pc = "addBulk"
      BY <2>5 DEF AddBulk, QueueStep
    <3>2. [queueing[t] EXCEPT !.pc = "mark"].batch = queueing[t].batch
      BY <1>q DEF QueueingTask
    <3> QED BY <1>l, <2>1, <3>1, <3>2 DEF BatchInv
  <2>6. CASE MarkQueued(t)
    <3> DEFINE ids == {r.id : r \in queueing[t].batch}
               Mark(r) == IF r.id \in ids THEN [r EXCEPT !.queued = TRUE] ELSE r
    <3>1. /\ queueing' = [queueing EXCEPT ![t] = [IdleQueueing EXCEPT !.pc = "find"]]
          /\ state' = state /\ queueing[t].pc = "mark"
          /\ rows' = {Mark(r) : r \in rows}
      BY <2>6 DEF MarkQueued, QueueStep
    <3>2. \A r \in rows : Mark(r).id = r.id
      BY <1>q DEF Row
    <3> HIDE DEF Mark
    <3>3. UniqueIds'
      BY <1>l, <3>1, <3>2 DEF UniqueIds
    <3>4. \A u \in QueueTicks : queueing'[u].pc # "idle" => u = t
      BY <1>q, <1>l, <3>1 DEF LockInv
    <3>5. \A u \in QueueTicks : queueing'[u].pc \notin {"addBulk", "mark"}
      BY <1>q, <3>1, <3>4 DEF IdleQueueing
    <3>6. state'.isProcessingQueue /\ state'.isBackwardScanComplete
      BY <1>l, <3>1 DEF LockInv
    <3> QED BY <3>3, <3>4, <3>5, <3>6 DEF LBInv, LockInv, BatchInv
  <2>7. CASE QueueTransactionFails(t)
    BY <2>1, <2>7 DEF QueueTransactionFails, QueueStep, IdleQueueing
  <2>8. CASE FindFails(t)
    BY <2>2, <2>8 DEF FindFails, QueueStep
  <2> QED BY <1>5, <2>3, <2>4, <2>5, <2>6, <2>7, <2>8
          DEF Queueing, ProcessUnprocessedTransactions
<1> QED BY <1>1, <1>2, <1>3, <1>4, <1>5, StepKinds

----------------------------------------------------------------------------
(* A row's jobs are paid for by faults. *)

JobsOf(id) == {j \in jobs : j.id = id}

\* A tick has added the row's job and is about to mark the row.
ToMark(id) ==
  \E t \in QueueTicks : queueing[t].pc = "mark" /\ \E b \in queueing[t].batch : b.id = id

AtMost(S, n) == IsFiniteSet(S) /\ Cardinality(S) <= n

\* One job per fault so far and one more; but a row that is free to be queued
\* has had a fault for each of its jobs.
CountInv ==
  \A r \in rows :
    /\ AtMost(JobsOf(r.id), faults + 1)
    /\ ~r.queued /\ ~ToMark(r.id) => AtMost(JobsOf(r.id), faults)

\* Only addBulk adds a job, at most one per row, and to rows that are free.
LEMMA CountStep ==
  ASSUME TypeOK, LBInv, CountInv, [Next]_vars
  PROVE  CountInv'
<1>q. queueing \in [QueueTicks -> QueueingTask(lastId)] /\ rows \subseteq Row
  BY DEF TypeOK, QueueingTask, Batch, Row
<1>l. LockInv /\ UniqueIds /\ BatchInv
  BY DEF LBInv
<1>f. faults \in Nat /\ faults' \in Nat /\ faults <= faults'
  <2>1. MaxFaults \in Nat
    BY ScannerAssumption DEF ScannerAssumption
  <2>2. faults \in Nat
    BY <2>1 DEF TypeOK
  <2> QED BY <2>2, StepKinds
<1>m. \A S, m, n : AtMost(S, m) /\ m \in Nat /\ n \in Nat /\ m <= n => AtMost(S, n)
  <2>1. \A S : IsFiniteSet(S) => Cardinality(S) \in Nat
    BY FS_CardinalityType
  <2> QED BY <2>1 DEF AtMost
<1>j. ASSUME jobs' = jobs
      PROVE  \A id : JobsOf(id)' = JobsOf(id)
  BY <1>j DEF JobsOf
<1>u. ASSUME jobs' = jobs, NEW r \in rows, NEW s, s.id = r.id,
             ~s.queued /\ ~ToMark(s.id)' =>
               (~r.queued /\ ~ToMark(r.id)) \/ faults' = faults + 1
      PROVE  /\ AtMost(JobsOf(s.id)', faults' + 1)
             /\ ~s.queued /\ ~ToMark(s.id)' => AtMost(JobsOf(s.id)', faults')
  <2>1. /\ AtMost(JobsOf(r.id), faults + 1)
        /\ ~r.queued /\ ~ToMark(r.id) => AtMost(JobsOf(r.id), faults)
    BY DEF CountInv
  <2> QED BY <1>f, <1>m, <1>j, <1>u, <2>1
<1>k. ASSUME UNCHANGED <<rows, jobs>>,
             \A id : ToMark(id) => ToMark(id)' \/ faults' = faults + 1
      PROVE  CountInv'
  BY <1>u, <1>k DEF CountInv
<1>1. CASE Unread
  BY <1>k, <1>1 DEF Unread, ToMark
<1>2. CASE Insert
  <2>1. UNCHANGED <<jobs, queueing>>
    BY <1>2 DEF Insert
  <2>2. \A id : ToMark(id)' <=> ToMark(id)
    BY <2>1 DEF ToMark
  <2>3. ASSUME NEW r \in rows' \ rows PROVE AtMost(JobsOf(r.id)', 0)
    <3>1. r.id > lastId /\ r.id \in Nat
      BY <1>2, InsertedRows
    <3>2. \A j \in jobs : j.id \in Nat /\ j.id <= lastId
      BY DEF TypeOK
    <3>3. JobsOf(r.id) = {}
      BY <3>1, <3>2 DEF JobsOf, TypeOK
    <3>4. AtMost(JobsOf(r.id), 0)
      BY <3>3, FS_EmptySet DEF AtMost
    <3> QED BY <1>j, <2>1, <3>4
  <2>4. ASSUME NEW r \in rows'
        PROVE  /\ AtMost(JobsOf(r.id)', faults' + 1)
               /\ ~r.queued /\ ~ToMark(r.id)' => AtMost(JobsOf(r.id)', faults')
    <3>1. CASE r \in rows
      BY <1>u, <2>1, <2>2, <3>1
    <3>2. CASE r \notin rows
      <4>1. AtMost(JobsOf(r.id)', 0)
        BY <2>3, <3>2
      <4>2. \A n \in Nat : AtMost(JobsOf(r.id)', n) /\ AtMost(JobsOf(r.id)', n + 1)
        BY <1>m, <4>1
      <4> QED BY <1>f, <4>2
    <3> QED BY <3>1, <3>2
  <2> QED BY <2>4 DEF CountInv
<1>3. CASE MarkProcessed
  <2>1. UNCHANGED <<jobs, queueing>>
    BY <1>3 DEF MarkProcessed, queueVars, taskVars
  <2>2. \A id : ToMark(id)' <=> ToMark(id)
    BY <2>1 DEF ToMark
  <2>3. PICK r \in rows, v \in rows' :
           rows' = (rows \ {r}) \cup {v} /\ v.id = r.id /\ v.queued = r.queued
    BY <1>3, ProcessedRows
  <2>4. \A s \in rows' : \E o \in rows : s.id = o.id /\ s.queued = o.queued
    BY <2>3
  <2>5. ASSUME NEW s \in rows'
        PROVE  /\ AtMost(JobsOf(s.id)', faults' + 1)
               /\ ~s.queued /\ ~ToMark(s.id)' => AtMost(JobsOf(s.id)', faults')
    <3>1. PICK o \in rows : s.id = o.id /\ s.queued = o.queued
      BY <2>4
    <3> QED BY <1>u, <2>1, <2>2, <3>1
  <2> QED BY <2>5 DEF CountInv
<1>4. CASE Crash
  <2>1. UNCHANGED <<rows, jobs>> /\ faults' = faults + 1
    BY <1>4 DEF Crash, Fault, dbVars, queueVars
  <2> QED BY <1>k, <2>1
<1>5. ASSUME NEW t \in QueueTicks, Queueing(t)
      PROVE  CountInv'
  <2>1. ASSUME NEW to, queueing' = [queueing EXCEPT ![t] = to],
               queueing[t].pc # "mark" \/ faults' = faults + 1
        PROVE  \A id : ToMark(id) => ToMark(id)' \/ faults' = faults + 1
    BY <1>q, <2>1 DEF ToMark
  <2>2. CASE StartQueueing(t)
    BY <1>k, <2>1, <2>2 DEF StartQueueing, QueueStep, queueVars
  <2>3. CASE FindUnprocessed(t)
    BY <1>k, <2>1, <2>3 DEF FindUnprocessed, QueueStep, queueVars
  <2>4. CASE QueueTransactionFails(t) \/ FindFails(t)
    BY <1>k, <2>1, <2>4 DEF QueueTransactionFails, FindFails, QueueStep, queueVars, Fault
  <2>5. CASE AddBulk(t)
    <3> DEFINE batch == queueing[t].batch
               Job(b) == [bulk |-> bulks', id |-> b.id, sig |-> b.sig]
    <3>1. /\ queueing' = [queueing EXCEPT ![t] = [queueing[t] EXCEPT !.pc = "mark"]]
          /\ rows' = rows /\ queueing[t].pc = "addBulk" /\ faults' = faults
          /\ jobs' = jobs \cup {Job(b) : b \in batch}
      BY <2>5 DEF AddBulk, QueueStep, NoFault
    <3>2. queueing'[t].pc = "mark" /\ queueing'[t].batch = batch
      BY <1>q, <3>1 DEF QueueingTask
    <3>3. \A b \in batch : \E r \in rows : r.id = b.id /\ r.sig = b.sig /\ ~r.queued
      BY <1>l, <3>1 DEF BatchInv
    <3>4. \A id : ~ToMark(id)
      BY <1>l, <3>1 DEF LockInv, ToMark
    <3>5. \A id : ToMark(id)' <=> \E b \in batch : b.id = id
      <4>1. \A u \in QueueTicks : queueing'[u].pc = "mark" => u = t
        BY <1>q, <1>l, <3>1 DEF LockInv
      <4> QED BY <3>2, <4>1 DEF ToMark
    <3> HIDE DEF batch
    <3>6. ASSUME NEW r \in rows
          PROVE  /\ AtMost(JobsOf(r.id)', faults' + 1)
                 /\ ~r.queued /\ ~ToMark(r.id)' => AtMost(JobsOf(r.id)', faults')
      <4>1. CASE \E b \in batch : b.id = r.id
        <5>1. PICK b \in batch : b.id = r.id
          BY <4>1
        <5>2. ~r.queued /\ \A c \in batch : c.id = r.id => c.sig = b.sig
          BY <1>l, <3>3, <5>1 DEF UniqueIds
        <5>3. AtMost(JobsOf(r.id), faults)
          BY <3>4, <5>2 DEF CountInv
        <5>4. \A c \in batch : Job(c).id = c.id /\ (c.id = r.id => Job(c) = Job(b))
          BY <5>1, <5>2
        <5> HIDE DEF Job
        <5>5. JobsOf(r.id)' = JobsOf(r.id) \cup {Job(b)}
          BY <3>1, <5>1, <5>4 DEF JobsOf
        <5>6. AtMost(JobsOf(r.id)', faults' + 1)
          <6>1. IsFiniteSet(JobsOf(r.id)) /\ Cardinality(JobsOf(r.id)) <= faults
            BY <5>3 DEF AtMost
          <6>2. Cardinality(JobsOf(r.id)) \in Nat
            BY <6>1, FS_CardinalityType
          <6>3. /\ IsFiniteSet(JobsOf(r.id) \cup {Job(b)})
                /\ Cardinality(JobsOf(r.id) \cup {Job(b)}) <= Cardinality(JobsOf(r.id)) + 1
            BY <6>1, <6>2, FS_AddElement
          <6>4. IsFiniteSet(JobsOf(r.id)') /\ Cardinality(JobsOf(r.id)') <= faults + 1
            BY <1>f, <5>5, <6>1, <6>2, <6>3, FS_CardinalityType
          <6> QED BY <3>1, <6>4 DEF AtMost
        <5> QED BY <3>5, <4>1, <5>6
      <4>2. CASE ~\E b \in batch : b.id = r.id
        <5>1. \A c \in batch : Job(c).id # r.id
          BY <4>2
        <5> HIDE DEF Job
        <5>2. JobsOf(r.id)' = JobsOf(r.id)
          BY <3>1, <5>1 DEF JobsOf
        <5>3. /\ AtMost(JobsOf(r.id), faults + 1)
              /\ ~r.queued => AtMost(JobsOf(r.id), faults)
          BY <3>4 DEF CountInv
        <5> QED BY <3>1, <5>2, <5>3 DEF AtMost
      <4> QED BY <4>1, <4>2
    <3> QED BY <3>1, <3>6 DEF CountInv
  <2>6. CASE MarkQueued(t)
    <3> DEFINE ids == {r.id : r \in queueing[t].batch}
               Mark(r) == IF r.id \in ids THEN [r EXCEPT !.queued = TRUE] ELSE r
    <3>1. /\ queueing' = [queueing EXCEPT ![t] = [IdleQueueing EXCEPT !.pc = "find"]]
          /\ queueing[t].pc = "mark" /\ jobs' = jobs /\ faults' = faults
          /\ rows' = {Mark(r) : r \in rows}
      BY <2>6 DEF MarkQueued, QueueStep, NoFault, queueVars
    <3>2. \A id : ToMark(id) <=> id \in ids
      BY <1>l, <3>1 DEF LockInv, ToMark
    <3>3. \A r \in rows : /\ Mark(r).id = r.id
                          /\ r.id \notin ids => Mark(r).queued = r.queued
                          /\ r.id \in ids => Mark(r).queued
      <4> HIDE DEF ids
      <4> QED BY <1>q DEF Row
    <3> HIDE DEF Mark, ids
    <3>4. ASSUME NEW s \in rows'
          PROVE  /\ AtMost(JobsOf(s.id)', faults' + 1)
                 /\ ~s.queued /\ ~ToMark(s.id)' => AtMost(JobsOf(s.id)', faults')
      <4>1. PICK r \in rows : s = Mark(r)
        BY <3>1
      <4>2. s.id = r.id /\ (~s.queued => ~r.queued /\ ~ToMark(r.id))
        BY <3>2, <3>3, <4>1
      <4> QED BY <1>u, <3>1, <4>2
    <3> QED BY <3>4 DEF CountInv
  <2> QED BY <1>5, <2>2, <2>3, <2>4, <2>5, <2>6
          DEF Queueing, ProcessUnprocessedTransactions
<1> QED BY <1>1, <1>2, <1>3, <1>4, <1>5, StepKinds

----------------------------------------------------------------------------
(* The first job of a transaction is not later than the jobs of later blocks. *)

\* The jobs of a row are of its transaction, and a row is marked queued only
\* after it had one.
SeenInv ==
  /\ \A r \in rows, k \in jobs : k.id = r.id => k.sig = r.sig
  /\ \A r \in rows : r.queued => \E k \in jobs : k.sig = r.sig
  /\ \A t \in QueueTicks : queueing[t].pc = "mark" =>
       \A b \in queueing[t].batch : \E k \in jobs : k.sig = b.sig

\* PassedOver for good: no batch that waits for its addBulk holds the row.
Gone(p) ==
  \E r \in rows :
    /\ r.sig = p /\ r.processed /\ ~\E k \in jobs : k.id = r.id
    /\ \A t \in QueueTicks : queueing[t].pc = "addBulk" =>
         \A b \in queueing[t].batch : b.id # r.id

\* The older transactions of a batch are in it, had their first job, or will
\* not have one for their first row.
BatchOrder ==
  \A t \in QueueTicks : queueing[t].pc = "addBulk" =>
    \A b \in queueing[t].batch : \A p \in Sigs \ Failed :
      Slot[p] < Slot[b.sig] =>
        \/ p \in lost \cup skipped
        \/ Gone(p)
        \/ \E k \in jobs : k.sig = p
        \/ \E s \in queueing[t].batch : s.sig = p

\* SlotOrder, of every older transaction, those without a job included.
JobOrder ==
  \A i \in jobs : \A p \in Sigs \ Failed :
    Slot[p] < Slot[i.sig] =>
      \/ p \in lost \cup skipped
      \/ Gone(p)
      \/ \E k \in jobs : k.sig = p /\ Before(k, i)

OrderInv == SeenInv /\ BatchOrder /\ JobOrder

\* A step that adds no job and starts no batch keeps the order.
LEMMA OrderKept ==
  ASSUME OrderInv, jobs' = jobs, lost \subseteq lost', skipped \subseteq skipped',
         \A r \in rows' : /\ r.queued => \E k \in jobs : k.sig = r.sig
                          /\ \A k \in jobs : k.id = r.id => k.sig = r.sig,
         \A r \in rows : r.processed =>
           \E s \in rows' : s.id = r.id /\ s.sig = r.sig /\ s.processed,
         \A t \in QueueTicks : queueing'[t].pc \in {"addBulk", "mark"} =>
           queueing'[t] = queueing[t]
  PROVE  OrderInv'
<1>1. SeenInv'
  BY DEF OrderInv, SeenInv
<1>4. \A p : Gone(p) => Gone(p)'
  BY DEF Gone
<1>2. BatchOrder'
  BY <1>4 DEF OrderInv, BatchOrder
<1>3. JobOrder'
  BY <1>4 DEF OrderInv, JobOrder, Before, Older
<1> QED BY <1>1, <1>2, <1>3 DEF OrderInv

\* Find takes the oldest rows, addBulk keeps their order, and nothing else
\* starts a batch or adds a job.
LEMMA OrderStep ==
  ASSUME IInv, LBInv, OrderInv, [Next]_vars
  PROVE  OrderInv'
<1>t. TypeOK /\ HistoryComplete
  BY DEF IInv
<1>q. queueing \in [QueueTicks -> QueueingTask(lastId)] /\ rows \subseteq Row
  BY <1>t DEF TypeOK, QueueingTask, Batch, Row
<1>l. LockInv /\ UniqueIds /\ BatchInv
  BY DEF LBInv
<1>o. SeenInv /\ BatchOrder /\ JobOrder
  BY DEF OrderInv
<1>g. lost \subseteq lost' /\ skipped \subseteq skipped'
  BY <1>t, StepKinds
<1>s. ChainLength \in Nat /\ Slot \in [Sigs -> Nat] /\ Sigs \subseteq Nat
      /\ \A p, q \in Sigs : p <= q => Slot[p] <= Slot[q]
  BY ScannerAssumption DEF ScannerAssumption, Sigs
<1>1. CASE Unread
  BY <1>o, <1>g, <1>1, OrderKept DEF Unread, SeenInv
<1>2. CASE Insert
  <2>1. rows \subseteq rows' /\ UNCHANGED <<jobs, queueing>>
    BY <1>t, <1>2, InsertedRows DEF Insert
  <2>2. ASSUME NEW r \in rows' \ rows PROVE ~r.queued /\ \A k \in jobs : k.id # r.id
    <3>1. lastId \in Nat /\ \A k \in jobs : k.id \in 1..lastId
      BY <1>t DEF TypeOK
    <3>2. r.id \in Nat /\ r.id > lastId /\ ~r.queued
      BY <1>t, <1>2, InsertedRows
    <3> QED BY <3>1, <3>2
  <2>3. \A r \in rows' : /\ r.queued => \E k \in jobs : k.sig = r.sig
                         /\ \A k \in jobs : k.id = r.id => k.sig = r.sig
    BY <1>o, <2>2 DEF SeenInv
  <2> QED BY <1>o, <1>g, <2>1, <2>3, OrderKept
<1>3. CASE MarkProcessed
  <2>1. UNCHANGED <<jobs, queueing>>
    BY <1>3 DEF MarkProcessed, queueVars, taskVars
  <2>2. PICK r \in rows, v \in rows' :
           /\ rows' = (rows \ {r}) \cup {v} /\ v.id = r.id /\ v.sig = r.sig
           /\ v.queued = r.queued /\ v.processed
    BY <1>t, <1>3, ProcessedRows
  <2>3. \A s \in rows' : /\ s.queued => \E k \in jobs : k.sig = s.sig
                         /\ \A k \in jobs : k.id = s.id => k.sig = s.sig
    BY <1>o, <2>2 DEF SeenInv
  <2>4. \A s \in rows : s.processed =>
           \E o \in rows' : o.id = s.id /\ o.sig = s.sig /\ o.processed
    BY <2>2
  <2> QED BY <1>g, <2>1, <2>3, <2>4, OrderKept
<1>4. CASE Crash
  <2>1. /\ UNCHANGED <<rows, jobs>>
        /\ \A t \in QueueTicks : queueing'[t].pc = "idle"
    BY <1>4 DEF Crash, dbVars, queueVars, IdleQueueing
  <2> QED BY <1>o, <1>g, <2>1, OrderKept DEF SeenInv
<1>5. ASSUME NEW t \in QueueTicks, Queueing(t)
      PROVE  OrderInv'
  <2>1. ASSUME NEW to, queueing' = [queueing EXCEPT ![t] = to], UNCHANGED <<rows, jobs>>,
               to.pc \notin {"addBulk", "mark"}
        PROVE  OrderInv'
    <3>1. \A u \in QueueTicks : queueing'[u].pc \in {"addBulk", "mark"} =>
            queueing'[u] = queueing[u]
      BY <1>q, <2>1
    <3> QED BY <1>o, <1>g, <2>1, <3>1, OrderKept DEF SeenInv
  <2>2. CASE StartQueueing(t) \/ QueueTransactionFails(t) \/ FindFails(t)
    BY <2>1, <2>2 DEF StartQueueing, QueueTransactionFails, FindFails, QueueStep,
         IdleQueueing, queueVars
  <2>3. CASE FindUnprocessed(t)
    <3>1. UNCHANGED <<rows, jobs>> /\ queueing[t].pc = "find"
      BY <2>3 DEF FindUnprocessed, queueVars
    <3>2. CASE QueueStep(t, IdleQueueing)
      BY <2>1, <3>1, <3>2 DEF QueueStep, IdleQueueing
    <3>3. ASSUME NEW batch \in FirstBatches,
                 QueueStep(t, [pc |-> "addBulk", batch |-> batch])
          PROVE  OrderInv'
      <4>1. /\ batch \subseteq Unqueued /\ Unqueued \subseteq rows
            /\ \A r \in batch, s \in Unqueued \ batch : Older(r, s)
        BY DEF FirstBatches, Unqueued
      <4>2. /\ queueing' = [queueing EXCEPT ![t] = [pc |-> "addBulk", batch |-> batch]]
            /\ UNCHANGED <<lost, skipped>>
        BY <3>3 DEF QueueStep
      <4>7. \A u \in QueueTicks : queueing'[u].pc = "addBulk" => queueing'[u].batch = batch
        BY <1>q, <1>l, <3>1, <4>2 DEF LockInv
      <4>8. ASSUME NEW s \in rows, s.processed, ~\E k \in jobs : k.id = s.id
            PROVE  Gone(s.sig)'
        <5>1. \A b \in batch : b.id # s.id
          BY <1>l, <4>1, <4>8 DEF UniqueIds, Unqueued
        <5> QED BY <3>1, <4>7, <4>8, <5>1 DEF Gone
      <4>9. \A p : Gone(p) => Gone(p)'
        BY <4>8 DEF Gone
      <4>3. ASSUME NEW b \in batch, NEW p \in Sigs \ Failed, Slot[p] < Slot[b.sig],
                   p \notin lost \cup skipped, ~\E k \in jobs : k.sig = p, ~Gone(p)'
            PROVE  \E s \in batch : s.sig = p
        <5>1. b.sig \in Stored /\ b.sig \in Sigs
          BY <1>q, <4>1 DEF Row, Stored
        <5>2. p <= b.sig /\ p \in 1..b.sig
          BY <1>s, <4>3, <5>1 DEF Sigs
        <5>3. state.isBackwardScanComplete
          BY <1>l, <3>1 DEF LockInv
        <5>4. p \in Stored
          BY <1>t, <4>3, <5>1, <5>2, <5>3 DEF HistoryComplete, Accounted
        <5>5. PICK s \in rows : s.sig = p
          BY <5>4 DEF Stored
        <5>6. s \in Unqueued
          BY <1>o, <4>3, <4>8, <5>5 DEF SeenInv, Unqueued
        <5>7. ~Older(b, s)
          <6>1. Slot[b.sig] \in Nat /\ Slot[p] \in Nat
            BY <1>s, <5>1
          <6> QED BY <4>3, <5>5, <6>1 DEF Older
        <5> QED BY <4>1, <5>5, <5>6, <5>7
      <4>4. BatchOrder'
        BY <1>q, <1>l, <3>1, <4>2, <4>3, <4>7 DEF BatchOrder
      <4>5. SeenInv'
        BY <1>q, <1>o, <3>1, <4>2 DEF SeenInv
      <4>6. JobOrder'
        BY <1>o, <3>1, <4>2, <4>9 DEF JobOrder, Before, Older
      <4> QED BY <4>4, <4>5, <4>6 DEF OrderInv
    <3> QED BY <2>3, <3>2, <3>3 DEF FindUnprocessed
  <2>4. CASE AddBulk(t)
    <3> DEFINE batch == queueing[t].batch
               Job(b) == [bulk |-> bulks', id |-> b.id, sig |-> b.sig]
    <3>1. /\ queueing' = [queueing EXCEPT ![t] = [queueing[t] EXCEPT !.pc = "mark"]]
          /\ UNCHANGED <<rows, lost, skipped>> /\ queueing[t].pc = "addBulk"
          /\ bulks' = bulks + 1 /\ jobs' = jobs \cup {Job(b) : b \in batch}
      BY <2>4 DEF AddBulk, QueueStep
    <3>2. queueing'[t].pc = "mark" /\ queueing'[t].batch = batch
      BY <1>q, <3>1 DEF QueueingTask
    <3>3. \A u \in QueueTicks \ {t} : queueing'[u] = queueing[u] /\ queueing[u].pc = "idle"
      BY <1>q, <1>l, <3>1 DEF LockInv
    <3>4. \A b \in batch : b.sig \in Sigs
      <4>1. queueing[t] \in QueueingTask(lastId)
        BY <1>q
      <4> QED BY <4>1 DEF QueueingTask, Batch
    <3>5. \A b \in batch : Job(b).bulk = bulks + 1 /\ Job(b).sig = b.sig /\ Job(b).id = b.id
      BY <3>1
    <3>6. bulks \in Nat /\ \A k \in jobs : k.bulk \in Nat /\ k.bulk <= bulks
      BY <1>t DEF TypeOK
    <3>11. ASSUME NEW p, Gone(p) PROVE Gone(p)'
      <4>1. PICK r \in rows :
              /\ r.sig = p /\ r.processed /\ ~\E k \in jobs : k.id = r.id
              /\ \A b \in batch : b.id # r.id
        BY <3>1, <3>11 DEF Gone
      <4>2. ~\E k \in jobs' : k.id = r.id
        BY <3>1, <3>5, <4>1
      <4>3. \A u \in QueueTicks : queueing'[u].pc # "addBulk"
        BY <3>2, <3>3
      <4> QED BY <3>1, <4>1, <4>2, <4>3 DEF Gone
    <3>7. ASSUME NEW b \in batch, NEW p \in Sigs \ Failed, Slot[p] < Slot[b.sig],
                 p \notin lost \cup skipped, ~Gone(p)
          PROVE  \E k \in jobs' : k.sig = p /\ Before(k, Job(b))
      <4>1. \/ \E k \in jobs : k.sig = p
            \/ \E s \in batch : s.sig = p
        BY <1>o, <3>1, <3>7 DEF BatchOrder
      <4>2. ASSUME NEW k \in jobs, k.sig = p PROVE k \in jobs' /\ Before(k, Job(b))
        BY <3>1, <3>5, <3>6, <4>2 DEF Before
      <4>3. ASSUME NEW s \in batch, s.sig = p
            PROVE  Job(s) \in jobs' /\ Job(s).sig = p /\ Before(Job(s), Job(b))
        <5>1. Job(s) \in jobs'
          BY <3>1
        <5> HIDE DEF Job, batch
        <5> QED BY <3>5, <3>6, <3>7, <4>3, <5>1 DEF Before, Older
      <4> QED BY <4>1, <4>2, <4>3
    <3> HIDE DEF Job
    <3>8. JobOrder'
      <4>1. ASSUME NEW i \in jobs', NEW p \in Sigs \ Failed, Slot[p] < Slot[i.sig],
                   p \notin lost \cup skipped, ~Gone(p)'
            PROVE  \E k \in jobs' : k.sig = p /\ Before(k, i)
        <5>0. ~Gone(p)
          BY <3>11, <4>1
        <5>1. CASE i \in jobs
          BY <1>o, <3>1, <4>1, <5>0, <5>1 DEF JobOrder
        <5>2. CASE \E b \in batch : i = Job(b)
          BY <3>5, <3>7, <4>1, <5>0, <5>2
        <5> QED BY <3>1, <5>1, <5>2
      <4> QED BY <3>1, <4>1 DEF JobOrder, Before, Older
    <3>9. SeenInv'
      <4>1. \A b \in batch : \E k \in jobs' : k.sig = b.sig
        BY <3>1, <3>5
      <4>3. \A b \in batch : \A r \in rows : r.id = b.id => r.sig = b.sig
        BY <1>l, <3>1 DEF BatchInv, UniqueIds
      <4> HIDE DEF batch
      <4>2. \A r \in rows' : r.queued => \E k \in jobs' : k.sig = r.sig
        BY <1>o, <3>1 DEF SeenInv
      <4>4. \A r \in rows', k \in jobs' : k.id = r.id => k.sig = r.sig
        BY <1>o, <3>1, <3>5, <4>3 DEF SeenInv
      <4> QED BY <3>2, <3>3, <4>1, <4>2, <4>4 DEF SeenInv
    <3>10. BatchOrder'
      BY <3>2, <3>3 DEF BatchOrder
    <3> QED BY <3>8, <3>9, <3>10 DEF OrderInv
  <2>5. CASE MarkQueued(t)
    <3> DEFINE ids == {r.id : r \in queueing[t].batch}
               Mark(r) == IF r.id \in ids THEN [r EXCEPT !.queued = TRUE] ELSE r
    <3>1. /\ queueing' = [queueing EXCEPT ![t] = [IdleQueueing EXCEPT !.pc = "find"]]
          /\ queueing[t].pc = "mark" /\ jobs' = jobs
          /\ rows' = {Mark(r) : r \in rows}
      BY <2>5 DEF MarkQueued, QueueStep, queueVars
    <3>2. \A r \in rows : r.id \in ids => \E k \in jobs : k.sig = r.sig
      <4>1. ASSUME NEW r \in rows, r.id \in ids PROVE \E k \in jobs : k.sig = r.sig
        <5>1. PICK b \in queueing[t].batch : b.id = r.id
          BY <4>1
        <5>2. b.sig = r.sig
          BY <1>l, <3>1, <5>1 DEF UniqueIds, BatchInv
        <5> QED BY <1>o, <3>1, <5>1, <5>2 DEF SeenInv
      <4> QED BY <4>1
    <3> HIDE DEF ids
    <3>3. \A r \in rows : Mark(r).sig = r.sig /\ Mark(r).processed = r.processed
                          /\ Mark(r).id = r.id
                          /\ (Mark(r).queued => r.queued \/ r.id \in ids)
      BY <1>q DEF Row
    <3> HIDE DEF Mark
    <3>4. \A s \in rows' : /\ s.queued => \E k \in jobs : k.sig = s.sig
                           /\ \A k \in jobs : k.id = s.id => k.sig = s.sig
      BY <1>o, <3>1, <3>2, <3>3 DEF SeenInv
    <3>6. \A r \in rows : r.processed =>
             \E s \in rows' : s.id = r.id /\ s.sig = r.sig /\ s.processed
      BY <3>1, <3>3
    <3>5. \A u \in QueueTicks : queueing'[u].pc \in {"addBulk", "mark"} =>
            queueing'[u] = queueing[u]
      BY <1>q, <3>1 DEF IdleQueueing
    <3> QED BY <1>g, <3>1, <3>4, <3>5, <3>6, OrderKept
  <2> QED BY <1>5, <2>2, <2>3, <2>4, <2>5 DEF Queueing, ProcessUnprocessedTransactions
<1> QED BY <1>t, <1>1, <1>2, <1>3, <1>4, <1>5, StepKinds

QueueInv == LBInv /\ CountInv /\ OrderInv

\* The queueing invariant holds at the start and survives every step.
LEMMA QueueInvAlways == Spec => []QueueInv
<1>1. Init => QueueInv
  BY DEF Init, QueueInv, LBInv, LockInv, UniqueIds, BatchInv, CountInv, OrderInv, SeenInv,
         BatchOrder, JobOrder, IdleQueueing
<1>2. IInv /\ QueueInv /\ [Next]_vars => QueueInv'
  BY LBStep, CountStep, OrderStep DEF QueueInv, IInv
<1> QED BY <1>1, <1>2, IInvAlways, PTL DEF Spec

\* The overlapping ticks of processUnprocessedTransactions add at most one job
\* per row, but for one more per fault.
THEOREM QueuedOncePerFaultAlways == Spec => []QueuedOncePerFault
<1>1. IInv /\ QueueInv => QueuedOncePerFault
  <2> SUFFICES ASSUME IInv, QueueInv, NEW r \in rows
               PROVE  Cardinality({j \in jobs : j.id = r.id}) <= 1 + faults
    BY DEF QueuedOncePerFault
  <2>1. MaxFaults \in Nat /\ faults \in 0..MaxFaults
    BY ScannerAssumption DEF ScannerAssumption, TypeOK, IInv
  <2>2. Cardinality(JobsOf(r.id)) <= faults + 1
    BY DEF QueueInv, CountInv, AtMost
  <2>3. Cardinality({j \in jobs : j.id = r.id}) <= faults + 1
    BY <2>2 DEF JobsOf
  <2> QED BY <2>1, <2>3
<1> QED BY <1>1, IInvAlways, QueueInvAlways, PTL

\* "Processing unprocessed transactions in slot order": the jobs of every
\* addBulk call, over all ticks and restarts, keep the order of the blocks.
THEOREM SlotOrderAlways == Spec => []SlotOrder
<1>1. IInv /\ QueueInv => SlotOrder
  <2>1. IInv => \A j \in jobs : j.sig \in Sigs \ Failed
    BY DEF IInv, TypeOK
  <2>2. \A p : Gone(p) => PassedOver(p)
    BY DEF Gone, PassedOver
  <2> QED BY <2>1, <2>2 DEF QueueInv, OrderInv, JobOrder, SlotOrder
<1> QED BY <1>1, IInvAlways, QueueInvAlways, PTL

----------------------------------------------------------------------------
(* The two loops advance. *)

\* What is left of the start-up task: the reads, and two steps for every
\* signature before the cursor.
ScanLeft ==
  CASE backward.pc = "init"   -> 2 * ChainLength + 5
    [] backward.pc = "check"  -> 2 * ChainLength + 4
    [] backward.pc = "start"  -> 2 * ChainLength + 3
    [] backward.pc = "fetch"  -> 2 * (IF backward.before = NoSig THEN ChainLength + 1
                                      ELSE backward.before)
    [] backward.pc = "insert" -> 2 * backward.hi + 1
    [] backward.pc \in {"done", "dead", "down"} -> 0

\* Every step of the task but a crash and a restart takes it nearer its end.
BackwardAdvances ==
  [][/\ ScanLeft \in Nat
     /\ backward' # backward /\ "down" \notin {backward.pc, backward'.pc}
          => ScanLeft' < ScanLeft]_vars

NotQueued == {r.id : r \in {o \in rows : ~o.queued}}

\* Every turn of the queueing loop that marks its batch leaves fewer rows for
\* the next find.
QueueingAdvances ==
  [][\A t \in QueueTicks :
       queueing[t].pc = "mark" /\ queueing'[t].pc = "find" /\ faults' = faults
         => NotQueued' \subseteq NotQueued /\ NotQueued' # NotQueued]_vars

LEMMA ScanLeftNat ==
  ASSUME TypeOK
  PROVE  ScanLeft \in Nat
<1>1. /\ ChainLength \in Nat /\ backward.before \in Nat /\ backward.hi \in Nat
      /\ backward.pc \in {"down", "init", "check", "start", "fetch", "insert", "done", "dead"}
  BY ScannerAssumption DEF TypeOK
<1> QED BY <1>1 DEF ScanLeft

LEMMA BackwardStepLeft ==
  ASSUME IInv, InitializeScanner \/ InitializeScannerFails
  PROVE  ScanLeft' < ScanLeft
<1>t. /\ ChainLength \in Nat /\ head \in 0..ChainLength /\ backward.before \in 0..ChainLength
      /\ backward.lo \in 1..(ChainLength + 1) /\ backward.hi \in 0..ChainLength
  BY ScannerAssumption DEF IInv, TypeOK
<1>r. backward \in [pc : {"down", "init", "check", "start", "fetch", "insert", "done", "dead"},
                    before : 0..ChainLength, lo : 1..(ChainLength + 1), hi : 0..ChainLength]
  BY DEF IInv, TypeOK
<1>1. CASE ReadOldest
  <2>1. backward.pc = "init" /\ backward'.pc \in {"start", "check"}
    BY <1>1, <1>r DEF ReadOldest, BackwardStep
  <2> QED BY <1>t, <2>1 DEF ScanLeft
<1>2. CASE CheckGenesisReached
  <2>1. backward.pc = "check" /\ backward'.pc \in {"start", "done"}
    BY <1>2, <1>r DEF CheckGenesisReached, BackwardStep
  <2> QED BY <1>t, <2>1 DEF ScanLeft
<1>3. CASE StartBackwardScan
  <2>1. PICK sig \in OldestTransactionLocal :
          backward' = [backward EXCEPT !.pc = "fetch", !.before = sig]
    BY <1>3 DEF StartBackwardScan, BackwardStep
  <2>2. sig \in 0..ChainLength
    BY <1>t, <2>1 DEF OldestTransactionLocal, IInv, TypeOK, NoSig, Sigs
  <2>3. backward.pc = "start" /\ backward'.pc = "fetch" /\ backward'.before = sig
    BY <1>3, <1>r, <2>1 DEF StartBackwardScan
  <2> QED BY <1>t, <2>2, <2>3 DEF ScanLeft, NoSig
<1>4. CASE FetchBackward
  <2>1. PICK hi \in Nat : hi = IF backward.before = NoSig THEN head ELSE backward.before - 1
    BY <1>t DEF NoSig
  <2>2. /\ backward.pc = "fetch"
        /\ \/ backward'.pc = "done"
           \/ backward'.pc = "insert" /\ backward'.hi = hi
    BY <1>4, <1>r, <2>1 DEF FetchBackward, BackwardStep
  <2> QED BY <1>t, <2>1, <2>2 DEF ScanLeft, NoSig
<1>5. CASE InsertBackward
  <2>1. backward.pc = "insert" /\ backward'.pc = "fetch" /\ backward'.before = backward.lo
    BY <1>5, <1>r DEF InsertBackward, BackwardStep
  <2>2. backward.lo <= backward.hi
    BY <2>1 DEF IInv, BackwardInv
  <2> QED BY <1>t, <2>1, <2>2 DEF ScanLeft, NoSig
<1>6. CASE InitializeScannerFails
  <2>1. backward.pc \in {"init", "start"} /\ backward'.pc = "dead"
    BY <1>6, <1>r DEF InitializeScannerFails, BackwardStep
  <2> QED BY <1>t, <2>1 DEF ScanLeft
<1> QED BY <1>1, <1>2, <1>3, <1>4, <1>5, <1>6 DEF InitializeScanner

(* The backward scan reaches an end between two crashes, however the chain  *)
(* and the collection grow meanwhile: it is begun from a cursor in the      *)
(* chain, and each page moves the cursor nearer to the genesis.             *)
THEOREM BackwardScanEnds == Spec => BackwardAdvances
<1>1. IInv /\ [Next]_vars =>
        [/\ ScanLeft \in Nat
         /\ backward' # backward /\ "down" \notin {backward.pc, backward'.pc}
              => ScanLeft' < ScanLeft]_vars
  <2> SUFFICES ASSUME IInv, Next, backward' # backward, "down" \notin {backward.pc, backward'.pc}
               PROVE  ScanLeft' < ScanLeft
    BY ScanLeftNat DEF IInv
  <2>1. InitializeScanner \/ InitializeScannerFails
    BY DEF Next, Confirm, ScanForwards, StartForwardScan, FetchForward, InsertForward,
           ForwardScanFails, ForwardStep, ProcessUnprocessedTransactions, StartQueueing,
           FindUnprocessed, AddBulk, MarkQueued, QueueTransactionFails, FindFails, QueueStep,
           MarkProcessed, Crash, Restart, StartUp, taskVars
  <2> QED BY <2>1, BackwardStepLeft
<1> QED BY <1>1, IInvAlways, PTL DEF Spec, BackwardAdvances

\* A tick that goes to addBulk has found a row.
BatchFound ==
  \A t \in QueueTicks : queueing[t].pc \in {"addBulk", "mark"} => queueing[t].batch # {}

LEMMA BatchFoundStep == TypeOK /\ BatchFound /\ [Next]_vars => BatchFound'
<1> SUFFICES ASSUME TypeOK, BatchFound, [Next]_vars PROVE BatchFound'
  OBVIOUS
<1>q. /\ DOMAIN queueing = QueueTicks
      /\ queueing = [t \in QueueTicks |-> queueing[t]]
      /\ \A t \in QueueTicks : queueing[t] = [pc |-> queueing[t].pc, batch |-> queueing[t].batch]
  BY DEF TypeOK
<1>1. CASE UNCHANGED queueing
  BY <1>1 DEF BatchFound
<1>2. CASE Crash
  BY <1>2 DEF Crash, BatchFound, IdleQueueing
<1>3. ASSUME NEW t \in QueueTicks, Queueing(t) PROVE BatchFound'
  <2>1. ASSUME NEW to, queueing' = [queueing EXCEPT ![t] = to],
               to.pc \in {"addBulk", "mark"} => to.batch # {}
        PROVE  BatchFound'
    BY <1>q, <2>1 DEF BatchFound
  <2>2. CASE StartQueueing(t) \/ MarkQueued(t) \/ QueueTransactionFails(t) \/ FindFails(t)
    BY <2>1, <2>2 DEF StartQueueing, MarkQueued, QueueTransactionFails, FindFails, QueueStep,
                      IdleQueueing
  <2>3. CASE FindUnprocessed(t)
    <3>1. CASE Unqueued = {}
      BY <2>1, <2>3, <3>1 DEF FindUnprocessed, QueueStep, IdleQueueing
    <3>2. CASE Unqueued # {}
      <4>1. PICK b \in FirstBatches : queueing' = [queueing EXCEPT ![t] = [pc |-> "addBulk", batch |-> b]]
        BY <2>3, <3>2 DEF FindUnprocessed, QueueStep
      <4>2. b # {}
        BY <3>2, <4>1, FS_EmptySet, ScannerAssumption DEF FirstBatches
      <4> QED BY <2>1, <4>1, <4>2
    <3> QED BY <3>1, <3>2
  <2>4. CASE AddBulk(t)
    <3>1. /\ queueing' = [queueing EXCEPT ![t] = [queueing[t] EXCEPT !.pc = "mark"]]
          /\ queueing[t].pc = "addBulk"
      BY <2>4 DEF AddBulk, QueueStep
    <3>2. [queueing[t] EXCEPT !.pc = "mark"].batch = queueing[t].batch
      BY <1>q
    <3> QED BY <2>1, <3>1, <3>2 DEF BatchFound
  <2> QED BY <1>3, <2>2, <2>3, <2>4 DEF Queueing, ProcessUnprocessedTransactions
<1> QED BY <1>1, <1>2, <1>3, StepKinds DEF Unread, Insert, MarkProcessed, taskVars

LEMMA MarkedBatch ==
  ASSUME BatchInv, BatchFound, NEW t \in QueueTicks, MarkQueued(t), rows \subseteq Row
  PROVE  NotQueued' \subseteq NotQueued /\ NotQueued' # NotQueued
<1> DEFINE ids == {r.id : r \in queueing[t].batch}
           Mark(r) == IF r.id \in ids THEN [r EXCEPT !.queued = TRUE] ELSE r
<1>1. rows' = {Mark(r) : r \in rows} /\ queueing[t].pc = "mark"
  BY DEF MarkQueued
<1>2. \A r \in rows : /\ Mark(r).id = r.id
                      /\ ~Mark(r).queued => ~r.queued /\ r.id \notin ids
  <2> HIDE DEF ids
  <2> QED BY DEF Row
<1>3. PICK b \in queueing[t].batch : \E r \in rows : r.id = b.id /\ ~r.queued
  BY <1>1 DEF BatchInv, BatchFound
<1>4. b.id \in ids
  OBVIOUS
<1> HIDE DEF Mark, ids
<1>5. ASSUME NEW i \in NotQueued' PROVE i \in NotQueued /\ i \notin ids
  <2>1. PICK o \in rows' : ~o.queued /\ i = o.id
    BY <1>5 DEF NotQueued
  <2>2. PICK r \in rows : o = Mark(r)
    BY <1>1, <2>1
  <2> QED BY <1>2, <2>1, <2>2 DEF NotQueued
<1>6. b.id \in NotQueued
  BY <1>3 DEF NotQueued
<1> QED BY <1>4, <1>5, <1>6

(* The loop of processUnprocessedTransactions does not turn without end on  *)
(* the same rows: what it marks was not marked before, whatever is scanned, *)
(* processed or restarted beside it.                                        *)
THEOREM QueueingProgress == Spec => QueueingAdvances
<1>1. Init => BatchFound
  BY DEF Init, BatchFound, IdleQueueing
<1>2. IInv /\ BatchFound /\ [Next]_vars => BatchFound'
  BY BatchFoundStep DEF IInv
<1>3. IInv /\ QueueInv /\ BatchFound /\ [Next]_vars =>
        [\A t \in QueueTicks :
           queueing[t].pc = "mark" /\ queueing'[t].pc = "find" /\ faults' = faults
             => NotQueued' \subseteq NotQueued /\ NotQueued' # NotQueued]_vars
  <2> SUFFICES ASSUME IInv, QueueInv, BatchFound, Next, NEW t \in QueueTicks,
                      queueing[t].pc = "mark", queueing'[t].pc = "find", faults' = faults
               PROVE  NotQueued' \subseteq NotQueued /\ NotQueued' # NotQueued
    OBVIOUS
  <2>1. TypeOK /\ rows \subseteq Row /\ faults \in Nat /\ DOMAIN queueing = QueueTicks
    <3>1. TypeOK
      BY DEF IInv
    <3>2. rows \subseteq Row
      BY <3>1 DEF TypeOK, Row
    <3>3. faults \in Nat
      BY <3>1, ScannerAssumption DEF TypeOK
    <3>4. DOMAIN queueing = QueueTicks
      BY <3>1 DEF TypeOK
    <3> QED BY <3>1, <3>2, <3>3, <3>4
  <2>2. ~Fault
    BY <2>1 DEF Fault
  <2>3. ASSUME NEW u \in QueueTicks, Queueing(u) PROVE u = t /\ MarkQueued(t)
    <3>1. \E to : queueing' = [queueing EXCEPT ![u] = to]
      BY <2>3 DEF Queueing, ProcessUnprocessedTransactions, StartQueueing, FindUnprocessed,
         AddBulk, MarkQueued, QueueTransactionFails, FindFails, QueueStep
    <3>2. u = t
      BY <2>1, <3>1
    <3> QED BY <2>2, <2>3, <3>2 DEF Queueing, ProcessUnprocessedTransactions, StartQueueing,
         FindUnprocessed, AddBulk, QueueTransactionFails, FindFails
  <2>4. ~ (Unread \/ Insert \/ MarkProcessed \/ Crash)
    BY <2>2 DEF Unread, Insert, MarkProcessed, Crash, taskVars
  <2>5. \E u \in QueueTicks : Queueing(u)
    BY <2>1, <2>4, StepKinds
  <2>6. MarkQueued(t)
    BY <2>3, <2>5
  <2> QED BY <2>1, <2>6, MarkedBatch DEF QueueInv, LBInv
<1> QED BY <1>1, <1>2, <1>3, IInvAlways, QueueInvAlways, PTL DEF Spec, QueueingAdvances
=============================================================================
