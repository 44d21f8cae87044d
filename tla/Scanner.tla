------------------------------ MODULE Scanner ------------------------------
(***************************************************************************)
(* ScannerService (src/modules/indexer/scanner/scanner.service.ts): three  *)
(* background activities over one MongoDB collection (TransactionEvent)    *)
(* and one BullMQ queue.                                                   *)
(*   - the backward scan walks the program's signatures to its genesis;    *)
(*   - scanForwards, a cron job, fetches what is newer than the newest     *)
(*     stored signature; cron ticks overlap when one takes over 5 seconds; *)
(*   - processUnprocessedTransactions, a cron job, queues stored rows.     *)
(* The module models the wiring the TODOs at lines 42, 44, 137, 197 name   *)
(* for production: the start-up scan and both crons run.                   *)
(*                                                                         *)
(* A signature is its position 1..ChainLength in the program's history;    *)
(* Slot gives the block it is in and Failed the signatures with err # null.*)
(* An insertMany is one step (MongoDB writes a batch in bulk), which may   *)
(* store only a part of the batch when the server reports errors.          *)
(***************************************************************************)
EXTENDS Integers, FiniteSets

CONSTANTS
  ChainLength,    \* signatures the program will ever have (bound)
  Slot,           \* Slot[p]: the block of signature p
  Failed,         \* signatures whose transaction failed on chain
  Signature,      \* Signature[p]: the signature the job of p works on
  BackwardLimit,  \* SCAN_LIMITS.BACKWARD
  ForwardLimit,   \* SCAN_LIMITS.FORWARD
  BatchSize,      \* batchSize of processUnprocessedTransactions
  ScanTicks,      \* overlapping ticks of the scanForwards cron
  QueueTicks,     \* overlapping ticks of the processUnprocessed... cron
  MaxFaults       \* crashes, RPC errors and database errors (bound)

Sigs  == 1..ChainLength
NoSig == 0        \* an undefined `before` or `until`

ASSUME ScannerAssumption ==
  /\ ChainLength \in Nat
  /\ Slot \in [Sigs -> Nat]
  /\ \A p, q \in Sigs : p <= q => Slot[p] <= Slot[q]
  /\ Failed \subseteq Sigs
  /\ Signature \in [Sigs -> Nat]
  /\ BackwardLimit \in Nat \ {0}
  /\ ForwardLimit \in Nat \ {0}
  /\ BatchSize \in Nat \ {0}
  /\ MaxFaults \in Nat

VARIABLES
  head,       \* number of confirmed signatures on chain
  rows,       \* the TransactionEvent collection
  lastId,     \* the last ObjectId allocated
  jobs,       \* every job ever added to the transaction queue
  bulks,      \* number of addBulk calls
  backward,   \* the start-up task: checkGenesisReached, runBackwardScan
  forward,    \* forward[t]: tick t of scanForwards
  queueing,   \* queueing[t]: tick t of processUnprocessedTransactions
  state,      \* the service's in-memory flags
  faults,     \* faults so far
  lost,       \* history: signatures an insertMany did not store
  skipped     \* history: signatures older than a full forward page

chainVars == <<head>>
dbVars    == <<rows, lastId, lost>>
queueVars == <<jobs, bulks>>
taskVars  == <<backward, forward, queueing, state>>
vars == <<head, rows, lastId, jobs, bulks, backward, forward, queueing,
          state, faults, lost, skipped>>

IdleForward  == [pc |-> "idle", until |-> NoSig, lo |-> 1, hi |-> 0]
IdleQueueing == [pc |-> "idle", batch |-> {}]
StartUp      == [pc |-> "init", before |-> NoSig, lo |-> 1, hi |-> 0]
ResetFlags   == [isBackwardScanComplete |-> FALSE, isProcessingQueue |-> FALSE]

Init ==
  /\ head = 0 /\ rows = {} /\ lastId = 0
  /\ jobs = {} /\ bulks = 0
  /\ backward = StartUp
  /\ forward = [t \in ScanTicks |-> IdleForward]
  /\ queueing = [t \in QueueTicks |-> IdleQueueing]
  /\ state = ResetFlags
  /\ faults = 0 /\ lost = {} /\ skipped = {}

----------------------------------------------------------------------------
(* Helpers *)

Stored == {r.sig : r \in rows}

\* sort({ blockNumber: 1, _id: 1 }); an _id is larger the later it was created.
Older(r, s) ==
  \/ Slot[r.sig] < Slot[s.sig]
  \/ Slot[r.sig] = Slot[s.sig] /\ r.id < s.id

\* findOne(...).sort(...): the possible answers, {NoSig} on an empty collection.
OldestTransactionLocal ==
  IF rows = {} THEN {NoSig}
  ELSE {r.sig : r \in {o \in rows : \A s \in rows : ~Older(s, o)}}

NewestTransactionLocal ==
  IF rows = {} THEN {NoSig}
  ELSE {r.sig : r \in {n \in rows : \A s \in rows : ~Older(n, s)}}

Max2(a, b) == IF a > b THEN a ELSE b

\* First position of a page: getSignaturesForAddress answers with the `limit`
\* newest signatures of after+1 .. hi.
PageStart(after, hi, limit) == Max2(after + 1, hi - limit + 1)

Fault == faults < MaxFaults /\ faults' = faults + 1

NoFault == faults' = faults

\* Mutant: the err filter is missing.
InsertBatch_NoFilter(lo, hi) ==
  /\ NoFault
  /\ rows' = rows \cup {[id |-> lastId + 1 + (p - lo), sig |-> p,
                         queued |-> FALSE, processed |-> FALSE] : p \in lo..hi}
  /\ lastId' = lastId + (hi - lo + 1)
  /\ UNCHANGED lost

\* insertBatchTransactionEvent(lo..hi, oldest first): failed transactions are
\* filtered out, and every error of insertMany is caught and logged.
InsertBatchTransactionEvent(lo, hi) ==
  \E stored \in SUBSET ((lo..hi) \ Failed) :
    /\ IF stored = (lo..hi) \ Failed THEN NoFault ELSE Fault
    /\ rows' = rows \cup
         {[id |-> lastId + 1 + (p - lo), sig |-> p,
           queued |-> FALSE, processed |-> FALSE] : p \in stored}
    /\ lastId' = IF stored = {} THEN lastId ELSE lastId + (hi - lo + 1)
    /\ lost' = lost \cup ((lo..hi) \ (Failed \cup stored))

----------------------------------------------------------------------------
(* The chain: one more signature is confirmed. *)

Confirm ==
  /\ head < ChainLength
  /\ head' = head + 1
  /\ UNCHANGED <<dbVars, queueVars, taskVars, faults, skipped>>

----------------------------------------------------------------------------
(* initializeScanner: checkGenesisReached, then runBackwardScan *)

BackwardStep(to) ==
  /\ backward' = to
  /\ UNCHANGED <<head, queueVars, forward, queueing, skipped>>

\* checkGenesisReached reads the oldest row; none: not reached.
ReadOldest ==
  /\ backward.pc = "init"
  /\ \E sig \in OldestTransactionLocal :
       BackwardStep([backward EXCEPT
         !.pc = IF sig = NoSig THEN "start" ELSE "check", !.before = sig])
  /\ NoFault /\ UNCHANGED <<dbVars, state>>

\* Are there signatures before the oldest row? An RPC error counts as "yes".
CheckGenesisReached ==
  /\ backward.pc = "check"
  /\ \/ /\ backward.before > 1 /\ NoFault
        /\ BackwardStep([backward EXCEPT !.pc = "start"])
        /\ UNCHANGED state
     \/ /\ backward.before = 1 /\ NoFault
        /\ BackwardStep([backward EXCEPT !.pc = "done"])
        /\ state' = [state EXCEPT !.isBackwardScanComplete = TRUE]
     \/ /\ Fault
        /\ BackwardStep([backward EXCEPT !.pc = "start"])
        /\ UNCHANGED state
  /\ UNCHANGED dbVars

\* runBackwardScan reads its first cursor again.
StartBackwardScan ==
  /\ backward.pc = "start"
  /\ \E sig \in OldestTransactionLocal :
       BackwardStep([backward EXCEPT !.pc = "fetch", !.before = sig])
  /\ NoFault /\ UNCHANGED <<dbVars, state>>

\* The two reads above are outside every try but initializeScanner's own:
\* a database error ends the start-up task for good.
InitializeScannerFails ==
  /\ backward.pc \in {"init", "start"}
  /\ Fault
  /\ BackwardStep([backward EXCEPT !.pc = "dead"])
  /\ UNCHANGED <<dbVars, state>>

\* Mutant: a page that is not full is taken for the genesis and not stored.
FetchBackward_ShortPage ==
  /\ backward.pc = "fetch"
  /\ LET hi == IF backward.before = NoSig THEN head ELSE backward.before - 1
     IN IF hi < BackwardLimit
        THEN /\ BackwardStep([backward EXCEPT !.pc = "done"])
             /\ state' = [state EXCEPT !.isBackwardScanComplete = TRUE]
        ELSE /\ BackwardStep([backward EXCEPT !.pc = "insert", !.hi = hi,
                               !.lo = PageStart(0, hi, BackwardLimit)])
             /\ UNCHANGED state
  /\ NoFault /\ UNCHANGED dbVars

\* One page before the cursor; none left: genesis. (An RPC error is retried
\* from the same cursor after a sleep: a stuttering step.)
FetchBackward ==
  /\ backward.pc = "fetch"
  /\ LET hi == IF backward.before = NoSig THEN head ELSE backward.before - 1
     IN IF hi = 0
        THEN /\ BackwardStep([backward EXCEPT !.pc = "done"])
             /\ state' = [state EXCEPT !.isBackwardScanComplete = TRUE]
        ELSE /\ BackwardStep([backward EXCEPT !.pc = "insert", !.hi = hi,
                               !.lo = PageStart(0, hi, BackwardLimit)])
             /\ UNCHANGED state
  /\ NoFault /\ UNCHANGED dbVars

\* Mutant: `before` is taken to be inclusive.
InsertBackward_OffByOne ==
  /\ backward.pc = "insert"
  /\ InsertBatchTransactionEvent(backward.lo, backward.hi)
  /\ BackwardStep([backward EXCEPT !.pc = "fetch", !.before = Max2(1, backward.lo - 1)])
  /\ UNCHANGED state

\* Store the page, then move the cursor to its oldest signature.
InsertBackward ==
  /\ backward.pc = "insert"
  /\ InsertBatchTransactionEvent(backward.lo, backward.hi)
  /\ BackwardStep([backward EXCEPT !.pc = "fetch", !.before = backward.lo])
  /\ UNCHANGED state

InitializeScanner ==
  \/ ReadOldest \/ CheckGenesisReached \/ StartBackwardScan
  \/ FetchBackward \/ InsertBackward

----------------------------------------------------------------------------
(* scanForwards *)

ForwardStep(t, to) ==
  /\ forward' = [forward EXCEPT ![t] = to]
  /\ UNCHANGED <<head, queueVars, backward, queueing, state>>

\* A tick that finds an empty collection returns at once.
StartForwardScan(t) ==
  /\ forward[t].pc = "idle"
  /\ backward.pc # "down"
  /\ \E sig \in NewestTransactionLocal :
       /\ sig # NoSig
       /\ ForwardStep(t, [IdleForward EXCEPT !.pc = "fetch", !.until = sig])
  /\ NoFault /\ UNCHANGED <<dbVars, skipped>>

\* The newest ForwardLimit signatures after `until`; a larger gap leaves the
\* older ones out of the page.
FetchForward(t) ==
  /\ forward[t].pc = "fetch"
  /\ LET until == forward[t].until
         lo == PageStart(until, head, ForwardLimit)
     IN /\ ForwardStep(t, IF head > until
                          THEN [pc |-> "insert", until |-> until, lo |-> lo, hi |-> head]
                          ELSE IdleForward)
        /\ skipped' = skipped \cup ((until + 1)..(lo - 1))
  /\ NoFault /\ UNCHANGED dbVars

InsertForward(t) ==
  /\ forward[t].pc = "insert"
  /\ InsertBatchTransactionEvent(forward[t].lo, forward[t].hi)
  /\ ForwardStep(t, IdleForward)
  /\ UNCHANGED skipped

\* The RPC call throws: the tick logs it and ends.
ForwardScanFails(t) ==
  /\ forward[t].pc = "fetch"
  /\ Fault
  /\ ForwardStep(t, IdleForward)
  /\ UNCHANGED <<dbVars, skipped>>

ScanForwards(t) == StartForwardScan(t) \/ FetchForward(t) \/ InsertForward(t)

----------------------------------------------------------------------------
(* processUnprocessedTransactions and queueTransactionForProcessing *)

QueueStep(t, to) ==
  /\ queueing' = [queueing EXCEPT ![t] = to]
  /\ UNCHANGED <<head, backward, forward, lastId, lost, skipped>>

\* Mutant: a tick does not look at isProcessingQueue.
StartQueueing_NoLock(t) ==
  /\ queueing[t].pc = "idle"
  /\ state.isBackwardScanComplete
  /\ QueueStep(t, [IdleQueueing EXCEPT !.pc = "find"])
  /\ state' = [state EXCEPT !.isProcessingQueue = TRUE]
  /\ NoFault /\ UNCHANGED <<rows, queueVars>>

\* Mutant: queueing does not wait for the backward scan.
StartQueueing_Early(t) ==
  /\ queueing[t].pc = "idle"
  /\ ~state.isProcessingQueue
  /\ QueueStep(t, [IdleQueueing EXCEPT !.pc = "find"])
  /\ state' = [state EXCEPT !.isProcessingQueue = TRUE]
  /\ NoFault /\ UNCHANGED <<rows, queueVars>>

\* Both flags are tested and isProcessingQueue is set with no await between.
StartQueueing(t) ==
  /\ queueing[t].pc = "idle"
  /\ state.isBackwardScanComplete
  /\ ~state.isProcessingQueue
  /\ QueueStep(t, [IdleQueueing EXCEPT !.pc = "find"])
  /\ state' = [state EXCEPT !.isProcessingQueue = TRUE]
  /\ NoFault /\ UNCHANGED <<rows, queueVars>>

Unqueued == {r \in rows : ~r.processed /\ ~r.queued}

\* find(...).sort({ blockNumber: 1, _id: 1 }).limit(batchSize)
FirstBatches ==
  {b \in SUBSET Unqueued :
     /\ \/ b = Unqueued /\ Cardinality(b) <= BatchSize
        \/ Cardinality(b) = BatchSize
     /\ \A r \in b, s \in Unqueued \ b : Older(r, s)}

\* Mutant: the last, empty read does not clear isProcessingQueue.
FindUnprocessed_KeepsLock(t) ==
  /\ queueing[t].pc = "find"
  /\ IF Unqueued = {}
     THEN QueueStep(t, IdleQueueing)
     ELSE \E b \in FirstBatches : QueueStep(t, [pc |-> "addBulk", batch |-> b])
  /\ NoFault /\ UNCHANGED <<rows, queueVars, state>>

FindUnprocessed(t) ==
  /\ queueing[t].pc = "find"
  /\ IF Unqueued = {}
     THEN /\ QueueStep(t, IdleQueueing)
          /\ state' = [state EXCEPT !.isProcessingQueue = FALSE]
     ELSE /\ \E b \in FirstBatches : QueueStep(t, [pc |-> "addBulk", batch |-> b])
          /\ UNCHANGED state
  /\ NoFault /\ UNCHANGED <<rows, queueVars>>

\* One job per row, in the order of the sort; addBulk is one Redis transaction.
AddBulk(t) ==
  /\ queueing[t].pc = "addBulk"
  /\ bulks' = bulks + 1
  /\ jobs' = jobs \cup
       {[bulk |-> bulks', id |-> r.id, sig |-> r.sig] : r \in queueing[t].batch}
  /\ QueueStep(t, [queueing[t] EXCEPT !.pc = "mark"])
  /\ NoFault /\ UNCHANGED <<rows, state>>

\* updateMany({ _id: { $in } }, { queued: true }), then the loop goes on.
MarkQueued(t) ==
  /\ queueing[t].pc = "mark"
  /\ LET ids == {r.id : r \in queueing[t].batch}
     IN rows' = {IF r.id \in ids THEN [r EXCEPT !.queued = TRUE] ELSE r : r \in rows}
  /\ QueueStep(t, [IdleQueueing EXCEPT !.pc = "find"])
  /\ NoFault /\ UNCHANGED <<queueVars, state>>

\* Mutant: an error of addBulk alone is caught, and the rows are marked.
QueueTransactionFails_Marks(t) ==
  /\ queueing[t].pc \in {"addBulk", "mark"}
  /\ Fault
  /\ QueueStep(t, IF queueing[t].pc = "addBulk"
                  THEN [queueing[t] EXCEPT !.pc = "mark"]
                  ELSE [IdleQueueing EXCEPT !.pc = "find"])
  /\ UNCHANGED <<rows, queueVars, state>>

\* addBulk or updateMany throws: caught in queueTransactionForProcessing, and
\* the loop reads again.
QueueTransactionFails(t) ==
  /\ queueing[t].pc \in {"addBulk", "mark"}
  /\ Fault
  /\ QueueStep(t, [IdleQueueing EXCEPT !.pc = "find"])
  /\ UNCHANGED <<rows, queueVars, state>>

\* find throws: caught in processUnprocessedTransactions, whose finally clears
\* the flag.
FindFails(t) ==
  /\ queueing[t].pc = "find"
  /\ Fault
  /\ QueueStep(t, IdleQueueing)
  /\ state' = [state EXCEPT !.isProcessingQueue = FALSE]
  /\ UNCHANGED <<rows, queueVars>>

ProcessUnprocessedTransactions(t) ==
  \/ StartQueueing(t) \/ FindUnprocessed(t) \/ AddBulk(t) \/ MarkQueued(t)

----------------------------------------------------------------------------
(* The rest of the process *)

\* TransactionProcessor finishes a job: updateOne({ signature }, ...) marks the
\* first row with the signature the job works on, the one created first. The
\* job's own signature is commented out (line 47) for a fixed one (line 57):
\* the row of that one is marked by the run of any job, queued or not.
MarkProcessed ==
  /\ backward.pc # "down"
  /\ \E j \in jobs : \E r \in rows :
       /\ r.sig = Signature[j.sig] /\ ~r.processed
       /\ \A s \in rows : s.sig = r.sig => r.id <= s.id
       /\ rows' = (rows \ {r}) \cup {[r EXCEPT !.processed = TRUE]}
  /\ UNCHANGED <<head, lastId, lost, queueVars, taskVars, faults, skipped>>

\* The process dies: every task and flag is gone, MongoDB and Redis stay.
Crash ==
  /\ backward.pc # "down"
  /\ Fault
  /\ backward' = [StartUp EXCEPT !.pc = "down"]
  /\ forward' = [t \in ScanTicks |-> IdleForward]
  /\ queueing' = [t \in QueueTicks |-> IdleQueueing]
  /\ state' = ResetFlags
  /\ UNCHANGED <<head, dbVars, queueVars, skipped>>

Restart ==
  /\ backward.pc = "down"
  /\ backward' = StartUp
  /\ UNCHANGED <<head, dbVars, queueVars, forward, queueing, state, faults, skipped>>

Next ==
  \/ Confirm
  \/ InitializeScanner \/ InitializeScannerFails
  \/ \E t \in ScanTicks : ScanForwards(t) \/ ForwardScanFails(t)
  \/ \E t \in QueueTicks :
       ProcessUnprocessedTransactions(t) \/ QueueTransactionFails(t) \/ FindFails(t)
  \/ MarkProcessed \/ Crash \/ Restart

Spec == Init /\ [][Next]_vars

\* The event loop runs every task that can go on and the crons tick for ever;
\* faults are finitely many, so no retry fails for ever.
Fairness ==
  /\ WF_vars(InitializeScanner)
  /\ \A t \in ScanTicks : WF_vars(ScanForwards(t))
  /\ \A t \in QueueTicks : WF_vars(ProcessUnprocessedTransactions(t))
  /\ WF_vars(Restart)

FairSpec == Spec /\ Fairness

----------------------------------------------------------------------------
(* Properties *)

TypeOK ==
  /\ head \in 0..ChainLength
  /\ rows \subseteq [id : 1..lastId, sig : Sigs \ Failed,
                     queued : BOOLEAN, processed : BOOLEAN]
  /\ lastId \in Nat /\ bulks \in Nat /\ faults \in 0..MaxFaults
  /\ jobs \subseteq [bulk : 1..bulks, id : 1..lastId, sig : Sigs \ Failed]
  /\ backward \in [pc : {"down", "init", "check", "start", "fetch", "insert", "done", "dead"},
                   before : 0..ChainLength, lo : 1..(ChainLength + 1), hi : 0..ChainLength]
  /\ forward \in [ScanTicks -> [pc : {"idle", "fetch", "insert"},
                   until : 0..ChainLength, lo : 1..(ChainLength + 1), hi : 0..ChainLength]]
  /\ queueing \in [QueueTicks -> [pc : {"idle", "find", "addBulk", "mark"},
                   batch : SUBSET [id : 1..lastId, sig : Sigs \ Failed,
                                   queued : {FALSE}, processed : {FALSE}]]]
  /\ state \in [isBackwardScanComplete : BOOLEAN, isProcessingQueue : BOOLEAN]
  /\ lost \subseteq Sigs /\ skipped \subseteq Sigs

\* A signature is in the collection, or never will be for a known reason: it
\* failed on chain, an insertMany lost it, or it fell off a forward page.
Accounted(p) == p \in Stored \cup Failed \cup lost \cup skipped

\* Between two stored signatures nothing is missing, whatever pages the
\* backward scan and the overlapping forward scans fetched from stale cursors
\* and in whatever order they were stored, restarts included.
NoGap == \A p, q \in Stored : \A x \in p..q : Accounted(x)

\* Once isBackwardScanComplete is set, the collection reaches down to the
\* genesis: everything older than any stored signature is accounted for.
HistoryComplete ==
  state.isBackwardScanComplete => \A q \in Stored : \A x \in 1..q : Accounted(x)

\* A row marked queued has a job: the mark is written after addBulk, so no
\* crash or error between the two loses a transaction.
QueuedHasJob == \A r \in rows : r.queued => \E j \in jobs : j.id = r.id

\* A row is queued once, but for one more job per fault: the overlapping cron
\* ticks never queue the same row twice.
QueuedOncePerFault ==
  \A r \in rows : Cardinality({j \in jobs : j.id = r.id}) <= 1 + faults

\* A row of p was marked by the run of another transaction's job before it had
\* one of its own: the find of processUnprocessedTransactions passes over it.
PassedOver(p) ==
  \E r \in rows : r.sig = p /\ r.processed /\ ~\E k \in jobs : k.id = r.id

Before(i, j) ==
  \/ i.bulk < j.bulk
  \/ i.bulk = j.bulk /\ Older(i, j)

\* "Processing unprocessed transactions in slot order" (line 209): a
\* transaction's first job comes before the jobs of every later block, over
\* all addBulk calls, restarts included, unless its first row was passed over
\* and only a second one is queued.
SlotOrder ==
  \A i, j \in jobs :
    Before(i, j) /\ Slot[j.sig] < Slot[i.sig]
      => \/ j.sig \in lost \cup skipped \/ PassedOver(j.sig)
         \/ \E k \in jobs : k.sig = j.sig /\ Before(k, i)

\* Once the collection is not empty, every signature that did not fail is
\* eventually stored (or lost, or skipped), unless the start-up task died.
EventuallyStored ==
  \A p \in Sigs : (head >= p /\ rows # {}) ~> (Accounted(p) \/ backward.pc = "dead")

\* Every stored signature eventually gets a job, unless its row is passed over
\* or the start-up task died.
EventuallyQueued ==
  \A p \in Sigs : (p \in Stored) ~>
    ((\E j \in jobs : j.sig = p) \/ PassedOver(p) \/ backward.pc = "dead")

\* "Bulk insert, ignore duplicates" (line 183): no signature is stored twice.
UniqueSignatures == \A r, s \in rows : r.sig = s.sig => r = s
=============================================================================
