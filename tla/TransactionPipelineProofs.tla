--------------------- MODULE TransactionPipelineProofs ---------------------
(***************************************************************************)
(* Theorems about TransactionPipeline, for any transactions, any number of *)
(* jobs that look at them and any attempts, stalls and faults.             *)
(*                                                                         *)
(* The inductive invariant: QueueInv counts the runs of a job, so that     *)
(* none is begun that the queue does not allow; RunInv says that a run at  *)
(* some instruction has left those in front of it in a queue or aside,     *)
(* which RoutedInOrder and ProcessedMeansRouted rest on.  CopyInv says     *)
(* that every copy of an instruction has a run of its own past it.         *)
(***************************************************************************)
EXTENDS TransactionPipeline, TransactionParser, DataInduction, TLAPS

QueueType ==
  /\ status \in [Jobs -> Settled \cup {"waiting", "active"}]
  /\ failures \in [Jobs -> 0..Attempts]
  /\ stalls \in [Jobs -> 0..(MaxStalls + 1)]
  /\ begun \in [Jobs -> {0} \cup Runs]

Counted == \A j \in Jobs :
  /\ status[j] \notin Settled => failures[j] < Attempts /\ stalls[j] <= MaxStalls
  /\ status[j] = "waiting" => begun[j] = failures[j] + stalls[j]
  /\ status[j] = "active" => begun[j] = failures[j] + stalls[j] + 1

QueueInv == QueueType /\ Counted

RunType ==
  /\ pc \in [Jobs -> [Runs -> {"idle", "fetch", "route", "dlq", "mark"}]]
  /\ at \in [Jobs -> [Runs -> Nat \ {0}]]

CopiesType ==
  /\ DOMAIN copies = Txs
  /\ \A t \in Txs : copies[t] \in [Routable(t) -> Nat]

DlqType == dlq \subseteq Items /\ dlqWaiting \subseteq dlq /\ dlqEvents \subseteq dlq

RowType == processed \subseteq Jobs /\ unfound \subseteq Jobs /\ faults \in 0..MaxFaults

AtRoutable == \A j \in Jobs, n \in Runs :
  pc[j][n] \in {"route", "dlq"} => at[j][n] \in Routable(Tx(j))

\* All instructions of j's transaction in front of i are covered.
CoveredBefore(j, i) == \A m \in Routable(Tx(j)) : m < i => Covered(Tx(j), m)

LeftCovered == \A j \in Jobs, n \in Runs :
  /\ pc[j][n] \in {"route", "dlq", "mark"} => CoveredBefore(j, at[j][n])
  /\ pc[j][n] = "mark" => at[j][n] = End(Tx(j))

Types == QueueInv /\ RunType /\ CopiesType /\ DlqType /\ RowType /\ AtRoutable

IInv ==
  /\ Types /\ LeftCovered /\ RoutedInOrder
  /\ ProcessedMeansRouted /\ CompletedAccounted
-----------------------------------------------------------------------------
LEMMA Bounds == Attempts \in Nat \ {0} /\ MaxStalls \in Nat /\ MaxFaults \in Nat
BY TransactionPipelineAssumption

\* What QueueInv says about one job, in plain numbers.
LEMMA JobNumbers ==
  ASSUME QueueInv, NEW j \in Jobs
  PROVE  /\ failures[j] \in Int /\ stalls[j] \in Int /\ begun[j] \in Int
         /\ 0 <= failures[j] /\ failures[j] <= Attempts
         /\ 0 <= stalls[j] /\ stalls[j] <= MaxStalls + 1
         /\ 0 <= begun[j] /\ begun[j] <= Attempts + MaxStalls
<1>1. failures[j] \in 0..Attempts /\ stalls[j] \in 0..(MaxStalls + 1) /\ begun[j] \in {0} \cup Runs
  BY DEF QueueInv, QueueType
<1> QED
  BY <1>1, Bounds DEF Runs

LEMMA SequenceType ==
  ASSUME NEW t \in Txs
  PROVE  /\ Len(Instructions[t]) \in Nat
         /\ Routable(t) \subseteq 1..Len(Instructions[t])
         /\ End(t) \in Nat \ {0}
BY TransactionPipelineAssumption DEF Routable, End

LEMMA ItemType ==
  ASSUME NEW t \in Txs, NEW i \in Routable(t)
  PROVE  <<t, i>> \in Items
BY DEF Items

LEMMA InitIInv == Init => IInv
<1> SUFFICES ASSUME Init PROVE IInv
    OBVIOUS
<1> USE TransactionPipelineAssumption DEF Init
<1>1. QueueInv
  BY DEF QueueInv, QueueType, Counted, Settled
<1>2. RunType /\ DlqType /\ RowType /\ AtRoutable /\ LeftCovered
  BY DEF RunType, DlqType, RowType, AtRoutable, LeftCovered
<1>3. CopiesType
  BY DEF CopiesType
<1>4. RoutedInOrder
  BY DEF RoutedInOrder, Covered
<1>5. ProcessedMeansRouted /\ CompletedAccounted
  BY DEF ProcessedMeansRouted, CompletedAccounted
<1> QED
  BY <1>1, <1>2, <1>3, <1>4, <1>5 DEF IInv, Types
-----------------------------------------------------------------------------
(* The queue *)

LEMMA TakeQueue ==
  ASSUME Types, NEW j \in Jobs, Take(j)
  PROVE  QueueInv' /\ RunType'
<1> USE Bounds, JobNumbers DEF Take, Types, QueueInv
<1>1. begun[j] + 1 \in Runs
  <2>1. begun[j] = failures[j] + stalls[j] /\ failures[j] < Attempts /\ stalls[j] <= MaxStalls
    BY DEF Counted, Settled
  <2> QED
    BY <2>1 DEF Runs
<1>2. QueueType' /\ RunType'
  BY <1>1 DEF QueueType, RunType
<1>3. Counted'
  BY DEF Counted, QueueType, Settled
<1> QED
  BY <1>2, <1>3

LEMMA CompleteQueue ==
  ASSUME Types, NEW j \in Jobs, NEW n \in Runs, Complete(j, n)
  PROVE  QueueInv' /\ RunType'
<1> USE Bounds, JobNumbers DEF Complete, Report, HoldsLock, Types, QueueInv
<1>1. RunType'
  BY DEF RunType
<1>2. QueueType'
  <2>1. failures[j] + 0 = failures[j]
    OBVIOUS
  <2>2. failures' = failures
    BY <2>1 DEF QueueType
  <2> QED
    BY <2>2 DEF QueueType, Settled
<1>3. Counted'
  BY DEF Counted, QueueType, Settled
<1> QED
  BY <1>1, <1>2, <1>3

LEMMA ThrowQueue ==
  ASSUME Types, NEW j \in Jobs, NEW n \in Runs, Throw(j, n)
  PROVE  QueueInv' /\ RunType'
<1> USE Bounds, JobNumbers DEF Throw, Report, Types, QueueInv
<1>1. RunType'
  BY DEF RunType
<1>2. CASE HoldsLock(j, n)
  <2>1. failures[j] < Attempts /\ begun[j] = failures[j] + stalls[j] + 1
    BY <1>2 DEF HoldsLock, Counted, Settled
  <2>2. failures[j] + 1 \in 0..Attempts
    BY <2>1
  <2>3. QueueType'
    BY <1>2, <2>2 DEF QueueType, Settled
  <2>4. Counted'
    BY <1>2, <2>1 DEF Counted, QueueType, Settled, HoldsLock
  <2> QED
    BY <1>1, <2>3, <2>4
<1>3. CASE ~HoldsLock(j, n)
  BY <1>1, <1>3 DEF QueueType, Counted
<1> QED
  BY <1>2, <1>3

LEMMA StallQueue ==
  ASSUME Types, NEW j \in Jobs, Stall(j)
  PROVE  QueueInv' /\ RunType'
<1> USE Bounds, JobNumbers DEF Stall, AfterStall, Types, QueueInv
<1>1. RunType'
  BY DEF RunType
<1>2. /\ failures[j] < Attempts /\ stalls[j] <= MaxStalls
      /\ begun[j] = failures[j] + stalls[j] + 1
  BY DEF Counted, Settled
<1>3. stalls[j] + 1 \in 0..(MaxStalls + 1)
  BY <1>2
<1>4. QueueType'
  BY <1>3 DEF QueueType, Settled
<1>5. Counted'
  BY <1>2 DEF Counted, QueueType, Settled
<1> QED
  BY <1>1, <1>4, <1>5

LEMMA CrashQueue ==
  ASSUME Types, Crash
  PROVE  QueueInv' /\ RunType'
<1> USE Bounds, JobNumbers DEF Crash, AfterStall, Types, QueueInv
<1>1. RunType'
  BY DEF RunType
<1>2. ASSUME NEW j \in Jobs, status[j] = "active"
      PROVE  /\ failures[j] < Attempts /\ stalls[j] <= MaxStalls
             /\ begun[j] = failures[j] + stalls[j] + 1
             /\ stalls[j] + 1 \in 0..(MaxStalls + 1)
  <2>1. /\ failures[j] < Attempts /\ stalls[j] <= MaxStalls
        /\ begun[j] = failures[j] + stalls[j] + 1
    BY <1>2 DEF Counted, Settled
  <2> QED
    BY <2>1
<1>3. QueueType'
  BY <1>2 DEF QueueType, Settled
<1>4. ASSUME NEW j \in Jobs
      PROVE  /\ status'[j] \notin Settled => failures'[j] < Attempts /\ stalls'[j] <= MaxStalls
             /\ status'[j] = "waiting" => begun'[j] = failures'[j] + stalls'[j]
             /\ status'[j] # "active"
  <2>1. CASE status[j] = "active"
    <3>1. stalls'[j] = stalls[j] + 1 /\ begun'[j] = begun[j] /\ failures'[j] = failures[j]
      BY <2>1
    <3>2. status'[j] = IF stalls[j] < MaxStalls THEN "waiting" ELSE "failed"
      BY <2>1
    <3> QED
      BY <1>2, <2>1, <3>1, <3>2 DEF Settled
  <2>2. CASE status[j] # "active"
    BY <2>2 DEF Counted
  <2> QED
    BY <2>1, <2>2
<1>5. Counted'
  BY <1>4 DEF Counted
<1> QED
  BY <1>1, <1>3, <1>5

(* Where the loop goes: to an instruction with a queue or to the mark, and *)
(* past none that has a queue.                                             *)
LEMMA GoOnFacts ==
  ASSUME Types, NEW j \in Jobs, NEW n \in Runs, NEW i \in Nat \ {0},
         GoOn(j, n, i)
  PROVE  /\ QueueInv' /\ RunType'
         /\ pc'[j][n] \in {"route", "mark"}
         /\ pc'[j][n] = "route" => at'[j][n] \in Routable(Tx(j))
         /\ pc'[j][n] = "mark" => at'[j][n] = End(Tx(j))
         /\ \A m \in Routable(Tx(j)) : m < at'[j][n] => m < i
         /\ \A l \in Jobs, o \in Runs : l # j \/ o # n =>
              pc'[l][o] = pc[l][o] /\ at'[l][o] = at[l][o]
<1>1. PICK k \in i..End(Tx(j)) :
        /\ \A m \in i..(k - 1) : m \notin Routable(Tx(j))
        /\ k \in Routable(Tx(j)) \/ k = End(Tx(j))
        /\ at' = [at EXCEPT ![j][n] = k]
        /\ pc' = [pc EXCEPT ![j][n] = IF k = End(Tx(j)) THEN "mark" ELSE "route"]
  BY DEF GoOn
<1>2. Tx(j) \in Txs
  BY TransactionPipelineAssumption DEF Tx
<1>3. k \in Nat \ {0} /\ Routable(Tx(j)) \subseteq Nat
  BY <1>2, SequenceType
<1>4. RunType'
  BY <1>1, <1>3 DEF Types, RunType
<1>5. QueueInv'
  BY DEF GoOn, queueVars, Types, QueueInv, QueueType, Counted
<1>6. at'[j][n] = k /\ pc'[j][n] = IF k = End(Tx(j)) THEN "mark" ELSE "route"
  BY <1>1 DEF Types, RunType
<1>7. \A m \in Routable(Tx(j)) : m < k => m < i
  BY <1>1, <1>3
<1>8. \A l \in Jobs, o \in Runs : l # j \/ o # n =>
        pc'[l][o] = pc[l][o] /\ at'[l][o] = at[l][o]
  BY <1>1 DEF Types, RunType
<1> QED
  BY <1>1, <1>4, <1>5, <1>6, <1>7, <1>8
-----------------------------------------------------------------------------
(* What is covered stays covered. *)

Grows == \A t \in Txs : \A i \in Routable(t) : Covered(t, i) => Covered(t, i)'

\* A step that leaves the other queues and the rows alone.
Quiet ==
  copies' = copies /\ dlq' = dlq /\ processed' = processed

LEMMA QuietGrows ==
  ASSUME Quiet
  PROVE  \A t, i : Covered(t, i)' <=> Covered(t, i)
BY DEF Quiet, Covered

LEMMA AddedGrows ==
  ASSUME Types, NEW j \in Jobs, NEW n \in Runs, NEW x, x = at[j][n],
         pc[j][n] = "route", copies' = Added(j, n), dlq' = dlq
  PROVE  /\ CopiesType'
         /\ Covered(Tx(j), x)'
         /\ \A t \in Txs : \A i \in Routable(t) : t # Tx(j) \/ i # x =>
              (Covered(t, i)' <=> Covered(t, i))
<1>1. Tx(j) \in Txs /\ x \in Routable(Tx(j))
  BY TransactionPipelineAssumption DEF Tx, Types, AtRoutable
<1>2. copies[Tx(j)] \in [Routable(Tx(j)) -> Nat]
  BY <1>1 DEF Types, CopiesType
<1>3. copies'[Tx(j)] = [copies[Tx(j)] EXCEPT ![x] = @ + 1]
  BY <1>1 DEF Added, Types, CopiesType
<1>4. \A t \in Txs : t # Tx(j) => copies'[t] = copies[t]
  BY DEF Added, Types, CopiesType
<1>5. DOMAIN copies' = Txs
  BY DEF Added, Types, CopiesType
<1>6. ASSUME NEW t \in Txs
      PROVE  copies'[t] \in [Routable(t) -> Nat]
  <2>1. CASE t = Tx(j)
    <3>1. [copies[Tx(j)] EXCEPT ![x] = @ + 1] \in [Routable(Tx(j)) -> Nat]
      BY <1>1, <1>2
    <3> QED
      BY <1>3, <2>1, <3>1
  <2>2. CASE t # Tx(j)
    BY <1>4, <2>2 DEF Types, CopiesType
  <2> QED
    BY <2>1, <2>2
<1>7. CopiesType'
  BY <1>5, <1>6 DEF CopiesType, Routable
<1>8. copies'[Tx(j)][x] = copies[Tx(j)][x] + 1 /\ copies[Tx(j)][x] \in Nat
  BY <1>1, <1>2, <1>3
<1>9. Covered(Tx(j), x)'
  BY <1>8 DEF Covered, Tx
<1>10. ASSUME NEW t \in Txs, NEW i \in Routable(t), t # Tx(j) \/ i # x
       PROVE  copies'[t][i] = copies[t][i]
  BY <1>2, <1>3, <1>4, <1>10
<1>11. \A t \in Txs : \A i \in Routable(t) : t # Tx(j) \/ i # x =>
         (Covered(t, i)' <=> Covered(t, i))
  BY <1>10 DEF Covered
<1> QED
  BY <1>7, <1>9, <1>11

\* A step that covers at most the instruction at which a run of j stands
\* keeps the order, and takes nothing back.
LEMMA OrderKept ==
  ASSUME Types, LeftCovered, RoutedInOrder, NEW j \in Jobs, NEW n \in Runs,
         NEW x, x = at[j][n], pc[j][n] \in {"route", "dlq"},
         \A t \in Txs : \A i \in Routable(t) : t # Tx(j) \/ i # x =>
           (Covered(t, i)' <=> Covered(t, i)),
         Covered(Tx(j), x)' \/ ~Covered(Tx(j), x)
  PROVE  RoutedInOrder' /\ Grows
<1>1. ASSUME NEW t \in Txs, NEW i \in Routable(t), Covered(t, i)
      PROVE  Covered(t, i)'
  <2>1. CASE t = Tx(j) /\ i = x
    BY <1>1, <2>1 DEF Tx
  <2>2. CASE ~(t = Tx(j) /\ i = x)
    BY <1>1, <2>2
  <2> QED
    BY <2>1, <2>2
<1>2. ASSUME NEW t \in Txs, NEW i \in Routable(t), NEW k \in Routable(t),
             i < k, Covered(t, k)'
      PROVE  Covered(t, i)'
  <2>1. CASE t = Tx(j) /\ k = x
    <3>1. Covered(t, i)
      BY <1>2, <2>1 DEF LeftCovered, CoveredBefore
    <3> QED
      BY <1>1, <3>1
  <2>2. CASE ~(t = Tx(j) /\ k = x)
    <3>1. Covered(t, i)
      BY <1>2, <2>2 DEF RoutedInOrder
    <3> QED
      BY <1>1, <3>1
  <2> QED
    BY <2>1, <2>2
<1> QED
  BY <1>1, <1>2 DEF RoutedInOrder, Grows, Routable

LEMMA QuietKeeps ==
  ASSUME Quiet, RoutedInOrder
  PROVE  RoutedInOrder' /\ Grows
BY DEF Quiet, RoutedInOrder, Grows, Covered, Routable

\* A marked row stays covered.
LEMMA MarkedKept ==
  ASSUME Types, Grows, ProcessedMeansRouted, processed' = processed
  PROVE  ProcessedMeansRouted'
BY TransactionPipelineAssumption DEF ProcessedMeansRouted, Grows, Types, RowType, Routable

\* Run o of l stays where it is, begins, ends or turns to the catch block.
Stays(l, o) ==
  /\ at'[l][o] = at[l][o]
  /\ \/ pc'[l][o] \in {pc[l][o], "idle", "fetch"}
     \/ pc[l][o] = "route" /\ pc'[l][o] = "dlq"

\* It arrives at an instruction or at the mark.
Arrives(l, o) ==
  /\ CoveredBefore(l, at[l][o])'
  /\ \/ pc'[l][o] = "route" /\ at'[l][o] \in Routable(Tx(l))
     \/ pc'[l][o] = "mark" /\ at'[l][o] = End(Tx(l))

LEMMA RunsKept ==
  ASSUME Types, LeftCovered, Grows,
         \A l \in Jobs, o \in Runs : Stays(l, o) \/ Arrives(l, o)
  PROVE  LeftCovered' /\ AtRoutable'
<1>1. ASSUME NEW l \in Jobs, NEW o \in Runs
      PROVE  /\ pc'[l][o] \in {"route", "dlq", "mark"} => CoveredBefore(l, at[l][o])'
             /\ pc'[l][o] = "mark" => at'[l][o] = End(Tx(l))
             /\ pc'[l][o] \in {"route", "dlq"} => at'[l][o] \in Routable(Tx(l))
  <2>1. CASE Arrives(l, o)
    BY <2>1 DEF Arrives
  <2>2. CASE Stays(l, o)
    <3>1. at'[l][o] = at[l][o] /\ Tx(l) \in Txs
      BY <2>2, TransactionPipelineAssumption DEF Stays, Tx
    <3>2. CoveredBefore(l, at[l][o]) => CoveredBefore(l, at[l][o])'
      BY <3>1 DEF CoveredBefore, Grows, Tx, Routable
    <3> QED
      BY <2>2, <3>1, <3>2 DEF Stays, LeftCovered, Types, AtRoutable
  <2> QED
    BY <1>1, <2>1, <2>2
<1> QED
  BY <1>1 DEF LeftCovered, AtRoutable, Tx, End, Routable

\* The loop of run n of j goes on at i, everything in front of i covered.
LEMMA GoOnArrives ==
  ASSUME Types, NEW j \in Jobs, NEW n \in Runs, NEW i \in Nat \ {0}, GoOn(j, n, i),
         \A m \in Routable(Tx(j)) : m < i => Covered(Tx(j), m)'
  PROVE  \A l \in Jobs, o \in Runs : Stays(l, o) \/ Arrives(l, o)
<1>1. Arrives(j, n)
  BY GoOnFacts DEF Arrives, CoveredBefore, Tx, Routable, End
<1>2. \A l \in Jobs, o \in Runs : l # j \/ o # n => Stays(l, o)
  BY GoOnFacts DEF Stays
<1> QED
  BY <1>1, <1>2

LEMMA ReportStays ==
  ASSUME Types, NEW j \in Jobs, NEW n \in Runs, NEW outcome, NEW thrown,
         Report(j, n, outcome, thrown)
  PROVE  \A l \in Jobs, o \in Runs : Stays(l, o)
BY DEF Report, Types, RunType, Stays

\* What a completed job stands for once it is accounted for stays true.
Accounted(j) ==
  Tx(j) \in processed \/ Tx(j) \notin Jobs \/ j \in unfound \/ Instructions[Tx(j)] = << >>

LEMMA AccountedKept ==
  ASSUME CompletedAccounted, processed \subseteq processed', unfound \subseteq unfound',
         \A l \in Jobs : status'[l] = "completed" => status[l] = "completed" \/ Accounted(l)'
  PROVE  CompletedAccounted'
BY DEF CompletedAccounted, Accounted, Tx
-----------------------------------------------------------------------------
(* The steps *)

Kept == Types' /\ LeftCovered' /\ RoutedInOrder' /\ ProcessedMeansRouted' /\ CompletedAccounted'

LEMMA StepKeeps ==
  ASSUME IInv, QueueInv', RunType', CopiesType', DlqType', RowType', RoutedInOrder', Grows,
         \A l \in Jobs, o \in Runs : Stays(l, o) \/ Arrives(l, o),
         processed \subseteq processed', unfound \subseteq unfound',
         \A t \in processed' : t \in processed \/ \A i \in Routable(t) : Covered(t, i)',
         \A l \in Jobs : status'[l] = "completed" => status[l] = "completed" \/ Accounted(l)'
  PROVE  Kept
<1>1. LeftCovered' /\ AtRoutable'
  BY RunsKept DEF IInv
<1>2. ProcessedMeansRouted'
  BY TransactionPipelineAssumption
  DEF IInv, ProcessedMeansRouted, Grows, Types, RowType, Routable
<1>3. CompletedAccounted'
  BY AccountedKept DEF IInv
<1> QED
  BY <1>1, <1>2, <1>3 DEF Kept, Types

\* Steps that add nothing and mark nothing.
LEMMA QuietStepKeeps ==
  ASSUME IInv, QueueInv', RunType', Quiet,
         dlqWaiting' \subseteq dlqWaiting, dlqEvents' \subseteq dlq,
         faults' \in 0..MaxFaults, unfound' \subseteq Jobs, unfound \subseteq unfound',
         \A l \in Jobs, o \in Runs : Stays(l, o) \/ Arrives(l, o),
         \A l \in Jobs : status'[l] = "completed" => status[l] = "completed" \/ Accounted(l)'
  PROVE  Kept
<1>1. CopiesType'
  BY DEF IInv, Types, Quiet, CopiesType, Routable
<1>2. DlqType'
  BY DEF IInv, Types, Quiet, DlqType, Items, Routable
<1>3. RowType'
  BY DEF IInv, Types, Quiet, RowType
<1>4. RoutedInOrder' /\ Grows
  BY QuietKeeps DEF IInv
<1>5. \A t \in processed' : t \in processed
  BY DEF Quiet
<1>6. processed \subseteq processed'
  BY DEF Quiet
<1> QED
  BY <1>1, <1>2, <1>3, <1>4, <1>5, <1>6, StepKeeps

LEMMA FaultType ==
  ASSUME IInv, Fault \/ NoFault
  PROVE  faults' \in 0..MaxFaults
<1>1. faults \in 0..MaxFaults
  BY DEF IInv, Types, RowType
<1> QED
  BY <1>1, Bounds DEF Fault, NoFault

LEMMA TakeKeeps ==
  ASSUME IInv, NEW j \in Jobs, Take(j)
  PROVE  Kept
<1> USE DEF IInv
<1>1. QueueInv' /\ RunType'
  BY TakeQueue
<1>2. /\ Quiet /\ dlqWaiting' \subseteq dlqWaiting /\ dlqEvents' \subseteq dlq
      /\ faults' \in 0..MaxFaults /\ unfound' \subseteq Jobs /\ unfound \subseteq unfound'
  BY DEF Take, Quiet, dlqVars, Types, DlqType, RowType
<1>3. \A l \in Jobs, o \in Runs : Stays(l, o)
  BY DEF Take, Types, RunType, Stays
<1>4. \A l \in Jobs : status'[l] = "completed" => status[l] = "completed"
  BY DEF Take, Types, QueueInv, QueueType
<1> QED
  BY <1>1, <1>2, <1>3, <1>4, QuietStepKeeps

LEMMA StallKeeps ==
  ASSUME IInv, NEW j \in Jobs, Stall(j)
  PROVE  Kept
<1> USE DEF IInv
<1>1. QueueInv' /\ RunType'
  BY StallQueue
<1>2. /\ Quiet /\ dlqWaiting' \subseteq dlqWaiting /\ dlqEvents' \subseteq dlq
      /\ unfound' \subseteq Jobs /\ unfound \subseteq unfound'
  BY DEF Stall, Quiet, dlqVars, Types, DlqType, RowType
<1>3. \A l \in Jobs, o \in Runs : Stays(l, o)
  BY DEF Stall, Stays
<1>4. \A l \in Jobs : status'[l] = "completed" => status[l] = "completed"
  BY DEF Stall, AfterStall, Types, QueueInv, QueueType
<1>5. faults' \in 0..MaxFaults
  BY FaultType DEF Stall
<1> QED
  BY <1>1, <1>2, <1>3, <1>4, <1>5, QuietStepKeeps

LEMMA CrashKeeps ==
  ASSUME IInv, Crash
  PROVE  Kept
<1> USE DEF IInv
<1>1. QueueInv' /\ RunType'
  BY CrashQueue
<1>2. /\ Quiet /\ dlqWaiting' \subseteq dlqWaiting /\ dlqEvents' \subseteq dlq
      /\ unfound' \subseteq Jobs /\ unfound \subseteq unfound'
  BY DEF Crash, Quiet, dlqVars, Types, DlqType, RowType
<1>3. \A l \in Jobs, o \in Runs : Stays(l, o)
  BY DEF Crash, Stays
<1>4. \A l \in Jobs : status'[l] = "completed" => status[l] = "completed"
  BY DEF Crash, AfterStall
<1>5. faults' \in 0..MaxFaults
  BY FaultType DEF Crash
<1> QED
  BY <1>1, <1>2, <1>3, <1>4, <1>5, QuietStepKeeps

LEMMA ParsedKeeps ==
  ASSUME IInv, NEW j \in Jobs, NEW n \in Runs, getParsedTransaction(j, n)
  PROVE  Kept
<1> USE DEF IInv
<1>1. /\ Quiet /\ dlqWaiting' \subseteq dlqWaiting /\ dlqEvents' \subseteq dlq
      /\ unfound' \subseteq Jobs /\ unfound \subseteq unfound'
  BY DEF getParsedTransaction, Quiet, dlqVars, Types, DlqType, RowType
<1>2. faults' \in 0..MaxFaults
  BY FaultType DEF getParsedTransaction
<1>3. CASE Complete(j, n) /\ (j \in unfound' \/ Instructions[Tx(j)] = << >>)
  <2>1. QueueInv' /\ RunType'
    BY <1>3, CompleteQueue
  <2>2. \A l \in Jobs, o \in Runs : Stays(l, o)
    BY <1>3, ReportStays DEF Complete
  <2>3. \A l \in Jobs : status'[l] = "completed" => status[l] = "completed" \/ l = j
    BY <1>3 DEF Complete, Report, Types, QueueInv, QueueType
  <2>4. Accounted(j)'
    BY <1>3 DEF Accounted, Tx
  <2> QED
    BY <1>1, <1>2, <2>1, <2>2, <2>3, <2>4, QuietStepKeeps
<1>4. CASE GoOn(j, n, 1)
  <2>1. QueueInv' /\ RunType'
    BY <1>4, GoOnFacts
  <2>2. \A m \in Routable(Tx(j)) : ~(m < 1)
    BY SequenceType, TransactionPipelineAssumption DEF Tx
  <2>3. \A l \in Jobs, o \in Runs : Stays(l, o) \/ Arrives(l, o)
    BY <1>4, <2>2, GoOnArrives
  <2>4. status' = status
    BY <1>4 DEF GoOn, queueVars
  <2> QED
    BY <1>1, <1>2, <2>1, <2>3, <2>4, QuietStepKeeps
<1> QED
  BY <1>3, <1>4 DEF getParsedTransaction

\* Everything up to the instruction at which a run stands is covered.
LEMMA UpToHere ==
  ASSUME IInv, Grows, NEW j \in Jobs, NEW n \in Runs, NEW x, x = at[j][n],
         pc[j][n] \in {"route", "dlq"}, Covered(Tx(j), x)'
  PROVE  /\ x \in Nat \ {0} /\ x + 1 \in Nat \ {0}
         /\ \A m \in Routable(Tx(j)) : m < x + 1 => Covered(Tx(j), m)'
<1>1. x \in Nat \ {0}
  BY DEF IInv, Types, RunType
<1>2. Tx(j) \in Txs
  BY TransactionPipelineAssumption DEF Tx
<1>3. ASSUME NEW m \in Routable(Tx(j)), m < x + 1
      PROVE  Covered(Tx(j), m)'
  <2>1. m = x \/ m < x
    BY <1>1, <1>2, <1>3, SequenceType
  <2>2. CASE m < x
    <3>1. Covered(Tx(j), m)
      BY <2>2 DEF IInv, LeftCovered, CoveredBefore
    <3> QED
      BY <1>2, <3>1 DEF Grows, Tx, Routable
  <2>3. CASE m = x
    BY <2>3 DEF Tx
  <2> QED
    BY <2>1, <2>2, <2>3
<1> QED
  BY <1>1, <1>3

LEMMA RouteKeeps ==
  ASSUME IInv, NEW j \in Jobs, NEW n \in Runs, routeToQueue(j, n)
  PROVE  Kept
<1>1. PICK x : x = at[j][n]
  OBVIOUS
<1>2. /\ CopiesType' /\ Covered(Tx(j), x)'
      /\ \A t \in Txs : \A i \in Routable(t) : t # Tx(j) \/ i # x =>
           (Covered(t, i)' <=> Covered(t, i))
  BY <1>1, AddedGrows DEF IInv, routeToQueue, dlqVars
<1>3. RoutedInOrder' /\ Grows
  BY <1>1, <1>2, OrderKept DEF IInv, routeToQueue
<1>4. /\ x + 1 \in Nat \ {0}
      /\ \A m \in Routable(Tx(j)) : m < x + 1 => Covered(Tx(j), m)'
  BY <1>1, <1>2, <1>3, UpToHere DEF routeToQueue
<1>5. GoOn(j, n, x + 1)
  BY <1>1 DEF routeToQueue
<1>6. QueueInv' /\ RunType'
  BY <1>4, <1>5, GoOnFacts DEF IInv
<1>7. \A l \in Jobs, o \in Runs : Stays(l, o) \/ Arrives(l, o)
  BY <1>4, <1>5, GoOnArrives DEF IInv
<1>8. faults' \in 0..MaxFaults
  BY FaultType DEF routeToQueue
<1>9. /\ DlqType' /\ processed' = processed /\ unfound' = unfound /\ status' = status
  BY <1>5 DEF IInv, Types, DlqType, routeToQueue, dlqVars, GoOn, queueVars, Items, Routable
<1>10. RowType'
  BY <1>8, <1>9 DEF IInv, Types, RowType
<1> QED
  BY <1>2, <1>3, <1>6, <1>7, <1>9, <1>10, StepKeeps

LEMMA RouteFailsKeeps ==
  ASSUME IInv, NEW j \in Jobs, NEW n \in Runs, RouteFails(j, n)
  PROVE  Kept
<1>1. PICK x : x = at[j][n]
  OBVIOUS
<1>2. /\ CopiesType' /\ (Covered(Tx(j), x)' \/ ~Covered(Tx(j), x))
      /\ \A t \in Txs : \A i \in Routable(t) : t # Tx(j) \/ i # x =>
           (Covered(t, i)' <=> Covered(t, i))
  <2>1. CASE copies' = copies
    BY <2>1 DEF IInv, Types, CopiesType, Covered, RouteFails, dlqVars, Tx, Routable
  <2>2. CASE copies' = Added(j, n)
    BY <1>1, <2>2, AddedGrows DEF IInv, RouteFails, dlqVars
  <2> QED
    BY <2>1, <2>2 DEF RouteFails
<1>3. RoutedInOrder' /\ Grows
  BY <1>1, <1>2, OrderKept DEF IInv, RouteFails
<1>4. QueueInv' /\ RunType'
  BY DEF RouteFails, queueVars, IInv, Types, QueueInv, QueueType, Counted, RunType
<1>5. \A l \in Jobs, o \in Runs : Stays(l, o)
  BY DEF RouteFails, IInv, Types, RunType, Stays
<1>6. faults' \in 0..MaxFaults
  BY FaultType DEF RouteFails
<1>7. /\ DlqType' /\ processed' = processed /\ unfound' = unfound /\ status' = status
  BY DEF IInv, Types, DlqType, RouteFails, dlqVars, queueVars, Items, Routable
<1>8. RowType'
  BY <1>6, <1>7 DEF IInv, Types, RowType
<1> QED
  BY <1>2, <1>3, <1>4, <1>5, <1>7, <1>8, StepKeeps

LEMMA AddToDlqKeeps ==
  ASSUME IInv, NEW j \in Jobs, NEW n \in Runs, AddToDlq(j, n)
  PROVE  Kept
<1>1. PICK x : x = at[j][n]
  OBVIOUS
<1>2. Tx(j) \in Txs /\ x \in Routable(Tx(j))
  BY <1>1, TransactionPipelineAssumption DEF Tx, IInv, Types, AtRoutable, AddToDlq
<1>3. /\ dlq' = dlq \cup {<<Tx(j), x>>} /\ dlqWaiting' = dlqWaiting \cup {<<Tx(j), x>>}
      /\ dlqEvents' = dlqEvents /\ copies' = copies
      /\ processed' = processed /\ unfound' = unfound
  BY <1>1 DEF AddToDlq, Item
<1>4. /\ Covered(Tx(j), x)'
      /\ \A t \in Txs : \A i \in Routable(t) : t # Tx(j) \/ i # x =>
           (Covered(t, i)' <=> Covered(t, i))
  BY <1>3 DEF Covered, Tx
<1>5. RoutedInOrder' /\ Grows
  BY <1>1, <1>4, OrderKept DEF IInv, AddToDlq
<1>6. /\ x + 1 \in Nat \ {0}
      /\ \A m \in Routable(Tx(j)) : m < x + 1 => Covered(Tx(j), m)'
  BY <1>1, <1>4, <1>5, UpToHere DEF AddToDlq
<1>7. GoOn(j, n, x + 1)
  BY <1>1 DEF AddToDlq
<1>8. QueueInv' /\ RunType'
  BY <1>6, <1>7, GoOnFacts DEF IInv
<1>9. \A l \in Jobs, o \in Runs : Stays(l, o) \/ Arrives(l, o)
  BY <1>6, <1>7, GoOnArrives DEF IInv
<1>10. DlqType' /\ CopiesType'
  BY <1>2, <1>3, ItemType DEF IInv, Types, DlqType, CopiesType, Items, Routable
<1>11. faults' \in 0..MaxFaults
  BY FaultType DEF AddToDlq
<1>12. RowType' /\ status' = status
  BY <1>3, <1>7, <1>11 DEF IInv, Types, RowType, GoOn, queueVars
<1> QED
  BY <1>3, <1>5, <1>8, <1>9, <1>10, <1>12, StepKeeps

LEMMA MarkKeeps ==
  ASSUME IInv, NEW j \in Jobs, NEW n \in Runs, MarkProcessed(j, n)
  PROVE  Kept
<1>1. QueueInv' /\ RunType'
  BY CompleteQueue DEF IInv, MarkProcessed
<1>2. \A l \in Jobs, o \in Runs : Stays(l, o)
  BY ReportStays DEF IInv, MarkProcessed, Complete
<1>3. copies' = copies /\ dlq' = dlq /\ dlqWaiting' = dlqWaiting /\ dlqEvents' = dlqEvents
  BY DEF MarkProcessed, dlqVars
<1>4. CopiesType' /\ DlqType'
  BY <1>3 DEF IInv, Types, CopiesType, DlqType, Items, Routable
<1>5. RoutedInOrder' /\ Grows
  BY <1>3 DEF IInv, RoutedInOrder, Grows, Covered, Routable
<1>6. processed' = processed \cup ({Tx(j)} \cap Jobs) /\ unfound' = unfound
  BY DEF MarkProcessed
<1>7. faults' \in 0..MaxFaults
  BY FaultType DEF MarkProcessed
<1>8. RowType'
  BY <1>6, <1>7 DEF IInv, Types, RowType
<1>9. \A i \in Routable(Tx(j)) : Covered(Tx(j), i)'
  <2>1. Tx(j) \in Txs /\ at[j][n] = End(Tx(j)) /\ CoveredBefore(j, at[j][n])
    BY TransactionPipelineAssumption DEF Tx, IInv, LeftCovered, MarkProcessed
  <2>2. \A i \in Routable(Tx(j)) : i < End(Tx(j))
    BY <2>1, SequenceType DEF End
  <2> QED
    BY <1>3, <2>1, <2>2 DEF CoveredBefore, Covered, Tx
<1>10. \A t \in processed' : t \in processed \/ \A i \in Routable(t) : Covered(t, i)'
  BY <1>6, <1>9 DEF Tx, Routable
<1>11. \A l \in Jobs : status'[l] = "completed" => status[l] = "completed" \/ l = j
  BY DEF MarkProcessed, Complete, Report, IInv, Types, QueueInv, QueueType
<1>12. Accounted(j)'
  BY <1>6 DEF Accounted, Tx
<1> QED
  BY <1>1, <1>2, <1>4, <1>5, <1>6, <1>8, <1>10, <1>11, <1>12, StepKeeps

LEMMA CallFailsKeeps ==
  ASSUME IInv, NEW j \in Jobs, NEW n \in Runs, CallFails(j, n)
  PROVE  Kept
<1>1. QueueInv' /\ RunType'
  BY ThrowQueue DEF IInv, CallFails
<1>2. /\ Quiet /\ dlqWaiting' \subseteq dlqWaiting /\ dlqEvents' \subseteq dlq
      /\ unfound' \subseteq Jobs /\ unfound \subseteq unfound'
  BY DEF CallFails, Quiet, dlqVars, IInv, Types, DlqType, RowType
<1>3. \A l \in Jobs, o \in Runs : Stays(l, o)
  BY ReportStays DEF CallFails, Throw, IInv
<1>4. \A l \in Jobs : status'[l] = "completed" => status[l] = "completed"
  BY DEF CallFails, Throw, Report, IInv, Types, QueueInv, QueueType
<1>5. faults' \in 0..MaxFaults
  BY FaultType DEF CallFails
<1> QED
  BY <1>1, <1>2, <1>3, <1>4, <1>5, QuietStepKeeps

LEMMA DlqKeeps ==
  ASSUME IInv, NEW item \in Items, ProcessDlq(item)
  PROVE  Kept
<1>1. QueueInv' /\ RunType'
  BY DEF ProcessDlq, queueVars, IInv, Types, QueueInv, QueueType, Counted, RunType
<1>2. /\ Quiet /\ dlqWaiting' \subseteq dlqWaiting /\ dlqEvents' \subseteq dlq
      /\ unfound' \subseteq Jobs /\ unfound \subseteq unfound' /\ faults' \in 0..MaxFaults
  BY DEF ProcessDlq, Quiet, IInv, Types, DlqType, RowType
<1>3. \A l \in Jobs, o \in Runs : Stays(l, o)
  BY DEF ProcessDlq, Stays
<1>4. \A l \in Jobs : status'[l] = "completed" => status[l] = "completed"
  BY DEF ProcessDlq, queueVars
<1> QED
  BY <1>1, <1>2, <1>3, <1>4, QuietStepKeeps

LEMMA StutterKeeps ==
  ASSUME IInv, UNCHANGED vars
  PROVE  Kept
<1>1. QueueInv' /\ RunType'
  BY DEF vars, IInv, Types, QueueInv, QueueType, Counted, RunType
<1>2. /\ Quiet /\ dlqWaiting' \subseteq dlqWaiting /\ dlqEvents' \subseteq dlq
      /\ unfound' \subseteq Jobs /\ unfound \subseteq unfound' /\ faults' \in 0..MaxFaults
  BY DEF vars, Quiet, IInv, Types, DlqType, RowType
<1>3. \A l \in Jobs, o \in Runs : Stays(l, o)
  BY DEF vars, Stays
<1>4. \A l \in Jobs : status'[l] = "completed" => status[l] = "completed"
  BY DEF vars
<1> QED
  BY <1>1, <1>2, <1>3, <1>4, QuietStepKeeps

LEMMA NextIInv == IInv /\ [Next]_vars => IInv'
<1> SUFFICES ASSUME IInv, [Next]_vars PROVE IInv'
    OBVIOUS
<1>1. ASSUME NEW j \in Jobs, Take(j) \/ Stall(j) PROVE Kept
  BY <1>1, TakeKeeps, StallKeeps
<1>2. ASSUME NEW j \in Jobs, NEW n \in Runs, Run(j, n) PROVE Kept
  BY <1>2, ParsedKeeps, RouteKeeps, AddToDlqKeeps, MarkKeeps DEF Run
<1>3. ASSUME NEW j \in Jobs, NEW n \in Runs, RouteFails(j, n) \/ CallFails(j, n) PROVE Kept
  BY <1>3, RouteFailsKeeps, CallFailsKeeps
<1>4. ASSUME NEW item \in Items, ProcessDlq(item) PROVE Kept
  BY <1>4, DlqKeeps
<1>5. Kept
  BY <1>1, <1>2, <1>3, <1>4, CrashKeeps, StutterKeeps DEF Next
<1> QED
  BY <1>5 DEF Kept, IInv

LEMMA Invariance == Spec => []IInv
<1> QED
  BY InitIInv, NextIInv, PTL DEF Spec
-----------------------------------------------------------------------------
(* The variables keep their types; in particular the queue begins no more  *)
(* runs of a job than its attempts and stalls allow.                       *)
THEOREM TypeCorrect == Spec => []TypeOK
<1>1. IInv => TypeOK
  BY DEF IInv, Types, QueueInv, QueueType, RunType, CopiesType, DlqType, RowType, TypeOK
<1> QED
  BY Invariance, <1>1, PTL

(* A transaction marked processed (transaction.processor.ts:86) has every  *)
(* instruction that has a queue there or in the dead-letter queue.         *)
THEOREM ProcessedMeansRoutedAlways == Spec => []ProcessedMeansRouted
<1>1. IInv => ProcessedMeansRouted
  BY DEF IInv
<1> QED
  BY Invariance, <1>1, PTL

(* Whatever runs of one transaction overlap, its instructions are covered  *)
(* in the order of the parser.                                             *)
THEOREM RoutedInOrderAlways == Spec => []RoutedInOrder
<1>1. IInv => RoutedInOrder
  BY DEF IInv
<1> QED
  BY Invariance, <1>1, PTL

(* A completed job whose transaction was found and calls the program has   *)
(* had its row marked.                                                     *)
THEOREM CompletedAccountedAlways == Spec => []CompletedAccounted
<1>1. IInv => CompletedAccounted
  BY DEF IInv
<1> QED
  BY Invariance, <1>1, PTL
-----------------------------------------------------------------------------
(* TransactionPipeline implements InOrderRouting. *)

\* Router's covered, as the refinement has it, and its steps.
CoveredOf == [t \in Txs |-> {i \in Routable(t) : Covered(t, i)}]
StepsOf == [t \in Txs |-> Routable(t)]

\* A step that covers nothing and marks nothing is a stutter of the router.
LEMMA NothingRouted ==
  ASSUME \A t \in Txs : \A i \in Routable(t) : Covered(t, i)' <=> Covered(t, i),
         processed' = processed
  PROVE  UNCHANGED Router!vars
<1>1. CoveredOf' = CoveredOf
  <2>1. \A t \in Txs : {i \in Routable(t) : Covered(t, i)'} = {i \in Routable(t) : Covered(t, i)}
    OBVIOUS
  <2>2. CoveredOf' = [t \in Txs |-> {i \in Routable(t) : Covered(t, i)'}]
    BY DEF CoveredOf, Routable
  <2> QED
    BY <2>1, <2>2 DEF CoveredOf
<1> QED
  BY <1>1 DEF Router!vars, CoveredOf

\* A run covers the instruction at which it stands, or nothing.
LEMMA OneRouted ==
  ASSUME Types, LeftCovered, Types', NEW j \in Jobs, NEW n \in Runs,
         NEW x, x = at[j][n], pc[j][n] \in {"route", "dlq"},
         \A t \in Txs : \A i \in Routable(t) : t # Tx(j) \/ i # x =>
           (Covered(t, i)' <=> Covered(t, i)),
         Covered(Tx(j), x)' \/ ~Covered(Tx(j), x),
         processed' = processed
  PROVE  [Router!Next]_(Router!vars)
<1>1. Tx(j) \in Txs /\ x \in Routable(Tx(j))
  BY TransactionPipelineAssumption DEF Tx, Types, AtRoutable
<1>2. CASE Covered(Tx(j), x)' <=> Covered(Tx(j), x)
  <2>1. \A t \in Txs : \A i \in Routable(t) : Covered(t, i)' <=> Covered(t, i)
    BY <1>2 DEF Tx
  <2> QED
    BY <2>1, NothingRouted
<1>3. CASE Covered(Tx(j), x)' /\ ~Covered(Tx(j), x)
  <2>1. PICK u \in Txs : u = Tx(j)
    BY <1>1
  <2>2. x \in Routable(u) /\ Covered(u, x)' /\ ~Covered(u, x)
    BY <1>1, <1>3, <2>1 DEF Tx
  <2>3. CoveredOf' = [t \in Txs |-> {i \in Routable(t) : Covered(t, i)'}]
    BY DEF CoveredOf, Routable
  <2>4. {i \in Routable(u) : Covered(u, i)'} = {i \in Routable(u) : Covered(u, i)} \cup {x}
    BY <2>1, <2>2
  <2>5. \A t \in Txs : t # u =>
          {i \in Routable(t) : Covered(t, i)'} = {i \in Routable(t) : Covered(t, i)}
    BY <2>1
  <2>6. CoveredOf' = [CoveredOf EXCEPT ![u] = @ \cup {x}]
    <3> DEFINE C(t) == {i \in Routable(t) : Covered(t, i)}
               D(t) == {i \in Routable(t) : Covered(t, i)'}
    <3>1. D(u) = C(u) \cup {x} /\ \A t \in Txs : t # u => D(t) = C(t)
      BY <2>4, <2>5
    <3>2. CoveredOf = [t \in Txs |-> C(t)] /\ CoveredOf' = [t \in Txs |-> D(t)]
      BY <2>3 DEF CoveredOf
    <3> HIDE DEF C, D
    <3> QED
      BY <3>1, <3>2
  <2>7. x \in StepsOf[u] \ CoveredOf[u]
    BY <2>2 DEF StepsOf, CoveredOf
  <2>8. \A k \in StepsOf[u] : k < x => k \in CoveredOf[u]
    BY <2>1 DEF LeftCovered, CoveredBefore, StepsOf, CoveredOf
  <2>9. Router!Cover(u)
    BY <2>6, <2>7, <2>8 DEF Router!Cover, StepsOf, CoveredOf
  <2> QED
    BY <2>9 DEF Router!Next
<1> QED
  BY <1>2, <1>3

\* A run marks when it is at the end: all instructions are covered.
LEMMA MarkRoutes ==
  ASSUME IInv, NEW j \in Jobs, NEW n \in Runs, MarkProcessed(j, n)
  PROVE  [Router!Next]_(Router!vars)
<1>1. /\ Tx(j) \in Txs /\ at[j][n] = End(Tx(j)) /\ CoveredBefore(j, at[j][n])
      /\ Routable(Tx(j)) \subseteq 1..Len(Instructions[Tx(j)])
      /\ Len(Instructions[Tx(j)]) \in Nat
  BY TransactionPipelineAssumption, SequenceType DEF Tx, IInv, LeftCovered, MarkProcessed
<1>2. PICK u \in Txs : u = Tx(j)
  BY <1>1
<1>3. \A i \in Routable(u) : Covered(u, i)
  BY <1>1, <1>2 DEF CoveredBefore, End
<1>4. CoveredOf[u] = StepsOf[u]
  BY <1>3 DEF CoveredOf, StepsOf
<1>5. copies' = copies /\ dlq' = dlq /\ processed' = processed \cup ({u} \cap Jobs)
  BY <1>2 DEF MarkProcessed, dlqVars
<1>6. CoveredOf' = CoveredOf
  BY <1>5 DEF CoveredOf, Covered, Routable
<1>7. CASE u \in Jobs
  <2>1. Router!Mark(u)
    BY <1>4, <1>5, <1>6, <1>7 DEF Router!Mark, CoveredOf, StepsOf
  <2> QED
    BY <1>7, <2>1 DEF Router!Next
<1>8. CASE u \notin Jobs
  BY <1>5, <1>6, <1>8 DEF Router!vars, CoveredOf
<1> QED
  BY <1>7, <1>8

LEMMA StepRoutes ==
  ASSUME IInv, IInv', [Next]_vars
  PROVE  [Router!Next]_(Router!vars)
<1> USE DEF IInv
<1>1. ASSUME Quiet PROVE [Router!Next]_(Router!vars)
  BY <1>1, QuietGrows, NothingRouted DEF Quiet
<1>2. ASSUME NEW j \in Jobs, NEW n \in Runs, pc[j][n] = "route",
             copies' = copies \/ copies' = Added(j, n), dlq' = dlq, processed' = processed
      PROVE  [Router!Next]_(Router!vars)
  <2>1. CASE copies' = copies
    BY <1>1, <1>2, <2>1 DEF Quiet
  <2>2. CASE copies' = Added(j, n)
    <3>1. PICK x : x = at[j][n]
      OBVIOUS
    <3>2. /\ Covered(Tx(j), x)'
          /\ \A t \in Txs : \A i \in Routable(t) : t # Tx(j) \/ i # x =>
               (Covered(t, i)' <=> Covered(t, i))
      BY <1>2, <2>2, <3>1, AddedGrows
    <3> QED
      BY <1>2, <3>1, <3>2, OneRouted
  <2> QED
    BY <1>2, <2>1, <2>2
<1>3. ASSUME NEW j \in Jobs, NEW n \in Runs, AddToDlq(j, n)
      PROVE  [Router!Next]_(Router!vars)
  <2>1. PICK x : x = at[j][n]
    OBVIOUS
  <2>2. dlq' = dlq \cup {<<Tx(j), x>>} /\ copies' = copies /\ processed' = processed
    BY <1>3, <2>1 DEF AddToDlq, Item
  <2>3. /\ Covered(Tx(j), x)'
        /\ \A t \in Txs : \A i \in Routable(t) : t # Tx(j) \/ i # x =>
             (Covered(t, i)' <=> Covered(t, i))
    BY <2>2 DEF Covered, Tx
  <2> QED
    BY <1>3, <2>1, <2>2, <2>3, OneRouted DEF AddToDlq
<1>4. ASSUME NEW j \in Jobs, NEW n \in Runs, Run(j, n)
      PROVE  [Router!Next]_(Router!vars)
  <2>1. CASE getParsedTransaction(j, n)
    BY <1>1, <2>1 DEF getParsedTransaction, Quiet, dlqVars
  <2>2. CASE routeToQueue(j, n)
    BY <1>2, <2>2 DEF routeToQueue, dlqVars
  <2>3. CASE AddToDlq(j, n)
    BY <1>3, <2>3
  <2>4. CASE MarkProcessed(j, n)
    BY <2>4, MarkRoutes
  <2> QED
    BY <1>4, <2>1, <2>2, <2>3, <2>4 DEF Run
<1>5. ASSUME NEW j \in Jobs, NEW n \in Runs, RouteFails(j, n)
      PROVE  [Router!Next]_(Router!vars)
  BY <1>2, <1>5 DEF RouteFails, dlqVars
<1>6. ASSUME NEW j \in Jobs, NEW n \in Runs, CallFails(j, n)
      PROVE  [Router!Next]_(Router!vars)
  BY <1>1, <1>6 DEF CallFails, Quiet, dlqVars
<1>7. ASSUME NEW j \in Jobs, Take(j) \/ Stall(j)
      PROVE  [Router!Next]_(Router!vars)
  BY <1>1, <1>7 DEF Take, Stall, Quiet, dlqVars
<1>8. ASSUME NEW item \in Items, ProcessDlq(item)
      PROVE  [Router!Next]_(Router!vars)
  BY <1>1, <1>8 DEF ProcessDlq, Quiet
<1>9. CASE Crash
  BY <1>1, <1>9 DEF Crash, Quiet, dlqVars
<1>10. CASE UNCHANGED vars
  BY <1>1, <1>10 DEF vars, Quiet
<1> QED
  BY <1>4, <1>5, <1>6, <1>7, <1>8, <1>9, <1>10 DEF Next

(* Jobs that fail, run again, are overtaken by their own next run or look  *)
(* at one transaction together route it as one run that never fails.       *)
THEOREM Implements == Spec => RoutesAsOneRun
<1>1. Init => Router!Init
  <2> SUFFICES ASSUME Init PROVE Router!Init
    OBVIOUS
  <2>1. \A t \in Txs : {i \in Routable(t) : Covered(t, i)} = {}
    BY DEF Init, Covered
  <2> QED
    BY <2>1 DEF Init, Router!Init
<1>2. IInv /\ IInv' /\ [Next]_vars => [Router!Next]_(Router!vars)
  BY StepRoutes
<1> QED
  BY <1>1, <1>2, Invariance, PTL DEF Spec, RoutesAsOneRun, Router!Spec
-----------------------------------------------------------------------------
(* Copies are paid for: each belongs to a run that is past its instruction, *)
(* and the queue begins one run, and one more per throw and per lost lock.  *)

\* Run n of j may have added a copy of instruction i.
Past(j, n, i) ==
  at[j][n] > i \/ (at[j][n] = i /\ pc[j][n] \in {"idle", "dlq"})

Passers(t, i) ==
  {r \in Jobs \X Runs : /\ Tx(r[1]) = t /\ r[2] <= begun[r[1]]
                        /\ Past(r[1], r[2], i)}

RunsBegun == \A j \in Jobs : begun[j] <= failures[j] + stalls[j] + 1

\* A run starts at the first instruction.
RunsStart == \A j \in Jobs, n \in Runs :
  /\ n > begun[j] => pc[j][n] = "idle" /\ at[j][n] = 1
  /\ pc[j][n] = "fetch" => at[j][n] = 1

CopiesOwned ==
  \A t \in Txs : \A i \in Routable(t) : copies[t][i] <= Cardinality(Passers(t, i))

\* Only a failed call leads to the catch block.
AsideAfterFault ==
  faults = 0 => dlq = {} /\ \A j \in Jobs, n \in Runs : pc[j][n] # "dlq"

CopyInv == RunsBegun /\ RunsStart /\ CopiesOwned /\ AsideAfterFault

\* What a step does to run o of l: nothing, or it ends it, turns it to the
\* catch block, takes it further, or begins it.
Onward(l, o) ==
  \/ at'[l][o] = at[l][o] /\ pc'[l][o] \in {pc[l][o], "idle"}
  \/ at'[l][o] = at[l][o] /\ pc[l][o] = "route" /\ pc'[l][o] = "dlq"
  \/ at'[l][o] > at[l][o] /\ pc[l][o] \in {"route", "dlq"} /\ pc'[l][o] \in {"route", "mark"}
  \/ at'[l][o] >= 1 /\ pc[l][o] = "fetch" /\ pc'[l][o] \in {"route", "mark"}
  \/ /\ at'[l][o] = at[l][o] /\ pc'[l][o] = "fetch"
     /\ o = begun[l] + 1 /\ begun'[l] = o

\* What it does to the numbers of job l.
Paying(l) ==
  /\ failures'[l] >= failures[l] /\ stalls'[l] >= stalls[l]
  /\ \/ begun'[l] = begun[l]
     \/ begun'[l] = begun[l] + 1 /\ begun[l] = failures[l] + stalls[l]

\* And to the copies and the dead-letter queue.
Adding ==
  \/ copies' = copies
  \/ \E j \in Jobs, n \in Runs :
       /\ pc[j][n] = "route" /\ copies' = Added(j, n)
       /\ \/ at'[j][n] = at[j][n] /\ pc'[j][n] = "dlq"
          \/ at'[j][n] > at[j][n]

Blaming ==
  /\ faults <= faults' /\ faults' \in Nat
  /\ dlq' = dlq \/ \E j \in Jobs, n \in Runs : pc[j][n] = "dlq"
  /\ faults' > faults \/ \A j \in Jobs, n \in Runs : pc'[j][n] = "dlq" => pc[j][n] = "dlq"

\* Where GoOn goes.
LEMMA GoOnOnward ==
  ASSUME Types, NEW j \in Jobs, NEW n \in Runs, NEW i \in Nat \ {0}, GoOn(j, n, i),
         pc[j][n] = "fetch" \/ (pc[j][n] \in {"route", "dlq"} /\ i = at[j][n] + 1)
  PROVE  /\ \A l \in Jobs, o \in Runs : Onward(l, o)
         /\ \A l \in Jobs : Paying(l)
         /\ \A l \in Jobs, o \in Runs : pc'[l][o] = "dlq" => pc[l][o] = "dlq"
         /\ i <= at'[j][n]
<1>1. PICK k \in i..End(Tx(j)) :
        /\ at' = [at EXCEPT ![j][n] = k]
        /\ pc' = [pc EXCEPT ![j][n] = IF k = End(Tx(j)) THEN "mark" ELSE "route"]
  BY DEF GoOn
<1>2. End(Tx(j)) \in Nat /\ k \in Nat /\ k >= i /\ k >= 1
  BY SequenceType, TransactionPipelineAssumption DEF Tx
<1>3. at'[j][n] = k /\ pc'[j][n] \in {"route", "mark"} /\ at[j][n] \in Nat
  BY <1>1 DEF Types, RunType
<1>4. \A l \in Jobs, o \in Runs : l # j \/ o # n =>
        pc'[l][o] = pc[l][o] /\ at'[l][o] = at[l][o]
  BY GoOnFacts
<1>5. Onward(j, n)
  BY <1>2, <1>3 DEF Onward
<1>6. \A l \in Jobs, o \in Runs : Onward(l, o)
  BY <1>4, <1>5 DEF Onward
<1>7. \A l \in Jobs : Paying(l)
  BY JobNumbers DEF GoOn, queueVars, Paying, Types
<1> QED BY <1>2, <1>3, <1>4, <1>6, <1>7

\* Every step is of that kind.
LEMMA StepEffects ==
  ASSUME IInv, [Next]_vars
  PROVE  /\ \A l \in Jobs, o \in Runs : Onward(l, o)
         /\ \A l \in Jobs : Paying(l)
         /\ Adding /\ Blaming
<1>t. Types
  BY DEF IInv
<1>f. faults \in Nat /\ (Fault \/ NoFault => faults <= faults' /\ faults' \in Nat)
  BY <1>t, Bounds DEF Types, RowType, Fault, NoFault
<1>n. \A l \in Jobs : /\ failures[l] \in Int /\ stalls[l] \in Int /\ begun[l] \in Int
  BY <1>t, JobNumbers DEF Types
<1>q. /\ status \in [Jobs -> Settled \cup {"waiting", "active"}]
      /\ failures \in [Jobs -> 0..Attempts] /\ stalls \in [Jobs -> 0..(MaxStalls + 1)]
      /\ begun \in [Jobs -> {0} \cup Runs] /\ Counted
      /\ pc \in [Jobs -> [Runs -> {"idle", "fetch", "route", "dlq", "mark"}]]
      /\ at \in [Jobs -> [Runs -> Nat \ {0}]]
  BY <1>t DEF Types, QueueInv, QueueType, RunType
<1>1. ASSUME NEW j \in Jobs, Take(j)
      PROVE  /\ \A l \in Jobs, o \in Runs : Onward(l, o)
             /\ \A l \in Jobs : Paying(l)
             /\ Adding /\ Blaming
  <2>1. begun[j] = failures[j] + stalls[j] /\ begun'[j] = begun[j] + 1
    BY <1>1, <1>q DEF Take, Counted
  <2>2. \A l \in Jobs : Paying(l)
    BY <1>1, <1>q, <1>n, <2>1 DEF Take, Paying
  <2>3. \A l \in Jobs, o \in Runs : Onward(l, o)
    BY <1>1, <1>q, <2>1 DEF Take, Onward
  <2>4. \A l \in Jobs, o \in Runs : pc'[l][o] = "dlq" => pc[l][o] = "dlq"
    BY <1>1, <1>q DEF Take
  <2> QED BY <1>1, <1>f, <2>2, <2>3, <2>4 DEF Take, Adding, Blaming, dlqVars
<1>2. ASSUME NEW j \in Jobs, Stall(j)
      PROVE  /\ \A l \in Jobs, o \in Runs : Onward(l, o)
             /\ \A l \in Jobs : Paying(l)
             /\ Adding /\ Blaming
  <2>1. \A l \in Jobs : Paying(l)
    BY <1>2, <1>q, <1>n DEF Stall, Paying
  <2> QED BY <1>2, <1>f, <2>1 DEF Stall, Onward, Adding, Blaming, dlqVars
<1>3. CASE Crash
  <2>1. \A l \in Jobs : Paying(l)
    BY <1>3, <1>q, <1>n DEF Crash, Paying
  <2> QED BY <1>3, <1>f, <2>1 DEF Crash, Onward, Adding, Blaming, dlqVars
<1>4. ASSUME NEW j \in Jobs, NEW n \in Runs, NEW outcome, NEW thrown \in {0, 1},
             Report(j, n, outcome, thrown), Fault \/ NoFault, UNCHANGED <<copies, dlq>>
      PROVE  /\ \A l \in Jobs, o \in Runs : Onward(l, o)
             /\ \A l \in Jobs : Paying(l)
             /\ Adding /\ Blaming
  <2>1. \A l \in Jobs : Paying(l)
    BY <1>4, <1>q, <1>n DEF Report, Paying
  <2>2. \A l \in Jobs, o \in Runs : Onward(l, o)
    BY <1>4, <1>q DEF Report, Onward
  <2>3. \A l \in Jobs, o \in Runs : pc'[l][o] = "dlq" => pc[l][o] = "dlq"
    BY <1>4, <1>q DEF Report
  <2> QED BY <1>4, <1>f, <2>1, <2>2, <2>3 DEF Adding, Blaming
<1>5. ASSUME NEW j \in Jobs, NEW n \in Runs, getParsedTransaction(j, n)
      PROVE  /\ \A l \in Jobs, o \in Runs : Onward(l, o)
             /\ \A l \in Jobs : Paying(l)
             /\ Adding /\ Blaming
  <2>1. CASE Complete(j, n)
    BY <1>4, <1>5, <2>1 DEF getParsedTransaction, Complete, dlqVars
  <2>2. CASE GoOn(j, n, 1)
    BY <1>5, <1>t, <1>f, <2>2, GoOnOnward DEF getParsedTransaction, Adding, Blaming, dlqVars
  <2> QED BY <1>5, <2>1, <2>2 DEF getParsedTransaction
<1>6. ASSUME NEW j \in Jobs, NEW n \in Runs, routeToQueue(j, n)
      PROVE  /\ \A l \in Jobs, o \in Runs : Onward(l, o)
             /\ \A l \in Jobs : Paying(l)
             /\ Adding /\ Blaming
  <2>1. PICK x \in Nat \ {0} : x = at[j][n]
    BY <1>q
  <2>2. GoOn(j, n, x + 1) /\ x + 1 \in Nat \ {0} /\ pc[j][n] = "route"
        /\ copies' = Added(j, n) /\ NoFault /\ dlq' = dlq
    BY <1>6, <2>1 DEF routeToQueue, dlqVars
  <2>3. /\ \A l \in Jobs, o \in Runs : Onward(l, o)
        /\ \A l \in Jobs : Paying(l)
        /\ \A l \in Jobs, o \in Runs : pc'[l][o] = "dlq" => pc[l][o] = "dlq"
        /\ x + 1 <= at'[j][n]
    BY <1>t, <2>1, <2>2, GoOnOnward
  <2>4. RunType'
    BY <1>t, <2>2, GoOnFacts
  <2>5. at'[j][n] > x
    BY <2>3, <2>4 DEF RunType
  <2>6. Adding
    BY <2>1, <2>2, <2>5 DEF Adding
  <2> QED BY <1>f, <2>2, <2>3, <2>6 DEF Blaming
<1>7. ASSUME NEW j \in Jobs, NEW n \in Runs, RouteFails(j, n)
      PROVE  /\ \A l \in Jobs, o \in Runs : Onward(l, o)
             /\ \A l \in Jobs : Paying(l)
             /\ Adding /\ Blaming
  <2>1. /\ at' = at /\ pc' = [pc EXCEPT ![j][n] = "dlq"] /\ pc[j][n] = "route"
        /\ UNCHANGED <<failures, stalls, begun, dlq>> /\ Fault
        /\ copies' \in {copies, Added(j, n)}
    BY <1>7 DEF RouteFails, queueVars, dlqVars
  <2>2. pc'[j][n] = "dlq"
    BY <1>q, <2>1
  <2>3. \A l \in Jobs, o \in Runs : Onward(l, o)
    BY <1>q, <2>1 DEF Onward
  <2>4. Adding
    BY <2>1, <2>2 DEF Adding
  <2>5. Blaming
    BY <1>f, <2>1 DEF Blaming, Fault
  <2> QED BY <1>n, <2>1, <2>3, <2>4, <2>5 DEF Paying
<1>8. ASSUME NEW j \in Jobs, NEW n \in Runs, AddToDlq(j, n)
      PROVE  /\ \A l \in Jobs, o \in Runs : Onward(l, o)
             /\ \A l \in Jobs : Paying(l)
             /\ Adding /\ Blaming
  <2>1. at[j][n] \in Nat \ {0}
    BY <1>q
  <2>2. GoOn(j, n, at[j][n] + 1) /\ at[j][n] + 1 \in Nat \ {0} /\ pc[j][n] = "dlq"
        /\ copies' = copies /\ NoFault
    BY <1>8, <2>1 DEF AddToDlq
  <2> QED BY <1>f, <1>t, <2>2, GoOnOnward DEF Adding, Blaming
<1>9. ASSUME NEW j \in Jobs, NEW n \in Runs, MarkProcessed(j, n)
      PROVE  /\ \A l \in Jobs, o \in Runs : Onward(l, o)
             /\ \A l \in Jobs : Paying(l)
             /\ Adding /\ Blaming
  BY <1>4, <1>9 DEF MarkProcessed, Complete, dlqVars
<1>10. ASSUME NEW j \in Jobs, NEW n \in Runs, CallFails(j, n)
      PROVE  /\ \A l \in Jobs, o \in Runs : Onward(l, o)
             /\ \A l \in Jobs : Paying(l)
             /\ Adding /\ Blaming
  BY <1>4, <1>10 DEF CallFails, Throw, dlqVars
<1>11. CASE UNCHANGED vars \/ \E item \in Items : ProcessDlq(item)
  BY <1>11, <1>f, <1>n DEF vars, ProcessDlq, queueVars, Onward, Paying, Adding, Blaming
<1> QED BY <1>1, <1>2, <1>3, <1>5, <1>6, <1>7, <1>8, <1>9, <1>10, <1>11 DEF Next, Run

\* There are finitely many of them, before and after a step.
LEMMA PassersFinite ==
  ASSUME NEW t, NEW i
  PROVE  /\ IsFiniteSet(Passers(t, i)) /\ Cardinality(Passers(t, i)) \in Nat
         /\ IsFiniteSet(Passers(t, i)') /\ Cardinality(Passers(t, i)') \in Nat
<1>1. IsFiniteSet(Runs)
  BY Bounds, FS_Interval DEF Runs
<1>2. IsFiniteSet(Jobs \X Runs)
  BY <1>1, TransactionPipelineAssumption, FS_Product
<1>3. Passers(t, i) \in SUBSET (Jobs \X Runs) /\ Passers(t, i)' \in SUBSET (Jobs \X Runs)
  BY DEF Passers
<1>4. IsFiniteSet(Passers(t, i)) /\ IsFiniteSet(Passers(t, i)')
  BY <1>2, <1>3, FS_Subset
<1> QED BY <1>4, FS_CardinalityType

\* A copy that is added belongs to a run that was not past the instruction.
LEMMA CopyInvStep ==
  ASSUME IInv, CopyInv, [Next]_vars
  PROVE  CopyInv'
<1>t. Types /\ Types'
  BY NextIInv DEF IInv
<1>c. RunsBegun /\ RunsStart /\ CopiesOwned /\ AsideAfterFault
  BY DEF CopyInv
<1>e. /\ \A l \in Jobs, o \in Runs : Onward(l, o)
      /\ \A l \in Jobs : Paying(l)
      /\ Adding /\ Blaming
  BY StepEffects
<1>n. \A l \in Jobs : /\ failures[l] \in Int /\ stalls[l] \in Int /\ begun[l] \in Int
                      /\ failures'[l] \in Int /\ stalls'[l] \in Int /\ begun'[l] \in Int
  <2>1. /\ failures \in [Jobs -> 0..Attempts] /\ stalls \in [Jobs -> 0..(MaxStalls + 1)]
        /\ begun \in [Jobs -> {0} \cup Runs]
        /\ failures' \in [Jobs -> 0..Attempts] /\ stalls' \in [Jobs -> 0..(MaxStalls + 1)]
        /\ begun' \in [Jobs -> {0} \cup Runs]
    BY <1>t DEF Types, QueueInv, QueueType
  <2> QED BY <2>1 DEF Runs
<1>a. /\ \A l \in Jobs, o \in Runs : at[l][o] \in Nat \ {0} /\ at'[l][o] \in Nat \ {0}
      /\ Runs \subseteq Int
  <2>1. Runs \subseteq Int
    BY DEF Runs
  <2>2. at \in [Jobs -> [Runs -> Nat \ {0}]] /\ at' \in [Jobs -> [Runs -> Nat \ {0}]]
    BY <1>t DEF Types, RunType
  <2> QED BY <2>1, <2>2
<1>1. RunsBegun'
  BY <1>c, <1>e, <1>n DEF RunsBegun, Paying
<1>2. RunsStart'
  <2>1. ASSUME NEW j \in Jobs, NEW n \in Runs, n > begun'[j]
        PROVE  pc'[j][n] = "idle" /\ at'[j][n] = 1
    <3>1. n > begun[j]
      BY <1>e, <1>n, <1>a, <2>1 DEF Paying
    <3>2. pc[j][n] = "idle" /\ at[j][n] = 1
      BY <1>c, <3>1 DEF RunsStart
    <3> QED BY <1>e, <1>n, <2>1, <3>2 DEF Onward
  <2>2. ASSUME NEW j \in Jobs, NEW n \in Runs, pc'[j][n] = "fetch"
        PROVE  at'[j][n] = 1
    <3>1. at'[j][n] = at[j][n] /\ (pc[j][n] = "fetch" \/ n = begun[j] + 1)
      BY <1>e, <2>2 DEF Onward
    <3> QED BY <1>c, <1>n, <3>1 DEF RunsStart
  <2> QED BY <2>1, <2>2 DEF RunsStart
<1>3. ASSUME NEW t \in Txs, NEW i \in Routable(t)
      PROVE  /\ Passers(t, i) \subseteq Passers(t, i)'
             /\ i \in Nat \ {0}
  <2>1. i \in Nat \ {0}
    BY SequenceType
  <2>2. ASSUME NEW j \in Jobs, NEW n \in Runs, n <= begun[j], Past(j, n, i)
        PROVE  n <= begun'[j] /\ Past(j, n, i)'
    <3>1. n <= begun'[j]
      BY <1>e, <1>n, <1>a, <2>2 DEF Paying
    <3>2. n # begun[j] + 1 /\ (pc[j][n] = "fetch" => at[j][n] = 1)
      BY <1>c, <1>n, <1>a, <2>2 DEF RunsStart
    <3>3. Past(j, n, i)'
      BY <1>e, <1>a, <2>1, <2>2, <3>2 DEF Onward, Past
    <3> QED BY <3>1, <3>3
  <2> QED BY <2>1, <2>2 DEF Passers, Tx
<1>4. ASSUME NEW t \in Txs, NEW i \in Routable(t), copies'[t][i] = copies[t][i]
      PROVE  copies'[t][i] <= Cardinality(Passers(t, i)')
  <2>1. /\ IsFiniteSet(Passers(t, i)') /\ Cardinality(Passers(t, i)') \in Nat
        /\ Cardinality(Passers(t, i)) \in Nat
    BY PassersFinite
  <2>2. Cardinality(Passers(t, i)) <= Cardinality(Passers(t, i)')
    BY <1>3, <2>1, FS_Subset
  <2>3. copies[t][i] <= Cardinality(Passers(t, i)) /\ copies[t][i] \in Nat
    BY <1>c, <1>t DEF CopiesOwned, Types, CopiesType
  <2> QED BY <1>4, <2>1, <2>2, <2>3
<1>5. CopiesOwned'
  <2>1. CASE copies' = copies
    BY <1>4, <2>1 DEF CopiesOwned, Routable
  <2>2. ASSUME NEW j \in Jobs, NEW n \in Runs, pc[j][n] = "route", copies' = Added(j, n),
               \/ at'[j][n] = at[j][n] /\ pc'[j][n] = "dlq"
               \/ at'[j][n] > at[j][n]
        PROVE  CopiesOwned'
    <3>0. PICK u \in Txs, x \in Nat : u = Tx(j) /\ x = at[j][n] /\ x \in Routable(u)
      BY <1>a, <1>t, <2>2, TransactionPipelineAssumption DEF Tx, Types, AtRoutable
    <3>2. copies[u] \in [Routable(u) -> Nat] /\ DOMAIN copies = Txs
      BY <1>t DEF Types, CopiesType
    <3>3. copies'[u] = [copies[u] EXCEPT ![x] = @ + 1]
          /\ \A t \in Txs : t # u => copies'[t] = copies[t]
      BY <2>2, <3>0, <3>2 DEF Added
    <3>4. copies'[u][x] = copies[u][x] + 1
      BY <3>0, <3>2, <3>3
    <3>5. ASSUME NEW t \in Txs, NEW i \in Routable(t), t # u \/ i # x
          PROVE  copies'[t][i] = copies[t][i]
      BY <3>2, <3>3, <3>5
    <3>6. copies'[u][x] <= Cardinality(Passers(u, x)')
      <4> DEFINE Q == Passers(u, x) \cup {<<j, n>>}
      <4>1. n <= begun[j]
        BY <1>c, <1>n, <1>a, <2>2 DEF RunsStart
      <4>2. n <= begun'[j]
        BY <1>e, <1>n, <1>a, <4>1 DEF Paying
      <4>3. Past(j, n, x)'
        BY <1>a, <2>2, <3>0 DEF Past
      <4>4. <<j, n>> \in Passers(u, x)'
        BY <3>0, <4>2, <4>3 DEF Passers, Tx
      <4>5. <<j, n>> \notin Passers(u, x)
        BY <1>a, <2>2, <3>0 DEF Passers, Past
      <4>6. /\ IsFiniteSet(Passers(u, x)) /\ Cardinality(Passers(u, x)) \in Nat
            /\ IsFiniteSet(Passers(u, x)') /\ Cardinality(Passers(u, x)') \in Nat
        BY PassersFinite
      <4>7. Q \subseteq Passers(u, x)'
        BY <1>3, <3>0, <4>4
      <4>8. copies[u][x] <= Cardinality(Passers(u, x)) /\ copies[u][x] \in Nat
        BY <1>c, <3>0, <3>2 DEF CopiesOwned
      <4>9. IsFiniteSet(Q) /\ Cardinality(Q) = Cardinality(Passers(u, x)) + 1
        BY <4>5, <4>6, FS_AddElement
      <4>10. Cardinality(Q) <= Cardinality(Passers(u, x)')
        BY <4>6, <4>7, FS_Subset
      <4> QED BY <3>4, <4>6, <4>8, <4>9, <4>10
    <3>7. ASSUME NEW t \in Txs, NEW i \in Routable(t)
          PROVE  copies'[t][i] <= Cardinality(Passers(t, i)')
      <4>1. CASE t = u /\ i = x
        <5>1. Passers(t, i)' = Passers(u, x)'
          BY <4>1 DEF Passers, Past
        <5> QED BY <3>6, <4>1, <5>1
      <4>2. CASE t # u \/ i # x
        BY <1>4, <3>5, <4>2
      <4> QED BY <4>1, <4>2
    <3> QED BY <3>7 DEF CopiesOwned, Routable
  <2> QED BY <1>e, <2>1, <2>2 DEF Adding
<1>6. AsideAfterFault'
  <2>1. faults \in Nat
    BY <1>t, Bounds DEF Types, RowType
  <2> QED BY <1>c, <1>e, <2>1 DEF AsideAfterFault, Blaming
<1> QED BY <1>1, <1>2, <1>5, <1>6 DEF CopyInv

\* A run past an instruction is one of those its job has paid for.
LEMMA CopiesPaidFromInv ==
  ASSUME IInv, CopyInv
  PROVE  CopiesPaid
<1>t. Types
  BY DEF IInv
<1> SUFFICES ASSUME NEW t \in Txs, NEW i \in Routable(t)
             PROVE  copies[t][i] <= SumFunctionOnSet([j \in Jobs |-> 1 + failures[j] + stalls[j]],
                                                     {j \in Jobs : Tx(j) = t})
  BY DEF CopiesPaid, CopyInv, AsideAfterFault
<1> DEFINE w == [j \in Jobs |-> 1 + failures[j] + stalls[j]]
           S == {j \in Jobs : Tx(j) = t}
<1>1. \A j \in Jobs : w[j] \in Nat /\ begun[j] <= w[j] /\ begun[j] \in Int
  <2>1. \A j \in Jobs : /\ failures[j] \in Int /\ stalls[j] \in Int /\ begun[j] \in Int
                        /\ 0 <= failures[j] /\ 0 <= stalls[j]
    BY <1>t, JobNumbers DEF Types
  <2> QED BY <2>1 DEF CopyInv, RunsBegun
<1>2. IsFiniteSet(S)
  BY TransactionPipelineAssumption, FS_Subset
<1>3. IsFiniteSet(Pairs(w, S)) /\ Cardinality(Pairs(w, S)) = SumFunctionOnSet(w, S)
  <2>1. \A j \in S : w[j] \in Nat
    BY <1>1
  <2> HIDE DEF w, S
  <2> QED BY <1>2, <2>1, PairsCounted
<1>4. Passers(t, i) \subseteq Pairs(w, S)
  <2>1. Runs \subseteq Nat /\ \A n \in Runs : n >= 1
    BY DEF Runs
  <2> HIDE DEF w
  <2>2. ASSUME NEW r \in Passers(t, i) PROVE r \in Pairs(w, S)
    <3>1. PICK j \in Jobs, n \in Runs : r = <<j, n>> /\ Tx(j) = t /\ n <= begun[j]
      BY DEF Passers
    <3>2. j \in S /\ n \in Nat /\ n >= 1 /\ begun[j] <= w[j] /\ w[j] \in Nat /\ begun[j] \in Int
      BY <1>1, <2>1, <3>1
    <3>3. n <= w[j]
      BY <3>1, <3>2
    <3> QED BY <3>1, <3>2, <3>3 DEF Pairs
  <2> QED BY <2>2
<1>5. Cardinality(Passers(t, i)) <= Cardinality(Pairs(w, S))
  BY <1>3, <1>4, FS_Subset
<1>6. copies[t][i] <= Cardinality(Passers(t, i)) /\ copies[t][i] \in Nat
  BY <1>t DEF CopyInv, CopiesOwned, Types, CopiesType
<1>7. Cardinality(Passers(t, i)) \in Nat /\ Cardinality(Pairs(w, S)) \in Nat
  BY <1>3, PassersFinite, FS_CardinalityType
<1>8. copies[t][i] <= Cardinality(Pairs(w, S))
  BY <1>5, <1>6, <1>7
<1> QED BY <1>3, <1>8

\* The invariant of the copies holds at the start and survives every step.
LEMMA CopyInvAlways == Spec => []CopyInv
<1>1. Init => CopyInv
  <2> SUFFICES ASSUME Init PROVE CopyInv
    OBVIOUS
  <2>1. RunsBegun /\ RunsStart /\ AsideAfterFault
    BY DEF Init, RunsBegun, RunsStart, AsideAfterFault
  <2>2. \A t \in Txs : \A i \in Routable(t) : copies[t][i] = 0
    BY DEF Init
  <2>3. CopiesOwned
    BY <2>2, PassersFinite DEF CopiesOwned
  <2> QED BY <2>1, <2>3 DEF CopyInv
<1> QED BY <1>1, CopyInvStep, Invariance, PTL DEF Spec

(* However often a transaction's jobs are run again or beside each other,  *)
(* an instruction has no more copies than its jobs, their throws and their *)
(* lost locks account for, and nothing is put aside without a fault.       *)
THEOREM CopiesPaidAlways == Spec => []CopiesPaid
BY Invariance, CopyInvAlways, CopiesPaidFromInv, PTL
-----------------------------------------------------------------------------
(* No livelock.  What is left of a job counts its attempts and its stalls, *)
(* what is left of a run the calls it has in front of it.  Every step      *)
(* takes something from a job, or nothing from any and something from a    *)
(* run, or nothing from those and one item from the dead-letter queue.     *)

Stage(s) ==
  CASE s = "waiting" -> 2
    [] s = "active" -> 1
    [] s \in Settled -> 0

JobLeft(j) ==
  3 * ((Attempts - failures[j]) + (MaxStalls + 1 - stalls[j])) + Stage(status[j])

RunLeft(j, n) ==
  CASE pc[j][n] = "fetch" -> 2 * End(Tx(j)) + 1
    [] pc[j][n] = "route" -> 2 * (End(Tx(j)) - at[j][n]) + 2
    [] pc[j][n] = "dlq"   -> 2 * (End(Tx(j)) - at[j][n]) + 1
    [] pc[j][n] = "mark"  -> 1
    [] pc[j][n] = "idle"  -> 0

NoLivelock ==
  [][/\ \A j \in Jobs : JobLeft(j) \in Nat /\ JobLeft(j)' <= JobLeft(j)
     /\ \A j \in Jobs, n \in Runs : RunLeft(j, n) \in Nat
     /\ IsFiniteSet(dlqWaiting)
     /\ \/ \E j \in Jobs : JobLeft(j)' < JobLeft(j)
        \/ /\ \A j \in Jobs, n \in Runs : RunLeft(j, n)' <= RunLeft(j, n)
           /\ \/ \E j \in Jobs, n \in Runs : RunLeft(j, n)' < RunLeft(j, n)
              \/ dlqWaiting' \subseteq dlqWaiting /\ dlqWaiting' # dlqWaiting]_vars

LEMMA LeftNat ==
  ASSUME Types
  PROVE  /\ \A j \in Jobs : JobLeft(j) \in Nat
         /\ \A j \in Jobs, n \in Runs : RunLeft(j, n) \in Nat
<1>1. ASSUME NEW j \in Jobs PROVE JobLeft(j) \in Nat
  <2>1. /\ Attempts \in Nat /\ MaxStalls \in Nat
        /\ failures[j] \in 0..Attempts /\ stalls[j] \in 0..(MaxStalls + 1)
        /\ status[j] \in Settled \cup {"waiting", "active"}
    BY Bounds DEF Types, QueueInv, QueueType
  <2>2. Stage(status[j]) \in 0..2
    BY <2>1 DEF Stage, Settled
  <2> QED BY <2>1, <2>2 DEF JobLeft
<1>2. ASSUME NEW j \in Jobs, NEW n \in Runs PROVE RunLeft(j, n) \in Nat
  <2>1. pc[j][n] \in {"idle", "fetch", "route", "dlq", "mark"} /\ at[j][n] \in Nat
    BY DEF Types, RunType
  <2>2. End(Tx(j)) \in Nat /\ Routable(Tx(j)) \subseteq 1..(End(Tx(j)) - 1)
    BY SequenceType, TransactionPipelineAssumption DEF Tx, End
  <2>3. pc[j][n] \in {"route", "dlq"} => at[j][n] < End(Tx(j))
    BY <2>1, <2>2 DEF Types, AtRoutable
  <2> QED BY <2>1, <2>2, <2>3 DEF RunLeft
<1> QED BY <1>1, <1>2

\* What a step does to the status of a job and to its numbers.
JobStep(j) ==
  \/ UNCHANGED <<status[j], failures[j], stalls[j]>>
  \/ /\ UNCHANGED <<failures[j], stalls[j]>>
     /\ \/ status[j] = "waiting" /\ status'[j] = "active"
        \/ status[j] = "active" /\ status'[j] = "completed"
  \/ /\ status[j] = "active" /\ status'[j] \in {"waiting", "failed"}
     /\ \/ failures'[j] = failures[j] + 1 /\ stalls'[j] = stalls[j]
        \/ stalls'[j] = stalls[j] + 1 /\ failures'[j] = failures[j]

LEMMA JobStepLeft ==
  ASSUME Types, NEW j \in Jobs, JobStep(j)
  PROVE  /\ JobLeft(j)' <= JobLeft(j)
         /\ status'[j] # status[j] => JobLeft(j)' < JobLeft(j)
<1>1. /\ Attempts \in Nat /\ MaxStalls \in Nat
      /\ failures[j] \in Nat /\ stalls[j] \in Nat
  BY Bounds DEF Types, QueueInv, QueueType
<1>2. CASE UNCHANGED <<status[j], failures[j], stalls[j]>>
  <2>1. JobLeft(j)' = JobLeft(j)
    BY <1>2 DEF JobLeft
  <2> QED BY <1>2, <2>1, LeftNat
<1>3. /\ Stage("waiting") = 2 /\ Stage("active") = 1
      /\ Stage("completed") = 0 /\ Stage("failed") = 0
  BY DEF Stage, Settled
<1>4. CASE ~UNCHANGED <<status[j], failures[j], stalls[j]>>
  <2> HIDE DEF Stage
  <2>1. JobLeft(j)' < JobLeft(j) /\ JobLeft(j)' <= JobLeft(j)
    BY <1>1, <1>3, <1>4 DEF JobStep, JobLeft
  <2> QED BY <2>1
<1> QED BY <1>2, <1>4

\* A run that does not begin has no more left, and less if it went on.
LEMMA OnwardLeft ==
  ASSUME Types, Types', NEW j \in Jobs, NEW n \in Runs, Onward(j, n), begun'[j] = begun[j]
  PROVE  /\ RunLeft(j, n)' <= RunLeft(j, n)
         /\ pc'[j][n] # pc[j][n] \/ at'[j][n] # at[j][n] => RunLeft(j, n)' < RunLeft(j, n)
<1>1. /\ pc[j][n] \in {"idle", "fetch", "route", "dlq", "mark"}
      /\ at[j][n] \in Nat \ {0} /\ at'[j][n] \in Nat \ {0} /\ begun[j] \in Int
  BY JobNumbers DEF Types, RunType
<1>2. End(Tx(j)) \in Nat /\ Routable(Tx(j)) \subseteq 1..(End(Tx(j)) - 1)
  BY SequenceType, TransactionPipelineAssumption DEF Tx, End
<1>3. /\ pc[j][n] \in {"route", "dlq"} => at[j][n] < End(Tx(j))
      /\ pc'[j][n] \in {"route", "dlq"} => at'[j][n] < End(Tx(j))
  BY <1>1, <1>2 DEF Types, AtRoutable
<1>4. (Tx(j))' = Tx(j) /\ (End(Tx(j)))' = End(Tx(j))
  BY DEF Tx, End
<1>5. PICK e \in Nat : e = End(Tx(j))
  BY <1>2
<1>6. /\ RunLeft(j, n) \in Nat
      /\ RunLeft(j, n)' = CASE pc'[j][n] = "fetch" -> 2 * e + 1
                            [] pc'[j][n] = "route" -> 2 * (e - at'[j][n]) + 2
                            [] pc'[j][n] = "dlq"   -> 2 * (e - at'[j][n]) + 1
                            [] pc'[j][n] = "mark"  -> 1
                            [] pc'[j][n] = "idle"  -> 0
      /\ RunLeft(j, n) = CASE pc[j][n] = "fetch" -> 2 * e + 1
                           [] pc[j][n] = "route" -> 2 * (e - at[j][n]) + 2
                           [] pc[j][n] = "dlq"   -> 2 * (e - at[j][n]) + 1
                           [] pc[j][n] = "mark"  -> 1
                           [] pc[j][n] = "idle"  -> 0
  BY <1>4, <1>5, LeftNat DEF RunLeft
<1>7. CASE at'[j][n] = at[j][n] /\ pc'[j][n] = pc[j][n]
  <2>1. RunLeft(j, n)' = RunLeft(j, n)
    BY <1>4, <1>7 DEF RunLeft
  <2>2. RunLeft(j, n) \in Int
    BY LeftNat
  <2> QED BY <1>7, <2>1, <2>2
<1>8. CASE at'[j][n] = at[j][n] /\ pc'[j][n] = "idle" /\ pc[j][n] # "idle"
  BY <1>1, <1>3, <1>5, <1>6, <1>8
<1>9. CASE at'[j][n] = at[j][n] /\ pc[j][n] = "route" /\ pc'[j][n] = "dlq"
  BY <1>1, <1>3, <1>5, <1>6, <1>9
<1>10. CASE at'[j][n] > at[j][n] /\ pc[j][n] \in {"route", "dlq"} /\ pc'[j][n] \in {"route", "mark"}
  BY <1>1, <1>3, <1>5, <1>6, <1>10
<1>11. CASE pc[j][n] = "fetch" /\ pc'[j][n] \in {"route", "mark"}
  <2>1. RunLeft(j, n) = 2 * e + 1 /\ e >= 1
    BY <1>5, <1>6, <1>11, SequenceType, TransactionPipelineAssumption DEF Tx
  <2>2. CASE pc'[j][n] = "route"
    BY <1>1, <1>5, <1>6, <2>1, <2>2
  <2>3. CASE pc'[j][n] = "mark"
    BY <1>1, <1>5, <1>6, <2>1, <2>3
  <2> QED BY <1>11, <2>2, <2>3
<1> QED BY <1>1, <1>7, <1>8, <1>9, <1>10, <1>11 DEF Onward

\* Run n of j ends or goes on.
Moves(j, n) == begun' = begun /\ (pc'[j][n] # pc[j][n] \/ at'[j][n] # at[j][n])

\* Some job changes its status, some run moves, or an item is taken from
\* the dead-letter queue.
Moved ==
  \/ \E j \in Jobs : status'[j] # status[j]
  \/ \E j \in Jobs, n \in Runs : Moves(j, n)
  \/ /\ UNCHANGED <<pc, at>>
     /\ \E item \in dlqWaiting : dlqWaiting' = dlqWaiting \ {item}

LEMMA StepMoves ==
  ASSUME Types, Next
  PROVE  (\A l \in Jobs : JobStep(l)) /\ Moved
<1>q. /\ status \in [Jobs -> Settled \cup {"waiting", "active"}]
      /\ failures \in [Jobs -> 0..Attempts] /\ stalls \in [Jobs -> 0..(MaxStalls + 1)]
      /\ pc \in [Jobs -> [Runs -> {"idle", "fetch", "route", "dlq", "mark"}]]
      /\ at \in [Jobs -> [Runs -> Nat \ {0}]]
  BY DEF Types, QueueInv, QueueType, RunType
<1>1. ASSUME NEW j \in Jobs, Take(j) \/ Stall(j)
      PROVE  (\A l \in Jobs : JobStep(l)) /\ status'[j] # status[j]
  BY <1>1, <1>q DEF Take, Stall, AfterStall, JobStep
<1>2. CASE Crash
  <2>1. PICK j \in Jobs : status[j] = "active"
    BY <1>2 DEF Crash
  <2>2. \A l \in Jobs : JobStep(l)
    BY <1>2, <1>q DEF Crash, AfterStall, JobStep
  <2>3. status'[j] # status[j]
    BY <1>2, <1>q, <2>1 DEF Crash, AfterStall
  <2> QED BY <2>2, <2>3 DEF Moved
<1>3. ASSUME NEW j \in Jobs, NEW n \in Runs, pc[j][n] # "idle", Complete(j, n) \/ Throw(j, n)
      PROVE  (\A l \in Jobs : JobStep(l)) /\ Moves(j, n)
  <2>1. Moves(j, n)
    BY <1>3, <1>q DEF Complete, Throw, Report, Moves
  <2>2. CASE ~HoldsLock(j, n)
    BY <1>3, <2>1, <2>2 DEF Complete, Throw, Report, JobStep
  <2>3. CASE HoldsLock(j, n) /\ Complete(j, n)
    <3>1. failures'[j] = failures[j]
      BY <1>q, <2>3 DEF Complete, Report
    <3> QED BY <1>q, <2>1, <2>3, <3>1 DEF Complete, Report, JobStep, HoldsLock
  <2>4. CASE HoldsLock(j, n) /\ Throw(j, n)
    BY <1>q, <2>1, <2>4 DEF Throw, Report, JobStep, HoldsLock
  <2> QED BY <1>3, <2>2, <2>3, <2>4
<1>4. ASSUME NEW j \in Jobs, NEW n \in Runs, NEW i \in Nat \ {0}, GoOn(j, n, i),
             pc[j][n] \in {"fetch", "dlq"} \/ (pc[j][n] = "route" /\ i = at[j][n] + 1)
      PROVE  (\A l \in Jobs : JobStep(l)) /\ Moves(j, n)
  <2>1. PICK k \in i..End(Tx(j)) :
          /\ at' = [at EXCEPT ![j][n] = k]
          /\ pc' = [pc EXCEPT ![j][n] = IF k = End(Tx(j)) THEN "mark" ELSE "route"]
    BY <1>4 DEF GoOn
  <2>2. End(Tx(j)) \in Nat /\ k \in Nat /\ k >= i
    BY SequenceType, TransactionPipelineAssumption DEF Tx
  <2>3. at'[j][n] = k /\ pc'[j][n] \in {"route", "mark"} /\ at[j][n] \in Nat
    BY <1>q, <2>1
  <2>4. pc'[j][n] # pc[j][n] \/ at'[j][n] # at[j][n]
    BY <1>4, <2>2, <2>3
  <2> QED BY <1>4, <2>4 DEF GoOn, queueVars, JobStep, Moves
<1>5. ASSUME NEW j \in Jobs, NEW n \in Runs, Run(j, n) \/ RouteFails(j, n) \/ CallFails(j, n)
      PROVE  (\A l \in Jobs : JobStep(l)) /\ Moves(j, n)
  <2>1. CASE getParsedTransaction(j, n)
    BY <1>3, <1>4, <2>1 DEF getParsedTransaction
  <2>2. CASE routeToQueue(j, n) \/ AddToDlq(j, n)
    <3>1. at[j][n] \in Nat \ {0}
      BY <1>q
    <3>2. at[j][n] + 1 \in Nat \ {0}
      BY <3>1
    <3> QED BY <1>4, <2>2, <3>2 DEF routeToQueue, AddToDlq
  <2>3. CASE MarkProcessed(j, n) \/ CallFails(j, n)
    BY <1>3, <2>3 DEF MarkProcessed, CallFails
  <2>4. CASE RouteFails(j, n)
    BY <1>q, <2>4 DEF RouteFails, queueVars, JobStep, Moves
  <2> QED BY <1>5, <2>1, <2>2, <2>3, <2>4 DEF Run
<1>6. ASSUME NEW item \in Items, ProcessDlq(item)
      PROVE  (\A l \in Jobs : JobStep(l)) /\ Moved
  BY <1>6 DEF ProcessDlq, queueVars, JobStep, Moved
<1> QED BY <1>1, <1>2, <1>5, <1>6 DEF Next, Moved

LEMMA StepLeft ==
  ASSUME IInv, IInv', [Next]_vars, vars' # vars
  PROVE  /\ \A j \in Jobs : JobLeft(j)' <= JobLeft(j)
         /\ \/ \E j \in Jobs : JobLeft(j)' < JobLeft(j)
            \/ /\ \A j \in Jobs, n \in Runs : RunLeft(j, n)' <= RunLeft(j, n)
               /\ \/ \E j \in Jobs, n \in Runs : RunLeft(j, n)' < RunLeft(j, n)
                  \/ dlqWaiting' \subseteq dlqWaiting /\ dlqWaiting' # dlqWaiting
<1>1. Types /\ Types'
  BY DEF IInv
<1>2. (\A l \in Jobs : JobStep(l)) /\ Moved
  BY <1>1, StepMoves
<1>3. \A j \in Jobs : /\ JobLeft(j)' <= JobLeft(j)
                      /\ status'[j] # status[j] => JobLeft(j)' < JobLeft(j)
  BY <1>1, <1>2, JobStepLeft
<1>4. \A l \in Jobs, o \in Runs : Onward(l, o)
  BY StepEffects
<1>5. ASSUME NEW j \in Jobs, NEW n \in Runs, Moves(j, n)
      PROVE  /\ \A l \in Jobs, o \in Runs : RunLeft(l, o)' <= RunLeft(l, o)
             /\ RunLeft(j, n)' < RunLeft(j, n)
  BY <1>1, <1>4, <1>5, OnwardLeft DEF Moves
<1>6. ASSUME UNCHANGED <<pc, at>>
      PROVE  \A l \in Jobs, o \in Runs : RunLeft(l, o)' <= RunLeft(l, o)
  <2>1. ASSUME NEW l \in Jobs, NEW o \in Runs PROVE RunLeft(l, o)' = RunLeft(l, o)
    BY <1>6 DEF RunLeft
  <2> QED BY <1>1, <2>1, LeftNat
<1> QED BY <1>2, <1>3, <1>5, <1>6 DEF Moved

\* One step puts at most one item aside.
LEMMA WaitingFinite == Spec => []IsFiniteSet(dlqWaiting)
<1>1. Init => IsFiniteSet(dlqWaiting)
  BY FS_EmptySet DEF Init
<1>2. IsFiniteSet(dlqWaiting) /\ [Next]_vars => IsFiniteSet(dlqWaiting)'
  <2> SUFFICES ASSUME IsFiniteSet(dlqWaiting), [Next]_vars PROVE IsFiniteSet(dlqWaiting')
    OBVIOUS
  <2>1. \/ dlqWaiting' = dlqWaiting
        \/ \E item : dlqWaiting' = dlqWaiting \cup {item}
        \/ \E item : dlqWaiting' = dlqWaiting \ {item}
    BY DEF Next, vars, Take, Stall, Crash, Run, getParsedTransaction, routeToQueue, AddToDlq,
           MarkProcessed, RouteFails, CallFails, ProcessDlq, dlqVars
  <2> QED BY <2>1, FS_AddElement, FS_RemoveElement
<1> QED BY <1>1, <1>2, PTL DEF Spec

(* However runs and jobs interleave, throw, lose their lock and are taken   *)
(* over: the transaction queue does not work for ever on what it has.  A    *)
(* run goes on to a later instruction or ends, a job begins as many runs as *)
(* it has attempts and stalls, and an item put aside is processed once;     *)
(* each step lessens one of these, and none that comes before it grows.     *)
THEOREM WorkEnds == Spec => NoLivelock
<1>1. IInv /\ IInv' /\ IsFiniteSet(dlqWaiting) /\ [Next]_vars =>
        [/\ \A j \in Jobs : JobLeft(j) \in Nat /\ JobLeft(j)' <= JobLeft(j)
         /\ \A j \in Jobs, n \in Runs : RunLeft(j, n) \in Nat
         /\ IsFiniteSet(dlqWaiting)
         /\ \/ \E j \in Jobs : JobLeft(j)' < JobLeft(j)
            \/ /\ \A j \in Jobs, n \in Runs : RunLeft(j, n)' <= RunLeft(j, n)
               /\ \/ \E j \in Jobs, n \in Runs : RunLeft(j, n)' < RunLeft(j, n)
                  \/ dlqWaiting' \subseteq dlqWaiting /\ dlqWaiting' # dlqWaiting]_vars
  BY StepLeft, LeftNat DEF IInv
<1> QED BY <1>1, Invariance, WaitingFinite, PTL DEF Spec, NoLivelock
-----------------------------------------------------------------------------
(* The parser in front: what it extracts, and what that makes of the       *)
(* theorems about the pipeline.                                            *)

\* A function on 1..n is a sequence, of the set of its values.
LEMMA SequenceOf ==
  ASSUME NEW S, NEW n \in Nat, NEW f, f = [i \in 1..n |-> f[i]], \A i \in 1..n : f[i] \in S
  PROVE  f \in Seq(S) /\ Len(f) = n
<1>1. f \in [1..n -> S]
  OBVIOUS
<1> QED BY <1>1

\* f[i] is the concatenation of the first i of the sequences.
Flattens(f, seqs, n) ==
  f = [i \in 1..n |-> IF i = 1 THEN seqs[i] ELSE f[i - 1] \o seqs[i]]

\* There is one for any number of them.
LEMMA FlattenUpTo ==
  ASSUME NEW seqs, NEW n \in Nat
  PROVE  \E f : Flattens(f, seqs, n)
<1> DEFINE Bad == {m \in Nat : ~ \E f : Flattens(f, seqs, m)}
<1> SUFFICES ASSUME Bad # {} PROVE FALSE
  OBVIOUS
<1>0. Bad \in SUBSET Nat
  OBVIOUS
<1>1. PICK m \in Bad : \A l \in Bad : m <= l
  BY <1>0, Least
<1> HIDE DEF Bad
<1>m. m \in Nat
  BY <1>0, <1>1
<1>2. CASE m = 0
  <2>1. Flattens([i \in 1..0 |-> << >>], seqs, 0)
    <3> DEFINE h == [i \in 1..0 |-> << >>]
    <3>1. h = [i \in 1..0 |-> h[i]]
      OBVIOUS
    <3>2. \A i \in 1..0 : FALSE
      OBVIOUS
    <3> HIDE DEF h
    <3>3. h = [i \in 1..0 |-> IF i = 1 THEN seqs[i] ELSE h[i - 1] \o seqs[i]]
      BY <3>1, <3>2
    <3> QED BY <3>3 DEF Flattens, h
  <2> QED BY <1>1, <1>2, <2>1 DEF Bad
<1>3. CASE m # 0
  <2>1. PICK g : Flattens(g, seqs, m - 1)
    BY <1>1, <1>3, <1>m DEF Bad
  <2> DEFINE h == [i \in 1..m |-> IF i = 1 THEN seqs[i] ELSE g[i - 1] \o seqs[i]]
  <2>2. \A i \in 1..(m - 1) : h[i] = g[i]
    <3>1. g = [i \in 1..(m - 1) |-> IF i = 1 THEN seqs[i] ELSE g[i - 1] \o seqs[i]]
      BY <2>1 DEF Flattens
    <3>2. \A i \in 1..(m - 1) : i \in 1..m
      BY <1>m
    <3>3. \A i \in 1..(m - 1) : g[i] = IF i = 1 THEN seqs[i] ELSE g[i - 1] \o seqs[i]
      BY <3>1
    <3> QED BY <3>2, <3>3
  <2>3. ASSUME NEW i \in 1..m PROVE h[i] = IF i = 1 THEN seqs[i] ELSE h[i - 1] \o seqs[i]
    <3>1. i # 1 => i - 1 \in 1..(m - 1)
      BY <1>m
    <3> QED BY <2>2, <3>1
  <2>4. h = [i \in 1..m |-> h[i]]
    OBVIOUS
  <2> HIDE DEF h
  <2>5. h = [i \in 1..m |-> IF i = 1 THEN seqs[i] ELSE h[i - 1] \o seqs[i]]
    BY <2>3, <2>4
  <2> QED BY <1>1, <2>5 DEF Flattens, Bad
<1> QED BY <1>2, <1>3

\* The concatenation has the elements of all of them.
LEMMA FlattenSeqs ==
  ASSUME NEW S, NEW seqs \in Seq(Seq(S))
  PROVE  /\ FlattenSeq(seqs) \in Seq(S)
         /\ \A p \in 1..Len(seqs) : \A q \in 1..Len(seqs[p]) :
              \E k \in 1..Len(FlattenSeq(seqs)) : FlattenSeq(seqs)[k] = seqs[p][q]
<1> DEFINE n == Len(seqs)
           f == CHOOSE g : Flattens(g, seqs, n)
           Right(i) ==
             /\ f[i] \in Seq(S)
             /\ \A p \in 1..i : \A q \in 1..Len(seqs[p]) :
                  \E k \in 1..Len(f[i]) : f[i][k] = seqs[p][q]
           Bad == {i \in 1..n : ~Right(i)}
<1>0. n \in Nat
  OBVIOUS
<1>1. Flattens(f, seqs, n)
  BY <1>0, FlattenUpTo
<1>2. FlattenSeq(seqs) = IF n = 0 THEN seqs ELSE f[n]
  BY DEF FlattenSeq, Flattens
<1> HIDE DEF f
<1>3. ASSUME Bad # {} PROVE FALSE
  <2>0. Bad \in SUBSET Nat
    OBVIOUS
  <2>1. PICK i \in Bad : \A l \in Bad : i <= l
    BY <1>3, <2>0, Least
  <2>2. i \in 1..n /\ ~Right(i)
    BY <2>1
  <2>3. f[i] = IF i = 1 THEN seqs[i] ELSE f[i - 1] \o seqs[i]
    BY <1>1, <2>2 DEF Flattens
  <2>4. seqs[i] \in Seq(S)
    BY <2>2
  <2>5. CASE i = 1
    <3>1. f[i] = seqs[i]
      BY <2>3, <2>5
    <3>2. \A p \in 1..i : p = i
      BY <2>5
    <3>3. Right(i)
      BY <2>4, <3>1, <3>2
    <3> QED BY <2>2, <3>3
  <2>6. CASE i # 1
    <3>1. i - 1 \in 1..n /\ ~(i <= i - 1)
      BY <1>0, <2>2, <2>6
    <3>2. Right(i - 1)
      BY <2>1, <3>1
    <3> DEFINE a == f[i - 1]
               b == seqs[i]
    <3>3. a \in Seq(S) /\ b \in Seq(S) /\ f[i] = a \o b
      BY <2>3, <2>4, <2>6, <3>2
    <3>l. Len(seqs[i]) = Len(b)
      OBVIOUS
    <3> HIDE DEF a, b
    <3>4. /\ Len(a \o b) = Len(a) + Len(b) /\ a \o b \in Seq(S)
          /\ \A k \in 1..Len(a) : (a \o b)[k] = a[k]
          /\ \A k \in 1..Len(b) : (a \o b)[Len(a) + k] = b[k]
          /\ Len(a) \in Nat /\ Len(b) \in Nat
      BY <3>3
    <3>5. ASSUME NEW p \in 1..i, NEW q \in 1..Len(seqs[p])
          PROVE  \E k \in 1..Len(f[i]) : f[i][k] = seqs[p][q]
      <4>1. CASE p = i
        <5>1. Len(a) + q \in 1..Len(a \o b) /\ (a \o b)[Len(a) + q] = b[q]
          <6>1. q \in 1..Len(b)
            BY <4>1, <3>l
          <6> QED BY <3>4, <6>1
        <5> QED BY <3>3, <4>1, <5>1 DEF b
      <4>2. CASE p # i
        <5>1. p \in 1..(i - 1)
          BY <4>2, <2>2
        <5>2. PICK k \in 1..Len(a) : a[k] = seqs[p][q]
          BY <3>2, <5>1 DEF a
        <5>3. k \in 1..Len(a \o b) /\ (a \o b)[k] = seqs[p][q]
          BY <3>4, <5>2
        <5> QED BY <3>3, <5>3
      <4> QED BY <4>1, <4>2
    <3>6. Right(i)
      BY <3>3, <3>4, <3>5
    <3> QED BY <2>2, <3>6
  <2> QED BY <2>5, <2>6
<1>4. CASE n = 0
  <2>1. FlattenSeq(seqs) = seqs /\ seqs \in Seq(S)
    BY <1>2, <1>4
  <2> QED BY <1>4, <2>1
<1>5. CASE n # 0
  <2>1. n \in 1..n
    BY <1>0, <1>5
  <2>2. Right(n)
    BY <1>3, <2>1
  <2> QED BY <1>2, <1>5, <2>2
<1> QED BY <1>4, <1>5

\* What the parser makes of a call.
Extracted(call, index, inner) ==
  [name |-> call.name, instructionIndex |-> index, isInner |-> inner]

Own(call) == call.program = LIQUIDITY_BOOK_PROGRAM_ID

\* The positions found are those of the program's calls, and all of them.
LEMMA OwnCallsFound ==
  ASSUME NEW instructions \in Seq(Calls)
  PROVE  /\ OwnCalls(instructions) \in Seq(1..Len(instructions))
         /\ \A i \in 1..Len(instructions) : Own(instructions[i]) =>
              \E p \in 1..Len(OwnCalls(instructions)) : OwnCalls(instructions)[p] = i
<1> DEFINE n == Len(instructions)
           seqs == [i \in DOMAIN instructions |->
                      IF instructions[i].program = LIQUIDITY_BOOK_PROGRAM_ID THEN <<i>> ELSE << >>]
<1>1. n \in Nat /\ DOMAIN instructions = 1..n
  OBVIOUS
<1>2. \A i \in 1..n : <<i>> \in Seq(1..n) /\ << >> \in Seq(1..n) /\ Len(<<i>>) = 1 /\ <<i>>[1] = i
  OBVIOUS
<1> HIDE DEF n
<1>3. seqs = [i \in 1..n |-> seqs[i]] /\ \A i \in 1..n : seqs[i] \in Seq(1..n)
  BY <1>1, <1>2
<1>4. \A i \in 1..n : Own(instructions[i]) => seqs[i] = <<i>>
  BY <1>1 DEF Own
<1> HIDE DEF seqs
<1>5. seqs \in Seq(Seq(1..n)) /\ Len(seqs) = n
  BY <1>1, <1>3, SequenceOf
<1>6. OwnCalls(instructions) = FlattenSeq(seqs)
  BY DEF OwnCalls, seqs
<1>7. FlattenSeq(seqs) \in Seq(1..n)
  BY <1>5, FlattenSeqs
<1>8. ASSUME NEW i \in 1..n, Own(instructions[i])
      PROVE  \E p \in 1..Len(FlattenSeq(seqs)) : FlattenSeq(seqs)[p] = i
  <2>1. seqs[i] = <<i>>
    BY <1>4, <1>8
  <2>2. 1 \in 1..Len(seqs[i]) /\ seqs[i][1] = i
    BY <1>2, <2>1
  <2>3. i \in 1..Len(seqs)
    BY <1>5
  <2>4. PICK p \in 1..Len(FlattenSeq(seqs)) : FlattenSeq(seqs)[p] = seqs[i][1]
    <3> HIDE DEF n
    <3>1. \A p \in 1..Len(seqs) : \A q \in 1..Len(seqs[p]) :
            \E k \in 1..Len(FlattenSeq(seqs)) : FlattenSeq(seqs)[k] = seqs[p][q]
      BY <1>5, FlattenSeqs
    <3> QED BY <2>2, <2>3, <3>1, Zenon
  <2> QED BY <2>2, <2>4
<1> QED BY <1>6, <1>7, <1>8 DEF n

Found(inner) == [name : STRING, instructionIndex : Nat, isInner : {inner}]

\* The calls at top level.
LEMMA OuterFound ==
  ASSUME NEW tx \in Transactions
  PROVE  /\ Outer(tx) \in Seq(Found(FALSE))
         /\ \A i \in 1..Len(tx.instructions) : Own(tx.instructions[i]) =>
              \E p \in 1..Len(Outer(tx)) :
                Outer(tx)[p] = Extracted(tx.instructions[i], i, FALSE)
<1> DEFINE s == tx.instructions
           own == OwnCalls(s)
<1>1. s \in Seq(Calls)
  BY DEF Transactions
<1>2. /\ own \in Seq(1..Len(s))
      /\ \A i \in 1..Len(s) : Own(s[i]) => \E p \in 1..Len(own) : own[p] = i
  BY <1>1, OwnCallsFound
<1>3. Outer(tx) = [p \in DOMAIN own |-> [name |-> s[own[p]].name,
                                         instructionIndex |-> own[p], isInner |-> FALSE]]
  BY DEF Outer
<1> HIDE DEF s, own
<1>4. Len(own) \in Nat /\ DOMAIN own = 1..Len(own)
  BY <1>2
<1>5. \A p \in 1..Len(own) : own[p] \in 1..Len(s) /\ own[p] \in Nat /\ s[own[p]] \in Calls
  <2> TAKE p \in 1..Len(own)
  <2>1. own[p] \in 1..Len(s)
    BY <1>2
  <2> QED BY <1>1, <2>1
<1>6. \A p \in 1..Len(own) :
        /\ Outer(tx)[p] = Extracted(s[own[p]], own[p], FALSE)
        /\ Outer(tx)[p] \in Found(FALSE)
  BY <1>3, <1>4, <1>5 DEF Extracted, Found, Calls
<1>7. Outer(tx) = [p \in 1..Len(own) |-> Outer(tx)[p]]
  BY <1>3, <1>4
<1>8. Outer(tx) \in Seq(Found(FALSE)) /\ Len(Outer(tx)) = Len(own)
  BY <1>4, <1>6, <1>7, SequenceOf
<1> QED BY <1>2, <1>6, <1>8 DEF s

\* The calls below one of them.
LEMMA InnerFound ==
  ASSUME NEW set \in [index : Nat, instructions : Seq(Calls)]
  PROVE  /\ Inner(set) \in Seq(Found(TRUE))
         /\ \A i \in 1..Len(set.instructions) : Own(set.instructions[i]) =>
              \E p \in 1..Len(Inner(set)) :
                Inner(set)[p] = Extracted(set.instructions[i], set.index, TRUE)
<1> DEFINE s == set.instructions
           own == OwnCalls(s)
<1>1. s \in Seq(Calls) /\ set.index \in Nat
  OBVIOUS
<1>2. /\ own \in Seq(1..Len(s))
      /\ \A i \in 1..Len(s) : Own(s[i]) => \E p \in 1..Len(own) : own[p] = i
  BY <1>1, OwnCallsFound
<1>3. Inner(set) = [p \in DOMAIN own |-> [name |-> s[own[p]].name,
                                          instructionIndex |-> set.index, isInner |-> TRUE]]
  BY DEF Inner
<1> HIDE DEF s, own
<1>4. Len(own) \in Nat /\ DOMAIN own = 1..Len(own)
  BY <1>2
<1>5. \A p \in 1..Len(own) : s[own[p]] \in Calls
  <2> TAKE p \in 1..Len(own)
  <2>1. own[p] \in 1..Len(s)
    BY <1>2
  <2> QED BY <1>1, <2>1
<1>6. \A p \in 1..Len(own) :
        /\ Inner(set)[p] = Extracted(s[own[p]], set.index, TRUE)
        /\ Inner(set)[p] \in Found(TRUE)
  BY <1>1, <1>3, <1>4, <1>5 DEF Extracted, Found, Calls
<1>7. Inner(set) = [p \in 1..Len(own) |-> Inner(set)[p]]
  BY <1>3, <1>4
<1>8. Inner(set) \in Seq(Found(TRUE)) /\ Len(Inner(set)) = Len(own)
  BY <1>4, <1>6, <1>7, SequenceOf
<1> QED BY <1>2, <1>6, <1>8 DEF s

\* All inner calls, of all sets.
LEMMA AllInnerFound ==
  ASSUME NEW tx \in Transactions
  PROVE  /\ AllInner(tx) \in Seq(Found(TRUE))
         /\ \A s \in 1..Len(tx.innerInstructions) :
            \A i \in 1..Len(tx.innerInstructions[s].instructions) :
              Own(tx.innerInstructions[s].instructions[i]) =>
                \E p \in 1..Len(AllInner(tx)) :
                  AllInner(tx)[p] = Extracted(tx.innerInstructions[s].instructions[i],
                                              tx.innerInstructions[s].index, TRUE)
<1> DEFINE sets == tx.innerInstructions
           seqs == [s \in DOMAIN sets |-> Inner(sets[s])]
<1>1. sets \in Seq([index : Nat, instructions : Seq(Calls)])
  BY DEF Transactions
<1>2. AllInner(tx) = FlattenSeq(seqs)
  BY DEF AllInner
<1> HIDE DEF sets
<1>3. Len(sets) \in Nat /\ DOMAIN sets = 1..Len(sets)
  BY <1>1
<1> DEFINE Set == [index : Nat, instructions : Seq(Calls)]
<1>t. sets \in Seq(Set)
  BY <1>1
<1> HIDE DEF Set
<1>4. \A s \in 1..Len(sets) : sets[s] \in Set
  BY <1>t
<1>5. seqs = [s \in 1..Len(sets) |-> seqs[s]] /\ \A s \in 1..Len(sets) : seqs[s] = Inner(sets[s])
  BY <1>3
<1>6. \A s \in 1..Len(sets) : seqs[s] \in Seq(Found(TRUE))
  BY <1>4, <1>5, InnerFound DEF Set
<1> HIDE DEF seqs
<1>7. seqs \in Seq(Seq(Found(TRUE))) /\ Len(seqs) = Len(sets)
  BY <1>3, <1>5, <1>6, SequenceOf
<1>8. FlattenSeq(seqs) \in Seq(Found(TRUE))
  BY <1>7, FlattenSeqs
<1>9. ASSUME NEW s \in 1..Len(sets), NEW i \in 1..Len(sets[s].instructions),
             Own(sets[s].instructions[i])
      PROVE  \E p \in 1..Len(FlattenSeq(seqs)) :
               FlattenSeq(seqs)[p] = Extracted(sets[s].instructions[i], sets[s].index, TRUE)
  <2>1. PICK q \in 1..Len(seqs[s]) :
          seqs[s][q] = Extracted(sets[s].instructions[i], sets[s].index, TRUE)
    BY <1>4, <1>5, <1>9, InnerFound DEF Set
  <2>2. s \in 1..Len(seqs)
    BY <1>7
  <2>3. \E p \in 1..Len(FlattenSeq(seqs)) : FlattenSeq(seqs)[p] = seqs[s][q]
    BY <1>7, <2>1, <2>2, FlattenSeqs
  <2> QED BY <2>1, <2>3
<1> QED BY <1>2, <1>8, <1>9 DEF sets

\* The instructions of every transaction are what the parser extracts from it.
Parses(raw) ==
  \A t \in Txs : /\ raw[t] \in Transactions
                 /\ Instructions[t] = extractLiquidityBookInstructions(raw[t])

\* The two parts of what is extracted.
LEMMA Parts ==
  ASSUME NEW tx \in Transactions
  PROVE  LET all == extractLiquidityBookInstructions(tx)
             n == Len(Outer(tx))
         IN  /\ n \in Nat /\ Len(all) = n + Len(AllInner(tx)) /\ Len(AllInner(tx)) \in Nat
             /\ \A p \in 1..n : all[p] = Outer(tx)[p] /\ ~all[p].isInner
             /\ \A p \in 1..Len(AllInner(tx)) :
                  all[n + p] = AllInner(tx)[p] /\ all[n + p].isInner
<1> DEFINE a == Outer(tx)
           b == AllInner(tx)
<1>1. a \in Seq(Found(FALSE)) /\ b \in Seq(Found(TRUE))
  BY OuterFound, AllInnerFound
<1> HIDE DEF a, b
<1>2. /\ Len(a) \in Nat /\ Len(b) \in Nat
      /\ \A p \in 1..Len(a) : a[p] \in Found(FALSE)
      /\ \A p \in 1..Len(b) : b[p] \in Found(TRUE)
  <2> DEFINE F == Found(FALSE)
             T == Found(TRUE)
  <2>1. a \in Seq(F) /\ b \in Seq(T)
    BY <1>1
  <2> HIDE DEF F, T
  <2>2. Len(a) \in Nat /\ Len(b) \in Nat
    BY <2>1
  <2>3. \A p \in 1..Len(a) : a[p] \in F
    BY <2>1
  <2>4. \A p \in 1..Len(b) : b[p] \in T
    BY <2>1
  <2> QED BY <2>2, <2>3, <2>4 DEF F, T
<1> DEFINE Both == Found(FALSE) \cup Found(TRUE)
<1>b. \A x : x \in Found(FALSE) \/ x \in Found(TRUE) => x \in Both
  OBVIOUS
<1> HIDE DEF Both
<1>3. a \in Seq(Both) /\ b \in Seq(Both)
  <2> DEFINE F == Found(FALSE)
             T == Found(TRUE)
  <2>0. a \in Seq(F) /\ b \in Seq(T)
    BY <1>1
  <2> HIDE DEF F, T
  <2>1. a = [p \in 1..Len(a) |-> a[p]] /\ b = [p \in 1..Len(b) |-> b[p]]
    BY <2>0
  <2>2. \A p \in 1..Len(a) : a[p] \in Both
    BY <1>2, <1>b
  <2>3. \A p \in 1..Len(b) : b[p] \in Both
    BY <1>2, <1>b
  <2> QED BY <1>2, <2>1, <2>2, <2>3, SequenceOf
<1>4. /\ Len(a \o b) = Len(a) + Len(b)
      /\ \A p \in 1..Len(a) : (a \o b)[p] = a[p]
      /\ \A p \in 1..Len(b) : (a \o b)[Len(a) + p] = b[p]
  BY <1>3
<1>5. /\ \A p \in 1..Len(a) : ~a[p].isInner
      /\ \A p \in 1..Len(b) : b[p].isInner
  BY <1>2 DEF Found
<1>6. extractLiquidityBookInstructions(tx) = a \o b
  BY DEF extractLiquidityBookInstructions, a, b
<1> QED BY <1>2, <1>4, <1>5, <1>6 DEF a, b

\* It puts events behind instructions.
LEMMA ParserPutsEventsBehind ==
  ASSUME NEW raw, Parses(raw)
  PROVE  EventsBehind
<1> SUFFICES ASSUME NEW t \in Txs, NEW i \in 1..Len(Instructions[t]),
                    NEW k \in 1..Len(Instructions[t]),
                    ~Instructions[t][i].isInner, Instructions[t][k].isInner
             PROVE  i < k
  BY DEF EventsBehind
<1> DEFINE tx == raw[t]
           all == Instructions[t]
           n == Len(Outer(tx))
<1>1. tx \in Transactions /\ all = extractLiquidityBookInstructions(tx)
  BY DEF Parses
<1> HIDE DEF tx, all
<1>2. /\ n \in Nat /\ Len(all) = n + Len(AllInner(tx)) /\ Len(AllInner(tx)) \in Nat
      /\ \A p \in 1..n : ~all[p].isInner
      /\ \A p \in 1..Len(AllInner(tx)) : all[n + p].isInner
  BY <1>1, Parts
<1> HIDE DEF n
<1>3. i <= n
  <2>1. ASSUME i > n PROVE FALSE
    <3>1. i - n \in 1..Len(AllInner(tx)) /\ n + (i - n) = i
      BY <1>2, <2>1 DEF all
    <3>2. all[n + (i - n)].isInner
      BY <1>2, <3>1
    <3> QED BY <3>1, <3>2 DEF all
  <2> QED BY <1>2, <2>1
<1>4. k > n
  <2>1. ASSUME k <= n PROVE FALSE
    <3>1. k \in 1..n
      BY <1>2, <2>1 DEF all
    <3>2. ~all[k].isInner
      BY <1>2, <3>1
    <3> QED BY <3>2 DEF all
  <2> QED BY <1>2, <2>1
<1> QED BY <1>2, <1>3, <1>4

\* A call that has a queue is in it or put aside.
InQueue(t, call, index, inner) ==
  \E k \in Routable(t) :
    Instructions[t][k] = Extracted(call, index, inner) /\ Covered(t, k)

\* Of a transaction whose row is marked every such call of the program.
CallsRouted(t, tx) ==
  /\ \A i \in 1..Len(tx.instructions) :
       LET call == tx.instructions[i] IN
       Own(call) /\ call.name \in DOMAIN InstructionQueue => InQueue(t, call, i, FALSE)
  /\ \A s \in 1..Len(tx.innerInstructions) :
     LET set == tx.innerInstructions[s] IN
     \A i \in 1..Len(set.instructions) :
       LET call == set.instructions[i] IN
       Own(call) /\ call.name \in DOMAIN EventQueue \cup DOMAIN InstructionQueue =>
         InQueue(t, call, set.index, TRUE)

\* ProcessedMeansRouted, said of the transaction itself.
LEMMA CallsRoutedIfProcessed ==
  ASSUME NEW raw, Parses(raw), ProcessedMeansRouted, NEW t \in processed, t \in Txs
  PROVE  CallsRouted(t, raw[t])
<1> DEFINE tx == raw[t]
           all == Instructions[t]
           n == Len(Outer(tx))
<1>1. tx \in Transactions /\ all = extractLiquidityBookInstructions(tx)
  BY DEF Parses
<1> HIDE DEF tx
<1>2. /\ n \in Nat /\ Len(all) = n + Len(AllInner(tx)) /\ Len(AllInner(tx)) \in Nat
      /\ \A p \in 1..n : all[p] = Outer(tx)[p]
      /\ \A p \in 1..Len(AllInner(tx)) : all[n + p] = AllInner(tx)[p]
  BY <1>1, Parts
<1> HIDE DEF n, all
<1>3. \A k \in Routable(t) : Covered(t, k)
  BY DEF ProcessedMeansRouted
<1>4. ASSUME NEW i \in 1..Len(tx.instructions), Own(tx.instructions[i]),
             tx.instructions[i].name \in DOMAIN InstructionQueue
      PROVE  InQueue(t, tx.instructions[i], i, FALSE)
  <2>1. PICK p \in 1..n : Outer(tx)[p] = Extracted(tx.instructions[i], i, FALSE)
    BY <1>1, <1>4, OuterFound DEF n
  <2>2. p \in 1..Len(all) /\ all[p] = Extracted(tx.instructions[i], i, FALSE)
    <3>1. p \in 1..Len(all) /\ all[p] = Outer(tx)[p]
      BY <1>2
    <3> QED BY <2>1, <3>1
  <2>3. p \in Routable(t)
    BY <1>4, <2>2 DEF Routable, Routed, Extracted, all
  <2> QED BY <1>3, <2>2, <2>3 DEF InQueue, all
<1>5. ASSUME NEW s \in 1..Len(tx.innerInstructions),
             NEW i \in 1..Len(tx.innerInstructions[s].instructions),
             Own(tx.innerInstructions[s].instructions[i]),
             tx.innerInstructions[s].instructions[i].name
               \in DOMAIN EventQueue \cup DOMAIN InstructionQueue
      PROVE  InQueue(t, tx.innerInstructions[s].instructions[i],
                     tx.innerInstructions[s].index, TRUE)
  <2> DEFINE call == tx.innerInstructions[s].instructions[i]
             index == tx.innerInstructions[s].index
  <2>1. PICK p \in 1..Len(AllInner(tx)) : AllInner(tx)[p] = Extracted(call, index, TRUE)
    BY <1>1, <1>5, AllInnerFound
  <2> HIDE DEF call, index
  <2>2. n + p \in 1..Len(all) /\ all[n + p] = Extracted(call, index, TRUE)
    <3>1. n + p \in 1..Len(all) /\ all[n + p] = AllInner(tx)[p]
      BY <1>2
    <3> QED BY <2>1, <3>1
  <2>3. n + p \in Routable(t)
    <3>1. Extracted(call, index, TRUE).isInner /\ Extracted(call, index, TRUE).name = call.name
      BY DEF Extracted
    <3>2. call.name \in DOMAIN EventQueue \/ call.name \in DOMAIN InstructionQueue
      BY <1>5 DEF call
    <3> QED BY <2>2, <3>1, <3>2 DEF Routable, Routed, all
  <2>4. InQueue(t, call, index, TRUE)
    BY <1>3, <2>2, <2>3 DEF InQueue, all
  <2> QED BY <2>4 DEF call, index
<1> QED BY <1>4, <1>5 DEF CallsRouted, tx

(* Whatever the transactions contain, no event is routed before the        *)
(* instruction that emitted it: the parser puts events behind.             *)
THEOREM EventAfterInstructionAlways ==
  ASSUME NEW raw, Parses(raw)
  PROVE  Spec => []EventAfterInstruction
<1>1. EventsBehind
  BY ParserPutsEventsBehind
<1>2. RoutedInOrder => EventAfterInstruction
  BY <1>1, SequenceType DEF EventsBehind, RoutedInOrder, EventAfterInstruction
<1> QED BY RoutedInOrderAlways, <1>2, PTL

(* Whatever the transactions contain and whatever failed or ran twice: once *)
(* a row is marked, every call of its transaction to the program that has a *)
(* queue is in it or put aside; the parser leaves none out.                *)
THEOREM ProcessedMeansCallsRouted ==
  ASSUME NEW raw, Parses(raw)
  PROVE  Spec => [](\A t \in processed : CallsRouted(t, raw[t]))
<1>1. IInv => \A t \in processed : CallsRouted(t, raw[t])
  <2> SUFFICES ASSUME IInv, NEW t \in processed PROVE CallsRouted(t, raw[t])
    OBVIOUS
  <2>1. ProcessedMeansRouted
    BY DEF IInv
  <2>2. t \in Txs
    BY TransactionPipelineAssumption DEF IInv, Types, RowType
  <2> QED BY <2>1, <2>2, CallsRoutedIfProcessed
<1> QED BY Invariance, <1>1, PTL
=============================================================================
