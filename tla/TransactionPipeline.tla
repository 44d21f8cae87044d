------------------------ MODULE TransactionPipeline ------------------------
(***************************************************************************)
(* TransactionProcessor: the jobs of the transaction queue, what they      *)
(* route to the instruction queues and to the dead-letter queue, and the   *)
(* DlqProcessor behind the latter.                                         *)
(*                                                                         *)
(* A job is run again after a run threw, and after the queue took its lock *)
(* away; in the second case the old run goes on beside the new one.  Run   *)
(* n of job j is the pair j, n.  The slots of the worker are not counted:  *)
(* the code does not say how many processes share the queue.               *)
(***************************************************************************)
EXTENDS Integers, Sequences, FiniteSets, Functions

CONSTANTS
  Txs,           \* transactions of the program
  Jobs,          \* those that have a row and a job in the transaction queue
  Signature,     \* Signature[j]: the transaction that the runs of j look at
  Instructions,  \* Instructions[t]: what the parser extracts from t
  Attempts,      \* "attempts" of the transaction queue
  MaxStalls,     \* BullMQ's maxStalledCount
  MaxFaults      \* bound on failed calls, lost locks and crashes together

Runs == 1..(Attempts + MaxStalls)

\* The switch statements; an event is an inner instruction.
EventQueue ==
  [BinSwapEvent                       |-> "swap",
   CompositionFeesEvent               |-> "composition-fees",
   QuoteAssetBadgeInitializationEvent |-> "quote-asset",
   QuoteAssetBadgeUpdateEvent         |-> "quote-asset",
   PositionCreationEvent              |-> "create-position",
   PositionIncreaseEvent              |-> "increase-position",
   PositionDecreaseEvent              |-> "decrease-position"]

InstructionQueue ==
  [swap                              |-> "swap",
   create_position                   |-> "create-position",
   close_position                    |-> "close-position",
   composition_fees                  |-> "composition-fees",
   initialize_pair                   |-> "initialize-pair",
   initialize_bin_step_config        |-> "initialize-bin-step-config",
   initialize_bin_array              |-> "initialize-bin-array",
   update_pair_static_fee_parameters |-> "update-pair-static-fee-parameters"]

\* Whether processInstruction finds a queue for the instruction.
Routed(instruction) ==
  \/ instruction.isInner /\ instruction.name \in DOMAIN EventQueue
  \/ instruction.name \in DOMAIN InstructionQueue

ASSUME TransactionPipelineAssumption ==
  /\ Jobs \subseteq Txs /\ IsFiniteSet(Jobs)
  /\ Signature \in [Jobs -> Txs]
  /\ Instructions \in
       [Txs -> Seq([name : STRING, instructionIndex : Nat, isInner : BOOLEAN])]
  /\ Attempts \in Nat \ {0}
  /\ MaxStalls \in Nat
  /\ MaxFaults \in Nat

End(t) == Len(Instructions[t]) + 1
Routable(t) == {i \in 1..Len(Instructions[t]) : Routed(Instructions[t][i])}
Items == UNION {{<<t, i>> : i \in Routable(t)} : t \in Txs}

VARIABLES
  status,      \* status[j]: the job j in the transaction queue
  failures,    \* failures[j]: runs that threw while they held the lock
  stalls,      \* stalls[j]: how often the lock was lost
  begun,       \* begun[j]: runs begun; only the last one may hold the lock
  pc,          \* pc[j][n]: where run n of j is
  at,          \* at[j][n]: the instruction it is at
  copies,      \* copies[t][i]: jobs added for instruction i of t
  dlq,         \* items ever added to the dead-letter queue
  dlqWaiting,  \* items with a job waiting there
  dlqEvents,   \* items saved in the collection of DlqEvent
  processed,   \* jobs whose row is marked processed
  faults,      \* faults so far
  unfound      \* history: jobs of which a run was told there is no transaction

queueVars == <<status, failures, stalls, begun>>
dlqVars == <<dlq, dlqWaiting, dlqEvents>>
vars == <<status, failures, stalls, begun, pc, at, copies, dlq, dlqWaiting,
          dlqEvents, processed, faults, unfound>>

Settled == {"completed", "failed"}

Init ==
  /\ status = [j \in Jobs |-> "waiting"]
  /\ failures = [j \in Jobs |-> 0]
  /\ stalls = [j \in Jobs |-> 0]
  /\ begun = [j \in Jobs |-> 0]
  /\ pc = [j \in Jobs |-> [n \in Runs |-> "idle"]]
  /\ at = [j \in Jobs |-> [n \in Runs |-> 1]]
  /\ copies = [t \in Txs |-> [i \in Routable(t) |-> 0]]
  /\ dlq = {} /\ dlqWaiting = {} /\ dlqEvents = {}
  /\ processed = {}
  /\ faults = 0
  /\ unfound = {}

Fault == faults < MaxFaults /\ faults' = faults + 1
NoFault == UNCHANGED faults

HoldsLock(j, n) == n = begun[j] /\ status[j] = "active"
Tx(j) == Signature[j]
Item(j, n) == <<Tx(j), at[j][n]>>
-----------------------------------------------------------------------------
(* The queue *)

Take(j) ==
  /\ status[j] = "waiting"
  /\ status' = [status EXCEPT ![j] = "active"]
  /\ begun' = [begun EXCEPT ![j] = @ + 1]
  /\ pc' = [pc EXCEPT ![j][begun[j] + 1] = "fetch"]
  /\ UNCHANGED <<failures, stalls, at, copies, dlqVars, processed, faults, unfound>>

\* Run n of j is over; only the holder of the lock can tell the queue.
Report(j, n, outcome, thrown) ==
  /\ pc' = [pc EXCEPT ![j][n] = "idle"]
  /\ IF HoldsLock(j, n)
     THEN /\ status' = [status EXCEPT ![j] = outcome]
          /\ failures' = [failures EXCEPT ![j] = @ + thrown]
     ELSE UNCHANGED <<status, failures>>
  /\ UNCHANGED <<stalls, begun, at>>

Complete(j, n) == Report(j, n, "completed", 0)

\* handleError rethrows.
Throw(j, n) ==
  Report(j, n, IF failures[j] + 1 < Attempts THEN "waiting" ELSE "failed", 1)

\* Nobody looks for stalled jobs.
AfterStall_Unseen(j) == IF stalls[j] < MaxStalls THEN "active" ELSE "failed"

AfterStall(j) == IF stalls[j] < MaxStalls THEN "waiting" ELSE "failed"

\* The lock of an active job runs out; the run goes on.
Stall(j) ==
  /\ status[j] = "active"
  /\ Fault
  /\ status' = [status EXCEPT ![j] = AfterStall(j)]
  /\ stalls' = [stalls EXCEPT ![j] = @ + 1]
  /\ UNCHANGED <<failures, begun, pc, at, copies, dlqVars, processed, unfound>>

\* The process dies; the queue finds its active jobs stalled.
Crash ==
  /\ \E j \in Jobs : status[j] = "active"
  /\ Fault
  /\ pc' = [j \in Jobs |-> [n \in Runs |-> "idle"]]
  /\ status' = [j \in Jobs |-> IF status[j] = "active" THEN AfterStall(j) ELSE status[j]]
  /\ stalls' = [j \in Jobs |-> IF status[j] = "active" THEN stalls[j] + 1 ELSE stalls[j]]
  /\ UNCHANGED <<failures, begun, at, copies, dlqVars, processed, unfound>>
-----------------------------------------------------------------------------
(* process *)

\* The loop goes on at i: to the next instruction that has a queue, or to
\* the mark behind the last one.
GoOn(j, n, i) ==
  /\ \E k \in i..End(Tx(j)) :
       /\ \A m \in i..(k - 1) : m \notin Routable(Tx(j))
       /\ k \in Routable(Tx(j)) \/ k = End(Tx(j))
       /\ at' = [at EXCEPT ![j][n] = k]
       /\ pc' = [pc EXCEPT ![j][n] = IF k = End(Tx(j)) THEN "mark" ELSE "route"]
  /\ UNCHANGED queueVars

\* A transaction that the node does not know, or without an instruction of
\* the program, ends the run.
getParsedTransaction(j, n) ==
  /\ pc[j][n] = "fetch"
  /\ \/ Complete(j, n) /\ unfound' = unfound \cup {j}
     \/ /\ IF Instructions[Tx(j)] = << >> THEN Complete(j, n) ELSE GoOn(j, n, 1)
        /\ UNCHANGED unfound
  /\ NoFault
  /\ UNCHANGED <<copies, dlqVars, processed>>

Added(j, n) == [copies EXCEPT ![Tx(j)][at[j][n]] = @ + 1]

routeToQueue(j, n) ==
  /\ pc[j][n] = "route"
  /\ copies' = Added(j, n)
  /\ GoOn(j, n, at[j][n] + 1)
  /\ NoFault
  /\ UNCHANGED <<dlqVars, processed, unfound>>

\* add fails, perhaps after the queue has stored the job.
RouteFails(j, n) ==
  /\ pc[j][n] = "route"
  /\ Fault
  /\ copies' \in {copies, Added(j, n)}
  /\ pc' = [pc EXCEPT ![j][n] = "dlq"]
  /\ UNCHANGED <<queueVars, at, dlqVars, processed, unfound>>

\* The catch block only logs.
AddToDlq_LogsOnly(j, n) ==
  /\ pc[j][n] = "dlq"
  /\ GoOn(j, n, at[j][n] + 1)
  /\ NoFault
  /\ UNCHANGED <<copies, dlqVars, processed, unfound>>

\* The same instruction is tried once more.
AddToDlq_TriesAgain(j, n) ==
  /\ pc[j][n] = "dlq"
  /\ dlq' = dlq \cup {Item(j, n)}
  /\ dlqWaiting' = dlqWaiting \cup {Item(j, n)}
  /\ GoOn(j, n, at[j][n])
  /\ NoFault
  /\ UNCHANGED <<copies, dlqEvents, processed, unfound>>

\* The dead-letter queue keeps one job per signature.
AddToDlq_OncePerSignature(j, n) ==
  /\ pc[j][n] = "dlq"
  /\ dlq' = IF \E item \in dlq : item[1] = Tx(j) THEN dlq ELSE dlq \cup {Item(j, n)}
  /\ dlqWaiting' = dlqWaiting \cup (dlq' \ dlq)
  /\ GoOn(j, n, at[j][n] + 1)
  /\ NoFault
  /\ UNCHANGED <<copies, dlqEvents, processed, unfound>>

AddToDlq(j, n) ==
  /\ pc[j][n] = "dlq"
  /\ dlq' = dlq \cup {Item(j, n)}
  /\ dlqWaiting' = dlqWaiting \cup {Item(j, n)}
  /\ GoOn(j, n, at[j][n] + 1)
  /\ NoFault
  /\ UNCHANGED <<copies, dlqEvents, processed, unfound>>

MarkProcessed(j, n) ==
  /\ pc[j][n] = "mark"
  /\ processed' = processed \cup ({Tx(j)} \cap Jobs)
  /\ Complete(j, n)
  /\ NoFault
  /\ UNCHANGED <<copies, dlqVars, unfound>>

\* The catch block swallows the error.
CallFails_Swallowed(j, n) ==
  /\ pc[j][n] \in {"fetch", "dlq", "mark"}
  /\ Fault
  /\ Complete(j, n)
  /\ UNCHANGED <<copies, dlqVars, processed, unfound>>

\* Any other call fails.
CallFails(j, n) ==
  /\ pc[j][n] \in {"fetch", "dlq", "mark"}
  /\ Fault
  /\ Throw(j, n)
  /\ UNCHANGED <<copies, dlqVars, processed, unfound>>
-----------------------------------------------------------------------------
(* DlqProcessor, one attempt.  The document gets index and name under      *)
(* names that the schema does not have.                                    *)

Required == {"blockNumber", "signature", "instructionIndex", "instructionName"}
Given == {"signature", "blockNumber", "block_time", "instruction_index",
          "instruction_name", "instruction_data", "error_message"}

ProcessDlq(item) ==
  /\ item \in dlqWaiting
  /\ dlqWaiting' = dlqWaiting \ {item}
  /\ dlqEvents' = IF Required \subseteq Given THEN dlqEvents \cup {item} ELSE dlqEvents
  /\ UNCHANGED <<queueVars, pc, at, copies, dlq, processed, faults, unfound>>
-----------------------------------------------------------------------------
Run(j, n) ==
  \/ getParsedTransaction(j, n)
  \/ routeToQueue(j, n)
  \/ AddToDlq(j, n)
  \/ MarkProcessed(j, n)

Next ==
  \/ \E j \in Jobs : Take(j) \/ Stall(j)
  \/ \E j \in Jobs, n \in Runs : Run(j, n) \/ RouteFails(j, n) \/ CallFails(j, n)
  \/ \E item \in Items : ProcessDlq(item)
  \/ Crash

Spec == Init /\ [][Next]_vars

(* Waiting jobs are taken and awaits resolve. *)
Fairness ==
  /\ \A j \in Jobs : WF_vars(Take(j))
  /\ \A j \in Jobs, n \in Runs : WF_vars(Run(j, n))

FairSpec == Spec /\ Fairness
-----------------------------------------------------------------------------
(* The variables have their types: a job begins no more runs than its      *)
(* attempts and its stalls allow, and only routed instructions are put     *)
(* into a queue or aside.                                                  *)
TypeOK ==
  /\ status \in [Jobs -> Settled \cup {"waiting", "active"}]
  /\ failures \in [Jobs -> 0..Attempts]
  /\ stalls \in [Jobs -> 0..(MaxStalls + 1)]
  /\ begun \in [Jobs -> {0} \cup Runs]
  /\ pc \in [Jobs -> [Runs -> {"idle", "fetch", "route", "dlq", "mark"}]]
  /\ at \in [Jobs -> [Runs -> Nat \ {0}]]
  /\ DOMAIN copies = Txs
  /\ \A t \in Txs : copies[t] \in [Routable(t) -> Nat]
  /\ dlq \subseteq Items /\ dlqWaiting \subseteq dlq /\ dlqEvents \subseteq dlq
  /\ processed \subseteq Jobs /\ unfound \subseteq Jobs
  /\ faults \in 0..MaxFaults

Covered(t, i) == copies[t][i] > 0 \/ <<t, i>> \in dlq

(* A row marked processed has every instruction in its queue or in the     *)
(* dead-letter queue, whatever failed, crashed or ran twice before.        *)
ProcessedMeansRouted ==
  \A t \in processed : \A i \in Routable(t) : Covered(t, i)

(* Instructions are routed in the order of the parser: one is in a queue   *)
(* or put aside only when those in front of it are.                        *)
RoutedInOrder ==
  \A t \in Txs : \A i, k \in Routable(t) :
    i < k /\ Covered(t, k) => Covered(t, i)

(* The runs of all jobs that look at a transaction, failed, overtaken and  *)
(* repeated ones among them, cover its instructions as one run would that  *)
(* never fails: one at a time, in order, then the mark, and nothing back.  *)
Router == INSTANCE InOrderRouting WITH
  Rows <- Jobs,
  Steps <- [t \in Txs |-> Routable(t)],
  covered <- [t \in Txs |-> {i \in Routable(t) : Covered(t, i)}],
  marked <- processed

RoutesAsOneRun == Router!Spec

(* An event enters its queue only after the instruction that emitted it    *)
(* has been routed or put aside: swap.processor looks for the row that the *)
(* instruction makes.                                                      *)
EventAfterInstruction ==
  \A t \in Txs : \A i, k \in Routable(t) :
    LET instruction == Instructions[t][i]
        event == Instructions[t][k]
    IN  /\ ~instruction.isInner /\ event.isInner
        /\ instruction.instructionIndex = event.instructionIndex
        /\ Covered(t, k)
        => Covered(t, i)

(* The parser puts every event behind its instruction. *)
EventsBehind ==
  \A t \in Txs : \A i, k \in 1..Len(Instructions[t]) :
    ~Instructions[t][i].isInner /\ Instructions[t][k].isInner => i < k

(* An instruction has no more jobs than the jobs that look at its          *)
(* transaction account for: one each, one more after each of its throws    *)
(* and each lock it lost.  Without a fault nothing is put aside.           *)
CopiesPaid ==
  /\ \A t \in Txs : \A i \in Routable(t) :
       copies[t][i] <= SumFunctionOnSet([j \in Jobs |-> 1 + failures[j] + stalls[j]],
                                        {j \in Jobs : Tx(j) = t})
  /\ faults = 0 => dlq = {}

(* A completed job whose transaction was found and calls the program has   *)
(* marked the row of that transaction: no error ends as completed.         *)
CompletedAccounted ==
  \A j \in Jobs : status[j] = "completed" =>
    Tx(j) \in processed \/ Tx(j) \notin Jobs \/ j \in unfound \/ Instructions[Tx(j)] = << >>

(* Every job of the transaction queue is completed or failed in the end,  *)
(* also one whose process died or whose lock ran out.                      *)
EventuallySettled == \A j \in Jobs : <>[](status[j] \in Settled)
=============================================================================
