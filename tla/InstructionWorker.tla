------------------------- MODULE InstructionWorker -------------------------
(***************************************************************************)
(* One instruction queue of the indexer: the BullMQ worker that            *)
(* ConsumerService starts for it, the processor it runs, and the record    *)
(* InstructionService keeps of the instructions already taken up.          *)
(*                                                                         *)
(* Every instruction processor has the same skeleton: decode the payload,  *)
(* ask InstructionService whether the instruction id is known, insert the  *)
(* id, then make its own database writes one await at a time.  The writes  *)
(* are only counted here.  Jobs differ from instructions: a transaction    *)
(* job that is retried routes its instructions again, so several jobs may  *)
(* carry one key.                                                          *)
(*                                                                         *)
(* BullMQ is external.  A worker slot holds the lock of the job it runs;   *)
(* the lock is lost when the process dies or fails to renew it, and the    *)
(* stalled-job check then hands the job out again, possibly while the old  *)
(* run is still going.  A run without the lock cannot settle its job.      *)
(***************************************************************************)
EXTENDS Naturals

CONSTANTS
  Jobs,         \* jobs the transaction processor routes to this queue
  Keys,         \* instruction ids
  Key,          \* Key[j]: the id generateInstructionId computes for job j
  Unreadable,   \* jobs whose payload the processor does not decode
  Slots,        \* worker slots: the "concurrency" of the queue
  NoJob, NoSlot,
  Attempts,     \* "attempts" of the queue
  MaxStalls,    \* BullMQ's maxStalledCount
  Writes,       \* database writes of the processor after the record
  MaxFaults     \* bound on failed calls, lost locks and crashes together

ASSUME InstructionWorkerAssumption ==
  /\ Key \in [Jobs -> Keys]
  /\ Unreadable \subseteq Jobs
  /\ NoJob \notin Jobs
  /\ NoSlot \notin Slots
  /\ Attempts \in Nat \ {0}
  /\ MaxStalls \in Nat
  /\ Writes \in Nat \ {0}
  /\ MaxFaults \in Nat

VARIABLES
  status,        \* status[j]: where BullMQ has job j
  attempts,      \* attempts[j]: failed runs of j (attemptsMade)
  stalls,        \* stalls[j]: times j was found stalled
  owner,         \* owner[j]: slot holding the lock of j
  serving,       \* serving[w]: job slot w runs
  pc,            \* pc[w]: the await slot w is at
  done,          \* done[w]: writes made by the run of slot w
  instructions,  \* the Instruction collection: ids recorded
  faults,        \* faults so far
  applied        \* history: applied[k] is the number of writes made for k

queueVars == <<status, attempts, stalls, owner>>
slotVars == <<serving, pc, done>>
vars == <<status, attempts, stalls, owner, serving, pc, done,
          instructions, faults, applied>>

Status == {"absent", "waiting", "active", "delayed", "completed", "failed"}
Settled == {"completed", "failed"}
PC == {"idle", "check", "insert", "write", "return"}

Init ==
  /\ status = [j \in Jobs |-> "absent"]
  /\ attempts = [j \in Jobs |-> 0]
  /\ stalls = [j \in Jobs |-> 0]
  /\ owner = [j \in Jobs |-> NoSlot]
  /\ serving = [w \in Slots |-> NoJob]
  /\ pc = [w \in Slots |-> "idle"]
  /\ done = [w \in Slots |-> 0]
  /\ instructions = {}
  /\ faults = 0
  /\ applied = [k \in Keys |-> 0]

Fault == faults < MaxFaults /\ faults' = faults + 1
NoFault == UNCHANGED faults
-----------------------------------------------------------------------------
(* The queue. *)

\* routeToQueue adds the job.
Add(j) ==
  /\ status[j] = "absent"
  /\ status' = [status EXCEPT ![j] = "waiting"]
  /\ UNCHANGED <<attempts, stalls, owner, slotVars, instructions, faults, applied>>

\* A free slot takes a waiting job and its lock, and starts the processor.
Take(w, j) ==
  /\ pc[w] = "idle"
  /\ status[j] = "waiting"
  /\ status' = [status EXCEPT ![j] = "active"]
  /\ owner' = [owner EXCEPT ![j] = w]
  /\ serving' = [serving EXCEPT ![w] = j]
  /\ pc' = [pc EXCEPT ![w] = "check"]
  /\ done' = [done EXCEPT ![w] = 0]
  /\ UNCHANGED <<attempts, stalls, instructions, faults, applied>>

\* The backoff of a failed run is over.
Promote(j) ==
  /\ status[j] = "delayed"
  /\ status' = [status EXCEPT ![j] = "waiting"]
  /\ UNCHANGED <<attempts, stalls, owner, slotVars, instructions, faults, applied>>

\* An active job without a live lock goes back to the queue, or fails when it
\* has stalled too often.  The lock is gone with the process that held it, or
\* was not renewed in time while its run goes on.
Stall(j) ==
  /\ status[j] = "active"
  /\ \/ owner[j] \in Slots /\ serving[owner[j]] = j /\ Fault
     \/ ~(owner[j] \in Slots /\ serving[owner[j]] = j) /\ NoFault
  /\ stalls' = [stalls EXCEPT ![j] = @ + 1]
  /\ status' = [status EXCEPT ![j] = IF stalls[j] < MaxStalls
                                     THEN "waiting" ELSE "failed"]
  /\ owner' = [owner EXCEPT ![j] = NoSlot]
  /\ UNCHANGED <<attempts, slotVars, instructions, applied>>

\* The run of slot w is over.
Release(w) ==
  /\ pc' = [pc EXCEPT ![w] = "idle"]
  /\ serving' = [serving EXCEPT ![w] = NoJob]
  /\ done' = [done EXCEPT ![w] = 0]

\* A run settles its job only with the job's lock.
Report(w, outcome, failures) ==
  LET j == serving[w] IN
  \/ /\ owner[j] = w
     /\ status' = [status EXCEPT ![j] = outcome]
     /\ attempts' = [attempts EXCEPT ![j] = @ + failures]
     /\ owner' = [owner EXCEPT ![j] = NoSlot]
  \/ /\ owner[j] # w
     /\ UNCHANGED <<status, attempts, owner>>

AfterFailure(j) == IF attempts[j] + 1 < Attempts THEN "delayed" ELSE "failed"

\* The processor returned.
Complete(w) ==
  /\ pc[w] = "return"
  /\ Report(w, "completed", 0)
  /\ Release(w)
  /\ UNCHANGED <<stalls, instructions, faults, applied>>
-----------------------------------------------------------------------------
(* The processor. *)

\* The payload cannot be decoded: the processor warns and returns.
Skip(w) ==
  /\ pc[w] = "check"
  /\ serving[w] \in Unreadable
  /\ pc' = [pc EXCEPT ![w] = "return"]
  /\ UNCHANGED <<queueVars, serving, done, instructions, faults, applied>>

\* isInstructionProcessed: a known id ends the run, a new one goes on to insert.
isInstructionProcessed(w) ==
  /\ pc[w] = "check"
  /\ serving[w] \notin Unreadable
  /\ pc' = [pc EXCEPT ![w] = IF Key[serving[w]] \in instructions
                             THEN "return" ELSE "insert"]
  /\ UNCHANGED <<queueVars, serving, done, instructions, faults, applied>>

\* The unique index on Instruction.id is missing.
insertInstruction_NoIndex(w) ==
  /\ pc[w] = "insert"
  /\ instructions' = instructions \cup {Key[serving[w]]}
  /\ pc' = [pc EXCEPT ![w] = "write"]
  /\ UNCHANGED <<queueVars, serving, done, faults, applied>>

\* insertInstruction, when the unique index on Instruction.id lets it.
insertInstruction(w) ==
  /\ pc[w] = "insert"
  /\ Key[serving[w]] \notin instructions
  /\ instructions' = instructions \cup {Key[serving[w]]}
  /\ pc' = [pc EXCEPT ![w] = "write"]
  /\ UNCHANGED <<queueVars, serving, done, faults, applied>>

\* The processor's loop makes one write too many.
Write_OneMore(w) ==
  /\ pc[w] = "write"
  /\ applied' = [applied EXCEPT ![Key[serving[w]]] = @ + 1]
  /\ done' = [done EXCEPT ![w] = @ + 1]
  /\ pc' = [pc EXCEPT ![w] = IF done[w] + 1 > Writes THEN "return" ELSE "write"]
  /\ UNCHANGED <<queueVars, serving, instructions, faults>>

\* The processor returns before its last write.
Write_NotLast(w) ==
  /\ pc[w] = "write"
  /\ applied' = [applied EXCEPT ![Key[serving[w]]] = @ + 1]
  /\ done' = [done EXCEPT ![w] = @ + 1]
  /\ pc' = [pc EXCEPT ![w] = "return"]
  /\ UNCHANGED <<queueVars, serving, instructions, faults>>

\* One more awaited write of the processor; after the last one it returns.
Write(w) ==
  /\ pc[w] = "write"
  /\ applied' = [applied EXCEPT ![Key[serving[w]]] = @ + 1]
  /\ done' = [done EXCEPT ![w] = @ + 1]
  /\ pc' = [pc EXCEPT ![w] = IF done[w] + 1 = Writes THEN "return" ELSE "write"]
  /\ UNCHANGED <<queueVars, serving, instructions, faults>>

\* A call of the run fails, or the unique index refuses its record.
Fails(w) ==
  \/ pc[w] \in {"check", "insert", "write"} /\ Fault
  \/ pc[w] = "insert" /\ Key[serving[w]] \in instructions /\ NoFault

\* The failing run deletes its record, so that a retry starts over.
Throw_Undoes(w) ==
  /\ Fails(w)
  /\ Report(w, AfterFailure(serving[w]), 1)
  /\ Release(w)
  /\ instructions' = IF pc[w] = "write" THEN instructions \ {Key[serving[w]]}
                     ELSE instructions
  /\ UNCHANGED <<stalls, applied>>

\* The handler neither returns nor throws: its slot stays taken.
Throw_Hangs(w) ==
  /\ Fails(w)
  /\ pc' = [pc EXCEPT ![w] = "idle"]
  /\ UNCHANGED <<queueVars, serving, done, instructions, applied>>

\* handleError logs and does not rethrow: the run returns to BullMQ.
Throw_Swallowed(w) ==
  /\ Fails(w)
  /\ Report(w, "completed", 0)
  /\ Release(w)
  /\ UNCHANGED <<stalls, instructions, applied>>

\* handleError rethrows: BullMQ delays the job for a retry or fails it.
Throw(w) ==
  /\ Fails(w)
  /\ Report(w, AfterFailure(serving[w]), 1)
  /\ Release(w)
  /\ UNCHANGED <<stalls, instructions, applied>>

\* The last write takes effect and its call fails all the same.  An earlier
\* write or a record that takes effect and fails is its own step, then Throw.
LastWriteFails(w) ==
  /\ pc[w] = "write"
  /\ done[w] + 1 = Writes
  /\ Fault
  /\ applied' = [applied EXCEPT ![Key[serving[w]]] = @ + 1]
  /\ Report(w, AfterFailure(serving[w]), 1)
  /\ Release(w)
  /\ UNCHANGED <<stalls, instructions>>

\* The process dies with all its runs; Redis and MongoDB survive.
Crash ==
  /\ \E w \in Slots : pc[w] # "idle"
  /\ Fault
  /\ serving' = [w \in Slots |-> NoJob]
  /\ pc' = [w \in Slots |-> "idle"]
  /\ done' = [w \in Slots |-> 0]
  /\ UNCHANGED <<queueVars, instructions, applied>>
-----------------------------------------------------------------------------
Run(w) ==
  \/ Complete(w) \/ Skip(w) \/ isInstructionProcessed(w)
  \/ insertInstruction(w) \/ Write(w) \/ Throw(w) \/ LastWriteFails(w)

Next ==
  \/ \E j \in Jobs : Add(j) \/ Promote(j) \/ Stall(j)
  \/ \E w \in Slots : Run(w) \/ \E j \in Jobs : Take(w, j)
  \/ Crash

Spec == Init /\ [][Next]_vars

(* Awaits resolve, backoffs end, BullMQ hands waiting jobs to free slots   *)
(* and looks for stalled jobs.  Nothing obliges a call or a lock to fail.  *)
Fairness ==
  /\ \A w \in Slots : WF_vars(Run(w))
  /\ \A w \in Slots, j \in Jobs : WF_vars(Take(w, j))
  /\ \A j \in Jobs : WF_vars(Promote(j)) /\ WF_vars(NoFault /\ Stall(j))

FairSpec == Spec /\ Fairness
-----------------------------------------------------------------------------
TypeOK ==
  /\ status \in [Jobs -> Status]
  /\ attempts \in [Jobs -> 0..Attempts]
  /\ stalls \in [Jobs -> 0..(MaxStalls + 1)]
  /\ owner \in [Jobs -> Slots \cup {NoSlot}]
  /\ serving \in [Slots -> Jobs \cup {NoJob}]
  /\ pc \in [Slots -> PC]
  /\ done \in [Slots -> 0..Writes]
  /\ instructions \subseteq Keys
  /\ faults \in 0..MaxFaults
  /\ applied \in [Keys -> 0..Writes]

Applying(w, k) == pc[w] = "write" /\ Key[serving[w]] = k

(* No two runs make the writes of one instruction at the same time, be     *)
(* they two jobs of a retried transaction, or a stalled run that is still  *)
(* going and the run that replaced it (checkAndInsertInstruction and the   *)
(* unique index, instruction.service.ts, instruction.schema.ts).           *)
OneWriter ==
  \A w1, w2 \in Slots, k \in Keys :
     Applying(w1, k) /\ Applying(w2, k) => w1 = w2

(* A job that BullMQ lists as completed carries an instruction the         *)
(* Instruction collection knows, unless its payload was unreadable: no     *)
(* interleaving of failures, retries and stalls drops a job silently       *)
(* before its instruction was taken up.                                    *)
CompletedRecorded ==
  \A j \in Jobs : status[j] = "completed" =>
     Key[j] \in instructions \/ j \in Unreadable

(* Without failures, racing duplicates do no harm: when a job is completed *)
(* its instruction has all its writes, or another run is making them.      *)
FaultFreeApplied ==
  faults = 0 => \A j \in Jobs \ Unreadable : status[j] = "completed" =>
     \/ applied[Key[j]] = Writes
     \/ \E w \in Slots : Applying(w, Key[j])

(* A settled job stays settled and is never handed out again, although a   *)
(* run that lost the lock may still return or throw for it.                *)
SettledStays ==
  [][\A j \in Jobs : status[j] \in Settled => status'[j] = status[j]]_vars

(* Every job routed to the queue is completed or failed in the end,        *)
(* through retries, stalls and crashes.                                    *)
EventuallySettled ==
  \A j \in Jobs : status[j] = "waiting" ~> status[j] \in Settled

(* The queue implements AtMostOnce: the effects of an instruction begin    *)
(* when its record is inserted, and are abandoned when the run that makes  *)
(* them throws or dies.                                                    *)
phase == [k \in Keys |->
  CASE k \notin instructions -> "new"
    [] k \in instructions /\ applied[k] = Writes -> "applied"
    [] k \in instructions /\ applied[k] # Writes /\ \E w \in Slots : Applying(w, k)
         -> "applying"
    [] OTHER -> "abandoned"]

Effects == INSTANCE AtMostOnce WITH effects <- applied

EffectsAtMostOnce == Effects!Spec

(* instruction.service.ts:54 calls a recorded instruction "already         *)
(* processed": once every job of an instruction is settled, a recorded     *)
(* instruction has all its writes.                                         *)
ProcessedMeansApplied ==
  \A k \in instructions :
     (\A j \in Jobs : Key[j] = k => status[j] \in Settled)
       => applied[k] = Writes \/ \E w \in Slots : Applying(w, k)
=============================================================================
