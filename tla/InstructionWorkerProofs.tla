---------------------- MODULE InstructionWorkerProofs ----------------------
(***************************************************************************)
(* Theorems about InstructionWorker, for every set of jobs, ids and slots  *)
(* and every bound: its invariants, that a settled job stays settled, that *)
(* the queue implements AtMostOnce, and that there is no livelock.         *)
(*                                                                         *)
(* The inductive invariant has two halves.  QueueInv speaks of BullMQ's    *)
(* bookkeeping: a busy slot serves a job, only an active job is locked,    *)
(* and a job that is not failed has runs and stalls left.  RecordInv       *)
(* speaks of the Instruction collection: a run that writes owns a recorded *)
(* id that no other run writes for, and its count of writes is the number  *)
(* the id has received.                                                    *)
(***************************************************************************)
EXTENDS InstructionWorker, TLAPS

Serves == \A w \in Slots :
  /\ pc[w] # "idle" => serving[w] \in Jobs
  /\ pc[w] \in {"check", "insert"} => done[w] = 0

LockMeansActive == \A j \in Jobs : owner[j] \in Slots => status[j] = "active"

RunsLeft == \A j \in Jobs :
  /\ status[j] \notin Settled => attempts[j] < Attempts
  /\ status[j] # "failed" => stalls[j] <= MaxStalls

QueueInv == TypeOK /\ Serves /\ LockMeansActive /\ RunsLeft

WriterCounts == \A w \in Slots : pc[w] = "write" =>
  /\ Key[serving[w]] \in instructions
  /\ applied[Key[serving[w]]] = done[w]
  /\ done[w] < Writes

NewUntouched == \A k \in Keys \ instructions : applied[k] = 0

ReturnRecorded == \A w \in Slots : pc[w] = "return" =>
  Key[serving[w]] \in instructions \/ serving[w] \in Unreadable

FaultFreeWriter == faults = 0 => \A k \in instructions :
  applied[k] = Writes \/ \E w \in Slots : Applying(w, k)

RecordInv ==
  /\ WriterCounts
  /\ OneWriter
  /\ NewUntouched
  /\ ReturnRecorded
  /\ CompletedRecorded
  /\ FaultFreeWriter

IInv == QueueInv /\ RecordInv
-----------------------------------------------------------------------------
LEMMA InitIInv == Init => IInv
<1> USE InstructionWorkerAssumption
<1> SUFFICES ASSUME Init PROVE IInv
    OBVIOUS
<1>1. TypeOK
  BY DEF Init, TypeOK, Status, PC
<1>2. Serves /\ LockMeansActive /\ RunsLeft
  BY DEF Init, Serves, LockMeansActive, RunsLeft
<1>3. RecordInv
  BY DEF Init, RecordInv, WriterCounts, OneWriter, NewUntouched, ReturnRecorded,
         CompletedRecorded, FaultFreeWriter, Applying
<1> QED
  BY <1>1, <1>2, <1>3 DEF IInv, QueueInv

(* What Report does to the queue, whoever holds the lock. *)
LEMMA ReportKeepsQueue ==
  ASSUME QueueInv, NEW w \in Slots, pc[w] # "idle",
         \/ Report(w, "completed", 0)
         \/ Report(w, AfterFailure(serving[w]), 1),
         Release(w), UNCHANGED stalls, instructions' \subseteq Keys,
         faults' \in 0..MaxFaults, applied' \in [Keys -> 0..Writes]
  PROVE  QueueInv'
<1> USE InstructionWorkerAssumption
<1> DEFINE j == serving[w]
<1>0. j \in Jobs
  BY DEF QueueInv, Serves
<1>1. TypeOK'
  BY <1>0 DEF QueueInv, TypeOK, RunsLeft, LockMeansActive, Report, AfterFailure,
              Release, Status, PC, Settled
<1>2. Serves'
  BY DEF QueueInv, TypeOK, Serves, Release
<1>3. LockMeansActive'
  BY <1>0 DEF QueueInv, TypeOK, LockMeansActive, Report, AfterFailure
<1>4. RunsLeft'
  BY <1>0 DEF QueueInv, TypeOK, RunsLeft, LockMeansActive, Report, AfterFailure, Settled
<1> QED
  BY <1>1, <1>2, <1>3, <1>4 DEF QueueInv

(* QueueInv is inductive by itself, but for the bound on the writes. *)
LEMMA NextQueueInv ==
  ASSUME QueueInv, WriterCounts, [Next]_vars
  PROVE  QueueInv'
<1> USE InstructionWorkerAssumption
<1>1. ASSUME NEW j \in Jobs, Add(j) PROVE QueueInv'
  BY <1>1 DEF Add, QueueInv, TypeOK, Serves, LockMeansActive, RunsLeft, Status, Settled, slotVars
<1>2. ASSUME NEW j \in Jobs, Promote(j) PROVE QueueInv'
  BY <1>2 DEF Promote, QueueInv, TypeOK, Serves, LockMeansActive, RunsLeft, Status, Settled,
              slotVars
<1>3. ASSUME NEW j \in Jobs, Stall(j) PROVE QueueInv'
  <2>1. TypeOK'
    BY <1>3 DEF Stall, QueueInv, TypeOK, RunsLeft, Status, slotVars, Fault, NoFault
  <2>2. Serves' /\ LockMeansActive' /\ RunsLeft'
    BY <1>3 DEF Stall, QueueInv, TypeOK, Serves, LockMeansActive, RunsLeft, Settled, slotVars
  <2> QED
    BY <2>1, <2>2 DEF QueueInv
<1>4. ASSUME NEW w \in Slots, NEW j \in Jobs, Take(w, j) PROVE QueueInv'
  <2>1. TypeOK'
    BY <1>4 DEF Take, QueueInv, TypeOK, Status, PC
  <2>2. Serves' /\ LockMeansActive' /\ RunsLeft'
    BY <1>4 DEF Take, QueueInv, TypeOK, Serves, LockMeansActive, RunsLeft, Settled
  <2> QED
    BY <2>1, <2>2 DEF QueueInv
<1>5. ASSUME NEW w \in Slots, Complete(w) PROVE QueueInv'
  <2>1. /\ instructions' \subseteq Keys /\ faults' \in 0..MaxFaults
        /\ applied' \in [Keys -> 0..Writes]
    BY <1>5 DEF Complete, QueueInv, TypeOK
  <2> QED
    BY <1>5, <2>1, ReportKeepsQueue DEF Complete
<1>6. ASSUME NEW w \in Slots, Skip(w) \/ isInstructionProcessed(w) \/ insertInstruction(w)
      PROVE  QueueInv'
  <2>1. serving[w] \in Jobs
    BY <1>6 DEF Skip, isInstructionProcessed, insertInstruction, QueueInv, Serves
  <2>2. TypeOK'
    BY <1>6, <2>1 DEF Skip, isInstructionProcessed, insertInstruction, QueueInv, TypeOK, PC,
                      queueVars
  <2>3. Serves' /\ LockMeansActive' /\ RunsLeft'
    BY <1>6, <2>1 DEF Skip, isInstructionProcessed, insertInstruction, QueueInv, TypeOK, Serves,
                      LockMeansActive, RunsLeft, queueVars
  <2> QED
    BY <2>2, <2>3 DEF QueueInv
<1>7. ASSUME NEW w \in Slots, Write(w) PROVE QueueInv'
  <2>1. /\ serving[w] \in Jobs
        /\ applied[Key[serving[w]]] = done[w]
        /\ done[w] < Writes
    BY <1>7 DEF Write, QueueInv, Serves, WriterCounts
  <2>2. TypeOK'
    BY <1>7, <2>1 DEF Write, QueueInv, TypeOK, PC, queueVars
  <2>3. Serves' /\ LockMeansActive' /\ RunsLeft'
    BY <1>7, <2>1 DEF Write, QueueInv, TypeOK, Serves, LockMeansActive, RunsLeft, queueVars
  <2> QED
    BY <2>2, <2>3 DEF QueueInv
<1>8. ASSUME NEW w \in Slots, Throw(w) PROVE QueueInv'
  <2>1. /\ instructions' \subseteq Keys /\ faults' \in 0..MaxFaults /\ pc[w] # "idle"
        /\ applied' \in [Keys -> 0..Writes]
    BY <1>8 DEF Throw, Fails, Fault, NoFault, QueueInv, TypeOK
  <2> QED
    BY <1>8, <2>1, ReportKeepsQueue DEF Throw
<1>11. ASSUME NEW w \in Slots, LastWriteFails(w) PROVE QueueInv'
  <2>1. /\ serving[w] \in Jobs
        /\ applied[Key[serving[w]]] = done[w]
        /\ done[w] < Writes
    BY <1>11 DEF LastWriteFails, QueueInv, Serves, WriterCounts
  <2>2. /\ instructions' \subseteq Keys /\ faults' \in 0..MaxFaults /\ pc[w] # "idle"
        /\ applied' \in [Keys -> 0..Writes]
    BY <1>11, <2>1 DEF LastWriteFails, Fault, QueueInv, TypeOK
  <2> QED
    BY <1>11, <2>2, ReportKeepsQueue DEF LastWriteFails
<1>9. CASE Crash
  BY <1>9 DEF Crash, Fault, QueueInv, TypeOK, Serves, LockMeansActive, RunsLeft, PC, queueVars
<1>10. CASE UNCHANGED vars
  BY <1>10 DEF vars, QueueInv, TypeOK, Serves, LockMeansActive, RunsLeft
<1> QED
  BY <1>1, <1>2, <1>3, <1>4, <1>5, <1>6, <1>7, <1>8, <1>9, <1>10, <1>11 DEF Next, Run
-----------------------------------------------------------------------------
(* Steps that touch neither the runs nor the records keep RecordInv as     *)
(* long as they complete no job.                                           *)
LEMMA QueueStepKeepsRecords ==
  ASSUME RecordInv, UNCHANGED <<slotVars, instructions, applied>>,
         faults' = 0 => faults = 0,
         \A j \in Jobs : status'[j] = "completed" => status[j] = "completed"
  PROVE  RecordInv'
<1>1. WriterCounts' /\ NewUntouched' /\ ReturnRecorded'
  BY DEF RecordInv, slotVars, WriterCounts, NewUntouched, ReturnRecorded
<1>2. OneWriter' /\ FaultFreeWriter'
  BY DEF RecordInv, slotVars, OneWriter, FaultFreeWriter, Applying
<1>3. CompletedRecorded'
  BY DEF RecordInv, CompletedRecorded
<1> QED
  BY <1>1, <1>2, <1>3 DEF RecordInv

(* A run that ends without writing, or dies writing after a fault.         *)
LEMMA RunEndKeepsRecords ==
  ASSUME IInv, NEW w \in Slots, pc[w] # "idle", Release(w),
         UNCHANGED <<instructions, applied>>,
         faults' = 0 => faults = 0 /\ pc[w] # "write",
         \A j \in Jobs : status'[j] = "completed" =>
            status[j] = "completed" \/ (pc[w] = "return" /\ j = serving[w])
  PROVE  RecordInv'
<1> USE InstructionWorkerAssumption
<1>1. /\ serving[w] \in Jobs
      /\ pc'[w] = "idle"
      /\ \A v \in Slots \ {w} : pc'[v] = pc[v] /\ serving'[v] = serving[v] /\ done'[v] = done[v]
  BY DEF IInv, QueueInv, TypeOK, Serves, Release
<1>2. WriterCounts' /\ NewUntouched' /\ ReturnRecorded'
  BY <1>1 DEF IInv, RecordInv, WriterCounts, NewUntouched, ReturnRecorded
<1>3. OneWriter' /\ FaultFreeWriter'
  BY <1>1 DEF IInv, RecordInv, OneWriter, FaultFreeWriter, Applying
<1>4. CompletedRecorded'
  BY <1>1 DEF IInv, RecordInv, CompletedRecorded, ReturnRecorded
<1> QED
  BY <1>2, <1>3, <1>4 DEF RecordInv

LEMMA NextRecordInv ==
  ASSUME IInv, [Next]_vars
  PROVE  RecordInv'
<1> USE InstructionWorkerAssumption
<1> DEFINE Others(w) == \A v \in Slots \ {w} :
             pc'[v] = pc[v] /\ serving'[v] = serving[v] /\ done'[v] = done[v]
<1>1. ASSUME NEW j \in Jobs, Add(j) \/ Promote(j) \/ Stall(j) PROVE RecordInv'
  <2>1. UNCHANGED <<slotVars, instructions, applied>> /\ (faults' = 0 => faults = 0)
    BY <1>1 DEF Add, Promote, Stall, Fault, NoFault, IInv, QueueInv, TypeOK
  <2>2. \A i \in Jobs : status'[i] = "completed" => status[i] = "completed"
    BY <1>1 DEF Add, Promote, Stall, IInv, QueueInv, TypeOK
  <2> QED
    BY <2>1, <2>2, QueueStepKeepsRecords DEF IInv
<1>2. ASSUME NEW w \in Slots, NEW j \in Jobs, Take(w, j) PROVE RecordInv'
  <2>1. Others(w) /\ pc'[w] = "check" /\ pc[w] = "idle"
    BY <1>2 DEF Take, IInv, QueueInv, TypeOK
  <2>2. WriterCounts' /\ NewUntouched' /\ ReturnRecorded'
    BY <1>2, <2>1 DEF Take, IInv, RecordInv, WriterCounts, NewUntouched, ReturnRecorded
  <2>3. OneWriter' /\ FaultFreeWriter'
    BY <1>2, <2>1 DEF Take, IInv, RecordInv, OneWriter, FaultFreeWriter, Applying
  <2>4. CompletedRecorded'
    BY <1>2 DEF Take, IInv, QueueInv, TypeOK, RecordInv, CompletedRecorded
  <2> QED
    BY <2>2, <2>3, <2>4 DEF RecordInv
<1>3. ASSUME NEW w \in Slots, Complete(w) PROVE RecordInv'
  <2>1. \A j \in Jobs : status'[j] = "completed" => status[j] = "completed" \/ j = serving[w]
    BY <1>3 DEF Complete, Report, IInv, QueueInv, TypeOK
  <2>2. /\ pc[w] = "return" /\ Release(w)
        /\ UNCHANGED <<instructions, applied>> /\ UNCHANGED faults
    BY <1>3 DEF Complete
  <2>3. faults' = 0 => faults = 0 /\ pc[w] # "write"
    BY <2>2
  <2> QED
    BY <2>1, <2>2, <2>3, RunEndKeepsRecords
<1>4. ASSUME NEW w \in Slots, Skip(w) \/ isInstructionProcessed(w) PROVE RecordInv'
  <2>1. /\ Others(w) /\ serving'[w] = serving[w] /\ pc'[w] # "write" /\ pc[w] # "write"
        /\ pc'[w] = "return" =>
             Key[serving[w]] \in instructions \/ serving[w] \in Unreadable
        /\ UNCHANGED <<status, instructions, faults, applied>>
    BY <1>4 DEF Skip, isInstructionProcessed, queueVars, IInv, QueueInv, TypeOK
  <2>2. WriterCounts' /\ NewUntouched' /\ ReturnRecorded'
    BY <2>1 DEF IInv, RecordInv, WriterCounts, NewUntouched, ReturnRecorded
  <2>3. OneWriter' /\ FaultFreeWriter' /\ CompletedRecorded'
    BY <2>1 DEF IInv, RecordInv, OneWriter, FaultFreeWriter, CompletedRecorded, Applying
  <2> QED
    BY <2>2, <2>3 DEF RecordInv
<1>5. ASSUME NEW w \in Slots, insertInstruction(w) PROVE RecordInv'
  <2> DEFINE k == Key[serving[w]]
  <2>1. /\ serving[w] \in Jobs /\ k \in Keys \ instructions
        /\ Others(w) /\ serving'[w] = serving[w] /\ pc'[w] = "write" /\ pc[w] = "insert"
        /\ instructions' = instructions \cup {k}
        /\ UNCHANGED <<status, done, faults, applied>>
    BY <1>5 DEF insertInstruction, queueVars, IInv, QueueInv, TypeOK, Serves
  <2>2. done[w] = 0
    BY <2>1 DEF IInv, QueueInv, Serves
  <2>3. \A v \in Slots : pc[v] = "write" => Key[serving[v]] # k
    BY <2>1 DEF IInv, RecordInv, WriterCounts
  <2>4. WriterCounts'
    BY <2>1, <2>2 DEF IInv, RecordInv, WriterCounts, NewUntouched
  <2>5. NewUntouched' /\ ReturnRecorded' /\ CompletedRecorded'
    BY <2>1 DEF IInv, RecordInv, NewUntouched, ReturnRecorded, CompletedRecorded
  <2>6. OneWriter'
    BY <2>1, <2>3 DEF IInv, RecordInv, OneWriter, Applying
  <2>7. FaultFreeWriter'
    BY <2>1 DEF IInv, RecordInv, FaultFreeWriter, Applying
  <2> QED
    BY <2>4, <2>5, <2>6, <2>7 DEF RecordInv
<1>6. ASSUME NEW w \in Slots, Write(w) PROVE RecordInv'
  <2> DEFINE k == Key[serving[w]]
  <2>1. /\ serving[w] \in Jobs /\ k \in instructions /\ k \in Keys
        /\ applied[k] = done[w] /\ done[w] < Writes
    BY <1>6 DEF Write, IInv, QueueInv, TypeOK, Serves, RecordInv, WriterCounts
  <2>2. /\ Others(w) /\ serving'[w] = serving[w] /\ pc[w] = "write"
        /\ done'[w] = done[w] + 1
        /\ pc'[w] = IF done[w] + 1 = Writes THEN "return" ELSE "write"
        /\ applied'[k] = applied[k] + 1
        /\ \A i \in Keys \ {k} : applied'[i] = applied[i]
        /\ UNCHANGED <<status, instructions, faults>>
    BY <1>6, <2>1 DEF Write, queueVars, IInv, QueueInv, TypeOK
  <2>3. \A v \in Slots \ {w} : pc[v] = "write" =>
          Key[serving[v]] \in Keys /\ Key[serving[v]] # k
    BY <2>1, <2>2 DEF IInv, QueueInv, Serves, RecordInv, OneWriter, Applying
  <2>4. WriterCounts'
    <3> SUFFICES ASSUME NEW v \in Slots, pc'[v] = "write"
                 PROVE  /\ Key[serving'[v]] \in instructions'
                        /\ applied'[Key[serving'[v]]] = done'[v]
                        /\ done'[v] < Writes
      BY DEF WriterCounts
    <3>1. CASE v = w
      BY <3>1, <2>1, <2>2 DEF IInv, QueueInv, TypeOK
    <3>2. CASE v # w
      BY <3>2, <2>2, <2>3 DEF IInv, RecordInv, WriterCounts
    <3> QED
      BY <3>1, <3>2
  <2>5. NewUntouched' /\ ReturnRecorded' /\ CompletedRecorded'
    BY <2>1, <2>2 DEF IInv, RecordInv, NewUntouched, ReturnRecorded, CompletedRecorded
  <2>6. OneWriter'
    BY <2>2 DEF IInv, RecordInv, OneWriter, Applying
  <2>7. FaultFreeWriter'
    <3> SUFFICES ASSUME faults' = 0, NEW i \in instructions'
                 PROVE  applied'[i] = Writes \/ \E v \in Slots : Applying(v, i)'
      BY DEF FaultFreeWriter
    <3>1. CASE i = k
      BY <3>1, <2>1, <2>2 DEF Applying
    <3>2. CASE i # k
      <4>1. i \in Keys /\ (applied[i] = Writes \/ \E v \in Slots : Applying(v, i))
        BY <2>2 DEF IInv, QueueInv, TypeOK, RecordInv, FaultFreeWriter
      <4> QED
        BY <3>2, <4>1, <2>2 DEF Applying
    <3> QED
      BY <3>1, <3>2
  <2> QED
    BY <2>4, <2>5, <2>6, <2>7 DEF RecordInv
<1>7. ASSUME NEW w \in Slots, Throw(w) PROVE RecordInv'
  <2>1. pc[w] # "idle" /\ (faults' = 0 => faults = 0 /\ pc[w] # "write")
    BY <1>7 DEF Throw, Fails, Fault, NoFault, IInv, QueueInv, TypeOK
  <2>2. \A j \in Jobs : status'[j] = "completed" => status[j] = "completed"
    BY <1>7 DEF Throw, Report, AfterFailure, IInv, QueueInv, TypeOK
  <2>3. Release(w) /\ UNCHANGED <<instructions, applied>>
    BY <1>7 DEF Throw
  <2> QED
    BY <2>1, <2>2, <2>3, RunEndKeepsRecords
<1>8. CASE Crash
  <2>1. /\ \A w \in Slots : pc'[w] = "idle"
        /\ faults' # 0
        /\ UNCHANGED <<status, instructions, applied>>
    BY <1>8 DEF Crash, Fault, queueVars, IInv, QueueInv, TypeOK
  <2> QED
    BY <2>1 DEF IInv, RecordInv, WriterCounts, OneWriter, NewUntouched, ReturnRecorded,
                CompletedRecorded, FaultFreeWriter, Applying
<1>9. CASE UNCHANGED vars
  BY <1>9, QueueStepKeepsRecords DEF vars, slotVars, IInv
<1>10. ASSUME NEW w \in Slots, LastWriteFails(w) PROVE RecordInv'
  <2> DEFINE k == Key[serving[w]]
  <2>1. /\ serving[w] \in Jobs /\ k \in instructions /\ k \in Keys
        /\ pc[w] = "write"
    BY <1>10 DEF LastWriteFails, IInv, QueueInv, TypeOK, Serves, RecordInv, WriterCounts
  <2>2. /\ Others(w) /\ pc'[w] = "idle"
        /\ \A i \in Keys \ {k} : applied'[i] = applied[i]
        /\ UNCHANGED instructions
        /\ faults' # 0
    BY <1>10, <2>1 DEF LastWriteFails, Fault, Release, IInv, QueueInv, TypeOK
  <2>3. \A v \in Slots \ {w} : pc[v] = "write" =>
          Key[serving[v]] \in Keys /\ Key[serving[v]] # k
    BY <2>1, <2>2 DEF IInv, QueueInv, Serves, RecordInv, OneWriter, Applying
  <2>4. \A j \in Jobs : status'[j] = "completed" => status[j] = "completed"
    BY <1>10 DEF LastWriteFails, Report, AfterFailure, IInv, QueueInv, TypeOK
  <2>5. WriterCounts'
    BY <2>2, <2>3 DEF IInv, RecordInv, WriterCounts
  <2>6. NewUntouched' /\ ReturnRecorded' /\ CompletedRecorded'
    BY <2>1, <2>2, <2>4 DEF IInv, RecordInv, NewUntouched, ReturnRecorded, CompletedRecorded
  <2>7. OneWriter' /\ FaultFreeWriter'
    BY <2>2 DEF IInv, RecordInv, OneWriter, FaultFreeWriter, Applying
  <2> QED
    BY <2>5, <2>6, <2>7 DEF RecordInv
<1> QED
  BY <1>1, <1>2, <1>3, <1>4, <1>5, <1>6, <1>7, <1>8, <1>9, <1>10 DEF Next, Run

LEMMA NextIInv == IInv /\ [Next]_vars => IInv'
  BY NextQueueInv, NextRecordInv DEF IInv, RecordInv

LEMMA IInvAlways == Spec => []IInv
  BY InitIInv, NextIInv, PTL DEF Spec
-----------------------------------------------------------------------------
(* The variables of the worker queue keep their types.                     *)
THEOREM TypeCorrect == Spec => []TypeOK
<1>1. IInv => TypeOK
  BY DEF IInv, QueueInv
<1> QED
  BY <1>1, IInvAlways, PTL

(* At no time do two runs make the writes of one instruction.              *)
THEOREM OneWriterAlways == Spec => []OneWriter
<1>1. IInv => OneWriter
  BY DEF IInv, RecordInv
<1> QED
  BY <1>1, IInvAlways, PTL

(* A completed job carries a recorded or an unreadable instruction.        *)
THEOREM CompletedRecordedAlways == Spec => []CompletedRecorded
<1>1. IInv => CompletedRecorded
  BY DEF IInv, RecordInv
<1> QED
  BY <1>1, IInvAlways, PTL

(* Without faults, a completed job's instruction has its writes or is      *)
(* about to get them.                                                      *)
THEOREM FaultFreeAppliedAlways == Spec => []FaultFreeApplied
<1>1. IInv => FaultFreeApplied
  BY DEF IInv, RecordInv, FaultFreeWriter, CompletedRecorded, FaultFreeApplied
<1> QED
  BY <1>1, IInvAlways, PTL

(* A settled job stays settled: a run reports only with the lock, and only *)
(* active jobs are locked.                                                 *)
THEOREM SettledStaysAlways == Spec => SettledStays
<1>1. IInv /\ [Next]_vars => [\A j \in Jobs : status[j] \in Settled => status'[j] = status[j]]_vars
  <2> SUFFICES ASSUME IInv, [Next]_vars, NEW j \in Jobs, status[j] \in Settled
               PROVE  status'[j] = status[j]
    OBVIOUS
  <2> USE DEF IInv, QueueInv, TypeOK, Settled
  <2>1. ASSUME NEW i \in Jobs, Add(i) \/ Promote(i) \/ Stall(i) PROVE status'[j] = status[j]
    BY <2>1 DEF Add, Promote, Stall
  <2>2. ASSUME NEW w \in Slots, NEW i \in Jobs, Take(w, i) PROVE status'[j] = status[j]
    BY <2>2 DEF Take
  <2>3. ASSUME NEW w \in Slots, Complete(w) \/ Throw(w) \/ LastWriteFails(w)
        PROVE  status'[j] = status[j]
    BY <2>3 DEF Complete, Throw, LastWriteFails, Report, LockMeansActive, Fails
  <2>4. ASSUME NEW w \in Slots, Skip(w) \/ isInstructionProcessed(w)
                                \/ insertInstruction(w) \/ Write(w)
        PROVE  status'[j] = status[j]
    BY <2>4 DEF Skip, isInstructionProcessed, insertInstruction, Write, queueVars
  <2>5. CASE Crash
    BY <2>5 DEF Crash, queueVars
  <2>6. CASE UNCHANGED vars
    BY <2>6 DEF vars
  <2> QED
    BY <2>1, <2>2, <2>3, <2>4, <2>5, <2>6 DEF Next, Run
<1> QED
  BY <1>1, IInvAlways, PTL DEF Spec, SettledStays
-----------------------------------------------------------------------------
(* How phase reads in a state of the worker: under IInv a run that writes  *)
(* decides it by itself.                                                   *)
PhaseReads == \A k \in Keys :
  /\ phase[k] \in Effects!Phase
  /\ phase[k] = "new" <=> k \notin instructions
  /\ phase[k] = "applying" <=> \E w \in Slots : Applying(w, k)
  /\ phase[k] = "applied" <=> k \in instructions /\ applied[k] = Writes

LEMMA PhaseOf == IInv => PhaseReads
<1> SUFFICES ASSUME IInv, NEW k \in Keys
             PROVE  /\ phase[k] \in Effects!Phase
                    /\ phase[k] = "new" <=> k \notin instructions
                    /\ phase[k] = "applying" <=> \E w \in Slots : Applying(w, k)
                    /\ phase[k] = "applied" <=> k \in instructions /\ applied[k] = Writes
    BY DEF PhaseReads
<1>1. \A w \in Slots : Applying(w, k) => k \in instructions /\ applied[k] # Writes
  BY InstructionWorkerAssumption
     DEF IInv, QueueInv, TypeOK, RecordInv, WriterCounts, Applying
<1>2. k \notin instructions => applied[k] # Writes
  BY InstructionWorkerAssumption DEF IInv, RecordInv, NewUntouched
<1>3. phase[k] = CASE k \notin instructions -> "new"
                   [] k \in instructions /\ applied[k] = Writes -> "applied"
                   [] k \in instructions /\ applied[k] # Writes
                        /\ \E w \in Slots : Applying(w, k) -> "applying"
                   [] OTHER -> "abandoned"
  BY DEF phase
<1> HIDE DEF phase, Applying
<1> QED
  BY <1>1, <1>2, <1>3 DEF Effects!Phase

(* A step that makes no write, records no id and begins no run's writes    *)
(* abandons the ids whose runs it ends, or nothing.                        *)
LEMMA QuietStepAbandons ==
  ASSUME IInv, IInv', UNCHANGED <<instructions, applied>>,
         \A w \in Slots : pc'[w] = "write" => pc[w] = "write" /\ serving'[w] = serving[w]
  PROVE  \E K \in SUBSET Keys : Effects!Abandon(K)
<1> DEFINE Ended(k) == /\ \E w \in Slots : Applying(w, k)
                       /\ ~ (\E w \in Slots : Applying(w, k))'
           K == {k \in Keys : Ended(k)}
<1>1. \A k \in Keys : (\E w \in Slots : Applying(w, k))' => \E w \in Slots : Applying(w, k)
  BY DEF Applying
<1>2. \A k \in K : phase[k] = "applying"
  BY PhaseOf DEF PhaseReads
<1>3. ASSUME NEW k \in Keys
      PROVE  phase'[k] = IF k \in K THEN "abandoned" ELSE phase[k]
  <2>1. /\ phase'[k] \in Effects!Phase
        /\ phase'[k] = "new" <=> k \notin instructions'
        /\ phase'[k] = "applying" <=> (\E w \in Slots : Applying(w, k))'
        /\ phase'[k] = "applied" <=> k \in instructions' /\ applied'[k] = Writes
    <3>1. PhaseReads'
      BY PhaseOf, PTL
    <3> QED
      BY <3>1 DEF PhaseReads
  <2> QED
    BY <1>1, <2>1, PhaseOf DEF PhaseReads, Effects!Phase
<1>4. phase' = [k \in Keys |-> IF k \in K THEN "abandoned" ELSE phase[k]]
  <2>1. phase' = [k \in Keys |-> phase'[k]]
    BY DEF phase
  <2> HIDE DEF phase, K
  <2> QED
    BY <1>3, <2>1
<1> QED
  BY <1>2, <1>4 DEF Effects!Abandon

LEMMA StepImplements ==
  ASSUME IInv, IInv', [Next]_vars
  PROVE  [Effects!Next]_(Effects!vars)
<1> USE InstructionWorkerAssumption
<1>0. PhaseReads /\ PhaseReads'
  BY PhaseOf, PTL
<1>p. phase = [k \in Keys |-> phase[k]] /\ phase' = [k \in Keys |-> phase'[k]]
  BY DEF phase
<1>1. ASSUME NEW w \in Slots, insertInstruction(w) PROVE Effects!Next
  <2> DEFINE k == Key[serving[w]]
  <2>1. /\ serving[w] \in Jobs /\ k \in Keys \ instructions
        /\ instructions' = instructions \cup {k} /\ UNCHANGED applied
        /\ pc'[w] = "write" /\ UNCHANGED serving
        /\ pc[w] # "write"
        /\ \A v \in Slots \ {w} : pc'[v] = pc[v]
    BY <1>1 DEF insertInstruction, IInv, QueueInv, TypeOK, Serves
  <2>2. /\ Applying(w, k)'
        /\ \A i \in Keys \ {k} : (\E v \in Slots : Applying(v, i))'
                                   <=> \E v \in Slots : Applying(v, i)
    BY <2>1 DEF Applying
  <2>3. phase[k] = "new" /\ phase'[k] = "applying"
    BY <1>0, <2>1, <2>2 DEF PhaseReads
  <2>4. \A i \in Keys \ {k} : phase'[i] = phase[i]
    BY <1>0, <2>1, <2>2 DEF PhaseReads, Effects!Phase
  <2> HIDE DEF phase, k
  <2>5. phase' = [phase EXCEPT ![k] = "applying"]
    BY <1>p, <2>3, <2>4
  <2> QED
    BY <2>1, <2>3, <2>5 DEF Effects!Next, Effects!Start
<1>2. ASSUME NEW w \in Slots, Write(w) PROVE Effects!Next
  <2> DEFINE k == Key[serving[w]]
  <2>1. /\ serving[w] \in Jobs /\ k \in instructions /\ k \in Keys
        /\ applied[k] = done[w] /\ done[w] < Writes /\ done[w] \in Nat
        /\ Applying(w, k)
    BY <1>2 DEF Write, IInv, QueueInv, TypeOK, Serves, RecordInv, WriterCounts, Applying
  <2>2. /\ applied' = [applied EXCEPT ![k] = @ + 1]
        /\ applied[k] \in Nat
        /\ applied'[k] = applied[k] + 1
        /\ \A i \in Keys \ {k} : applied'[i] = applied[i]
        /\ UNCHANGED <<serving, instructions>>
        /\ pc'[w] = IF applied[k] + 1 = Writes THEN "return" ELSE "write"
        /\ \A v \in Slots \ {w} : pc'[v] = pc[v]
    BY <1>2, <2>1 DEF Write, IInv, QueueInv, TypeOK
  <2>3. \A i \in Keys \ {k} : (\E v \in Slots : Applying(v, i))'
                                <=> \E v \in Slots : Applying(v, i)
    BY <2>2 DEF Applying
  <2>4. phase[k] = "applying"
    BY <1>0, <2>1 DEF PhaseReads
  <2>5. phase'[k] = IF applied[k] + 1 = Writes THEN "applied" ELSE "applying"
    <3>1. applied[k] + 1 # Writes => Applying(w, k)'
      BY <2>1, <2>2 DEF Applying
    <3> QED
      BY <1>0, <2>1, <2>2, <3>1 DEF PhaseReads
  <2>6. \A i \in Keys \ {k} : phase'[i] = phase[i]
    BY <1>0, <2>2, <2>3 DEF PhaseReads, Effects!Phase
  <2> HIDE DEF phase, k
  <2>7. phase' = [phase EXCEPT ![k] = IF applied[k] + 1 = Writes
                                      THEN "applied" ELSE "applying"]
    BY <1>p, <2>5, <2>6
  <2>8. applied[k] < Writes
    BY <2>1
  <2> QED
    BY <2>1, <2>2, <2>4, <2>7, <2>8 DEF Effects!Next, Effects!Effect
<1>10. ASSUME NEW w \in Slots, LastWriteFails(w) PROVE Effects!Next
  <2> DEFINE k == Key[serving[w]]
  <2>1. /\ serving[w] \in Jobs /\ k \in instructions /\ k \in Keys
        /\ applied[k] = done[w] /\ done[w] < Writes /\ done[w] \in Nat
        /\ Applying(w, k) /\ done[w] + 1 = Writes
    BY <1>10 DEF LastWriteFails, IInv, QueueInv, TypeOK, Serves, RecordInv, WriterCounts, Applying
  <2>2. /\ applied' = [applied EXCEPT ![k] = @ + 1]
        /\ applied[k] \in Nat
        /\ applied'[k] = Writes
        /\ \A i \in Keys \ {k} : applied'[i] = applied[i]
        /\ UNCHANGED instructions
        /\ pc'[w] = "idle"
        /\ \A v \in Slots \ {w} : pc'[v] = pc[v] /\ serving'[v] = serving[v]
    BY <1>10, <2>1 DEF LastWriteFails, Release, IInv, QueueInv, TypeOK
  <2>3. \A i \in Keys \ {k} : (\E v \in Slots : Applying(v, i))'
                                <=> \E v \in Slots : Applying(v, i)
    BY <2>2 DEF Applying
  <2>4. phase[k] = "applying"
    BY <1>0, <2>1 DEF PhaseReads
  <2>5. phase'[k] = "applied"
    BY <1>0, <2>1, <2>2 DEF PhaseReads
  <2>6. \A i \in Keys \ {k} : phase'[i] = phase[i]
    BY <1>0, <2>2, <2>3 DEF PhaseReads, Effects!Phase
  <2>8. applied[k] + 1 = Writes /\ applied[k] < Writes
    BY <2>1
  <2> HIDE DEF phase, k
  <2>7. phase' = [phase EXCEPT ![k] = IF applied[k] + 1 = Writes
                                      THEN "applied" ELSE "applying"]
    BY <1>p, <2>5, <2>6, <2>8
  <2> QED
    BY <2>1, <2>2, <2>4, <2>7, <2>8 DEF Effects!Next, Effects!Effect
<1>3. ASSUME UNCHANGED <<instructions, applied>>,
             \A w \in Slots : pc'[w] = "write" => pc[w] = "write" /\ serving'[w] = serving[w]
      PROVE  Effects!Next
  BY <1>3, QuietStepAbandons DEF Effects!Next
<1>4. ASSUME NEW j \in Jobs, Add(j) \/ Promote(j) \/ Stall(j) PROVE Effects!Next
  BY <1>3, <1>4 DEF Add, Promote, Stall, slotVars
<1>5. ASSUME NEW w \in Slots, NEW j \in Jobs, Take(w, j) PROVE Effects!Next
  BY <1>3, <1>5 DEF Take, IInv, QueueInv, TypeOK
<1>6. ASSUME NEW w \in Slots, Complete(w) \/ Throw(w) PROVE Effects!Next
  BY <1>3, <1>6 DEF Complete, Throw, Release, IInv, QueueInv, TypeOK
<1>7. ASSUME NEW w \in Slots, Skip(w) \/ isInstructionProcessed(w) PROVE Effects!Next
  BY <1>3, <1>7 DEF Skip, isInstructionProcessed, IInv, QueueInv, TypeOK
<1>8. CASE Crash
  BY <1>3, <1>8 DEF Crash
<1>9. CASE UNCHANGED vars
  BY <1>3, <1>9 DEF vars
<1> QED
  BY <1>1, <1>2, <1>4, <1>5, <1>6, <1>7, <1>8, <1>9, <1>10 DEF Next, Run

(* The queue implements AtMostOnce: whatever is retried, stalled, crashed  *)
(* or sent twice, the effects of an instruction begin at most once, go     *)
(* forward only, and are never resumed or repeated after they were         *)
(* abandoned.                                                              *)
THEOREM Implements == Spec => EffectsAtMostOnce
<1>1. Init => Effects!Init
  <2> SUFFICES ASSUME Init PROVE Effects!Init
      OBVIOUS
  <2>1. phase = [k \in Keys |-> "new"]
    BY DEF Init, phase
  <2> QED
    BY <2>1 DEF Init, Effects!Init
<1>2. IInv /\ IInv' /\ [Next]_vars => [Effects!Next]_(Effects!vars)
  BY StepImplements
<1> QED
  BY <1>1, <1>2, IInvAlways, PTL DEF Spec, EffectsAtMostOnce, Effects!Spec
-----------------------------------------------------------------------------
(* No livelock.  What is left of a job counts its attempts and its stalls,  *)
(* what is left of a run its awaits.  Every step takes something from a     *)
(* job, or nothing from any and something from a run.                      *)

Stage(s) ==
  CASE s \in {"absent", "delayed"} -> 3
    [] s = "waiting" -> 2
    [] s = "active" -> 1
    [] s \in Settled -> 0

JobLeft(j) ==
  4 * ((Attempts - attempts[j]) + (MaxStalls + 1 - stalls[j])) + Stage(status[j])

RunLeft(w) ==
  CASE pc[w] = "check"  -> Writes + 3
    [] pc[w] = "insert" -> Writes + 2
    [] pc[w] = "write"  -> (Writes - done[w]) + 1
    [] pc[w] = "return" -> 1
    [] pc[w] = "idle"   -> 0

NoLivelock ==
  [][/\ \A j \in Jobs : JobLeft(j) \in Nat /\ JobLeft(j)' <= JobLeft(j)
     /\ \A w \in Slots : RunLeft(w) \in Nat
     /\ \/ \E j \in Jobs : JobLeft(j)' < JobLeft(j)
        \/ /\ \A w \in Slots : RunLeft(w)' <= RunLeft(w)
           /\ \E w \in Slots : RunLeft(w)' < RunLeft(w)]_vars

LEMMA LeftNat ==
  ASSUME IInv
  PROVE  /\ \A j \in Jobs : JobLeft(j) \in Nat
         /\ \A w \in Slots : RunLeft(w) \in Nat
<1>1. ASSUME NEW j \in Jobs PROVE JobLeft(j) \in Nat
  <2>1. /\ Attempts \in Nat /\ MaxStalls \in Nat
        /\ attempts[j] \in 0..Attempts /\ stalls[j] \in 0..(MaxStalls + 1)
        /\ status[j] \in Status
    BY InstructionWorkerAssumption DEF IInv, QueueInv, TypeOK
  <2>2. Stage(status[j]) \in 0..3
    BY <2>1 DEF Stage, Status, Settled
  <2> QED BY <2>1, <2>2 DEF JobLeft
<1>2. ASSUME NEW w \in Slots PROVE RunLeft(w) \in Nat
  BY InstructionWorkerAssumption DEF IInv, QueueInv, TypeOK, PC, RunLeft
<1> QED BY <1>1, <1>2

\* A job of which the status changes has less left, one of which nothing
\* changes as much.
JobStep(j) ==
  \/ UNCHANGED <<status[j], attempts[j], stalls[j]>>
  \/ /\ UNCHANGED <<attempts[j], stalls[j]>>
     /\ \/ status[j] \in {"absent", "delayed"} /\ status'[j] = "waiting"
        \/ status[j] = "waiting" /\ status'[j] = "active"
        \/ status[j] = "active" /\ status'[j] = "completed"
  \/ /\ status[j] = "active" /\ status'[j] \in {"waiting", "delayed", "failed"}
     /\ \/ attempts'[j] = attempts[j] + 1 /\ stalls'[j] = stalls[j]
        \/ stalls'[j] = stalls[j] + 1 /\ attempts'[j] = attempts[j]

LEMMA JobStepLeft ==
  ASSUME IInv, NEW j \in Jobs, JobStep(j)
  PROVE  /\ JobLeft(j)' <= JobLeft(j)
         /\ status'[j] # status[j] => JobLeft(j)' < JobLeft(j)
<1>1. /\ Attempts \in Nat /\ MaxStalls \in Nat
      /\ attempts[j] \in Nat /\ stalls[j] \in Nat
  BY InstructionWorkerAssumption DEF IInv, QueueInv, TypeOK
<1>2. CASE UNCHANGED <<status[j], attempts[j], stalls[j]>>
  <2>1. JobLeft(j)' = JobLeft(j)
    BY <1>2 DEF JobLeft
  <2> QED BY <1>2, <2>1, LeftNat
<1>3. /\ Stage("absent") = 3 /\ Stage("delayed") = 3 /\ Stage("waiting") = 2
      /\ Stage("active") = 1 /\ Stage("completed") = 0 /\ Stage("failed") = 0
  BY DEF Stage, Settled
<1>4. CASE ~UNCHANGED <<status[j], attempts[j], stalls[j]>>
  <2> HIDE DEF Stage
  <2>1. JobLeft(j)' < JobLeft(j) /\ JobLeft(j)' <= JobLeft(j)
    BY <1>1, <1>3, <1>4 DEF JobStep, JobLeft
  <2> QED BY <2>1
<1> QED BY <1>2, <1>4

\* The run of slot w ends, or goes on by one await.
LEMMA RunStepLeft ==
  ASSUME IInv, NEW w \in Slots, Run(w)
  PROVE  /\ RunLeft(w)' < RunLeft(w) /\ RunLeft(w)' <= RunLeft(w)
         /\ \A v \in Slots : v # w => RunLeft(v)' = RunLeft(v)
<1> USE InstructionWorkerAssumption
<1>1. /\ pc \in [Slots -> PC] /\ done \in [Slots -> 0..Writes] /\ Writes \in Nat \ {0}
      /\ done[w] \in Nat /\ (pc[w] \in {"check", "insert"} => done[w] = 0)
      /\ (pc[w] = "write" => done[w] < Writes)
  BY DEF IInv, QueueInv, TypeOK, Serves, RecordInv, WriterCounts
<1>2. /\ \A v \in Slots : v # w => pc'[v] = pc[v] /\ done'[v] = done[v]
      /\ pc[w] # "idle"
      /\ \/ pc'[w] = "idle"
         \/ pc[w] = "check" /\ pc'[w] \in {"return", "insert"}
         \/ pc[w] = "insert" /\ pc'[w] = "write" /\ done'[w] = done[w]
         \/ pc[w] = "write" /\ pc'[w] = "return"
         \/ pc[w] = "write" /\ pc'[w] = "write" /\ done'[w] = done[w] + 1
  BY <1>1 DEF Run, Complete, Skip, isInstructionProcessed, insertInstruction, Write, Throw,
              LastWriteFails, Fails, Release
<1>3. pc[w] \in PC
  BY <1>1
<1> QED BY <1>1, <1>2, <1>3 DEF RunLeft, PC

LEMMA StepLeft ==
  ASSUME IInv, [Next]_vars, vars' # vars
  PROVE  /\ \A j \in Jobs : JobLeft(j)' <= JobLeft(j)
         /\ \/ \E j \in Jobs : JobLeft(j)' < JobLeft(j)
            \/ /\ \A w \in Slots : RunLeft(w)' <= RunLeft(w)
               /\ \E w \in Slots : RunLeft(w)' < RunLeft(w)
<1> USE DEF IInv, QueueInv, TypeOK
<1>1. ASSUME NEW i \in Jobs, Add(i) \/ Promote(i) \/ Stall(i)
      PROVE  (\A j \in Jobs : JobStep(j)) /\ status'[i] # status[i]
  BY <1>1 DEF Add, Promote, Stall, JobStep
<1>2. ASSUME NEW w \in Slots, NEW i \in Jobs, Take(w, i)
      PROVE  (\A j \in Jobs : JobStep(j)) /\ status'[i] # status[i]
  BY <1>2 DEF Take, JobStep
<1>3. ASSUME NEW w \in Slots, Run(w) PROVE \A j \in Jobs : JobStep(j)
  <2>1. CASE Complete(w)
    BY <2>1 DEF Complete, Report, JobStep, LockMeansActive
  <2>2. CASE Throw(w) \/ LastWriteFails(w)
    BY <2>2 DEF Throw, LastWriteFails, Report, AfterFailure, Fails, JobStep, LockMeansActive,
                Serves
  <2>3. CASE Skip(w) \/ isInstructionProcessed(w) \/ insertInstruction(w) \/ Write(w)
    BY <2>3 DEF Skip, isInstructionProcessed, insertInstruction, Write, queueVars, JobStep
  <2> QED BY <1>3, <2>1, <2>2, <2>3 DEF Run
<1>4. CASE Crash
  <2>1. \A j \in Jobs : JobStep(j)
    BY <1>4 DEF Crash, queueVars, JobStep
  <2>2. PICK w \in Slots : pc[w] # "idle"
    BY <1>4 DEF Crash
  <2>3. \A v \in Slots : RunLeft(v)' = 0
    BY <1>4 DEF Crash, RunLeft
  <2>4. RunLeft(w) # 0
    BY <2>2, InstructionWorkerAssumption DEF RunLeft, PC
  <2>5. \A v \in Slots : RunLeft(v) \in Nat
    BY LeftNat
  <2> HIDE DEF IInv
  <2> QED BY <2>1, <2>3, <2>4, <2>5, JobStepLeft
<1> HIDE DEF IInv
<1>5. ASSUME NEW w \in Slots, Run(w)
      PROVE  /\ \A v \in Slots : RunLeft(v)' <= RunLeft(v)
             /\ RunLeft(w)' < RunLeft(w)
  BY <1>5, RunStepLeft, LeftNat
<1> QED BY <1>1, <1>2, <1>3, <1>4, <1>5, JobStepLeft DEF Next

(* However jobs and runs interleave, fail, stall and are taken over:        *)
(* finitely many slots do not work for ever on finitely many jobs.  Each   *)
(* step lessens what is left of a job, or of a run while no job gets more; *)
(* all of these are natural numbers.                                       *)
THEOREM WorkEnds == Spec => NoLivelock
<1>1. IInv /\ [Next]_vars =>
        [/\ \A j \in Jobs : JobLeft(j) \in Nat /\ JobLeft(j)' <= JobLeft(j)
         /\ \A w \in Slots : RunLeft(w) \in Nat
         /\ \/ \E j \in Jobs : JobLeft(j)' < JobLeft(j)
            \/ /\ \A w \in Slots : RunLeft(w)' <= RunLeft(w)
               /\ \E w \in Slots : RunLeft(w)' < RunLeft(w)]_vars
  BY StepLeft, LeftNat
<1> QED BY <1>1, IInvAlways, PTL DEF Spec, NoLivelock
=============================================================================
