------------------------------ MODULE PairSetup ------------------------------
(***************************************************************************)
(* The rows the other processors look for: bin-step configurations, token  *)
(* mints, pairs, bin arrays and quote assets, and the updates of a pair's  *)
(* fees and of an asset's status.                                          *)
(*                                                                         *)
(* Each processor finds rows and creates the ones that miss, with awaits   *)
(* between and no transaction; unique ids make the slower of two creates   *)
(* fail, and the job runs again from its beginning.  A run that is broken  *)
(* off counts as an attempt (InstructionWorker has the details).           *)
(***************************************************************************)
EXTENDS Naturals

CONSTANTS
  ConfigJobs, PairJobs, ArrayJobs,  \* jobs that are not recorded
  FeeJobs, AssetJobs, StatusJobs,   \* jobs run once: recorded when they begin
  Of,             \* Of[j]: the row job j is about
  Configs, Mints, Pairs, Arrays, Assets,  \* the ids of the rows
  ConfigOf,       \* ConfigOf[p]: configuration of pair p
  MintX, MintY,   \* MintX[p], MintY[p]: its mints
  BinArraySize,   \* BIN_ARRAY_SIZE, 256
  MaxAttempts,    \* attempts of a job, 3
  MaxFaults       \* bound on calls that fail

Recorded == FeeJobs \cup AssetJobs \cup StatusJobs
Jobs == ConfigJobs \cup PairJobs \cup ArrayJobs \cup Recorded
Ids == Configs \cup Mints \cup Pairs \cup Assets

Kinds == <<ConfigJobs, PairJobs, ArrayJobs, FeeJobs, AssetJobs, StatusJobs>>
Tables == <<Configs, Mints, Pairs, Assets>>

ASSUME PairSetupAssumption ==
  /\ \A a, b \in 1..6 : a # b => Kinds[a] \cap Kinds[b] = {}
  /\ \A a, b \in 1..4 : a # b => Tables[a] \cap Tables[b] = {}
  /\ \A j \in ConfigJobs : Of[j] \in Configs
  /\ \A j \in PairJobs \cup FeeJobs : Of[j] \in Pairs
  /\ \A j \in ArrayJobs : Of[j] \in Arrays
  /\ \A j \in AssetJobs \cup StatusJobs : Of[j] \in Assets
  /\ ConfigOf \in [Pairs -> Configs]
  /\ MintX \in [Pairs -> Mints] /\ MintY \in [Pairs -> Mints]
  /\ \A p \in Pairs : MintX[p] # MintY[p]
  /\ BinArraySize \in Nat \ {0}
  /\ MaxAttempts \in Nat /\ MaxAttempts >= 3
  /\ MaxFaults \in Nat

VARIABLES
  pc,        \* pc[j]: the next call of job j, "absent" if there is none or it cannot be decoded
  attempts,  \* attempts[j]: runs of j that ended with an error
  stored,    \* ids of the rows
  fees,      \* fees[p]: where the pair's fee parameters come from
  bins,      \* bins[a]: bins of array a, stored in order
  at,        \* at[j]: bins job j has inserted
  recorded,  \* jobs whose instruction is recorded
  broken,    \* history: jobs of which a call has failed, or a row that must be there missed
  applied,   \* history: fee updates written
  faults     \* calls that failed so far

tables == <<stored, fees, bins, recorded>>
vars == <<pc, attempts, stored, fees, bins, at, recorded, broken, applied, faults>>

Settled == {"completed", "failed"}
Calls == {"create", "config", "find X", "create X", "find Y", "create Y", "pair",
          "insert", "find", "update"}

Init ==
  /\ pc \in [Jobs -> {"waiting", "absent"}]
  /\ attempts = [j \in Jobs |-> 0]
  /\ stored = {}
  /\ fees = [p \in Pairs |-> ConfigOf[p]]
  /\ bins = [a \in Arrays |-> 0]
  /\ at = [j \in ArrayJobs |-> 0]
  /\ recorded = {} /\ broken = {} /\ applied = {}
  /\ faults = 0

Go(j, to) == pc' = [pc EXCEPT ![j] = to] /\ UNCHANGED attempts

\* handleError rethrows, and the queue runs the job again or gives it up.
Throw(j) ==
  /\ attempts' = [attempts EXCEPT ![j] = @ + 1]
  /\ pc' = [pc EXCEPT ![j] = IF attempts[j] + 1 < MaxAttempts THEN "waiting" ELSE "failed"]

\* The unique index on id refuses a second row.
Create(j, id, next) ==
  /\ stored' = stored \cup {id}
  /\ IF id \in stored THEN Throw(j) ELSE Go(j, next)
-----------------------------------------------------------------------------
(* initialize-bin-step-config *)

FindConfig(j) ==
  /\ j \in ConfigJobs /\ pc[j] = "waiting"
  /\ Go(j, IF Of[j] \in stored THEN "completed" ELSE "create")
  /\ UNCHANGED <<tables, at, broken, applied, faults>>

CreateConfig(j) ==
  /\ j \in ConfigJobs /\ pc[j] = "create"
  /\ Create(j, Of[j], "completed")
  /\ UNCHANGED <<fees, bins, recorded, at, broken, applied, faults>>
-----------------------------------------------------------------------------
(* initialize-pair *)

FindPair(j) ==
  /\ j \in PairJobs /\ pc[j] = "waiting"
  /\ Go(j, IF Of[j] \in stored THEN "completed" ELSE "config")
  /\ UNCHANGED <<tables, at, broken, applied, faults>>

FindPairConfig(j) ==
  /\ j \in PairJobs /\ pc[j] = "config"
  /\ IF ConfigOf[Of[j]] \in stored THEN Go(j, "find X") /\ UNCHANGED broken
     ELSE Throw(j) /\ broken' = broken \cup {j}
  /\ UNCHANGED <<tables, at, applied, faults>>

\* A mint is created without a look whether it is there.
FindMint_Blind(j) ==
  /\ j \in PairJobs
  /\ \/ pc[j] = "find X" /\ Go(j, "create X")
     \/ pc[j] = "find Y" /\ Go(j, "create Y")
  /\ UNCHANGED <<tables, at, broken, applied, faults>>

FindMint(j) ==
  /\ j \in PairJobs
  /\ \/ pc[j] = "find X" /\ Go(j, IF MintX[Of[j]] \in stored THEN "find Y" ELSE "create X")
     \/ pc[j] = "find Y" /\ Go(j, IF MintY[Of[j]] \in stored THEN "pair" ELSE "create Y")
  /\ UNCHANGED <<tables, at, broken, applied, faults>>

\* The job ends when another has created the mint.
CreateMint_Returns(j) ==
  /\ j \in PairJobs
  /\ \/ /\ pc[j] = "create X"
        /\ stored' = stored \cup {MintX[Of[j]]}
        /\ Go(j, IF MintX[Of[j]] \in stored THEN "completed" ELSE "find Y")
     \/ pc[j] = "create Y" /\ Create(j, MintY[Of[j]], "pair")
  /\ UNCHANGED <<fees, bins, recorded, at, broken, applied, faults>>

\* A mint Y is left out of the tables.
CreateMint_OnlyX(j) ==
  /\ j \in PairJobs
  /\ \/ pc[j] = "create X" /\ Create(j, MintX[Of[j]], "find Y")
     \/ pc[j] = "create Y" /\ Go(j, "pair") /\ UNCHANGED stored
  /\ UNCHANGED <<fees, bins, recorded, at, broken, applied, faults>>

\* With the token's info and metadata, or names in their place.
CreateMint(j) ==
  /\ j \in PairJobs
  /\ \/ pc[j] = "create X" /\ Create(j, MintX[Of[j]], "find Y")
     \/ pc[j] = "create Y" /\ Create(j, MintY[Of[j]], "pair")
  /\ UNCHANGED <<fees, bins, recorded, at, broken, applied, faults>>

\* The row is replaced.
CreatePair_Upserts(j) ==
  /\ j \in PairJobs /\ pc[j] = "pair"
  /\ stored' = stored \cup {Of[j]}
  /\ Go(j, "completed")
  /\ fees' = [fees EXCEPT ![Of[j]] = ConfigOf[Of[j]]]
  /\ UNCHANGED <<bins, recorded, at, broken, applied, faults>>

\* The fees are copied from the configuration, whose rows never change.
CreatePair(j) ==
  /\ j \in PairJobs /\ pc[j] = "pair"
  /\ Create(j, Of[j], "completed")
  /\ fees' = IF Of[j] \in stored THEN fees ELSE [fees EXCEPT ![Of[j]] = ConfigOf[Of[j]]]
  /\ UNCHANGED <<bins, recorded, at, broken, applied, faults>>
-----------------------------------------------------------------------------
(* initialize-bin-array *)

\* `exists` of the first bin.
FindFirstBin(j) ==
  /\ j \in ArrayJobs /\ pc[j] = "waiting"
  /\ at' = [at EXCEPT ![j] = 0]
  /\ Go(j, IF bins[Of[j]] > 0 THEN "completed" ELSE "insert")
  /\ UNCHANGED <<tables, broken, applied, faults>>

\* The last bin is left out.
InsertBin_OneLess(j) ==
  /\ j \in ArrayJobs /\ pc[j] = "insert"
  /\ IF at[j] < bins[Of[j]] THEN Throw(j) /\ UNCHANGED <<bins, at>>
     ELSE /\ bins' = [bins EXCEPT ![Of[j]] = @ + 1]
          /\ at' = [at EXCEPT ![j] = @ + 1]
          /\ Go(j, IF at[j] + 2 < BinArraySize THEN "insert" ELSE "completed")
  /\ UNCHANGED <<stored, fees, recorded, broken, applied, faults>>

\* insertMany inserts in order and stops at the first error.
InsertBin(j) ==
  /\ j \in ArrayJobs /\ pc[j] = "insert"
  /\ IF at[j] < bins[Of[j]] THEN Throw(j) /\ UNCHANGED <<bins, at>>
     ELSE /\ bins' = [bins EXCEPT ![Of[j]] = @ + 1]
          /\ at' = [at EXCEPT ![j] = @ + 1]
          /\ Go(j, IF at[j] + 1 < BinArraySize THEN "insert" ELSE "completed")
  /\ UNCHANGED <<stored, fees, recorded, broken, applied, faults>>
-----------------------------------------------------------------------------
(* update-pair-static-fee-parameters and quote-asset: the record comes     *)
(* first, and a run that finds it has nothing to do.                       *)

CheckAndInsertInstruction(j) ==
  /\ j \in Recorded /\ pc[j] = "waiting"
  /\ recorded' = recorded \cup {j}
  /\ Go(j, IF j \in recorded THEN "completed" ELSE "find")
  /\ UNCHANGED <<stored, fees, bins, at, broken, applied, faults>>

FindPairOfFees(j) ==
  /\ j \in FeeJobs /\ pc[j] = "find"
  /\ IF Of[j] \in stored THEN Go(j, "update") /\ UNCHANGED broken
     ELSE Throw(j) /\ broken' = broken \cup {j}
  /\ UNCHANGED <<tables, at, applied, faults>>

UpdateFees(j) ==
  /\ j \in FeeJobs /\ pc[j] = "update"
  /\ fees' = [fees EXCEPT ![Of[j]] = j]
  /\ applied' = applied \cup {j}
  /\ Go(j, "completed")
  /\ UNCHANGED <<stored, bins, recorded, at, broken, faults>>

FindAsset(j) ==
  /\ j \in AssetJobs /\ pc[j] = "find"
  /\ Go(j, IF Of[j] \in stored THEN "completed" ELSE "create")
  /\ UNCHANGED <<tables, at, broken, applied, faults>>

CreateAsset(j) ==
  /\ j \in AssetJobs /\ pc[j] = "create"
  /\ Create(j, Of[j], "completed")
  /\ UNCHANGED <<fees, bins, recorded, at, broken, applied, faults>>

FindAssetOfStatus(j) ==
  /\ j \in StatusJobs /\ pc[j] = "find"
  /\ IF Of[j] \in stored THEN Go(j, "update") /\ UNCHANGED broken
     ELSE Throw(j) /\ broken' = broken \cup {j}
  /\ UNCHANGED <<tables, at, applied, faults>>

\* The decoded status is an object and equals no member of the enum: the row is
\* set to Enabled, which it is.
UpdateStatus(j) ==
  /\ j \in StatusJobs /\ pc[j] = "update"
  /\ Go(j, "completed")
  /\ UNCHANGED <<tables, at, broken, applied, faults>>
-----------------------------------------------------------------------------
\* A call to the database or the node fails, the first of a run or a later one.
Fault(j) ==
  /\ pc[j] \in Calls \cup {"waiting"} /\ faults < MaxFaults
  /\ faults' = faults + 1
  /\ broken' = broken \cup {j}
  /\ Throw(j)
  /\ UNCHANGED <<tables, at, applied>>

Work(j) ==
  \/ FindConfig(j) \/ CreateConfig(j)
  \/ FindPair(j) \/ FindPairConfig(j) \/ FindMint(j) \/ CreateMint(j) \/ CreatePair(j)
  \/ FindFirstBin(j) \/ InsertBin(j)
  \/ CheckAndInsertInstruction(j) \/ FindPairOfFees(j) \/ UpdateFees(j)
  \/ FindAsset(j) \/ CreateAsset(j) \/ FindAssetOfStatus(j) \/ UpdateStatus(j)

Next == \E j \in Jobs : Work(j) \/ Fault(j)

Spec == Init /\ [][Next]_vars

(* Each queue has workers, and a call that is made ends. *)
FairSpec == Spec /\ \A j \in Jobs : WF_vars(Work(j))
-----------------------------------------------------------------------------
TypeOK ==
  /\ pc \in [Jobs -> Calls \cup Settled \cup {"waiting", "absent"}]
  /\ attempts \in [Jobs -> 0..MaxAttempts]
  /\ stored \subseteq Ids
  /\ fees \in [Pairs -> Configs \cup FeeJobs]
  /\ bins \in [Arrays -> 0..BinArraySize]
  /\ at \in [ArrayJobs -> 0..BinArraySize]
  /\ recorded \subseteq Recorded /\ broken \subseteq Jobs /\ applied \subseteq FeeJobs
  /\ faults \in 0..MaxFaults

(* The rows a pair refers to are there, though nothing but the order of    *)
(* the calls sees to it; and no update is written before its pair.         *)
PairComplete ==
  /\ \A p \in Pairs \cap stored : {ConfigOf[p], MintX[p], MintY[p]} \subseteq stored
  /\ \A j \in applied : Of[j] \in stored

(* A pair whose fees were updated never has those of its configuration     *)
(* again, whatever jobs that create it run late or twice; and an update is *)
(* lost only if a call of its failed or its pair was not there yet.        *)
UpdatesStand ==
  /\ \A j \in applied : fees[Of[j]] \in applied
  /\ \A j \in FeeJobs \ broken : pc[j] \in Settled => j \in applied

(* An array is left with a part of its bins only by an insertion under way *)
(* or one that was broken off.                                             *)
ArraysWhole ==
  \A a \in Arrays :
    bins[a] \in {0, BinArraySize}
      \/ \E j \in ArrayJobs : Of[j] = a /\ (pc[j] = "insert" \/ j \in broken)

(* Three attempts are enough against the other jobs: one that creates a    *)
(* mint or the pair first costs an attempt, and each of them does so once. *)
RetriesSuffice ==
  \A j \in PairJobs \ broken : pc[j] = "failed" => Of[j] \in stored

(* A pair is stored at last, unless a call of its job has failed or its    *)
(* configuration was not there.                                            *)
PairEventually ==
  \A j \in PairJobs : pc[j] = "waiting" ~> Of[j] \in stored \/ j \in broken
=============================================================================
