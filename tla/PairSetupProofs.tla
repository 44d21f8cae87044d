--------------------------- MODULE PairSetupProofs ---------------------------
(* Proofs about PairSetup, for all sets of jobs and rows, any number of    *)
(* faults and any number of attempts from three on.                        *)
EXTENDS PairSetup, Integers, TLAPS

-----------------------------------------------------------------------------
(* Types *)

(* A job that has not failed has an attempt left, and an insertion a bin.  *)
Left ==
  /\ \A j \in Jobs : IF pc[j] = "failed" THEN attempts[j] = MaxAttempts
                     ELSE attempts[j] < MaxAttempts
  /\ \A j \in ArrayJobs : pc[j] = "insert" => at[j] < BinArraySize

Types == TypeOK /\ Left

LEMMA KindsOfJobs ==
  /\ ConfigJobs \subseteq Jobs /\ PairJobs \subseteq Jobs /\ ArrayJobs \subseteq Jobs
  /\ FeeJobs \subseteq Jobs /\ AssetJobs \subseteq Jobs /\ StatusJobs \subseteq Jobs
  /\ Recorded \subseteq Jobs /\ FeeJobs \subseteq Recorded
BY DEF Jobs, Recorded

LEMMA Disjoint ==
  /\ PairJobs \cap ConfigJobs = {} /\ PairJobs \cap ArrayJobs = {} /\ PairJobs \cap Recorded = {}
  /\ ArrayJobs \cap ConfigJobs = {} /\ ArrayJobs \cap Recorded = {}
  /\ ConfigJobs \cap Recorded = {}
  /\ FeeJobs \cap AssetJobs = {} /\ FeeJobs \cap StatusJobs = {}
<1>1. \A a, b \in 1..6 : a # b => Kinds[a] \cap Kinds[b] = {}
  BY PairSetupAssumption
<1>2. /\ Kinds[1] = ConfigJobs /\ Kinds[2] = PairJobs /\ Kinds[3] = ArrayJobs
      /\ Kinds[4] = FeeJobs /\ Kinds[5] = AssetJobs /\ Kinds[6] = StatusJobs
  BY DEF Kinds
<1>3. /\ Kinds[1] \cap Kinds[2] = {} /\ Kinds[1] \cap Kinds[3] = {} /\ Kinds[1] \cap Kinds[4] = {}
      /\ Kinds[1] \cap Kinds[5] = {} /\ Kinds[1] \cap Kinds[6] = {} /\ Kinds[2] \cap Kinds[3] = {}
      /\ Kinds[2] \cap Kinds[4] = {} /\ Kinds[2] \cap Kinds[5] = {} /\ Kinds[2] \cap Kinds[6] = {}
      /\ Kinds[3] \cap Kinds[4] = {} /\ Kinds[3] \cap Kinds[5] = {} /\ Kinds[3] \cap Kinds[6] = {}
      /\ Kinds[4] \cap Kinds[5] = {} /\ Kinds[4] \cap Kinds[6] = {}
  BY <1>1
<1> QED
  BY <1>2, <1>3 DEF Recorded

LEMMA PairsApart ==
  Pairs \cap Configs = {} /\ Pairs \cap Mints = {} /\ Pairs \cap Assets = {}
<1>1. \A a, b \in 1..4 : a # b => Tables[a] \cap Tables[b] = {}
  BY PairSetupAssumption
<1>2. Tables[1] = Configs /\ Tables[2] = Mints /\ Tables[3] = Pairs /\ Tables[4] = Assets
  BY DEF Tables
<1>3. Tables[3] \cap Tables[1] = {} /\ Tables[3] \cap Tables[2] = {} /\ Tables[3] \cap Tables[4] = {}
  BY <1>1
<1> QED
  BY <1>2, <1>3

LEMMA Bounds ==
  /\ BinArraySize \in Nat \ {0} /\ MaxAttempts \in Nat /\ MaxAttempts >= 3 /\ MaxFaults \in Nat
  /\ \A j \in ArrayJobs : Of[j] \in Arrays
BY PairSetupAssumption

LEMMA InitTypes == Init => Types
  BY PairSetupAssumption DEF Init, Types, TypeOK, Left

LEMMA GoTypes ==
  ASSUME Types, NEW j \in Jobs, pc[j] # "failed",
         NEW to \in Calls \cup {"completed"}, Go(j, to)
  PROVE  /\ pc' \in [Jobs -> Calls \cup Settled \cup {"waiting", "absent"}]
         /\ attempts' \in [Jobs -> 0..MaxAttempts]
         /\ pc'[j] = to /\ \A i \in Jobs : i # j => pc'[i] = pc[i]
         /\ \A i \in Jobs : IF pc'[i] = "failed" THEN attempts'[i] = MaxAttempts
                            ELSE attempts'[i] < MaxAttempts
BY PairSetupAssumption DEF Types, TypeOK, Left, Go, Calls, Settled

LEMMA ThrowTypes ==
  ASSUME Types, NEW j \in Jobs, pc[j] # "failed", Throw(j)
  PROVE  /\ pc' \in [Jobs -> Calls \cup Settled \cup {"waiting", "absent"}]
         /\ attempts' \in [Jobs -> 0..MaxAttempts]
         /\ pc'[j] \in {"waiting", "failed"} /\ \A i \in Jobs : i # j => pc'[i] = pc[i]
         /\ \A i \in Jobs : IF pc'[i] = "failed" THEN attempts'[i] = MaxAttempts
                            ELSE attempts'[i] < MaxAttempts
<1>1. attempts[j] \in 0..MaxAttempts /\ attempts[j] < MaxAttempts
  BY DEF Types, TypeOK, Left
<1> QED
  BY <1>1, PairSetupAssumption DEF Types, TypeOK, Left, Throw, Settled

(* What every call does to the jobs. *)
LEMMA CallTypes ==
  ASSUME Types, NEW j \in Jobs, pc[j] # "failed",
         Throw(j) \/ \E to \in Calls \cup {"completed"} : Go(j, to)
  PROVE  /\ pc' \in [Jobs -> Calls \cup Settled \cup {"waiting", "absent"}]
         /\ attempts' \in [Jobs -> 0..MaxAttempts]
         /\ \A i \in Jobs : i # j => pc'[i] = pc[i]
         /\ \A i \in Jobs : IF pc'[i] = "failed" THEN attempts'[i] = MaxAttempts
                            ELSE attempts'[i] < MaxAttempts
BY GoTypes, ThrowTypes

(* An action of a job that is none of an array's. *)
LEMMA OtherTypes ==
  ASSUME Types, NEW j \in Jobs, j \notin ArrayJobs, pc[j] # "failed",
         Throw(j) \/ \E to \in Calls \cup {"completed"} : Go(j, to),
         stored' \subseteq Ids, fees' \in [Pairs -> Configs \cup FeeJobs],
         recorded' \subseteq Recorded, broken' \subseteq Jobs, applied' \subseteq FeeJobs,
         UNCHANGED <<bins, at, faults>>
  PROVE  Types'
<1>1. \A i \in ArrayJobs : pc'[i] = pc[i]
  BY CallTypes, KindsOfJobs
<1>2. TypeOK'
  BY CallTypes DEF Types, TypeOK
<1>3. Left'
  BY <1>1, CallTypes DEF Types, Left
<1> QED
  BY <1>2, <1>3 DEF Types

LEMMA WorkTypes ==
  ASSUME Types, NEW j \in Jobs, Work(j)
  PROVE  Types'
<1> USE DEF Calls
<1>0. /\ stored \subseteq Ids /\ fees \in [Pairs -> Configs \cup FeeJobs]
      /\ recorded \subseteq Recorded /\ broken \subseteq Jobs /\ applied \subseteq FeeJobs
      /\ broken \cup {j} \subseteq Jobs
  BY DEF Types, TypeOK
<1>1. CASE FindConfig(j)
  BY <1>0, <1>1, Disjoint, OtherTypes DEF FindConfig, tables, Go
<1>2. CASE CreateConfig(j)
  <2>1. Of[j] \in Ids
    BY <1>2, PairSetupAssumption DEF CreateConfig, Ids
  <2> QED
    BY <1>0, <1>2, <2>1, Disjoint, OtherTypes DEF CreateConfig, Create, Go
<1>3. CASE FindPair(j)
  BY <1>0, <1>3, Disjoint, OtherTypes DEF FindPair, tables, Go
<1>4. CASE FindPairConfig(j)
  BY <1>0, <1>4, Disjoint, OtherTypes DEF FindPairConfig, tables, Go
<1>5. CASE FindMint(j)
  BY <1>0, <1>5, Disjoint, OtherTypes DEF FindMint, tables, Go
<1>6. CASE CreateMint(j)
  <2>1. MintX[Of[j]] \in Ids /\ MintY[Of[j]] \in Ids
    BY <1>6, PairSetupAssumption DEF CreateMint, Ids
  <2>2. stored' \subseteq Ids /\ pc[j] # "failed" /\ j \in PairJobs
    BY <1>0, <1>6, <2>1 DEF CreateMint, Create
  <2>3. Throw(j) \/ \E to \in Calls \cup {"completed"} : Go(j, to)
    BY <1>6 DEF CreateMint, Create
  <2> QED
    BY <1>0, <1>6, <2>2, <2>3, Disjoint, OtherTypes DEF CreateMint
<1>7. CASE CreatePair(j)
  <2>1. Of[j] \in Ids /\ Of[j] \in Pairs /\ ConfigOf[Of[j]] \in Configs
    BY <1>7, PairSetupAssumption DEF CreatePair, Ids
  <2>2. stored' \subseteq Ids /\ pc[j] # "failed" /\ j \in PairJobs
    BY <1>0, <1>7, <2>1 DEF CreatePair, Create
  <2>3. Throw(j) \/ \E to \in Calls \cup {"completed"} : Go(j, to)
    BY <1>7 DEF CreatePair, Create
  <2>4. fees' \in [Pairs -> Configs \cup FeeJobs]
    BY <1>0, <1>7, <2>1 DEF CreatePair
  <2> QED
    BY <1>0, <1>7, <2>2, <2>3, <2>4, Disjoint, OtherTypes DEF CreatePair
<1>8. CASE FindFirstBin(j)
  <2>1. j \in ArrayJobs /\ Go(j, IF bins[Of[j]] > 0 THEN "completed" ELSE "insert")
        /\ pc[j] = "waiting" /\ at' = [at EXCEPT ![j] = 0]
        /\ UNCHANGED <<tables, broken, applied, faults>>
    BY <1>8 DEF FindFirstBin
  <2>2. at' \in [ArrayJobs -> 0..BinArraySize] /\ at'[j] = 0
        /\ \A i \in ArrayJobs : i # j => at'[i] = at[i]
    <3>1. at \in [ArrayJobs -> 0..BinArraySize]
      BY DEF Types, TypeOK
    <3>2. 0 \in 0..BinArraySize
      BY Bounds
    <3> QED
      BY <2>1, <3>1, <3>2
  <2>3. TypeOK'
    BY <2>1, <2>2, CallTypes DEF Types, TypeOK, tables
  <2>4. Left'
    <3>1. 0 < BinArraySize
      BY Bounds
    <3>2. \A i \in Jobs : IF pc'[i] = "failed" THEN attempts'[i] = MaxAttempts
                         ELSE attempts'[i] < MaxAttempts
      BY <2>1, GoTypes
    <3>3. \A i \in ArrayJobs : i # j => pc'[i] = pc[i]
      BY <2>1, GoTypes, KindsOfJobs
    <3> QED
      BY <2>2, <3>1, <3>2, <3>3 DEF Types, Left
  <2> QED
    BY <2>3, <2>4 DEF Types
<1>9. CASE InsertBin(j)
  <2>1. /\ j \in ArrayJobs /\ pc[j] = "insert" /\ Of[j] \in Arrays /\ at[j] < BinArraySize
        /\ at[j] \in Nat /\ bins[Of[j]] \in Nat
        /\ UNCHANGED <<stored, fees, recorded, broken, applied, faults>>
    <3>1. j \in ArrayJobs /\ pc[j] = "insert" /\ UNCHANGED <<stored, fees, recorded, broken, applied, faults>>
      BY <1>9 DEF InsertBin
    <3>2. /\ at \in [ArrayJobs -> 0..BinArraySize] /\ bins \in [Arrays -> 0..BinArraySize]
          /\ \A i \in ArrayJobs : pc[i] = "insert" => at[i] < BinArraySize
      BY DEF Types, TypeOK, Left
    <3>3. at[j] \in 0..BinArraySize /\ Of[j] \in Arrays
      BY <3>1, <3>2, Bounds
    <3>4. bins[Of[j]] \in 0..BinArraySize
      BY <3>2, <3>3
    <3> QED
      BY <3>1, <3>2, <3>3, <3>4
  <2>2. CASE at[j] < bins[Of[j]]
    <3>1. Throw(j) /\ UNCHANGED <<bins, at>>
      BY <1>9, <2>2 DEF InsertBin
    <3>2. TypeOK'
      BY <2>1, <3>1, CallTypes DEF Types, TypeOK
    <3>3. pc'[j] \in {"waiting", "failed"}
      BY <2>1, <3>1, ThrowTypes
    <3>4. Left'
      BY <2>1, <3>1, <3>3, CallTypes, KindsOfJobs DEF Types, Left
    <3> QED
      BY <3>2, <3>4 DEF Types
  <2>3. CASE ~(at[j] < bins[Of[j]])
    <3>1. /\ bins' = [bins EXCEPT ![Of[j]] = @ + 1] /\ at' = [at EXCEPT ![j] = @ + 1]
          /\ Go(j, IF at[j] + 1 < BinArraySize THEN "insert" ELSE "completed")
      BY <1>9, <2>3 DEF InsertBin
    <3>2. /\ bins[Of[j]] + 1 \in 0..BinArraySize /\ at[j] + 1 \in 0..BinArraySize
      BY <2>1, <2>3, PairSetupAssumption
    <3>3. bins' \in [Arrays -> 0..BinArraySize] /\ at' \in [ArrayJobs -> 0..BinArraySize]
          /\ at'[j] = at[j] + 1 /\ \A i \in ArrayJobs : i # j => at'[i] = at[i]
      BY <2>1, <3>1, <3>2 DEF Types, TypeOK
    <3>4. TypeOK'
      BY <2>1, <3>1, <3>3, CallTypes DEF Types, TypeOK
    <3>5. pc'[j] = (IF at[j] + 1 < BinArraySize THEN "insert" ELSE "completed")
      BY <2>1, <3>1, GoTypes
    <3>6. Left'
      BY <2>1, <3>1, <3>3, <3>5, CallTypes, KindsOfJobs DEF Types, Left
    <3> QED
      BY <3>4, <3>6 DEF Types
  <2> QED
    BY <2>2, <2>3
<1>10. CASE CheckAndInsertInstruction(j)
  BY <1>0, <1>10, Disjoint, OtherTypes DEF CheckAndInsertInstruction, Go
<1>11. CASE FindPairOfFees(j)
  BY <1>0, <1>11, Disjoint, KindsOfJobs, OtherTypes DEF FindPairOfFees, tables, Go
<1>12. CASE UpdateFees(j)
  <2>1. Of[j] \in Pairs /\ j \in FeeJobs
    BY <1>12, PairSetupAssumption DEF UpdateFees
  <2>2. fees' \in [Pairs -> Configs \cup FeeJobs] /\ applied' \subseteq FeeJobs
    BY <1>0, <1>12, <2>1 DEF UpdateFees
  <2> QED
    BY <1>0, <1>12, <2>1, <2>2, Disjoint, KindsOfJobs, OtherTypes DEF UpdateFees
<1>13. CASE FindAsset(j)
  BY <1>0, <1>13, Disjoint, KindsOfJobs, OtherTypes DEF FindAsset, tables, Go, Recorded
<1>14. CASE CreateAsset(j)
  <2>1. Of[j] \in Ids /\ j \notin ArrayJobs
    BY <1>14, PairSetupAssumption, Disjoint DEF CreateAsset, Ids, Recorded
  <2> QED
    BY <1>0, <1>14, <2>1, OtherTypes DEF CreateAsset, Create
<1>15. CASE FindAssetOfStatus(j)
  BY <1>0, <1>15, Disjoint, OtherTypes DEF FindAssetOfStatus, tables, Go, Recorded
<1>16. CASE UpdateStatus(j)
  BY <1>0, <1>16, Disjoint, OtherTypes DEF UpdateStatus, tables, Recorded
<1> QED
  BY <1>1, <1>2, <1>3, <1>4, <1>5, <1>6, <1>7, <1>8, <1>9, <1>10, <1>11, <1>12,
     <1>13, <1>14, <1>15, <1>16 DEF Work

LEMMA FaultTypes ==
  ASSUME Types, NEW j \in Jobs, Fault(j)
  PROVE  Types'
<1>1. pc[j] # "failed" /\ Throw(j)
  BY DEF Fault, Calls
<1>2. TypeOK'
  BY <1>1, CallTypes, PairSetupAssumption DEF Fault, Types, TypeOK, tables
<1>3. pc'[j] \in {"waiting", "failed"}
  BY <1>1, ThrowTypes
<1>4. Left'
  BY <1>1, <1>3, CallTypes, KindsOfJobs DEF Fault, Types, Left
<1> QED
  BY <1>2, <1>4 DEF Types

LEMMA StepTypes == Types /\ [Next]_vars => Types'
<1> SUFFICES ASSUME Types, [Next]_vars PROVE Types'
  OBVIOUS
<1>1. CASE UNCHANGED vars
  BY <1>1 DEF Types, TypeOK, Left, vars
<1> QED
  BY <1>1, WorkTypes, FaultTypes DEF Next

LEMMA TypesInvariant == Spec => []Types
  BY InitTypes, StepTypes, PTL DEF Spec

(* The variables keep their types: no job is run a fourth time, and no     *)
(* array has a bin too many.                                               *)
THEOREM TypeCorrect == Spec => []TypeOK
<1>1. Types => TypeOK
  BY DEF Types
<1> QED
  BY TypesInvariant, <1>1, PTL
-----------------------------------------------------------------------------
(* The jobs of pairs *)

Building == {"config", "find X", "create X", "find Y", "create Y", "pair"}

(* What job j has found or created. *)
Order(j) ==
  /\ pc[j] \in Building \ {"config"} => ConfigOf[Of[j]] \in stored
  /\ pc[j] \in {"find Y", "create Y", "pair"} => MintX[Of[j]] \in stored
  /\ pc[j] = "pair" => MintY[Of[j]] \in stored

(* An attempt is lost to each row that is there, and none yet to the row   *)
(* that j is about to find in its way.                                     *)
LostX(j) == IF MintX[Of[j]] \in stored /\ pc[j] # "create X" THEN 1 ELSE 0
LostY(j) == IF MintY[Of[j]] \in stored /\ pc[j] # "create Y" THEN 1 ELSE 0
LostPair(j) == IF Of[j] \in stored /\ pc[j] \notin Building THEN 1 ELSE 0

Budget(j) == j \notin broken => attempts[j] <= LostX(j) + LostY(j) + LostPair(j)

PairsInv ==
  /\ \A j \in PairJobs : Order(j) /\ Budget(j)
  /\ PairComplete
  /\ \A j \in FeeJobs : pc[j] = "update" => Of[j] \in stored

LEMMA InitPairs == Init => PairsInv
<1> SUFFICES ASSUME Init PROVE PairsInv
  OBVIOUS
<1>1. \A j \in Jobs : pc[j] \in {"waiting", "absent"} /\ attempts[j] = 0
  BY DEF Init
<1>2. ASSUME NEW j \in PairJobs PROVE Order(j) /\ Budget(j)
  <2>1. pc[j] \in {"waiting", "absent"} /\ attempts[j] = 0
    BY <1>1, KindsOfJobs
  <2>2. LostX(j) \in {0, 1} /\ LostY(j) \in {0, 1} /\ LostPair(j) \in {0, 1}
    BY DEF LostX, LostY, LostPair
  <2>3. 0 <= LostX(j) + LostY(j) + LostPair(j)
    BY <2>2
  <2>4. Order(j)
    BY <2>1 DEF Order, Building
  <2>5. Budget(j)
    BY <2>1, <2>3 DEF Budget
  <2> QED
    BY <2>4, <2>5
<1>3. PairComplete /\ \A j \in FeeJobs : pc[j] = "update" => Of[j] \in stored
  BY <1>1, KindsOfJobs DEF Init, PairComplete
<1> QED
  BY <1>2, <1>3 DEF PairsInv

(* A job that does not move keeps its place and its budget while rows are  *)
(* added.                                                                  *)
LEMMA OthersPairs ==
  ASSUME PairsInv, NEW i \in PairJobs, pc'[i] = pc[i], attempts'[i] = attempts[i],
         stored \subseteq stored', broken \subseteq broken', attempts[i] \in Nat
  PROVE  Order(i)' /\ Budget(i)'
<1>1. Order(i) /\ Budget(i)
  BY DEF PairsInv
<1>2. Order(i)'
  BY <1>1 DEF Order
<1>3. Budget(i)'
  <2>1. LostX(i)' >= LostX(i) /\ LostY(i)' >= LostY(i) /\ LostPair(i)' >= LostPair(i)
    <3>1. LostX(i)' >= LostX(i)
      <4>1. LostX(i) \in {0, 1} /\ LostX(i)' \in {0, 1}
        BY DEF LostX
      <4>2. LostX(i) = 1 => LostX(i)' = 1
        BY DEF LostX
      <4> QED
        BY <4>1, <4>2
    <3>2. LostY(i)' >= LostY(i)
      <4>1. LostY(i) \in {0, 1} /\ LostY(i)' \in {0, 1}
        BY DEF LostY
      <4>2. LostY(i) = 1 => LostY(i)' = 1
        BY DEF LostY
      <4> QED
        BY <4>1, <4>2
    <3>3. LostPair(i)' >= LostPair(i)
      BY DEF LostPair
    <3> QED
      BY <3>1, <3>2, <3>3
  <2>2. /\ LostX(i) \in {0, 1} /\ LostY(i) \in {0, 1} /\ LostPair(i) \in {0, 1}
        /\ LostX(i)' \in {0, 1} /\ LostY(i)' \in {0, 1} /\ LostPair(i)' \in {0, 1}
    BY DEF LostX, LostY, LostPair
  <2> QED
    BY <1>1, <2>1, <2>2 DEF Budget
<1> QED
  BY <1>2, <1>3

(* A step of a job that creates no pair, updates no fees and adds no pair. *)
LEMMA NoPairStep ==
  ASSUME Types, PairsInv, NEW j \in Jobs,
         \A i \in Jobs : i # j => pc'[i] = pc[i] /\ attempts'[i] = attempts[i],
         stored \subseteq stored', stored' \cap Pairs = stored \cap Pairs,
         broken \subseteq broken', UNCHANGED applied,
         j \in PairJobs => Order(j)' /\ Budget(j)',
         j \in FeeJobs => (pc'[j] = "update" => Of[j] \in stored)
  PROVE  PairsInv'
<1>1. \A i \in Jobs : attempts[i] \in Nat
  BY Bounds DEF Types, TypeOK
<1>2. \A i \in PairJobs : Order(i)' /\ Budget(i)'
  <2> SUFFICES ASSUME NEW i \in PairJobs PROVE Order(i)' /\ Budget(i)'
    OBVIOUS
  <2>1. CASE i = j
    BY <2>1
  <2>2. CASE i # j
    BY <1>1, <2>2, KindsOfJobs, OthersPairs
  <2> QED
    BY <2>1, <2>2
<1>3. PairComplete'
  BY DEF PairsInv, PairComplete
<1>4. \A i \in FeeJobs : pc'[i] = "update" => Of[i] \in stored'
  BY KindsOfJobs DEF PairsInv
<1> QED
  BY <1>2, <1>3, <1>4 DEF PairsInv

LEMMA OthersStay ==
  ASSUME NEW j \in Jobs, Throw(j) \/ \E to : Go(j, to), Types
  PROVE  \A i \in Jobs : i # j => pc'[i] = pc[i] /\ attempts'[i] = attempts[i]
BY DEF Throw, Go, Types, TypeOK

LEMMA MovedTo ==
  ASSUME Types, NEW j \in Jobs, NEW to, Go(j, to)
  PROVE  pc'[j] = to /\ attempts'[j] = attempts[j]
BY DEF Go, Types, TypeOK

LEMMA Thrown ==
  ASSUME Types, NEW j \in Jobs, Throw(j)
  PROVE  pc'[j] \in {"waiting", "failed"} /\ attempts'[j] = attempts[j] + 1
BY DEF Throw, Types, TypeOK

LEMMA PairRows ==
  ASSUME NEW j \in PairJobs
  PROVE  /\ Of[j] \in Pairs /\ MintX[Of[j]] \in Mints /\ MintY[Of[j]] \in Mints
         /\ MintX[Of[j]] # MintY[Of[j]] /\ ConfigOf[Of[j]] \in Configs
<1>1. Of[j] \in Pairs
  BY PairSetupAssumption
<1> QED
  BY <1>1, PairSetupAssumption

LEMMA PairWorkKeepsPairs ==
  ASSUME Types, PairsInv, NEW j \in PairJobs,
         FindPair(j) \/ FindPairConfig(j) \/ FindMint(j) \/ CreateMint(j) \/ CreatePair(j)
  PROVE  PairsInv'
<1>1. /\ j \in Jobs /\ j \notin FeeJobs /\ Order(j) /\ Budget(j)
      /\ attempts[j] \in Nat /\ UNCHANGED applied
  <2>1. j \in Jobs /\ j \notin FeeJobs /\ Order(j) /\ Budget(j)
    BY KindsOfJobs, Disjoint DEF PairsInv
  <2>2. attempts[j] \in 0..MaxAttempts
    BY <2>1 DEF Types, TypeOK
  <2>3. UNCHANGED applied
    BY DEF FindPair, FindPairConfig, FindMint, CreateMint, CreatePair
  <2> QED
    BY <2>1, <2>2, <2>3, Bounds
<1> DEFINE p == Of[j]
<1>2. /\ p \in Pairs /\ MintX[p] \in Mints /\ MintY[p] \in Mints
      /\ MintX[p] # MintY[p] /\ MintX[p] \notin Pairs /\ MintY[p] \notin Pairs
  BY PairRows, PairsApart
<1>3. \A i \in Jobs : i # j => pc'[i] = pc[i] /\ attempts'[i] = attempts[i]
  BY <1>1, OthersStay DEF FindPair, FindPairConfig, FindMint, CreateMint, CreatePair, Create
<1> USE DEF Building, LostX, LostY, LostPair
<1>4. CASE FindPair(j)
  <2>1. /\ pc[j] = "waiting" /\ UNCHANGED <<stored, broken>> /\ attempts'[j] = attempts[j]
        /\ pc'[j] = IF p \in stored THEN "completed" ELSE "config"
    BY <1>1, <1>4, MovedTo DEF FindPair, tables
  <2>2. Order(j)' /\ Budget(j)'
    BY <1>1, <2>1 DEF Order, Budget
  <2> QED
    BY <1>1, <1>3, <2>1, <2>2, NoPairStep
<1>5. CASE FindPairConfig(j)
  <2>1. CASE ConfigOf[p] \in stored
    <3>1. /\ pc[j] = "config" /\ UNCHANGED <<stored, broken>> /\ attempts'[j] = attempts[j]
          /\ pc'[j] = "find X"
      BY <1>1, <1>5, <2>1, MovedTo DEF FindPairConfig, tables
    <3>2. Order(j)' /\ Budget(j)'
      BY <1>1, <2>1, <3>1 DEF Order, Budget
    <3> QED
      BY <1>1, <1>3, <3>1, <3>2, NoPairStep
  <2>2. CASE ConfigOf[p] \notin stored
    <3>1. /\ UNCHANGED stored /\ broken' = broken \cup {j} /\ pc'[j] \in {"waiting", "failed"}
      BY <1>1, <1>5, <2>2, Thrown DEF FindPairConfig, tables
    <3>2. Order(j)' /\ Budget(j)'
      BY <3>1 DEF Order, Budget
    <3> QED
      BY <1>1, <1>3, <3>1, <3>2, NoPairStep
  <2> QED
    BY <2>1, <2>2
<1>6. CASE FindMint(j)
  <2>1. /\ UNCHANGED <<stored, broken>> /\ attempts'[j] = attempts[j]
        /\ \/ pc[j] = "find X" /\ pc'[j] = (IF MintX[p] \in stored THEN "find Y" ELSE "create X")
           \/ pc[j] = "find Y" /\ pc'[j] = (IF MintY[p] \in stored THEN "pair" ELSE "create Y")
    BY <1>1, <1>6, MovedTo DEF FindMint, tables
  <2>2. Order(j)'
    BY <1>1, <2>1 DEF Order
  <2>3. Budget(j)'
    BY <1>1, <2>1 DEF Budget
  <2> QED
    BY <1>1, <1>3, <2>1, <2>2, <2>3, NoPairStep
<1>7. CASE CreateMint(j)
  <2>1. PICK m \in {MintX[p], MintY[p]} :
          /\ stored' = stored \cup {m} /\ UNCHANGED broken
          /\ IF m = MintX[p] THEN pc[j] = "create X" ELSE pc[j] = "create Y"
          /\ IF m \in stored THEN Throw(j) ELSE Go(j, IF m = MintX[p] THEN "find Y" ELSE "pair")
    BY <1>2, <1>7 DEF CreateMint, Create
  <2>2. CASE m \in stored
    <3>1. pc'[j] \in {"waiting", "failed"} /\ attempts'[j] = attempts[j] + 1 /\ stored' = stored
      BY <1>1, <2>1, <2>2, Thrown
    <3>2. Order(j)'
      BY <3>1 DEF Order
    <3>3. /\ LostX(j)' = (IF MintX[p] \in stored THEN 1 ELSE 0)
          /\ LostY(j)' = (IF MintY[p] \in stored THEN 1 ELSE 0)
          /\ LostPair(j)' \in {0, 1}
      BY <3>1
    <3>4. LostX(j) + LostY(j) + LostPair(j) + 1 <= LostX(j)' + LostY(j)'
      <4>1. LostPair(j) = 0
        BY <2>1
      <4>2. CASE m = MintX[p]
        <5>1. LostX(j) = 0 /\ LostX(j)' = 1
          BY <2>1, <2>2, <3>3, <4>2
        <5>2. LostY(j) = LostY(j)' /\ LostY(j)' \in {0, 1}
          BY <2>1, <2>2, <3>3, <4>2
        <5> HIDE DEF LostX, LostY, LostPair
        <5> QED
          BY <4>1, <5>1, <5>2
      <4>3. CASE m = MintY[p]
        <5>1. LostY(j) = 0 /\ LostY(j)' = 1
          BY <1>2, <2>1, <2>2, <3>3, <4>3
        <5>2. LostX(j) = LostX(j)' /\ LostX(j)' \in {0, 1}
          BY <1>2, <2>1, <2>2, <3>3, <4>3
        <5> HIDE DEF LostX, LostY, LostPair
        <5> QED
          BY <4>1, <5>1, <5>2
      <4> QED
        BY <4>2, <4>3
    <3>5. Budget(j)'
      <4>1. /\ LostX(j) \in {0, 1} /\ LostY(j) \in {0, 1} /\ LostPair(j) \in {0, 1}
            /\ LostX(j)' \in {0, 1} /\ LostY(j)' \in {0, 1}
        OBVIOUS
      <4>2. j \notin broken => attempts[j] <= LostX(j) + LostY(j) + LostPair(j)
        BY <1>1 DEF Budget
      <4>3. j \notin broken' => j \notin broken
        BY <2>1
      <4> HIDE DEF LostX, LostY, LostPair
      <4> QED
        BY <1>1, <3>1, <3>3, <3>4, <4>1, <4>2, <4>3 DEF Budget
    <3> QED
      BY <1>1, <1>3, <2>1, <3>1, <3>2, <3>5, NoPairStep
  <2>3. CASE m \notin stored
    <3>1. /\ pc'[j] = (IF m = MintX[p] THEN "find Y" ELSE "pair") /\ attempts'[j] = attempts[j]
      BY <1>1, <2>1, <2>3, MovedTo
    <3>2. Order(j)'
      BY <1>1, <1>2, <2>1, <3>1 DEF Order
    <3>3. Budget(j)'
      <4>1. LostX(j)' >= LostX(j) /\ LostY(j)' >= LostY(j) /\ LostPair(j) = 0 /\ LostPair(j)' = 0
        <5>1. LostPair(j) = 0 /\ LostPair(j)' = 0
          BY <1>2, <2>1, <3>1
        <5>2. LostX(j) = 1 => LostX(j)' = 1
          BY <1>2, <2>1, <3>1
        <5>3. LostY(j) = 1 => LostY(j)' = 1
          BY <1>2, <2>1, <2>3, <3>1
        <5>4. /\ LostX(j) \in {0, 1} /\ LostY(j) \in {0, 1}
              /\ LostX(j)' \in {0, 1} /\ LostY(j)' \in {0, 1}
          OBVIOUS
        <5> HIDE DEF LostX, LostY, LostPair
        <5> QED
          BY <5>1, <5>2, <5>3, <5>4
      <4>2. /\ LostX(j) \in {0, 1} /\ LostY(j) \in {0, 1}
            /\ LostX(j)' \in {0, 1} /\ LostY(j)' \in {0, 1}
        OBVIOUS
      <4>3. j \notin broken => attempts[j] <= LostX(j) + LostY(j) + LostPair(j)
        BY <1>1 DEF Budget
      <4>4. j \notin broken' => j \notin broken
        BY <2>1
      <4> HIDE DEF LostX, LostY, LostPair
      <4> QED
        <5>1. j \notin broken' => attempts[j] <= LostX(j)' + LostY(j)' + LostPair(j)'
          BY <1>1, <4>1, <4>2, <4>3, <4>4
        <5> QED
          BY <3>1, <5>1 DEF Budget
    <3>4. stored' \cap Pairs = stored \cap Pairs
      BY <1>2, <2>1
    <3> QED
      BY <1>1, <1>3, <2>1, <3>2, <3>3, <3>4, NoPairStep
  <2> QED
    BY <2>2, <2>3
<1>8. CASE CreatePair(j)
  <2>1. /\ pc[j] = "pair" /\ stored' = stored \cup {p} /\ UNCHANGED broken
        /\ IF p \in stored THEN Throw(j) ELSE Go(j, "completed")
    BY <1>8 DEF CreatePair, Create
  <2>2. CASE p \in stored
    <3>1. pc'[j] \in {"waiting", "failed"} /\ attempts'[j] = attempts[j] + 1 /\ stored' = stored
      BY <1>1, <2>1, <2>2, Thrown
    <3>2. Order(j)'
      BY <3>1 DEF Order
    <3>3. /\ LostX(j)' = LostX(j) /\ LostY(j)' = LostY(j)
          /\ LostPair(j) = 0 /\ LostPair(j)' = 1
      BY <2>1, <2>2, <3>1
    <3>4. Budget(j)'
      <4>1. LostX(j) \in {0, 1} /\ LostY(j) \in {0, 1}
        OBVIOUS
      <4>2. j \notin broken => attempts[j] <= LostX(j) + LostY(j) + LostPair(j)
        BY <1>1 DEF Budget
      <4>3. j \notin broken' => j \notin broken
        BY <2>1
      <4> HIDE DEF LostX, LostY, LostPair
      <4> QED
        BY <1>1, <3>1, <3>3, <4>1, <4>2, <4>3 DEF Budget
    <3> QED
      BY <1>1, <1>3, <2>1, <3>1, <3>2, <3>4, NoPairStep
  <2>3. CASE p \notin stored
    <3>1. pc'[j] = "completed" /\ attempts'[j] = attempts[j]
      BY <1>1, <2>1, <2>3, MovedTo
    <3>2. Order(j)' /\ Budget(j)'
      BY <1>1, <1>2, <2>1, <2>3, <3>1 DEF Order, Budget
    <3>3. \A i \in PairJobs : Order(i)' /\ Budget(i)'
      <4> SUFFICES ASSUME NEW i \in PairJobs, i # j PROVE Order(i)' /\ Budget(i)'
        BY <3>2
      <4>1. attempts[i] \in Nat /\ i \in Jobs
        BY KindsOfJobs, Bounds DEF Types, TypeOK
      <4> QED
        BY <1>3, <2>1, <4>1, OthersPairs
    <3>4. PairComplete'
      BY <1>1, <2>1 DEF PairComplete, PairsInv, Order
    <3>5. \A i \in FeeJobs : pc'[i] = "update" => Of[i] \in stored'
      BY <1>1, <1>3, <2>1, KindsOfJobs DEF PairsInv
    <3> QED
      BY <3>3, <3>4, <3>5 DEF PairsInv
  <2> QED
    BY <2>2, <2>3
<1> QED
  BY <1>4, <1>5, <1>6, <1>7, <1>8

LEMMA OtherWorkKeepsPairs ==
  ASSUME Types, PairsInv, NEW j \in Jobs, j \notin PairJobs, Work(j)
  PROVE  PairsInv'
<1>1. CASE UpdateFees(j)
  <2>1. /\ j \in FeeJobs /\ pc[j] = "update" /\ pc'[j] = "completed"
        /\ UNCHANGED <<stored, broken>> /\ applied' = applied \cup {j}
    BY <1>1, MovedTo DEF UpdateFees
  <2>2. \A i \in Jobs : i # j => pc'[i] = pc[i] /\ attempts'[i] = attempts[i]
    BY <1>1, OthersStay DEF UpdateFees
  <2>3. \A i \in Jobs : attempts[i] \in Nat
    BY Bounds DEF Types, TypeOK
  <2>4. \A i \in PairJobs : Order(i)' /\ Budget(i)'
    BY <2>1, <2>2, <2>3, KindsOfJobs, Disjoint, OthersPairs
  <2>5. PairComplete'
    BY <2>1 DEF PairsInv, PairComplete
  <2>6. \A i \in FeeJobs : pc'[i] = "update" => Of[i] \in stored'
    BY <2>1, <2>2, KindsOfJobs DEF PairsInv
  <2> QED
    BY <2>4, <2>5, <2>6 DEF PairsInv
<1>2. CASE ~UpdateFees(j)
  <2>1. \A i \in Jobs : i # j => pc'[i] = pc[i] /\ attempts'[i] = attempts[i]
    BY <1>2, OthersStay
      DEF Work, FindConfig, CreateConfig, FindPair, FindPairConfig, FindMint, CreateMint,
          CreatePair, FindFirstBin, InsertBin, CheckAndInsertInstruction, FindPairOfFees,
          FindAsset, CreateAsset, FindAssetOfStatus, UpdateStatus, Create
  <2>2. broken \subseteq broken' /\ UNCHANGED applied
    BY <1>2
      DEF Work, FindConfig, CreateConfig, FindPair, FindPairConfig, FindMint, CreateMint,
          CreatePair, FindFirstBin, InsertBin, CheckAndInsertInstruction, FindPairOfFees,
          FindAsset, CreateAsset, FindAssetOfStatus, UpdateStatus
  <2>3. \E new \in SUBSET (Configs \cup Assets) : stored' = stored \cup new
    <3>1. CASE CreateConfig(j) \/ CreateAsset(j)
      <4>1. Of[j] \in Configs \cup Assets
        BY <3>1, PairSetupAssumption DEF CreateConfig, CreateAsset
      <4>2. stored' = stored \cup {Of[j]}
        BY <3>1 DEF CreateConfig, CreateAsset, Create
      <4> QED
        BY <4>1, <4>2
    <3>2. CASE ~(CreateConfig(j) \/ CreateAsset(j))
      <4>1. stored' = stored
        BY <1>2, <3>2
          DEF Work, FindConfig, FindPair, FindPairConfig, FindMint, CreateMint,
              CreatePair, FindFirstBin, InsertBin, CheckAndInsertInstruction, FindPairOfFees,
              FindAsset, FindAssetOfStatus, UpdateStatus, tables
      <4>2. {} \in SUBSET (Configs \cup Assets) /\ stored' = stored \cup {}
        BY <4>1
      <4> QED
        BY <4>2
    <3> QED
      BY <3>1, <3>2
  <2>4. stored \subseteq stored' /\ stored' \cap Pairs = stored \cap Pairs
    BY <2>3, PairsApart
  <2>5. j \in FeeJobs => (pc'[j] = "update" => Of[j] \in stored)
    <3> SUFFICES ASSUME j \in FeeJobs, pc'[j] = "update" PROVE Of[j] \in stored
      OBVIOUS
    <3>1. CheckAndInsertInstruction(j) \/ FindPairOfFees(j)
      BY <1>2, Disjoint, KindsOfJobs
        DEF Work, FindConfig, CreateConfig, FindPair, FindPairConfig, FindMint, CreateMint,
            CreatePair, FindFirstBin, InsertBin, FindAsset, CreateAsset, FindAssetOfStatus,
            UpdateStatus
    <3>2. CASE CheckAndInsertInstruction(j)
      <4>1. Go(j, IF j \in recorded THEN "completed" ELSE "find")
        BY <3>2 DEF CheckAndInsertInstruction
      <4> QED
        BY <4>1, MovedTo
    <3>3. CASE FindPairOfFees(j)
      BY <3>3, Thrown DEF FindPairOfFees
    <3> QED
      BY <3>1, <3>2, <3>3
  <2> QED
    BY <2>1, <2>2, <2>4, <2>5, NoPairStep
<1> QED
  BY <1>1, <1>2

LEMMA FaultKeepsPairs ==
  ASSUME Types, PairsInv, NEW j \in Jobs, Fault(j)
  PROVE  PairsInv'
<1>1. /\ Throw(j) /\ UNCHANGED <<stored, applied>> /\ broken' = broken \cup {j}
      /\ pc'[j] \in {"waiting", "failed"}
  BY Thrown DEF Fault, tables
<1>2. Order(j)' /\ Budget(j)'
  BY <1>1 DEF Order, Budget, Building
<1> QED
  BY <1>1, <1>2, OthersStay, NoPairStep

LEMMA StepPairs == Types /\ PairsInv /\ [Next]_vars => PairsInv'
<1> SUFFICES ASSUME Types, PairsInv, [Next]_vars PROVE PairsInv'
  OBVIOUS
<1>1. CASE UNCHANGED vars
  BY <1>1 DEF PairsInv, PairComplete, Order, Budget, LostX, LostY, LostPair, vars
<1>2. ASSUME NEW j \in Jobs, Work(j) PROVE PairsInv'
  <2>1. CASE j \in PairJobs
    <3>1. FindPair(j) \/ FindPairConfig(j) \/ FindMint(j) \/ CreateMint(j) \/ CreatePair(j)
      BY <1>2, <2>1, Disjoint
        DEF Work, FindConfig, CreateConfig, FindFirstBin, InsertBin, CheckAndInsertInstruction,
            FindPairOfFees, UpdateFees, FindAsset, CreateAsset, FindAssetOfStatus, UpdateStatus,
            Recorded
    <3> QED
      BY <2>1, <3>1, PairWorkKeepsPairs
  <2>2. CASE j \notin PairJobs
    BY <1>2, <2>2, OtherWorkKeepsPairs
  <2> QED
    BY <2>1, <2>2
<1> QED
  BY <1>1, <1>2, FaultKeepsPairs DEF Next

LEMMA PairsInvariant == Spec => []PairsInv
  BY InitPairs, StepPairs, TypesInvariant, PTL DEF Spec

(* The rows a stored pair refers to are there, and fees are only updated   *)
(* of a stored pair.                                                       *)
THEOREM PairsComplete == Spec => []PairComplete
<1>1. PairsInv => PairComplete
  BY DEF PairsInv
<1> QED
  BY PairsInvariant, <1>1, PTL

(* With three attempts or more, a pair is given up only for a call that    *)
(* failed or a configuration that was not there: the other jobs, however   *)
(* many, cost it at most one attempt for each mint and one for the pair.   *)
THEOREM ThreeAttemptsSuffice == Spec => []RetriesSuffice
<1>1. Types /\ PairsInv => RetriesSuffice
  <2> SUFFICES ASSUME Types, PairsInv, NEW j \in PairJobs, j \notin broken, pc[j] = "failed",
                      Of[j] \notin stored
               PROVE  FALSE
    BY DEF RetriesSuffice
  <2>1. attempts[j] >= 3
    BY KindsOfJobs, Bounds DEF Types, Left
  <2>2. attempts[j] <= 2
    <3>1. attempts[j] <= LostX(j) + LostY(j) + LostPair(j)
      BY DEF PairsInv, Budget
    <3>2. LostX(j) \in {0, 1} /\ LostY(j) \in {0, 1} /\ LostPair(j) = 0
      BY DEF LostX, LostY, LostPair
    <3>3. attempts[j] \in 0..MaxAttempts
      BY KindsOfJobs DEF Types, TypeOK
    <3> QED
      BY <3>1, <3>2, <3>3, Bounds
  <2> QED
    BY <2>1, <2>2, KindsOfJobs, Bounds DEF Types, TypeOK
<1> QED
  BY TypesInvariant, PairsInvariant, <1>1, PTL
-----------------------------------------------------------------------------
(* Fees and bins *)

\* A pair with an update keeps one, and an update that is not broken off has
\* not thrown, is not recorded before its only run, and is written by it.
Standing == \A j \in applied : fees[Of[j]] \in applied

OneRun == \A j \in FeeJobs \ broken :
  /\ pc[j] = "waiting" => j \notin recorded
  /\ pc[j] # "failed"
  /\ pc[j] = "completed" => j \in applied

LEMMA StepStanding ==
  ASSUME Types, PairComplete, Standing, [Next]_vars
  PROVE  Standing'
<1>0. fees \in [Pairs -> Configs \cup FeeJobs] /\ applied \subseteq FeeJobs
  BY DEF Types, TypeOK
<1>1. CASE UNCHANGED vars
  BY <1>1 DEF Standing, vars
<1>2. ASSUME NEW j \in Jobs, UpdateFees(j) PROVE Standing'
  <2>1. Of[j] \in Pairs /\ fees' = [fees EXCEPT ![Of[j]] = j] /\ applied' = applied \cup {j}
    BY <1>2, PairSetupAssumption DEF UpdateFees
  <2> QED
    BY <1>0, <2>1 DEF Standing
<1>3. ASSUME NEW j \in Jobs, CreatePair(j) PROVE Standing'
  <2>1. /\ applied' = applied
        /\ fees' = IF Of[j] \in stored THEN fees ELSE [fees EXCEPT ![Of[j]] = ConfigOf[Of[j]]]
    BY <1>3 DEF CreatePair
  <2>2. \A i \in applied : Of[i] \in stored
    BY DEF PairComplete
  <2> QED
    BY <1>0, <2>1, <2>2 DEF Standing
<1>4. ASSUME NEW j \in Jobs, Work(j) \/ Fault(j), ~UpdateFees(j), ~CreatePair(j)
      PROVE  Standing'
  <2>1. UNCHANGED <<fees, applied>>
    BY <1>4
      DEF Work, Fault, FindConfig, CreateConfig, FindPair, FindPairConfig, FindMint, CreateMint,
            FindFirstBin, InsertBin, CheckAndInsertInstruction, FindPairOfFees,
            FindAsset, CreateAsset, FindAssetOfStatus, UpdateStatus, tables
  <2> QED
    BY <2>1 DEF Standing
<1> QED
  BY <1>1, <1>2, <1>3, <1>4 DEF Next

LEMMA StepOneRun ==
  ASSUME Types, OneRun, [Next]_vars
  PROVE  OneRun'
<1>0. \A i \in FeeJobs : i \in Jobs /\ i \in Recorded
  BY KindsOfJobs
<1>1. CASE UNCHANGED vars
  BY <1>1 DEF OneRun, vars
\* A step of another job leaves them alone.
<1>2. ASSUME NEW j \in Jobs, Throw(j) \/ \E to : Go(j, to),
             broken \subseteq broken', applied \subseteq applied',
             recorded' \in {recorded, recorded \cup {j}},
             j \in FeeJobs \ broken' =>
               /\ pc'[j] = "waiting" => j \notin recorded'
               /\ pc'[j] # "failed"
               /\ pc'[j] = "completed" => j \in applied'
      PROVE  OneRun'
  <2> SUFFICES ASSUME NEW i \in FeeJobs \ broken', i # j
               PROVE  /\ pc'[i] = "waiting" => i \notin recorded'
                      /\ pc'[i] # "failed"
                      /\ pc'[i] = "completed" => i \in applied'
    BY <1>2 DEF OneRun
  <2>1. pc'[i] = pc[i]
    BY <1>0, <1>2, OthersStay
  <2> QED
    BY <1>2, <2>1 DEF OneRun
<1>3. ASSUME NEW j \in Jobs, Fault(j) PROVE OneRun'
  BY <1>2, <1>3 DEF Fault, tables
<1>4. ASSUME NEW j \in Jobs, CheckAndInsertInstruction(j) PROVE OneRun'
  <2>1. /\ Go(j, IF j \in recorded THEN "completed" ELSE "find") /\ pc[j] = "waiting"
        /\ recorded' = recorded \cup {j} /\ UNCHANGED <<broken, applied>>
    BY <1>4 DEF CheckAndInsertInstruction
  <2>2. pc'[j] = IF j \in recorded THEN "completed" ELSE "find"
    BY <2>1, MovedTo
  <2> QED
    BY <1>2, <2>1, <2>2 DEF OneRun
<1>5. ASSUME NEW j \in Jobs, FindPairOfFees(j) PROVE OneRun'
  <2>1. /\ j \in FeeJobs /\ UNCHANGED <<recorded, applied>> /\ broken \subseteq broken'
        /\ \/ Go(j, "update")
           \/ Throw(j) /\ j \in broken'
    BY <1>5 DEF FindPairOfFees, tables
  <2> QED
    BY <1>2, <2>1, MovedTo
<1>6. ASSUME NEW j \in Jobs, UpdateFees(j) PROVE OneRun'
  <2>1. /\ Go(j, "completed") /\ UNCHANGED <<recorded, broken>> /\ applied' = applied \cup {j}
    BY <1>6 DEF UpdateFees
  <2> QED
    BY <1>2, <2>1, MovedTo
<1>7. ASSUME NEW j \in Jobs, Work(j), ~CheckAndInsertInstruction(j), ~FindPairOfFees(j),
             ~UpdateFees(j)
      PROVE  OneRun'
  <2>1. j \notin FeeJobs
    BY <1>7, Disjoint, KindsOfJobs
      DEF Work, FindConfig, CreateConfig, FindPair, FindPairConfig, FindMint, CreateMint,
          CreatePair, FindFirstBin, InsertBin, FindAsset, CreateAsset, FindAssetOfStatus,
          UpdateStatus
  <2>2. /\ UNCHANGED <<recorded, applied>> /\ broken \subseteq broken'
        /\ Throw(j) \/ \E to : Go(j, to)
    BY <1>7
      DEF Work, FindConfig, CreateConfig, FindPair, FindPairConfig, FindMint, CreateMint,
          CreatePair, FindFirstBin, InsertBin, FindAsset, CreateAsset, FindAssetOfStatus,
          UpdateStatus, Create, tables
  <2> QED
    BY <1>2, <2>1, <2>2
<1> QED
  BY <1>1, <1>3, <1>4, <1>5, <1>6, <1>7 DEF Next

(* No job that creates a pair late or again takes back an update, and an   *)
(* update whose pair is there and no call of which fails is written.       *)
THEOREM UpdatesKept == Spec => []UpdatesStand
<1>1. Init => Standing /\ OneRun
  BY KindsOfJobs DEF Init, Standing, OneRun
<1>2. Types /\ PairComplete /\ Standing /\ OneRun /\ [Next]_vars => Standing' /\ OneRun'
  BY StepStanding, StepOneRun
<1>3. Standing /\ OneRun => UpdatesStand
  BY DEF Standing, OneRun, UpdatesStand, Settled
<1> QED
  BY <1>1, <1>2, <1>3, TypesInvariant, PairsComplete, PTL DEF Spec

(* An array in part is being filled by the job that has inserted all of    *)
(* it, or that job was broken off.                                         *)
Filler(a, j) == Of[j] = a /\ (j \in broken \/ (pc[j] = "insert" /\ at[j] = bins[a]))

Filled == \A a \in Arrays : bins[a] \in {0, BinArraySize} \/ \E j \in ArrayJobs : Filler(a, j)

LEMMA QuietKeepsFilled ==
  ASSUME Filled, broken \subseteq broken', UNCHANGED bins,
         \A i \in ArrayJobs : pc[i] = "insert" => i \in broken' \/ (pc'[i] = "insert" /\ at'[i] = at[i])
  PROVE  Filled'
<1> SUFFICES ASSUME NEW a \in Arrays, bins[a] \notin {0, BinArraySize}
             PROVE  \E j \in ArrayJobs : Filler(a, j)'
  BY DEF Filled
<1>1. PICK j \in ArrayJobs : Filler(a, j)
  BY DEF Filled
<1>2. Filler(a, j)'
  BY <1>1 DEF Filler
<1> QED
  BY <1>2

(* A job has inserted no more bins than there are. *)
Within == \A j \in ArrayJobs : pc[j] = "insert" => at[j] <= bins[Of[j]]

LEMMA StepWithin ==
  ASSUME Types, Within, [Next]_vars
  PROVE  Within'
<1>0. /\ at \in [ArrayJobs -> 0..BinArraySize] /\ bins \in [Arrays -> 0..BinArraySize]
      /\ \A j \in ArrayJobs : Of[j] \in Arrays /\ j \in Jobs
  BY Bounds, KindsOfJobs DEF Types, TypeOK
<1>1. CASE UNCHANGED vars
  BY <1>1 DEF Within, vars
<1>2. ASSUME NEW j \in Jobs, Fault(j) PROVE Within'
  <2>1. Throw(j) /\ UNCHANGED <<bins, at>>
    BY <1>2 DEF Fault, tables
  <2>2. \A i \in Jobs : pc'[i] = "insert" => pc[i] = "insert"
    BY <2>1, OthersStay, Thrown
  <2> QED
    BY <1>0, <2>1, <2>2 DEF Within
<1>3. ASSUME NEW j \in Jobs, InsertBin(j) PROVE Within'
  <2>1. /\ j \in ArrayJobs /\ pc[j] = "insert" /\ (Throw(j) \/ \E to : Go(j, to))
        /\ \/ UNCHANGED <<bins, at>>
           \/ bins' = [bins EXCEPT ![Of[j]] = @ + 1] /\ at' = [at EXCEPT ![j] = @ + 1]
    BY <1>3 DEF InsertBin
  <2>2. \A i \in Jobs : i # j => pc'[i] = pc[i]
    BY <2>1, OthersStay
  <2> SUFFICES ASSUME NEW i \in ArrayJobs, pc'[i] = "insert" PROVE at'[i] <= bins'[Of[i]]
    BY DEF Within
  <2>3. /\ pc[i] = "insert" /\ at[i] <= bins[Of[i]] /\ at[i] \in Nat /\ bins[Of[i]] \in Nat
        /\ Of[i] \in Arrays /\ i \in ArrayJobs
    <3>0. i \in Jobs /\ Of[i] \in Arrays
      BY <1>0
    <3>1. pc[i] = "insert"
      BY <2>1, <2>2, <3>0
    <3>2. at[i] \in 0..BinArraySize /\ bins[Of[i]] \in 0..BinArraySize
      BY <1>0, <3>0
    <3> QED
      BY <3>0, <3>1, <3>2, Bounds DEF Within
  <2>4. CASE UNCHANGED <<bins, at>>
    BY <2>3, <2>4
  <2>5. CASE bins' = [bins EXCEPT ![Of[j]] = @ + 1] /\ at' = [at EXCEPT ![j] = @ + 1]
    <3>1. CASE i = j
      BY <1>0, <2>3, <2>5, <3>1
    <3>2. CASE i # j
      BY <1>0, <2>3, <2>5, <3>2
    <3> QED
      BY <3>1, <3>2
  <2> QED
    BY <2>1, <2>4, <2>5
<1>4. ASSUME NEW j \in Jobs, FindFirstBin(j) PROVE Within'
  <2>1. at' = [at EXCEPT ![j] = 0] /\ UNCHANGED bins /\ j \in ArrayJobs /\ \E to : Go(j, to)
    BY <1>4 DEF FindFirstBin, tables
  <2>2. \A i \in ArrayJobs : i # j => pc'[i] = pc[i] /\ at'[i] = at[i]
    BY <1>0, <2>1, OthersStay
  <2>3. at'[j] = 0 /\ bins[Of[j]] \in Nat
    BY <1>0, <2>1, Bounds
  <2> QED
    BY <2>1, <2>2, <2>3 DEF Within
<1>5. ASSUME NEW j \in Jobs, Work(j), ~InsertBin(j), ~FindFirstBin(j) PROVE Within'
  <2>1. UNCHANGED <<bins, at>> /\ j \notin ArrayJobs
    BY <1>5, Disjoint, KindsOfJobs
      DEF Work, FindConfig, CreateConfig, FindPair, FindPairConfig, FindMint, CreateMint,
            CreatePair, UpdateFees, CheckAndInsertInstruction, FindPairOfFees,
            FindAsset, CreateAsset, FindAssetOfStatus, UpdateStatus, tables, Recorded
  <2>2. \A i \in Jobs : i # j => pc'[i] = pc[i]
    BY <1>5, OthersStay
      DEF Work, FindConfig, CreateConfig, FindPair, FindPairConfig, FindMint, CreateMint,
            CreatePair, UpdateFees, CheckAndInsertInstruction, FindPairOfFees,
            FindAsset, CreateAsset, FindAssetOfStatus, UpdateStatus, tables, Create
  <2> QED
    BY <1>0, <2>1, <2>2 DEF Within
<1> QED
  BY <1>1, <1>2, <1>3, <1>4, <1>5 DEF Next

LEMMA StepFilled ==
  ASSUME Types, Within, Filled, [Next]_vars
  PROVE  Filled'
<1>1. CASE UNCHANGED vars
  BY <1>1 DEF Filled, Filler, vars
<1>2. ASSUME NEW j \in Jobs, Fault(j) PROVE Filled'
  <2>1. Throw(j) /\ UNCHANGED <<bins, at>> /\ broken' = broken \cup {j}
    BY <1>2 DEF Fault, tables
  <2> QED
    BY <2>1, OthersStay, KindsOfJobs, QuietKeepsFilled
<1>3. ASSUME NEW j \in Jobs, InsertBin(j) PROVE Filled'
  <2>1. /\ j \in ArrayJobs /\ pc[j] = "insert" /\ UNCHANGED broken
        /\ Throw(j) \/ \E to : Go(j, to)
    BY <1>3 DEF InsertBin
  <2>2. /\ at \in [ArrayJobs -> 0..BinArraySize] /\ bins \in [Arrays -> 0..BinArraySize]
        /\ at[j] < BinArraySize /\ Of[j] \in Arrays
    BY <2>1, Bounds DEF Types, TypeOK, Left
  <2>3. \A i \in ArrayJobs : i # j => pc'[i] = pc[i]
    BY <2>1, OthersStay, KindsOfJobs
  <2>4. CASE at[j] < bins[Of[j]]
    <3>1. UNCHANGED <<bins, at>>
      BY <1>3, <2>4 DEF InsertBin
    <3> SUFFICES ASSUME NEW a \in Arrays, bins[a] \notin {0, BinArraySize}
                 PROVE  \E i \in ArrayJobs : Filler(a, i)'
      BY <3>1 DEF Filled
    <3>2. PICK i \in ArrayJobs : Filler(a, i)
      BY DEF Filled
    <3>3. i # j \/ i \in broken
      <4> SUFFICES ASSUME i = j, i \notin broken PROVE FALSE
        OBVIOUS
      <4>1. at[j] = bins[Of[j]]
        BY <3>2 DEF Filler
      <4> QED
        BY <2>2, <2>4, <4>1
    <3>4. Filler(a, i)'
      BY <2>1, <2>3, <3>1, <3>2, <3>3 DEF Filler
    <3> QED
      BY <3>4
  <2>5. CASE ~(at[j] < bins[Of[j]])
    <3>1. /\ bins' = [bins EXCEPT ![Of[j]] = @ + 1] /\ at' = [at EXCEPT ![j] = @ + 1]
          /\ Go(j, IF at[j] + 1 < BinArraySize THEN "insert" ELSE "completed")
      BY <1>3, <2>5 DEF InsertBin
    <3>2. /\ pc'[j] = (IF at[j] + 1 < BinArraySize THEN "insert" ELSE "completed")
          /\ at'[j] = at[j] + 1 /\ bins'[Of[j]] = bins[Of[j]] + 1
          /\ \A i \in ArrayJobs : i # j => at'[i] = at[i]
          /\ \A a \in Arrays : a # Of[j] => bins'[a] = bins[a]
      BY <2>1, <2>2, <3>1, MovedTo, KindsOfJobs
    <3>3. ASSUME NEW a \in Arrays, a # Of[j], bins'[a] \notin {0, BinArraySize}
          PROVE  \E i \in ArrayJobs : Filler(a, i)'
      <4>1. PICK i \in ArrayJobs : Filler(a, i)
        BY <3>2, <3>3 DEF Filled
      <4>2. i # j
        BY <3>3, <4>1 DEF Filler
      <4>3. Filler(a, i)'
        BY <2>1, <2>3, <3>2, <3>3, <4>1, <4>2 DEF Filler
      <4> QED
        BY <4>3
    <3>4. ASSUME bins'[Of[j]] \notin {0, BinArraySize}
          PROVE  \E i \in ArrayJobs : Filler(Of[j], i)'
      <4>1. CASE at[j] = bins[Of[j]]
        <5>1. pc'[j] = "insert" /\ at'[j] = bins'[Of[j]]
          BY <2>2, <3>2, <3>4, <4>1, Bounds
        <5>2. Filler(Of[j], j)'
          BY <5>1 DEF Filler
        <5> QED
          BY <2>1, <5>2
      <4>2. at[j] <= bins[Of[j]]
        BY <2>1 DEF Within
      <4>3. at[j] \in 0..BinArraySize /\ bins[Of[j]] \in 0..BinArraySize
        BY <2>1, <2>2
      <4> QED
        BY <2>5, <4>1, <4>2, <4>3
    <3> QED
      BY <3>3, <3>4 DEF Filled
  <2> QED
    BY <2>4, <2>5
<1>4. ASSUME NEW j \in Jobs, Work(j), ~InsertBin(j) PROVE Filled'
  <2>1. UNCHANGED bins /\ broken \subseteq broken'
    BY <1>4
      DEF Work, FindConfig, CreateConfig, FindPair, FindPairConfig, FindMint, CreateMint, CreatePair, UpdateFees,
            FindFirstBin, CheckAndInsertInstruction, FindPairOfFees,
            FindAsset, CreateAsset, FindAssetOfStatus, UpdateStatus, tables
  <2>2. pc[j] # "insert"
    BY <1>4
      DEF Work, FindConfig, CreateConfig, FindPair, FindPairConfig, FindMint, CreateMint, CreatePair, UpdateFees,
            FindFirstBin, CheckAndInsertInstruction, FindPairOfFees,
            FindAsset, CreateAsset, FindAssetOfStatus, UpdateStatus, tables
  <2>3. \A i \in ArrayJobs : i # j => at'[i] = at[i]
    BY <1>4
      DEF Work, FindConfig, CreateConfig, FindPair, FindPairConfig, FindMint, CreateMint, CreatePair, UpdateFees,
            FindFirstBin, CheckAndInsertInstruction, FindPairOfFees,
            FindAsset, CreateAsset, FindAssetOfStatus, UpdateStatus, tables, Types, TypeOK
  <2>4. \A i \in Jobs : i # j => pc'[i] = pc[i]
    BY <1>4, OthersStay
      DEF Work, FindConfig, CreateConfig, FindPair, FindPairConfig, FindMint, CreateMint, CreatePair, UpdateFees,
            FindFirstBin, CheckAndInsertInstruction, FindPairOfFees,
            FindAsset, CreateAsset, FindAssetOfStatus, UpdateStatus, tables, Create
  <2> QED
    BY <2>1, <2>2, <2>3, <2>4, KindsOfJobs, QuietKeepsFilled
<1> QED
  BY <1>1, <1>2, <1>3, <1>4 DEF Next

(* An array is in part only while it is filled, or after a fault.          *)
THEOREM ArraysAreWhole == Spec => []ArraysWhole
<1>1. Init => Within /\ Filled
  <2> SUFFICES ASSUME Init PROVE Within /\ Filled
    OBVIOUS
  <2>1. \A j \in ArrayJobs : pc[j] # "insert"
    BY KindsOfJobs DEF Init
  <2> QED
    BY <2>1 DEF Init, Within, Filled
<1>2. Types /\ Within /\ Filled /\ [Next]_vars => Within' /\ Filled'
  BY StepWithin, StepFilled
<1>3. Filled => ArraysWhole
  BY DEF Filled, Filler, ArraysWhole
<1> QED
  BY <1>1, <1>2, <1>3, TypesInvariant, PTL DEF Spec
-----------------------------------------------------------------------------
(* No livelock.  What is left of a job counts its attempts, and the calls  *)
(* of a run.                                                               *)

Stage(s) ==
  CASE s = "config"                            -> 7
    [] s = "find X"                            -> 6
    [] s = "create X"                          -> 5
    [] s = "find Y"                            -> 4
    [] s = "create Y"                          -> 3
    [] s \in {"pair", "find"}                  -> 2
    [] s \in {"create", "update"}              -> 1
    [] s \in {"completed", "failed", "absent"} -> 0

CallsLeft(j) ==
  CASE pc[j] = "waiting" -> BinArraySize + 8
    [] pc[j] = "insert"  -> (BinArraySize - at[j]) + 1
    [] OTHER             -> Stage(pc[j])

JobLeft(j) == (BinArraySize + 9) * (MaxAttempts - attempts[j]) + CallsLeft(j)

NoLivelock ==
  [][/\ \A j \in Jobs : JobLeft(j) \in Nat /\ JobLeft(j)' <= JobLeft(j)
     /\ \E j \in Jobs : JobLeft(j)' < JobLeft(j)]_vars

\* Where the work of a pair's job ends, the pair is stored.
StoredWhenSettled ==
  \A j \in PairJobs \ broken : pc[j] \in Settled => Of[j] \in stored

\* Only an array's job inserts bins.
Inserts == \A j \in Jobs : pc[j] = "insert" => j \in ArrayJobs

\* Where a run goes on from one call to the next.
Follows(j, to) ==
  \/ pc[j] = "waiting" /\ to \in {"completed", "create", "config", "find"}
  \/ pc[j] = "waiting" /\ to = "insert" /\ j \in ArrayJobs /\ at'[j] = 0
  \/ pc[j] = "config" /\ to = "find X"
  \/ pc[j] = "find X" /\ to \in {"create X", "find Y"}
  \/ pc[j] = "create X" /\ to = "find Y"
  \/ pc[j] = "find Y" /\ to \in {"create Y", "pair"}
  \/ pc[j] = "create Y" /\ to = "pair"
  \/ pc[j] = "pair" /\ to = "completed"
  \/ pc[j] = "insert" /\ to = "insert" /\ j \in ArrayJobs /\ at'[j] = at[j] + 1
  \/ pc[j] = "insert" /\ to = "completed"
  \/ pc[j] = "find" /\ to \in {"update", "create", "completed"}
  \/ pc[j] \in {"create", "update"} /\ to = "completed"

LEMMA Calling ==
  ASSUME Types, NEW j \in Jobs, Work(j) \/ Fault(j)
  PROVE  /\ \/ Throw(j)
            \/ \E to \in Calls \cup {"completed"} : Follows(j, to) /\ Go(j, to)
         /\ \A l \in ArrayJobs : l # j => at'[l] = at[l]
<1>t. at \in [ArrayJobs -> 0..BinArraySize]
  BY DEF Types, TypeOK
<1> USE DEF Calls, Follows, tables
<1>1. CASE Fault(j)
  BY <1>1 DEF Fault
<1>2. CASE FindConfig(j) \/ CreateConfig(j)
  BY <1>2 DEF FindConfig, CreateConfig, Create
<1>3. CASE FindPair(j) \/ FindPairConfig(j)
  BY <1>3 DEF FindPair, FindPairConfig
<1>4. CASE FindMint(j)
  BY <1>4 DEF FindMint
<1>5. CASE CreateMint(j)
  BY <1>5 DEF CreateMint, Create
<1>6. CASE CreatePair(j)
  BY <1>6 DEF CreatePair, Create
<1>7. CASE FindFirstBin(j)
  <2>1. at'[j] = 0 /\ j \in ArrayJobs /\ pc[j] = "waiting" /\ \A l \in ArrayJobs : l # j => at'[l] = at[l]
    BY <1>7, <1>t DEF FindFirstBin
  <2> QED BY <1>7, <2>1 DEF FindFirstBin
<1>8. CASE InsertBin(j)
  <2>1. CASE at[j] < bins[Of[j]]
    BY <1>8, <2>1 DEF InsertBin
  <2>2. CASE ~(at[j] < bins[Of[j]])
    <3>1. /\ j \in ArrayJobs /\ pc[j] = "insert"
          /\ at'[j] = at[j] + 1 /\ \A l \in ArrayJobs : l # j => at'[l] = at[l]
      BY <1>8, <1>t, <2>2 DEF InsertBin
    <3> QED BY <1>8, <2>2, <3>1 DEF InsertBin
  <2> QED BY <2>1, <2>2
<1>9. CASE CheckAndInsertInstruction(j)
  BY <1>9 DEF CheckAndInsertInstruction
<1>10. CASE FindPairOfFees(j) \/ UpdateFees(j)
  BY <1>10 DEF FindPairOfFees, UpdateFees
<1>11. CASE FindAsset(j) \/ CreateAsset(j)
  BY <1>11 DEF FindAsset, CreateAsset, Create
<1>12. CASE FindAssetOfStatus(j) \/ UpdateStatus(j)
  BY <1>12 DEF FindAssetOfStatus, UpdateStatus
<1> QED BY <1>1, <1>2, <1>3, <1>4, <1>5, <1>6, <1>7, <1>8, <1>9, <1>10, <1>11, <1>12 DEF Work

LEMMA StepInserts == Types /\ Inserts /\ [Next]_vars => Inserts'
<1> SUFFICES ASSUME Types, Inserts, [Next]_vars, NEW l \in Jobs, pc'[l] = "insert"
             PROVE  l \in ArrayJobs
  BY DEF Inserts
<1>1. CASE UNCHANGED vars
  BY <1>1 DEF Inserts, vars
<1>2. ASSUME NEW j \in Jobs, Work(j) \/ Fault(j) PROVE l \in ArrayJobs
  <2>1. CASE Throw(j)
    <3>1. pc'[l] = pc[l]
      BY <2>1 DEF Throw, Types, TypeOK
    <3> QED BY <3>1 DEF Inserts
  <2>2. CASE \E to \in Calls \cup {"completed"} : Follows(j, to) /\ Go(j, to)
    <3>1. PICK to \in Calls \cup {"completed"} : Follows(j, to) /\ Go(j, to)
      BY <2>2
    <3>2. pc'[l] = IF l = j THEN to ELSE pc[l]
      BY <3>1 DEF Go, Types, TypeOK
    <3> QED BY <3>1, <3>2 DEF Inserts, Follows
  <2> QED BY <1>2, <2>1, <2>2, Calling
<1> QED BY <1>1, <1>2 DEF Next

LEMMA Stages ==
  /\ Stage("config") = 7 /\ Stage("find X") = 6 /\ Stage("create X") = 5
  /\ Stage("find Y") = 4 /\ Stage("create Y") = 3 /\ Stage("pair") = 2 /\ Stage("find") = 2
  /\ Stage("create") = 1 /\ Stage("update") = 1
  /\ Stage("completed") = 0 /\ Stage("failed") = 0 /\ Stage("absent") = 0
BY DEF Stage

LEMMA CallsBounded ==
  ASSUME Types, Inserts
  PROVE  \A j \in Jobs : CallsLeft(j) \in 0..(BinArraySize + 8)
<1> TAKE j \in Jobs
<1>1. pc[j] \in Calls \cup Settled \cup {"waiting", "absent"} /\ BinArraySize \in Nat \ {0}
  BY Bounds DEF Types, TypeOK
<1>2. CASE pc[j] = "insert"
  <2>1. at[j] \in 0..BinArraySize
    BY <1>2 DEF Inserts, Types, TypeOK
  <2>2. CallsLeft(j) = (BinArraySize - at[j]) + 1
    BY <1>2 DEF CallsLeft
  <2> QED BY <1>1, <2>1, <2>2
<1>3. CASE pc[j] # "insert"
  <2>1. CallsLeft(j) = IF pc[j] = "waiting" THEN BinArraySize + 8 ELSE Stage(pc[j])
    BY <1>3 DEF CallsLeft
  <2>2. pc[j] # "waiting" => Stage(pc[j]) \in {0, 1, 2, 3, 4, 5, 6, 7}
    BY <1>1, <1>3, Stages DEF Calls, Settled
  <2> QED BY <1>1, <2>1, <2>2
<1> QED BY <1>2, <1>3

\* A run that goes on has fewer calls left.
LEMMA FollowsLeft ==
  ASSUME Types, Types', Inserts, NEW j \in Jobs, NEW to, Follows(j, to), pc'[j] = to
  PROVE  CallsLeft(j)' \in Nat /\ CallsLeft(j)' < CallsLeft(j)
<1>1. BinArraySize \in Nat \ {0}
  BY Bounds
<1>2. ASSUME j \in ArrayJobs PROVE at[j] \in 0..BinArraySize /\ at'[j] \in 0..BinArraySize
  BY <1>2 DEF Types, TypeOK
<1>3. CASE to = "insert"
  <2>1. j \in ArrayJobs /\ CallsLeft(j)' = (BinArraySize - at'[j]) + 1
    BY <1>3 DEF Follows, CallsLeft
  <2>2. CASE pc[j] = "waiting" /\ at'[j] = 0
    <3>1. CallsLeft(j) = BinArraySize + 8
      BY <2>2 DEF CallsLeft
    <3> QED BY <1>1, <2>1, <2>2, <3>1
  <2>3. CASE pc[j] = "insert" /\ at'[j] = at[j] + 1
    <3>1. CallsLeft(j) = (BinArraySize - at[j]) + 1
      BY <2>3 DEF CallsLeft
    <3> QED BY <1>1, <1>2, <2>1, <2>3, <3>1
  <2> QED BY <1>3, <2>2, <2>3 DEF Follows
<1>4. CASE to # "insert" /\ pc[j] = "insert"
  <2>1. CallsLeft(j)' = 0
    BY <1>4, Stages DEF Follows, CallsLeft
  <2>2. j \in ArrayJobs /\ CallsLeft(j) = (BinArraySize - at[j]) + 1
    BY <1>4 DEF Inserts, CallsLeft
  <2> QED BY <1>1, <1>2, <2>1, <2>2
<1>5. CASE to # "insert" /\ pc[j] # "insert"
  <2>1. CallsLeft(j)' = Stage(to)
    BY <1>5 DEF Follows, CallsLeft
  <2>2. CallsLeft(j) = IF pc[j] = "waiting" THEN BinArraySize + 8 ELSE Stage(pc[j])
    BY <1>5 DEF CallsLeft
  <2>3. CASE pc[j] = "waiting"
    <3>1. Stage(to) \in {0, 1, 2, 7}
      BY <1>5, <2>3, Stages DEF Follows
    <3> QED BY <1>1, <2>1, <2>2, <2>3, <3>1
  <2>4. CASE pc[j] # "waiting"
    <3>1. \/ Stage(pc[j]) = 7 /\ Stage(to) = 6
          \/ Stage(pc[j]) = 6 /\ Stage(to) = 5
          \/ Stage(pc[j]) = 6 /\ Stage(to) = 4
          \/ Stage(pc[j]) = 5 /\ Stage(to) = 4
          \/ Stage(pc[j]) = 4 /\ Stage(to) = 3
          \/ Stage(pc[j]) = 4 /\ Stage(to) = 2
          \/ Stage(pc[j]) = 3 /\ Stage(to) = 2
          \/ Stage(pc[j]) = 2 /\ Stage(to) = 1
          \/ Stage(pc[j]) = 2 /\ Stage(to) = 0
          \/ Stage(pc[j]) = 1 /\ Stage(to) = 0
      BY <1>5, <2>4, Stages DEF Follows
    <3> QED BY <2>1, <2>2, <2>4, <3>1
  <2> QED BY <2>3, <2>4
<1> QED BY <1>3, <1>4, <1>5

\* An attempt weighs more than all calls of a run.
LEMMA AttemptWeighs ==
  ASSUME NEW W \in Nat, NEW m \in Int, NEW a \in Int
  PROVE  W * (m - (a + 1)) = W * (m - a) - W
<1>1. PICK d \in Int : d = m - a
  OBVIOUS
<1>2. m - (a + 1) = d - 1
  BY <1>1
<1>3. W * (d - 1) = W * d - W
  OBVIOUS
<1> QED BY <1>1, <1>2, <1>3

LEMMA StepLeft ==
  ASSUME Types, Types', Inserts, Inserts', NEW j \in Jobs, Work(j) \/ Fault(j)
  PROVE  /\ JobLeft(j)' <= JobLeft(j) /\ JobLeft(j)' < JobLeft(j)
         /\ \A l \in Jobs : l # j => JobLeft(l)' = JobLeft(l)
<1>1. ASSUME NEW l \in Jobs, l # j PROVE JobLeft(l)' = JobLeft(l)
  <2>1. pc'[l] = pc[l] /\ attempts'[l] = attempts[l]
    BY <1>1, Calling DEF Throw, Go, Types, TypeOK
  <2>2. pc[l] = "insert" => at'[l] = at[l]
    BY <1>1, Calling DEF Inserts
  <2>3. CallsLeft(l)' = CallsLeft(l)
    BY <2>1, <2>2 DEF CallsLeft
  <2> QED BY <2>1, <2>3 DEF JobLeft
<1>2. /\ BinArraySize \in Nat /\ MaxAttempts \in Nat
      /\ attempts[j] \in Nat /\ CallsLeft(j) \in 0..(BinArraySize + 8)
  BY Bounds, CallsBounded DEF Types, TypeOK
<1>3. CASE Throw(j)
  <2>1. attempts'[j] = attempts[j] + 1 /\ pc'[j] \in {"waiting", "failed"}
    BY <1>3 DEF Throw, Types, TypeOK
  <2>2. CallsLeft(j)' \in 0..(BinArraySize + 8)
    <3>1. CallsLeft(j)' = IF pc'[j] = "waiting" THEN BinArraySize + 8 ELSE Stage(pc'[j])
      BY <2>1 DEF CallsLeft
    <3>2. pc'[j] # "waiting" => Stage(pc'[j]) = 0
      BY <2>1, Stages
    <3> QED BY <1>2, <3>1, <3>2
  <2>3. PICK W \in Nat : W = BinArraySize + 9
    BY <1>2
  <2>4. W * (MaxAttempts - (attempts[j] + 1)) = W * (MaxAttempts - attempts[j]) - W
    BY <1>2, AttemptWeighs
  <2>5. PICK p \in Int : p = W * (MaxAttempts - attempts[j])
    BY <1>2
  <2>6. JobLeft(j)' = p - W + CallsLeft(j)' /\ JobLeft(j) = p + CallsLeft(j)
    BY <2>1, <2>3, <2>4, <2>5 DEF JobLeft
  <2> QED BY <1>1, <1>2, <2>2, <2>3, <2>6
<1>4. CASE \E to \in Calls \cup {"completed"} : Follows(j, to) /\ Go(j, to)
  <2>1. PICK to \in Calls \cup {"completed"} : Follows(j, to) /\ Go(j, to)
    BY <1>4
  <2>2. pc'[j] = to /\ attempts'[j] = attempts[j]
    BY <2>1 DEF Go, Types, TypeOK
  <2>3. CallsLeft(j)' \in Nat /\ CallsLeft(j)' < CallsLeft(j)
    BY <2>1, <2>2, FollowsLeft
  <2>4. PICK p \in Int : p = (BinArraySize + 9) * (MaxAttempts - attempts[j])
    BY <1>2
  <2>5. JobLeft(j)' = p + CallsLeft(j)' /\ JobLeft(j) = p + CallsLeft(j)
    BY <2>2, <2>4 DEF JobLeft
  <2> QED BY <1>1, <1>2, <2>3, <2>4, <2>5
<1> QED BY <1>1, <1>3, <1>4, Calling

LEMMA LeftNat ==
  ASSUME Types, Inserts
  PROVE  \A j \in Jobs : JobLeft(j) \in Nat
<1> TAKE j \in Jobs
<1>1. PICK W \in Nat : W = BinArraySize + 9
  BY Bounds
<1>2. PICK d \in Nat : d = MaxAttempts - attempts[j]
  BY Bounds DEF Types, TypeOK
<1>3. W * d \in Nat
  OBVIOUS
<1>4. CallsLeft(j) \in Nat
  BY Bounds, CallsBounded
<1> QED BY <1>1, <1>2, <1>3, <1>4 DEF JobLeft

(* Whichever rows the jobs create in front of each other and however often  *)
(* they throw: finitely many of them do not work for ever.  Every step      *)
(* lessens what is left of a job, a natural number, and of no other.        *)
THEOREM WorkEnds == Spec => NoLivelock
<1>1. Init => Inserts
  BY DEF Init, Inserts
<1>2. Spec => []Inserts
  BY <1>1, StepInserts, TypesInvariant, PTL DEF Spec
<1>3. Types /\ Types' /\ Inserts /\ Inserts' /\ [Next]_vars =>
        [/\ \A j \in Jobs : JobLeft(j) \in Nat /\ JobLeft(j)' <= JobLeft(j)
         /\ \E j \in Jobs : JobLeft(j)' < JobLeft(j)]_vars
  <2> SUFFICES ASSUME Types, Types', Inserts, Inserts', Next
               PROVE  /\ \A j \in Jobs : JobLeft(j) \in Nat /\ JobLeft(j)' <= JobLeft(j)
                      /\ \E j \in Jobs : JobLeft(j)' < JobLeft(j)
    OBVIOUS
  <2>1. PICK j \in Jobs : Work(j) \/ Fault(j)
    BY DEF Next
  <2>2. ASSUME NEW l \in Jobs PROVE JobLeft(l) \in Int /\ JobLeft(l)' <= JobLeft(l)
    <3>1. JobLeft(l) \in Nat
      BY LeftNat
    <3>2. CASE l = j
      BY <2>1, <3>1, <3>2, StepLeft
    <3>3. CASE l # j
      BY <2>1, <3>1, <3>3, StepLeft
    <3> QED BY <3>1, <3>2, <3>3
  <2> QED BY <2>1, <2>2, StepLeft, LeftNat
<1> QED BY <1>2, <1>3, TypesInvariant, PTL DEF Spec, NoLivelock

\* A pair's job that is completed has found the pair or stored it.
PairFound == \A j \in PairJobs : pc[j] = "completed" => Of[j] \in stored

LEMMA StepPairFound == Types /\ PairFound /\ [Next]_vars => PairFound'
<1> SUFFICES ASSUME Types, PairFound, [Next]_vars, NEW l \in PairJobs, pc'[l] = "completed"
             PROVE  Of[l] \in stored'
  BY DEF PairFound
<1>1. stored \subseteq stored'
  BY DEF Next, vars, tables, Work, Fault, Create, FindConfig, CreateConfig, FindPair, FindPairConfig,
         FindMint, CreateMint, CreatePair, FindFirstBin, InsertBin, CheckAndInsertInstruction,
         FindPairOfFees, UpdateFees, FindAsset, CreateAsset, FindAssetOfStatus, UpdateStatus
<1>2. CASE pc[l] = "completed"
  BY <1>1, <1>2 DEF PairFound
<1>3. ASSUME NEW j \in Jobs, Work(j) \/ Fault(j), pc[l] # "completed" PROVE Of[l] \in stored'
  <2>1. \A i \in Jobs : i # j => pc'[i] = pc[i]
    BY <1>3, Calling DEF Throw, Go, Types, TypeOK
  <2>2. l = j /\ l \in Jobs
    BY <1>3, <2>1, KindsOfJobs
  <2>3. ~Throw(j)
    BY <2>2 DEF Throw, Types, TypeOK
  <2>4. FindPair(j) \/ FindPairConfig(j) \/ FindMint(j) \/ CreateMint(j) \/ CreatePair(j)
    BY <1>3, <2>2, <2>3, Disjoint
      DEF Fault, Work, FindConfig, CreateConfig, FindFirstBin, InsertBin,
          CheckAndInsertInstruction, FindPairOfFees, UpdateFees, FindAsset, CreateAsset,
          FindAssetOfStatus, UpdateStatus, Recorded
  <2>5. pc \in [Jobs -> Calls \cup Settled \cup {"waiting", "absent"}]
    BY DEF Types, TypeOK
  <2>6. CASE FindPair(j)
    BY <2>2, <2>5, <2>6, <1>1 DEF FindPair, Go
  <2>7. CASE CreatePair(j)
    BY <2>7, <2>2 DEF CreatePair, Create
  <2>8. ~ (FindPairConfig(j) \/ FindMint(j) \/ CreateMint(j))
    BY <2>2, <2>3, <2>5 DEF FindPairConfig, FindMint, CreateMint, Create, Go
  <2> QED BY <2>4, <2>6, <2>7, <2>8
<1> QED BY <1>2, <1>3 DEF Next, vars

(* The work of a pair's job ends with the pair stored, unless a call of its *)
(* failed or its configuration was missing: the jobs that create the rows   *)
(* of a pair at the same time do not leave it out between them.             *)
THEOREM StoredWhenSettledAlways == Spec => []StoredWhenSettled
<1>1. Init => PairFound
  BY KindsOfJobs DEF Init, PairFound
<1>2. Spec => []PairFound
  BY <1>1, StepPairFound, TypesInvariant, PTL DEF Spec
<1>3. PairFound /\ RetriesSuffice => StoredWhenSettled
  BY DEF PairFound, RetriesSuffice, StoredWhenSettled, Settled
<1> QED BY <1>2, <1>3, ThreeAttemptsSuffice, PTL
=============================================================================
