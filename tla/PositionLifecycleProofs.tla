----------------------- MODULE PositionLifecycleProofs -----------------------
(***************************************************************************)
(* Theorems about PositionLifecycle, for any number of increases,          *)
(* decreases and closes and any bounds.                                    *)
(*                                                                         *)
(* The inductive invariant has four parts.  JobInv: a run stands only      *)
(* where its processor has code, and a job that is not failed has a run    *)
(* left.  StoreInv: a run about to store the row has stored the shares and *)
(* is alone.  EffectInv: without a fault, a job none of whose runs threw   *)
(* is unrecorded until it inserts and has its effect once completed, and   *)
(* no increase throws that began after an event that was applied.          *)
(* CreditInv: an increase credits as it completes, with the lower bin id   *)
(* it read.                                                                *)
(***************************************************************************)
EXTENDS PositionLifecycle, TLAPS

Placed == \A j \in Jobs :
  /\ pc[j] \in {"owner", "account", "token"} => j = create
  /\ pc[j] \in {"shares", "make", "update"} => j \in Creators
  /\ pc[j] = "credit" => j \in Increases
  /\ pc[j] = "burn" => j \in Decreases
  /\ pc[j] = "lookup" => j \in Closes

RunsLeft == \A j \in Jobs : pc[j] # "failed" => failures[j] < Attempts

JobInv == TypeOK /\ Placed /\ RunsLeft

MakeReady == \A j \in Jobs :
  /\ pc[j] = "make" => shares = "all" /\ position = NoPosition
  /\ pc[j] = "update" => position # NoPosition

StoreInv == MakeReady /\ SharesWithPosition /\ OneCreator

Fresh == faults = 0 => \A j \in Jobs \ thrown :
  pc[j] \in {"waiting", "owner", "check", "insert"} => j \notin recorded

Done(j) ==
  /\ j = create => position.owner = "real"
  /\ j = event => position.bounds = "real"
  /\ j \in Increases => \E c \in credits : c[1] = j

Effective == faults = 0 => \A j \in Jobs \ thrown :
  pc[j] # "failed" /\ (pc[j] = "completed" => Done(j))

\* The create instruction is past its token account only with the row.
Accounted == faults = 0 /\ create \notin thrown
             /\ pc[create] \in {"find", "shares", "make", "update", "completed"} => tokenAccount

\* Without a fault only an increase throws that came too early.
Unharmed == faults = 0 /\ event \notin thrown => (Increases \ hasty) \cap thrown = {}

EffectInv == Fresh /\ Effective /\ Accounted /\ Unharmed

CreditCompletes == \A c \in credits : pc[c[1]] = "completed"

CreditUnique == \A c, d \in credits : c[1] = d[1] => c = d

AfterEvent == \A j \in Increases \ hasty : pc[j] \in Running => pc[event] = "completed"

ReadLower == faults = 0 /\ event \notin thrown =>
  \A j \in Increases \ hasty : pc[j] = "credit" => lower[j] = Lower

CreditInv ==
  CreditCompletes /\ CreditUnique /\ AfterEvent /\ ReadLower /\ CreditsRightShare

IInv == JobInv /\ StoreInv /\ EffectInv /\ CreditInv
-----------------------------------------------------------------------------
LEMMA InitIInv == Init => IInv
<1> USE PositionLifecycleAssumption
<1> SUFFICES ASSUME Init PROVE IInv
    OBVIOUS
<1>1. JobInv
  <2>1. TypeOK
    <3>1. tokenAccount \in BOOLEAN
      BY DEF Init
    <3> QED
      BY <3>1 DEF Init, TypeOK, Position, NoPosition
  <2>2. Placed /\ RunsLeft
    BY DEF Init, Placed, RunsLeft
  <2> QED
    BY <2>1, <2>2 DEF JobInv
<1>2. StoreInv
  BY DEF Init, StoreInv, MakeReady, SharesWithPosition, OneCreator, Jobs, Creators
<1>3. EffectInv
  BY DEF Init, EffectInv, Fresh, Effective, Accounted, Unharmed, Jobs, Creators
<1>4. CreditInv
  BY DEF Init, CreditInv, CreditCompletes, CreditUnique, AfterEvent, ReadLower,
         CreditsRightShare, Running, Jobs
<1> QED
  BY <1>1, <1>2, <1>3, <1>4 DEF IInv

LEMMA NextJobInv ==
  ASSUME JobInv, [Next]_vars
  PROVE  JobInv'
<1> USE PositionLifecycleAssumption DEF JobInv
<1> USE DEF jobVars, dbVars, histories, Goto
<1>1. ASSUME NEW j \in Jobs, Begin(j) \/ Check(j) \/ Insert(j) PROVE JobInv'
  <2>1. TypeOK'
    BY <1>1 DEF Begin, Check, Insert, Move, TypeOK, Running, Settled
  <2>2. Placed' /\ RunsLeft'
    BY <1>1 DEF Begin, Check, Insert, Move, TypeOK, Placed, RunsLeft
  <2> QED
    BY <2>1, <2>2
<1>2. CASE CreateStep
  <2>1. create \in Jobs
    BY DEF Jobs, Creators
  <2>2. TypeOK'
    BY <1>2, <2>1 DEF CreateStep, ReadOwner, FindTokenAccount, CreateTokenAccount, Move, TypeOK,
       Running
  <2>3. Placed' /\ RunsLeft'
    BY <1>2, <2>1 DEF CreateStep, ReadOwner, FindTokenAccount, CreateTokenAccount, Move, TypeOK,
       Placed, RunsLeft
  <2> QED
    BY <2>2, <2>3
<1>3. ASSUME NEW j \in Jobs, FindPosition(j) \/ InsertShares(j) PROVE JobInv'
  <2>1. TypeOK'
    BY <1>3 DEF FindPosition, InsertShares, Move, TypeOK, Running
  <2>2. Placed' /\ RunsLeft'
    BY <1>3 DEF FindPosition, InsertShares, Move, TypeOK, Placed, RunsLeft
  <2> QED
    BY <2>1, <2>2
<1>4. ASSUME NEW j \in Jobs, CreatePosition(j) \/ UpdatePosition(j) PROVE JobInv'
  <2>1. position' \in Position
    BY <1>4 DEF CreatePosition, UpdatePosition, Created, TypeOK, Position, NoPosition
  <2>2. TypeOK' /\ Placed' /\ RunsLeft'
    BY <1>4, <2>1 DEF CreatePosition, UpdatePosition, Move, TypeOK, Settled, Placed, RunsLeft
  <2> QED
    BY <2>2
<1>5. ASSUME NEW j \in Jobs, FindForDelta(j) PROVE JobInv'
  <2>1. TypeOK'
    BY <1>5 DEF FindForDelta, TypeOK, Running, LowerBinLbId
  <2>2. Placed' /\ RunsLeft'
    BY <1>5 DEF FindForDelta, TypeOK, Placed, RunsLeft
  <2> QED
    BY <2>1, <2>2
<1>6. ASSUME NEW j \in Jobs, Credit(j) PROVE JobInv'
  <2>1. credits' \subseteq Increases \X (0..(BinPerPosition - 1))
    BY <1>6 DEF Credit, Move, InBounds, TypeOK, Placed
  <2>2. TypeOK' /\ Placed' /\ RunsLeft'
    BY <1>6, <2>1 DEF Credit, Move, TypeOK, Settled, Placed, RunsLeft
  <2> QED
    BY <2>2
<1>7. ASSUME NEW j \in Jobs, pc[j] # "failed", Rethrow(j),
             faults' \in 0..MaxFaults, shares' \in {"none", "some", "all"},
             UNCHANGED <<recorded, tokenAccount, position, credits>>
      PROVE  JobInv'
  BY <1>7 DEF Rethrow, TypeOK, Settled, Placed, RunsLeft
<1>8. ASSUME NEW j \in Jobs, Throw(j) PROVE JobInv'
  BY <1>7, <1>8 DEF Throw, Refused, NoFault, TypeOK
<1>9. ASSUME NEW j \in Jobs, CallFails(j) PROVE JobInv'
  <2>1. pc[j] # "failed" /\ shares' \in {"none", "some", "all"} /\ faults' \in 0..MaxFaults
    BY <1>9 DEF CallFails, SharesCutOff, Running, TypeOK, Fault
  <2> QED
    BY <1>7, <1>9, <2>1 DEF CallFails
<1>10. CASE Crash
  <2>1. TypeOK'
    BY <1>10 DEF Crash, SharesCutOff, Fault, TypeOK, Settled
  <2>2. Placed' /\ RunsLeft'
    BY <1>10 DEF Crash, TypeOK, Placed, RunsLeft, Running
  <2> QED
    BY <2>1, <2>2
<1>11. CASE UNCHANGED vars
  BY <1>11 DEF vars, TypeOK, Placed, RunsLeft
<1> QED
  BY <1>1, <1>2, <1>3, <1>4, <1>5, <1>6, <1>8, <1>9, <1>10, <1>11 DEF Next, Step
-----------------------------------------------------------------------------
(* The position's row.  A step that changes neither the shares nor the row *)
(* keeps StoreInv if it sends no run to "make", and to "update" only when  *)
(* there is a row.                                                         *)
LEMMA OtherStepKeepsStore ==
  ASSUME StoreInv, UNCHANGED <<shares, position>>,
         \A j \in Jobs : pc'[j] = "make" => pc[j] = "make",
         \A j \in Jobs : pc'[j] = "update" => (pc[j] = "update" \/ position # NoPosition)
  PROVE  StoreInv'
  BY DEF StoreInv, MakeReady, SharesWithPosition, OneCreator, Jobs, Creators

LEMMA NextStoreInv ==
  ASSUME JobInv, StoreInv, [Next]_vars
  PROVE  StoreInv'
<1> USE PositionLifecycleAssumption
<1> USE DEF dbVars, histories, Goto
<1>1. ASSUME NEW j \in Jobs, Begin(j) \/ Check(j) \/ Insert(j) PROVE StoreInv'
  BY <1>1, OtherStepKeepsStore DEF Begin, Check, Insert, Move, JobInv, TypeOK
<1>2. CASE CreateStep
  BY <1>2, OtherStepKeepsStore DEF CreateStep, ReadOwner, FindTokenAccount, CreateTokenAccount,
     Move, JobInv, TypeOK
<1>3. ASSUME NEW j \in Jobs, FindPosition(j) \/ FindForDelta(j) \/ Credit(j) PROVE StoreInv'
  BY <1>3, OtherStepKeepsStore DEF FindPosition, FindForDelta, Credit, Move, JobInv, TypeOK
<1>4. ASSUME NEW j \in Jobs, InsertShares(j) PROVE StoreInv'
  <2>1. position = NoPosition /\ (\A i \in Jobs : pc[i] # "make")
    BY <1>4 DEF InsertShares, StoreInv, SharesWithPosition, MakeReady
  <2>2. pc'[j] = "make" /\ (\A i \in Jobs \ {j} : pc'[i] = pc[i])
    BY <1>4 DEF InsertShares, Move, JobInv, TypeOK
  <2>3. shares' = "all" /\ position' = NoPosition
    BY <1>4, <2>1 DEF InsertShares
  <2> QED
    BY <2>1, <2>2, <2>3 DEF StoreInv, MakeReady, SharesWithPosition, OneCreator, Jobs, Creators
<1>5. ASSUME NEW j \in Jobs, CreatePosition(j) PROVE StoreInv'
  <2>1. shares = "all" /\ position' # NoPosition /\ UNCHANGED shares
    BY <1>5 DEF CreatePosition, Move, StoreInv, MakeReady, Created, NoPosition
  <2>2. \A i \in Jobs : pc'[i] # "make"
    BY <1>5 DEF CreatePosition, Move, StoreInv, OneCreator, JobInv, TypeOK, Placed, Creators, Jobs
  <2> QED
    BY <2>1, <2>2 DEF StoreInv, MakeReady, SharesWithPosition, OneCreator, Jobs, Creators
<1>6. ASSUME NEW j \in Jobs, UpdatePosition(j) PROVE StoreInv'
  <2>1. position # NoPosition /\ position' # NoPosition /\ UNCHANGED shares
    BY <1>6 DEF UpdatePosition, Move, StoreInv, MakeReady, JobInv, TypeOK, Position, NoPosition
  <2>2. \A i \in Jobs : pc'[i] = "make" => pc[i] = "make"
    BY <1>6 DEF UpdatePosition, Move, JobInv, TypeOK
  <2> QED
    BY <2>1, <2>2 DEF StoreInv, MakeReady, SharesWithPosition, OneCreator, Jobs, Creators
<1>7. ASSUME NEW j \in Jobs, Throw(j) PROVE StoreInv'
  BY <1>7, OtherStepKeepsStore DEF Throw, Rethrow, JobInv, TypeOK
<1>8. ASSUME NEW j \in Jobs, CallFails(j) \/ Crash PROVE StoreInv'
  <2>1. \A i \in Jobs : /\ pc'[i] = "make" => pc[i] = "make"
                        /\ pc'[i] = "update" => pc[i] = "update"
    BY <1>8 DEF CallFails, Crash, Rethrow, JobInv, TypeOK
  <2>2. UNCHANGED position /\ (shares # "none" => UNCHANGED shares)
    BY <1>8 DEF CallFails, Crash, SharesCutOff
  <2> QED
    BY <2>1, <2>2 DEF StoreInv, MakeReady, SharesWithPosition, OneCreator, Jobs, Creators
<1>9. CASE Crash
  BY <1>8, <1>9 DEF Crash
<1>10. CASE UNCHANGED vars
  BY <1>10, OtherStepKeepsStore DEF vars
<1> QED
  BY <1>1, <1>2, <1>3, <1>4, <1>5, <1>6, <1>7, <1>8, <1>9, <1>10 DEF Next, Step
-----------------------------------------------------------------------------
(* Every step keeps an owner and bounds that are known.  The only step     *)
(* that writes a whole row finds none.                                     *)
LEMMA StepKeepsFields ==
  ASSUME JobInv, StoreInv, [Next]_vars
  PROVE  /\ position.owner = "real" => position'.owner = "real"
         /\ position.bounds = "real" => position'.bounds = "real"
<1> USE DEF dbVars, histories
<1>1. ASSUME NEW j \in Jobs, CreatePosition(j) PROVE position = NoPosition
  BY <1>1 DEF CreatePosition, Move, StoreInv, MakeReady
<1>2. ASSUME NEW j \in Jobs, UpdatePosition(j)
      PROVE  /\ position.owner = "real" => position'.owner = "real"
             /\ position.bounds = "real" => position'.bounds = "real"
  BY <1>2 DEF UpdatePosition, JobInv, TypeOK, Position, NoPosition
<1>3. \/ UNCHANGED position
      \/ \E j \in Jobs : CreatePosition(j) \/ UpdatePosition(j)
  BY DEF Next, Step, CreateStep, Begin, ReadOwner, FindTokenAccount,
         CreateTokenAccount, Check, Insert, FindPosition, InsertShares, FindForDelta,
         Credit, Throw, CallFails, Crash, vars
<1> QED
  BY <1>1, <1>2, <1>3 DEF NoPosition
-----------------------------------------------------------------------------
(* What a job did stays done.                                              *)
LEMMA DoneStays ==
  ASSUME JobInv, StoreInv, [Next]_vars, credits \subseteq credits',
         NEW j \in Jobs, Done(j)
  PROVE  Done(j)'
  BY StepKeepsFields DEF Done

LEMMA CreditsGrow ==
  ASSUME [Next]_vars
  PROVE  credits \subseteq credits'
  BY DEF Next, Step, CreateStep, Begin, ReadOwner, FindTokenAccount,
         CreateTokenAccount, Check, Insert, FindPosition, InsertShares, FindForDelta,
         CreatePosition, UpdatePosition, Credit, Throw, CallFails, Crash, vars, dbVars

LEMMA TokenStays ==
  ASSUME [Next]_vars, tokenAccount
  PROVE  tokenAccount'
  BY DEF Next, Step, CreateStep, Begin, ReadOwner, FindTokenAccount, CreateTokenAccount, Check,
         Insert, FindPosition, InsertShares, FindForDelta, CreatePosition, UpdatePosition, Credit,
         Throw, CallFails, Crash, vars, dbVars

LEMMA HastyGrows ==
  ASSUME [Next]_vars
  PROVE  hasty \subseteq hasty'
  BY DEF Next, Step, CreateStep, Begin, ReadOwner, FindTokenAccount, CreateTokenAccount, Check,
         Insert, FindPosition, InsertShares, FindForDelta, CreatePosition, UpdatePosition, Credit,
         Throw, CallFails, Crash, Rethrow, vars, histories

(* A step of job j that neither throws nor is a fault keeps EffectInv if   *)
(* it keeps it for j.                                                      *)
LEMMA OwnStepKeepsEffect ==
  ASSUME IInv, [Next]_vars, NEW j \in Jobs,
         \A i \in Jobs \ {j} : pc'[i] = pc[i] /\ (i \in recorded' => i \in recorded),
         thrown' = thrown, faults' = faults,
         faults = 0 /\ j \notin thrown =>
           /\ pc'[j] \in {"waiting", "owner", "check", "insert"} => j \notin recorded'
           /\ pc'[j] # "failed" /\ (pc'[j] = "completed" => Done(j)')
           /\ j = create /\ pc'[j] \in {"find", "shares", "make", "update", "completed"}
                => tokenAccount'
  PROVE  EffectInv'
<1>1. \A i \in Jobs : Done(i) => Done(i)'
  BY DoneStays, CreditsGrow DEF IInv
<1>2. Fresh'
  BY DEF IInv, EffectInv, Fresh
<1>3. Effective'
  BY <1>1 DEF IInv, EffectInv, Effective
<1>4. Accounted'
  <2> SUFFICES ASSUME faults = 0, create \notin thrown,
                      pc'[create] \in {"find", "shares", "make", "update", "completed"}
               PROVE  tokenAccount'
    BY DEF Accounted
  <2>1. CASE j = create
    BY <2>1
  <2>2. CASE j # create
    <3>1. create \in Jobs /\ pc'[create] = pc[create]
      BY <2>2 DEF Jobs, Creators
    <3>2. tokenAccount
      BY <3>1 DEF IInv, EffectInv, Accounted
    <3> QED BY <3>2, TokenStays
  <2> QED BY <2>1, <2>2
<1>5. Unharmed'
  <2>1. hasty \subseteq hasty'
    BY HastyGrows
  <2> QED BY <2>1 DEF IInv, EffectInv, Unharmed
<1> QED
  BY <1>2, <1>3, <1>4, <1>5 DEF EffectInv

LEMMA NextEffectInv ==
  ASSUME IInv, [Next]_vars
  PROVE  EffectInv'
<1> USE PositionLifecycleAssumption
<1> USE DEF dbVars, histories, Goto
<1>1. ASSUME NEW j \in Jobs, Begin(j) \/ Check(j) \/ Insert(j) PROVE EffectInv'
  <2>1. /\ \A i \in Jobs \ {j} : pc'[i] = pc[i] /\ (i \in recorded' => i \in recorded)
        /\ thrown' = thrown /\ faults' = faults
    BY <1>1 DEF Begin, Check, Insert, Move, IInv, JobInv, TypeOK
  <2>2. faults = 0 /\ j \notin thrown => j \notin recorded
    BY <1>1 DEF Begin, Check, Insert, Move, IInv, EffectInv, Fresh
  <2>3. faults = 0 /\ j \notin thrown =>
          /\ pc'[j] \in {"waiting", "owner", "check", "insert"} => j \notin recorded'
          /\ pc'[j] \notin {"completed", "failed"}
          /\ j = create => pc'[j] \notin {"find", "shares", "make", "update"}
    BY <1>1, <2>2 DEF Begin, Check, Insert, Move, IInv, JobInv, TypeOK
  <2> QED
    BY <2>1, <2>3, OwnStepKeepsEffect
<1>2. CASE CreateStep
  <2> USE DEF CreateStep, ReadOwner, FindTokenAccount, CreateTokenAccount, Move
  <2>1. /\ create \in Jobs
        /\ pc'[create] \in {"check", "token"} \/ (pc'[create] = "find" /\ tokenAccount')
    BY <1>2 DEF IInv, JobInv, TypeOK, Jobs, Creators
  <2>2. /\ \A i \in Jobs \ {create} : pc'[i] = pc[i]
        /\ recorded' = recorded /\ thrown' = thrown /\ faults' = faults
    BY <1>2 DEF IInv, JobInv, TypeOK
  <2>3. faults = 0 /\ create \notin thrown /\ pc'[create] = "check" => create \notin recorded
    BY <1>2, <2>1 DEF IInv, JobInv, TypeOK, EffectInv, Fresh
  <2> QED
    BY <2>1, <2>2, <2>3, OwnStepKeepsEffect
<1>3. ASSUME NEW j \in Jobs, FindPosition(j) \/ InsertShares(j) \/ FindForDelta(j)
      PROVE  EffectInv'
  <2>1. /\ \A i \in Jobs \ {j} : pc'[i] = pc[i]
        /\ recorded' = recorded /\ thrown' = thrown /\ faults' = faults
        /\ pc'[j] \notin {"waiting", "owner", "check", "insert", "completed", "failed"}
    BY <1>3 DEF FindPosition, InsertShares, FindForDelta, Move, IInv, JobInv, TypeOK
  <2>2. j = create => pc[j] \in {"find", "shares"} /\ tokenAccount' = tokenAccount
    BY <1>3 DEF FindPosition, InsertShares, FindForDelta, Move
  <2>3. faults = 0 /\ j \notin thrown /\ j = create => tokenAccount'
    BY <2>2 DEF IInv, EffectInv, Accounted
  <2> QED
    BY <2>1, <2>3, OwnStepKeepsEffect
<1>4. ASSUME NEW j \in Jobs, CreatePosition(j) \/ UpdatePosition(j) PROVE EffectInv'
  <2>1. /\ \A i \in Jobs \ {j} : pc'[i] = pc[i]
        /\ recorded' = recorded /\ thrown' = thrown /\ faults' = faults
        /\ pc'[j] = "completed"
    BY <1>4 DEF CreatePosition, UpdatePosition, Move, IInv, JobInv, TypeOK
  <2>2. j \in Creators
    BY <1>4 DEF CreatePosition, UpdatePosition, Move, IInv, JobInv, Placed
  <2>3. j \notin Increases
    BY <2>2
  <2>4. /\ j = create => position'.owner = "real"
        /\ j = event => position'.bounds = "real"
    <3>1. CASE CreatePosition(j)
      BY <3>1, <2>2 DEF CreatePosition, Created, Creators
    <3>2. CASE UpdatePosition(j)
      <4>1. position # NoPosition
        BY <3>2 DEF UpdatePosition, Move, IInv, StoreInv, MakeReady
      <4> QED
        BY <3>2, <4>1 DEF UpdatePosition, IInv, JobInv, TypeOK, Position, NoPosition
    <3> QED
      BY <1>4, <3>1, <3>2
  <2>5. Done(j)'
    BY <2>3, <2>4 DEF Done
  <2>6. pc[j] \in {"make", "update"} /\ tokenAccount' = tokenAccount
    BY <1>4 DEF CreatePosition, UpdatePosition, Move
  <2>7. faults = 0 /\ j \notin thrown /\ j = create => tokenAccount'
    BY <2>6 DEF IInv, EffectInv, Accounted
  <2> QED
    BY <2>1, <2>5, <2>7, OwnStepKeepsEffect
<1>5. ASSUME NEW j \in Jobs, Credit(j) PROVE EffectInv'
  <2>1. /\ \A i \in Jobs \ {j} : pc'[i] = pc[i]
        /\ recorded' = recorded /\ thrown' = thrown /\ faults' = faults
        /\ pc'[j] = "completed"
    BY <1>5 DEF Credit, Move, IInv, JobInv, TypeOK
  <2>2. j \in Increases /\ <<j, ShareIndex(j)>> \in credits'
    BY <1>5 DEF Credit, Move, IInv, JobInv, Placed
  <2>3. Done(j)' /\ j # create
    BY <2>2 DEF Done, Creators
  <2> QED
    BY <2>1, <2>3, OwnStepKeepsEffect
<1>6. ASSUME NEW j \in Jobs, Throw(j) PROVE EffectInv'
  <2>1. /\ \A i \in Jobs \ {j} : pc'[i] = pc[i]
        /\ recorded' = recorded /\ thrown' = thrown \cup {j} /\ faults' = faults
    BY <1>6 DEF Throw, Rethrow, NoFault, IInv, JobInv, TypeOK
  <2>2. \A i \in Jobs : Done(i) => Done(i)'
    BY DoneStays, CreditsGrow DEF IInv
  <2>3. Fresh' /\ Effective'
    BY <2>1, <2>2 DEF IInv, EffectInv, Fresh, Effective
  <2>4. Accounted'
    <3>1. /\ tokenAccount' = tokenAccount /\ create \in Jobs
          /\ create \notin thrown' => create \notin thrown /\ pc'[create] = pc[create]
      BY <1>6, <2>1 DEF Throw, Jobs, Creators
    <3> QED
      BY <2>1, <3>1 DEF IInv, EffectInv, Accounted
  <2>5. Unharmed'
    <3> SUFFICES ASSUME faults = 0, event \notin thrown, j \in Increases \ hasty
                 PROVE  FALSE
      BY <1>6, <2>1 DEF Throw, Rethrow, IInv, EffectInv, Unharmed
    <3>1. /\ event \in Jobs /\ pc[j] \in Running
          /\ \/ pc[j] = "find" /\ position = NoPosition
             \/ pc[j] = "credit" /\ ~ (shares = "all" /\ InBounds(j))
      BY <1>6 DEF Throw, Refused, Running, IInv, JobInv, Placed, Jobs, Creators
    <3>2. pc[event] = "completed"
      BY <3>1 DEF IInv, CreditInv, AfterEvent
    <3>3. position # NoPosition /\ shares = "all"
      BY <3>1, <3>2 DEF IInv, EffectInv, Effective, Done, StoreInv, SharesWithPosition, NoPosition
    <3>4. pc[j] = "credit" => InBounds(j)
      BY DEF IInv, CreditInv, ReadLower, InBounds, ShareIndex
    <3> QED BY <3>1, <3>3, <3>4
  <2> QED
    BY <2>3, <2>4, <2>5 DEF EffectInv
<1>7. ASSUME faults' = faults + 1 PROVE EffectInv'
  BY <1>7 DEF IInv, JobInv, TypeOK, EffectInv, Fresh, Effective, Accounted, Unharmed
<1>8. ASSUME NEW j \in Jobs, CallFails(j) PROVE EffectInv'
  BY <1>7, <1>8 DEF CallFails, Fault
<1>9. CASE Crash
  BY <1>7, <1>9 DEF Crash, Fault
<1>10. CASE UNCHANGED vars
  BY <1>10 DEF vars, IInv, EffectInv, Fresh, Effective, Done, Accounted, Unharmed
<1> QED
  BY <1>1, <1>2, <1>3, <1>4, <1>5, <1>6, <1>8, <1>9, <1>10 DEF Next, Step
-----------------------------------------------------------------------------
(* What increases credit.                                                  *)
LEMMA OtherStepKeepsCredit ==
  ASSUME JobInv, CreditInv, UNCHANGED <<credits, lower>>, hasty \subseteq hasty',
         event \notin thrown' => event \notin thrown,
         faults' = 0 => faults = 0,
         \A j \in Jobs :
           /\ pc[j] = "completed" => pc'[j] = "completed"
           /\ pc'[j] = "credit" => pc[j] = "credit"
           /\ j \in Increases \ hasty' /\ pc'[j] \in Running =>
                pc[j] \in Running \/ pc[event] = "completed"
  PROVE  CreditInv'
<1>1. /\ event \in Jobs /\ Increases \subseteq Jobs
      /\ \A c \in credits : c[1] \in Increases
  BY DEF Jobs, Creators, JobInv, TypeOK
<1>2. CreditCompletes' /\ CreditUnique'
  BY <1>1 DEF CreditInv, CreditCompletes, CreditUnique
<1>3. AfterEvent'
  BY <1>1 DEF CreditInv, AfterEvent
<1>4. ReadLower' /\ CreditsRightShare'
  BY <1>1 DEF CreditInv, ReadLower, CreditsRightShare
<1> QED
  BY <1>2, <1>3, <1>4 DEF CreditInv

LEMMA NextCreditInv ==
  ASSUME IInv, [Next]_vars
  PROVE  CreditInv'
<1> USE PositionLifecycleAssumption
<1> USE DEF dbVars, histories, Goto
<1>0. /\ JobInv /\ TypeOK /\ CreditInv
      /\ event \in Jobs /\ Increases \subseteq Jobs
      /\ \A c \in credits : c[1] \in Increases
  BY DEF IInv, JobInv, TypeOK, Jobs, Creators
<1>1. ASSUME NEW j \in Jobs, Begin(j) PROVE CreditInv'
  <2>1. /\ UNCHANGED <<credits, lower, thrown, faults>> /\ hasty \subseteq hasty'
        /\ j \in Increases \ hasty' => pc[event] = "completed"
    BY <1>1 DEF Begin, Move
  <2>2. /\ pc[j] = "waiting" /\ pc'[j] \in {"owner", "check"}
        /\ \A i \in Jobs \ {j} : pc'[i] = pc[i]
    BY <1>0, <1>1 DEF Begin, Move, TypeOK
  <2> QED
    BY <1>0, <2>1, <2>2, OtherStepKeepsCredit
<1>2. ASSUME NEW j \in Jobs,
             CreateStep \/ Check(j) \/ Insert(j) \/ FindPosition(j) \/ InsertShares(j)
             \/ CreatePosition(j) \/ UpdatePosition(j)
      PROVE  CreditInv'
  <2>1. UNCHANGED <<credits, lower, thrown, faults, hasty>>
    BY <1>2 DEF CreateStep, ReadOwner, FindTokenAccount, CreateTokenAccount, Check, Insert,
                FindPosition, InsertShares, CreatePosition, UpdatePosition, Move
  <2>2. PICK i \in Jobs : /\ pc[i] \in Running /\ pc'[i] # "credit"
                         /\ \A k \in Jobs \ {i} : pc'[k] = pc[k]
    BY <1>0, <1>2 DEF CreateStep, ReadOwner, FindTokenAccount, CreateTokenAccount, Check, Insert,
                      FindPosition, InsertShares, CreatePosition, UpdatePosition, Move, TypeOK,
                      Running, Jobs, Creators
  <2> QED
    BY <1>0, <2>1, <2>2, OtherStepKeepsCredit DEF Running
<1>3. ASSUME NEW j \in Jobs, FindForDelta(j) PROVE CreditInv'
  <2>1. /\ UNCHANGED <<credits, thrown, faults, hasty>> /\ pc[j] = "find"
        /\ pc'[j] \in {"credit", "burn"}
        /\ \A i \in Jobs \ {j} : pc'[i] = pc[i]
    BY <1>0, <1>3 DEF FindForDelta, TypeOK
  <2>2. CreditCompletes' /\ CreditUnique'
    BY <1>0, <2>1 DEF CreditInv, CreditCompletes, CreditUnique
  <2>3. AfterEvent'
    BY <1>0, <2>1 DEF CreditInv, AfterEvent, Running
  <2>4. CreditsRightShare'
    BY <1>0, <2>1 DEF CreditInv, CreditsRightShare
  <2>5. ReadLower'
    <3> SUFFICES ASSUME faults = 0, event \notin thrown, NEW i \in Increases \ hasty,
                        pc'[i] = "credit"
                 PROVE  lower'[i] = Lower
        BY <2>1 DEF ReadLower
    <3>1. CASE i # j
      BY <1>0, <1>3, <2>1, <3>1 DEF FindForDelta, TypeOK, CreditInv, ReadLower
    <3>2. CASE i = j
      <4>1. pc[event] = "completed"
        BY <1>0, <2>1, <3>2 DEF CreditInv, AfterEvent, Running
      <4>2. position.bounds = "real"
        BY <1>0, <4>1 DEF IInv, EffectInv, Effective, Done
      <4> QED
        BY <1>0, <1>3, <3>2, <4>2 DEF FindForDelta, TypeOK, LowerBinLbId
    <3> QED
      BY <3>1, <3>2
  <2> QED
    BY <2>2, <2>3, <2>4, <2>5 DEF CreditInv
<1>4. ASSUME NEW j \in Jobs, Credit(j) PROVE CreditInv'
  <2>1. /\ UNCHANGED <<lower, thrown, faults, hasty>> /\ pc[j] = "credit"
        /\ pc'[j] = "completed" /\ (\A i \in Jobs \ {j} : pc'[i] = pc[i])
        /\ credits' = credits \cup {<<j, ShareIndex(j)>>} /\ j \in Increases
    BY <1>0, <1>4 DEF Credit, Move, TypeOK, JobInv, Placed
  <2>2. CreditCompletes' /\ CreditUnique'
    BY <1>0, <2>1 DEF CreditInv, CreditCompletes, CreditUnique
  <2>3. AfterEvent' /\ ReadLower'
    BY <1>0, <2>1 DEF CreditInv, AfterEvent, ReadLower, Running
  <2>4. CreditsRightShare'
    BY <1>0, <2>1 DEF CreditInv, CreditsRightShare, ReadLower, ShareIndex
  <2> QED
    BY <2>2, <2>3, <2>4 DEF CreditInv
<1>5. ASSUME NEW j \in Jobs, Throw(j) \/ CallFails(j) PROVE CreditInv'
  <2>1. /\ UNCHANGED <<credits, lower, hasty>> /\ thrown \subseteq thrown'
        /\ faults' = 0 => faults = 0
    BY <1>0, <1>5 DEF Throw, CallFails, Rethrow, Fault, NoFault, TypeOK
  <2>2. /\ pc[j] # "completed" /\ pc'[j] \in {"waiting", "failed"}
        /\ \A i \in Jobs \ {j} : pc'[i] = pc[i]
    BY <1>0, <1>5 DEF Throw, Refused, CallFails, Rethrow, TypeOK, Running
  <2> QED
    BY <1>0, <2>1, <2>2, OtherStepKeepsCredit DEF Running
<1>6. CASE Crash
  <2>1. /\ UNCHANGED <<credits, lower, thrown, hasty>> /\ (faults' = 0 => faults = 0)
    BY <1>0, <1>6 DEF Crash, Fault, TypeOK
  <2>2. \A i \in Jobs : pc'[i] = pc[i] \/ (pc[i] \in Running /\ pc'[i] \in {"waiting", "failed"})
    BY <1>6 DEF Crash
  <2> QED
    BY <1>0, <2>1, <2>2, OtherStepKeepsCredit DEF Running
<1>7. CASE UNCHANGED vars
  BY <1>0, <1>7, OtherStepKeepsCredit DEF vars
<1> QED
  BY <1>0, <1>1, <1>2, <1>3, <1>4, <1>5, <1>6, <1>7 DEF Next, Step
-----------------------------------------------------------------------------
(* IInv is an invariant of the specification. *)
THEOREM Invariance == Spec => []IInv
<1>1. IInv /\ [Next]_vars => IInv'
  BY NextJobInv, NextStoreInv, NextEffectInv, NextCreditInv DEF IInv
<1> QED
  BY InitIInv, <1>1, PTL DEF Spec

(* Every variable keeps its type; in particular an increase credits a      *)
(* share that exists.                                                      *)
THEOREM TypeCorrect == Spec => []TypeOK
<1>1. IInv => TypeOK
  BY DEF IInv, JobInv
<1> QED
  BY Invariance, <1>1, PTL

(* Whatever the creation of a position is interrupted by, a stored position *)
(* has all its shares (create-position.processor.ts, 170-195 and 258-285). *)
THEOREM SharesWithPositionAlways == Spec => []SharesWithPosition
<1>1. IInv => SharesWithPosition
  BY DEF IInv, StoreInv
<1> QED
  BY Invariance, <1>1, PTL

(* The instruction and the event never both store the row. *)
THEOREM OneCreatorAlways == Spec => []OneCreator
<1>1. IInv => OneCreator
  BY DEF IInv, StoreInv
<1> QED
  BY Invariance, <1>1, PTL

(* No step of any job loses an owner or bounds that are known. *)
THEOREM NoRegressAlways == Spec => NoRegress
<1>1. IInv /\ [Next]_vars =>
        [/\ position.owner = "real" => position'.owner = "real"
         /\ position.bounds = "real" => position'.bounds = "real"]_vars
  BY StepKeepsFields DEF IInv
<1> QED
  BY Invariance, <1>1, PTL DEF Spec, NoRegress

(* Two completed create jobs, neither of which ever threw, leave the       *)
(* position with its owner, its bounds and its token account.              *)
THEOREM CompleteUnlessThrownAlways == Spec => []CompleteUnlessThrown
<1>1. IInv => CompleteUnlessThrown
  <2> SUFFICES ASSUME IInv, faults = 0, thrown \cap Creators = {},
                      \A j \in Creators : pc[j] = "completed"
               PROVE  position = [owner |-> "real", bounds |-> "real"] /\ tokenAccount
      BY DEF CompleteUnlessThrown
  <2>1. Done(create) /\ Done(event)
    BY DEF IInv, EffectInv, Effective, Jobs, Creators
  <2>2. position \in Position
    BY DEF IInv, JobInv, TypeOK
  <2>3. tokenAccount
    BY DEF IInv, EffectInv, Accounted, Creators
  <2> QED
    BY <2>1, <2>2, <2>3 DEF Done, Position, NoPosition
<1> QED
  BY Invariance, <1>1, PTL

(* An increase begun after the event of the position was applied adds to   *)
(* the share of its bin (increase-position.processor.ts, 156-171).         *)
THEOREM CreditsRightShareAlways == Spec => []CreditsRightShare
<1>1. IInv => CreditsRightShare
  BY DEF IInv, CreditInv
<1> QED
  BY Invariance, <1>1, PTL

(* An increase adds at most once, and is lost only if it began before the  *)
(* event was applied, or the event's job itself threw.                     *)
THEOREM CreditedOnceAlways == Spec => []CreditedOnce
<1>1. IInv => CreditedOnce
  <2> SUFFICES ASSUME IInv PROVE CreditedOnce
      OBVIOUS
  <2>1. \A c, d \in credits : c[1] = d[1] => c = d
    BY DEF IInv, CreditInv, CreditUnique
  <2>2. ASSUME faults = 0, NEW j \in Increases, pc[j] \in Settled
        PROVE  (\E c \in credits : c[1] = j) \/ (j \in thrown /\ (j \in hasty \/ event \in thrown))
    <3>1. CASE j \in thrown
      BY <2>2, <3>1 DEF IInv, EffectInv, Unharmed
    <3>2. CASE j \notin thrown
      BY <2>2, <3>2 DEF IInv, EffectInv, Effective, Done, Jobs, Settled
    <3> QED BY <3>1, <3>2
  <2> QED
    BY <2>1, <2>2 DEF CreditedOnce
<1> QED
  BY Invariance, <1>1, PTL
-----------------------------------------------------------------------------
(* No livelock.  What is left of a job counts the runs its queue still     *)
(* begins, and the awaits of a run.                                        *)

AwaitsLeft(j) ==
  CASE pc[j] = "waiting"                              -> 9
    [] pc[j] = "owner"                                -> 8
    [] pc[j] = "check"                                -> 7
    [] pc[j] = "insert"                               -> 6
    [] pc[j] = "account"                              -> 5
    [] pc[j] = "token"                                -> 4
    [] pc[j] \in {"find", "lookup"}                   -> 3
    [] pc[j] = "shares"                               -> 2
    [] pc[j] \in {"make", "update", "credit", "burn"} -> 1
    [] pc[j] \in Settled                              -> 0

JobLeft(j) ==
  10 * ((Attempts - failures[j]) + (IF j \in stalled THEN 0 ELSE 1)) + AwaitsLeft(j)

NoLivelock ==
  [][/\ \A j \in Jobs : JobLeft(j) \in Nat /\ JobLeft(j)' <= JobLeft(j)
     /\ \E j \in Jobs : JobLeft(j)' < JobLeft(j)]_vars

\* What stands between NoLivelock and EventuallyPosition: where the work of
\* both paths ends, the position is stored.
StoredWhenSettled ==
  faults = 0 /\ (\A j \in Creators : pc[j] \in Settled) => position # NoPosition

LEMMA LeftNat ==
  ASSUME JobInv
  PROVE  \A j \in Jobs : AwaitsLeft(j) \in 0..9 /\ JobLeft(j) \in Nat
<1> TAKE j \in Jobs
<1>1. AwaitsLeft(j) \in 0..9
  BY DEF JobInv, TypeOK, Running, Settled, AwaitsLeft
<1>2. Attempts \in Nat /\ failures[j] \in 0..Attempts
  BY PositionLifecycleAssumption DEF JobInv, TypeOK
<1> QED BY <1>1, <1>2 DEF JobLeft

\* A run goes on by an await.
GoesOn(j) ==
  /\ pc'[j] # "waiting" /\ AwaitsLeft(j)' < AwaitsLeft(j)
  /\ failures'[j] = failures[j] /\ (j \in stalled' <=> j \in stalled)

\* It throws, or a crash interrupts it for the first time.
Breaks(j) ==
  \/ failures'[j] = failures[j] + 1 /\ (j \in stalled' <=> j \in stalled)
  \/ failures'[j] = failures[j] /\ j \notin stalled /\ j \in stalled'

Stays(j) == pc'[j] = pc[j] /\ failures'[j] = failures[j] /\ (j \in stalled' <=> j \in stalled)

LEMMA JobStepLeft ==
  ASSUME JobInv, JobInv', NEW j \in Jobs
  PROVE  /\ GoesOn(j) \/ Breaks(j) => JobLeft(j)' < JobLeft(j)
         /\ GoesOn(j) \/ Breaks(j) \/ Stays(j) => JobLeft(j)' <= JobLeft(j)
<1>1. /\ Attempts \in Nat /\ failures[j] \in Nat /\ failures'[j] \in Nat
      /\ AwaitsLeft(j) \in 0..9 /\ AwaitsLeft(j)' \in 0..9
  <2>1. /\ Attempts \in Nat /\ failures[j] \in Nat /\ failures'[j] \in Nat
    BY PositionLifecycleAssumption DEF JobInv, TypeOK
  <2>2. pc'[j] \in Running \cup Settled \cup {"waiting"}
    BY DEF JobInv, TypeOK
  <2>3. AwaitsLeft(j)' \in 0..9
    BY <2>2 DEF AwaitsLeft, Running, Settled
  <2> QED BY <2>1, <2>3, LeftNat
<1>2. CASE GoesOn(j) \/ Breaks(j)
  <2>1. JobLeft(j)' < JobLeft(j) /\ JobLeft(j)' <= JobLeft(j)
    BY <1>1, <1>2 DEF JobLeft, GoesOn, Breaks
  <2> QED BY <2>1
<1>3. CASE Stays(j) /\ ~(GoesOn(j) \/ Breaks(j))
  <2>1. AwaitsLeft(j)' = AwaitsLeft(j)
    BY <1>3 DEF Stays, AwaitsLeft
  <2>2. JobLeft(j)' = JobLeft(j) /\ JobLeft(j) \in Nat
    BY <1>3, <2>1, LeftNat DEF Stays, JobLeft
  <2> QED BY <1>3, <2>2
<1> QED BY <1>2, <1>3

LEMMA StepGoesOn ==
  ASSUME JobInv, JobInv', Next
  PROVE  /\ \A l \in Jobs : GoesOn(l) \/ Breaks(l) \/ Stays(l)
         /\ \E l \in Jobs : GoesOn(l) \/ Breaks(l)
<1> USE PositionLifecycleAssumption
<1>q. pc \in [Jobs -> Running \cup Settled \cup {"waiting"}] /\ failures \in [Jobs -> 0..Attempts]
  BY DEF JobInv, TypeOK
<1>1. ASSUME NEW j \in Jobs, pc[j] # pc'[j], UNCHANGED <<failures, stalled>>,
             NEW to, Goto(j, to), AwaitsLeft(j)' < AwaitsLeft(j), to # "waiting"
      PROVE  GoesOn(j) /\ \A l \in Jobs : GoesOn(l) \/ Stays(l)
  BY <1>1, <1>q DEF Goto, GoesOn, Stays
<1>2. ASSUME NEW j \in Jobs, NEW from, NEW to, Move(j, from, to),
             \/ from = "waiting" /\ to \in {"owner", "check"}
             \/ from = "owner" /\ to = "check"
             \/ from = "check" /\ to \in {"insert", "completed"}
             \/ from = "insert" /\ to \in {"account", "find", "lookup"}
             \/ from = "account" /\ to \in {"token", "find"}
             \/ from = "token" /\ to = "find"
             \/ from = "find" /\ to \in {"shares", "update"}
             \/ from = "shares" /\ to = "make"
             \/ from \in {"make", "update", "credit"} /\ to = "completed"
      PROVE  GoesOn(j) /\ \A l \in Jobs : GoesOn(l) \/ Stays(l)
  <2>1. pc[j] = from /\ pc'[j] = to
    BY <1>2, <1>q DEF Move, Goto
  <2>2. AwaitsLeft(j)' < AwaitsLeft(j) /\ pc'[j] # pc[j] /\ to # "waiting"
    BY <1>2, <2>1 DEF AwaitsLeft, Settled
  <2> QED BY <1>1, <1>2, <2>2 DEF Move
<1>3. ASSUME NEW j \in Jobs, FindForDelta(j)
      PROVE  GoesOn(j) /\ \A l \in Jobs : GoesOn(l) \/ Stays(l)
  <2>1. PICK to \in {"credit", "burn"} : Goto(j, to)
    BY <1>3 DEF FindForDelta
  <2>2. pc[j] = "find" /\ pc'[j] = to
    BY <1>3, <1>q, <2>1 DEF FindForDelta, Goto
  <2>3. AwaitsLeft(j) = 3 /\ AwaitsLeft(j)' = 1
    BY <2>1, <2>2 DEF AwaitsLeft, Settled
  <2> QED BY <1>1, <1>3, <2>1, <2>2, <2>3 DEF FindForDelta
<1>4. ASSUME NEW j \in Jobs, Throw(j) \/ CallFails(j)
      PROVE  Breaks(j) /\ \A l \in Jobs : Breaks(l) \/ Stays(l)
  BY <1>4, <1>q DEF Throw, CallFails, Rethrow, Breaks, Stays
<1>5. ASSUME NEW j \in Jobs, Step(j)
      PROVE  /\ \A l \in Jobs : GoesOn(l) \/ Breaks(l) \/ Stays(l)
             /\ \E l \in Jobs : GoesOn(l) \/ Breaks(l)
  BY <1>2, <1>3, <1>4, <1>5 DEF Step, Begin, Check, Insert, FindPosition, InsertShares,
     CreatePosition, UpdatePosition, Credit
<1>6. CASE CreateStep
  <2>1. create \in Jobs
    BY DEF Jobs, Creators
  <2> QED BY <1>2, <1>6, <2>1 DEF CreateStep, ReadOwner, FindTokenAccount, CreateTokenAccount
<1>7. CASE Crash
  <2>1. PICK j \in Jobs : pc[j] \in Running
    BY <1>7 DEF Crash
  <2>2. ASSUME NEW l \in Jobs
        PROVE  IF pc[l] \in Running THEN GoesOn(l) \/ Breaks(l) ELSE Stays(l)
    <3>1. CASE pc[l] \in Running /\ l \in stalled
      <4>1. pc'[l] = "failed" /\ failures'[l] = failures[l] /\ l \in stalled'
        BY <1>7, <3>1 DEF Crash
      <4>2. AwaitsLeft(l)' = 0 /\ AwaitsLeft(l) >= 1
        BY <3>1, <4>1 DEF AwaitsLeft, Running, Settled
      <4> QED BY <3>1, <4>1, <4>2, LeftNat DEF GoesOn
    <3>2. CASE pc[l] \in Running /\ l \notin stalled
      BY <1>7, <3>2 DEF Crash, Breaks
    <3>3. CASE pc[l] \notin Running
      BY <1>7, <3>3 DEF Crash, Stays
    <3> QED BY <3>1, <3>2, <3>3
  <2> QED BY <2>1, <2>2
<1>8. ASSUME NEW j \in Jobs, CallFails(j)
      PROVE  /\ \A l \in Jobs : GoesOn(l) \/ Breaks(l) \/ Stays(l)
             /\ \E l \in Jobs : GoesOn(l) \/ Breaks(l)
  BY <1>4, <1>8
<1> QED BY <1>5, <1>6, <1>7, <1>8 DEF Next

(* However the jobs of a position wait for each other, throw and are run    *)
(* again: finitely many of them do not work for ever.  Every step lessens   *)
(* what is left of a job, a natural number, and adds to that of none.       *)
THEOREM WorkEnds == Spec => NoLivelock
<1>1. IInv /\ IInv' /\ [Next]_vars =>
        [/\ \A j \in Jobs : JobLeft(j) \in Nat /\ JobLeft(j)' <= JobLeft(j)
         /\ \E j \in Jobs : JobLeft(j)' < JobLeft(j)]_vars
  BY StepGoesOn, JobStepLeft, LeftNat DEF IInv
<1> QED BY <1>1, Invariance, PTL DEF Spec, NoLivelock

\* Without a fault: a creator that is done, or threw, has found the shares
\* of one that goes on to store the row.
HalfStored == faults = 0 =>
  /\ shares # "some"
  /\ shares = "all" /\ position = NoPosition => \E j \in Creators : pc[j] = "make"
  /\ \A j \in Creators :
       /\ pc[j] \notin {"credit", "burn", "lookup"}
       /\ j \in thrown \/ pc[j] \in Settled \cup {"make", "update"} => shares = "all"

LEMMA HalfStoredStep ==
  ASSUME IInv, IInv', HalfStored, [Next]_vars
  PROVE  HalfStored'
<1> USE PositionLifecycleAssumption DEF Goto, dbVars, histories, Settled
<1> SUFFICES ASSUME faults' = 0
             PROVE  /\ shares' # "some"
                    /\ shares' = "all" /\ position' = NoPosition =>
                         \E j \in Creators : pc'[j] = "make"
                    /\ \A j \in Creators :
                         /\ pc'[j] \notin {"credit", "burn", "lookup"}
                         /\ j \in thrown' \/ pc'[j] \in Settled \cup {"make", "update"}
                              => shares' = "all"
  BY DEF HalfStored
<1>q. /\ pc \in [Jobs -> Running \cup Settled \cup {"waiting"}] /\ Creators \subseteq Jobs
      /\ shares \in {"none", "some", "all"} /\ faults \in Nat
  BY DEF IInv, JobInv, TypeOK, Jobs
<1>a. ~Fault
  BY <1>q DEF Fault
<1>0. faults = 0
  BY <1>a, <1>q DEF Next, Step, vars, CreateStep, Begin, ReadOwner, FindTokenAccount,
     CreateTokenAccount, Check, Insert, FindPosition, InsertShares, CreatePosition, UpdatePosition, FindForDelta, Credit, Throw, CallFails, Crash, Move, NoFault
<1>h. /\ shares # "some"
      /\ shares = "all" /\ position = NoPosition => \E j \in Creators : pc[j] = "make"
      /\ \A j \in Creators :
           /\ pc[j] \notin {"credit", "burn", "lookup"}
           /\ j \in thrown \/ pc[j] \in Settled \cup {"make", "update"} => shares = "all"
  BY <1>0 DEF HalfStored
\* A step of a job that leaves the shares and the row alone.
<1>1. ASSUME NEW j \in Jobs, NEW to, Goto(j, to), pc[j] # "make",
             UNCHANGED <<shares, position, thrown>>,
             j \in Creators => /\ to \notin {"credit", "burn", "lookup"}
                               /\ to \in Settled \cup {"make", "update"} => shares = "all"
      PROVE  /\ shares' # "some"
             /\ shares' = "all" /\ position' = NoPosition => \E l \in Creators : pc'[l] = "make"
             /\ \A l \in Creators :
                  /\ pc'[l] \notin {"credit", "burn", "lookup"}
                  /\ l \in thrown' \/ pc'[l] \in Settled \cup {"make", "update"}
                       => shares' = "all"
  BY <1>1, <1>q, <1>h
<1>2. CASE UNCHANGED vars
  BY <1>2, <1>h DEF vars
<1>3. ASSUME NEW j \in Jobs, Begin(j) \/ Insert(j) PROVE HalfStored'
  <2>1. /\ UNCHANGED <<shares, position, thrown>> /\ pc[j] # "make"
        /\ \/ \E to \in {"owner", "check"} : Goto(j, to)
           \/ Goto(j, IF j = create THEN "account" ELSE IF j \in Closes THEN "lookup" ELSE "find")
    BY <1>3 DEF Begin, Insert, Move
  <2> QED BY <1>1, <2>1 DEF HalfStored
<1>4. CASE CreateStep
  <2>1. /\ \E to \in {"check", "token", "find"} : Goto(create, to)
        /\ UNCHANGED <<shares, position, thrown>> /\ pc[create] # "make"
    BY <1>4 DEF CreateStep, ReadOwner, FindTokenAccount, CreateTokenAccount, Move
  <2> QED BY <1>1, <1>q, <2>1 DEF Creators
<1>5. ASSUME NEW j \in Jobs, Check(j) PROVE HalfStored'
  <2>1. /\ UNCHANGED <<shares, position, thrown>> /\ pc[j] = "check"
        /\ Goto(j, IF j \in recorded THEN "completed" ELSE "insert")
    BY <1>5 DEF Check, Move
  <2>2. j \in recorded => j \in thrown
    BY <1>0, <2>1 DEF IInv, EffectInv, Fresh
  <2> QED BY <1>1, <1>h, <2>1, <2>2 DEF HalfStored
<1>6. ASSUME NEW j \in Jobs, FindPosition(j) PROVE HalfStored'
  <2>1. /\ UNCHANGED <<shares, position, thrown>> /\ pc[j] = "find"
        /\ Goto(j, IF position = NoPosition THEN "shares" ELSE "update")
    BY <1>6 DEF FindPosition, Move
  <2>2. position # NoPosition => shares = "all"
    BY DEF IInv, StoreInv, SharesWithPosition
  <2> QED BY <1>1, <2>1, <2>2 DEF HalfStored
<1>7. ASSUME NEW j \in Jobs, InsertShares(j) PROVE HalfStored'
  <2>1. j \in Creators /\ pc' = [pc EXCEPT ![j] = "make"] /\ shares' = "all"
    BY <1>7 DEF InsertShares, Move, IInv, JobInv, Placed
  <2> QED BY <1>q, <1>h, <2>1 DEF HalfStored
<1>8. ASSUME NEW j \in Jobs, CreatePosition(j) PROVE HalfStored'
  <2>1. /\ j \in Creators /\ pc' = [pc EXCEPT ![j] = "completed"] /\ pc[j] = "make"
        /\ shares' = shares /\ position' = Created(j) /\ thrown' = thrown
    BY <1>8 DEF CreatePosition, Move, IInv, JobInv, Placed
  <2>2. position' # NoPosition
    BY <2>1 DEF Created, NoPosition
  <2> QED BY <1>q, <1>h, <2>1, <2>2 DEF HalfStored
<1>9. ASSUME NEW j \in Jobs, UpdatePosition(j) PROVE HalfStored'
  <2>1. /\ j \in Creators /\ pc' = [pc EXCEPT ![j] = "completed"] /\ pc[j] = "update"
        /\ shares' = shares /\ thrown' = thrown
    BY <1>9 DEF UpdatePosition, Move, IInv, JobInv, Placed
  <2>2. position \in Position /\ position # NoPosition
    BY <2>1 DEF IInv, JobInv, TypeOK, StoreInv, MakeReady
  <2>3. position' # NoPosition
    BY <1>9, <2>2 DEF UpdatePosition, Position, NoPosition
  <2> QED BY <1>q, <1>h, <2>1, <2>3 DEF HalfStored
<1>10. ASSUME NEW j \in Jobs, FindForDelta(j) \/ Credit(j) PROVE HalfStored'
  <2>1. /\ UNCHANGED <<shares, position, thrown>> /\ pc[j] # "make" /\ j \notin Creators
        /\ \E to : Goto(j, to)
    BY <1>10 DEF FindForDelta, Credit, Move, IInv, JobInv, Placed, Jobs
  <2> QED BY <1>1, <2>1 DEF HalfStored
<1>11. ASSUME NEW j \in Jobs, Throw(j) PROVE HalfStored'
  <2>1. /\ UNCHANGED <<shares, position>> /\ thrown' = thrown \cup {j} /\ pc[j] # "make"
        /\ j \in Creators => shares # "none"
    BY <1>11, <1>h DEF Throw, Refused, Rethrow
  <2>2. PICK to \in {"waiting", "failed"} : pc' = [pc EXCEPT ![j] = to]
    BY <1>11 DEF Throw, Rethrow
  <2> QED BY <1>q, <1>h, <2>1, <2>2 DEF HalfStored
<1> QED BY <1>a, <1>2, <1>3, <1>4, <1>5, <1>6, <1>7, <1>8, <1>9, <1>10, <1>11
        DEF HalfStored, Next, Step, CallFails, Crash

(* While no call fails, the two create paths do not keep each other from    *)
(* storing the position: where both are settled, whichever lost the race    *)
(* for the shares and gave up, the row is there.                            *)
THEOREM StoredWhenSettledAlways == Spec => []StoredWhenSettled
<1>1. Init => HalfStored
  BY PositionLifecycleAssumption DEF Init, HalfStored, Settled, Jobs
<1>2. IInv /\ HalfStored => StoredWhenSettled
  <2> SUFFICES ASSUME IInv, HalfStored, faults = 0, \A j \in Creators : pc[j] \in Settled
               PROVE  position # NoPosition
    BY DEF StoredWhenSettled
  <2>1. shares = "all" /\ \A j \in Creators : pc[j] # "make"
    BY DEF HalfStored, Settled, Creators
  <2> QED BY <2>1 DEF HalfStored
<1>3. IInv /\ IInv' /\ HalfStored /\ [Next]_vars => HalfStored'
  BY HalfStoredStep
<1> QED BY <1>1, <1>2, <1>3, Invariance, PTL DEF Spec
=============================================================================
