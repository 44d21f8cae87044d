------------------------- MODULE PositionLifecycle -------------------------
(***************************************************************************)
(* One position of the liquidity book and the processors that write it:    *)
(* create-position (for the instruction and for the event it emits),       *)
(* increase-position, decrease-position and close-position.                *)
(*                                                                         *)
(* Their jobs are in four queues without an order between them, so any two *)
(* may interleave at every await.  A job below stands for an instruction:  *)
(* InstructionWorker shows that its effects are run at most once, by one   *)
(* run at a time.                                                          *)
(*                                                                         *)
(* Amounts are left out: credits holds which share each increase added to, *)
(* not how much.                                                           *)
(***************************************************************************)
EXTENDS Integers

CONSTANTS
  create, event,   \* the jobs of the create instruction and of its event
  Increases,       \* jobs of position-increase events, of one bin each
  Decreases,       \* jobs of position-decrease events
  Closes,          \* jobs of close instructions
  Lower,           \* lower bin id of the position
  Bin,             \* Bin[j]: bin id of increase j
  BinPerPosition,  \* BIN_PER_POSITION, shares of a position
  Attempts,        \* "attempts" of the queues
  MaxFaults        \* bound on failed calls and crashes together

Creators == {create, event}
Jobs == Creators \cup Increases \cup Decreases \cup Closes

ASSUME PositionLifecycleAssumption ==
  /\ create # event
  /\ Closes \cap (Creators \cup Increases \cup Decreases) = {}
  /\ Creators \cap (Increases \cup Decreases) = {}
  /\ Increases \cap Decreases = {}
  /\ Lower \in Int
  /\ Bin \in [Increases -> Int]
  /\ BinPerPosition \in Nat \ {0}
  /\ \A j \in Increases : Bin[j] - Lower \in 0..(BinPerPosition - 1)
  /\ Attempts \in Nat \ {0}
  /\ MaxFaults \in Nat

VARIABLES
  pc,         \* pc[j]: where the run of job j is, or how j stands in its queue
  failures,   \* failures[j]: failed runs of j
  stalled,    \* jobs that a crash interrupted once
  recorded,   \* jobs whose instruction is in the Instruction collection
  tokenAccount, \* whether the row of the position's token account is there
  shares,     \* liquidity shares of the position: "none", "some" or "all"
  position,   \* the row of the position, or NoPosition
  lower,      \* lower[j]: lowerBinLbId increase j read
  credits,    \* pairs of an increase and the share index it added to
  faults,     \* faults so far
  thrown,     \* history: jobs of which a run threw
  hasty       \* history: increases begun before the event's job was completed

jobVars == <<pc, failures, stalled>>
dbVars == <<recorded, tokenAccount, shares, position, credits>>
histories == <<thrown, hasty>>
vars == <<pc, failures, stalled, recorded, tokenAccount, shares, position, lower,
          credits, faults, thrown, hasty>>

Settled == {"completed", "failed"}
Running == {"owner", "check", "insert", "account", "token", "find", "shares",
            "make", "update", "credit", "burn", "lookup"}

NoPosition == [owner |-> "none", bounds |-> "none"]
Position == {NoPosition} \cup [owner : {"dummy", "real"}, bounds : {"zero", "real"}]

Init ==
  /\ pc = [j \in Jobs |-> "waiting"]
  /\ failures = [j \in Jobs |-> 0]
  /\ stalled = {}
  /\ recorded = {}
  /\ tokenAccount = FALSE
  /\ shares = "none"
  /\ position = NoPosition
  /\ lower = [j \in Increases |-> 0]
  /\ credits = {}
  /\ faults = 0
  /\ thrown = {} /\ hasty = {}

Fault == faults < MaxFaults /\ faults' = faults + 1
NoFault == UNCHANGED faults

Goto(j, to) == pc' = [pc EXCEPT ![j] = to]

\* A step between two awaits of job j that only moves on.
Move(j, from, to) ==
  /\ pc[j] = from
  /\ Goto(j, to)
  /\ UNCHANGED <<failures, stalled, lower, faults, thrown>>
-----------------------------------------------------------------------------
(* The skeleton the processors share. *)

\* The create instruction asks the chain for the owner before the check.
Begin(j) ==
  /\ Move(j, "waiting", IF j = create THEN "owner" ELSE "check")
  /\ hasty' = IF j \in Increases /\ pc[event] # "completed" THEN hasty \cup {j} ELSE hasty
  /\ UNCHANGED dbVars

ReadOwner == Move(create, "owner", "check") /\ UNCHANGED <<dbVars, hasty>>

Check(j) ==
  /\ Move(j, "check", IF j \in recorded THEN "completed" ELSE "insert")
  /\ UNCHANGED <<dbVars, hasty>>

Insert(j) ==
  /\ Move(j, "insert", IF j = create THEN "account"
                       ELSE IF j \in Closes THEN "lookup" ELSE "find")
  /\ recorded' = recorded \cup {j}
  /\ UNCHANGED <<tokenAccount, shares, position, credits, hasty>>
-----------------------------------------------------------------------------
(* create-position *)

\* Only the create instruction keeps the token account, before the position.
FindTokenAccount ==
  /\ Move(create, "account", IF tokenAccount THEN "find" ELSE "token")
  /\ UNCHANGED <<dbVars, hasty>>

CreateTokenAccount ==
  /\ Move(create, "token", "find")
  /\ tokenAccount' = TRUE
  /\ UNCHANGED <<recorded, shares, position, credits, hasty>>

\* The test on the existing row is inverted.
FindPosition_Inverted(j) ==
  /\ j \in Creators
  /\ Move(j, "find", IF position = NoPosition THEN "update" ELSE "shares")
  /\ UNCHANGED <<dbVars, hasty>>

FindPosition(j) ==
  /\ j \in Creators
  /\ Move(j, "find", IF position = NoPosition THEN "shares" ELSE "update")
  /\ UNCHANGED <<dbVars, hasty>>

\* The errors of insertMany are caught, as ScannerService does for its rows.
InsertShares_Caught(j) ==
  /\ Move(j, "shares", "make")
  /\ shares' = IF shares = "none" THEN "all" ELSE shares
  /\ UNCHANGED <<recorded, tokenAccount, position, credits, hasty>>

\* insertMany, whose ids are unique; only the first of two calls succeeds.
InsertShares(j) ==
  /\ shares = "none"
  /\ Move(j, "shares", "make")
  /\ shares' = "all"
  /\ UNCHANGED <<recorded, tokenAccount, position, credits, hasty>>

Created(j) == IF j = create THEN [owner |-> "real", bounds |-> "zero"]
              ELSE [owner |-> "dummy", bounds |-> "real"]

CreatePosition(j) ==
  /\ Move(j, "make", "completed")
  /\ position' = Created(j)
  /\ UNCHANGED <<recorded, tokenAccount, shares, credits, hasty>>

\* The update of the instruction path sets every field, as its create does.
UpdatePosition_AllFields(j) ==
  /\ Move(j, "update", "completed")
  /\ position' = IF j = create THEN Created(j) ELSE [position EXCEPT !.bounds = "real"]
  /\ UNCHANGED <<recorded, tokenAccount, shares, credits, hasty>>

\* The handler takes an existing row for its own work and returns.
UpdatePosition_Skipped(j) ==
  /\ Move(j, "update", "completed")
  /\ UNCHANGED <<dbVars, hasty>>

\* updateOne, which does nothing when no row matches.
UpdatePosition(j) ==
  /\ Move(j, "update", "completed")
  /\ position' = IF position = NoPosition THEN position
                 ELSE IF j = create THEN [position EXCEPT !.owner = "real"]
                 ELSE [position EXCEPT !.bounds = "real"]
  /\ UNCHANGED <<recorded, tokenAccount, shares, credits, hasty>>
-----------------------------------------------------------------------------
(* increase-position and decrease-position *)

LowerBinLbId == IF position.bounds = "real" THEN Lower ELSE 0

\* Both find the pair and the position; an increase keeps the position's
\* lower bin id, a decrease goes on to a subtraction that cannot succeed.
FindForDelta(j) ==
  /\ position # NoPosition
  /\ pc[j] = "find"
  /\ \/ /\ j \in Increases
        /\ Goto(j, "credit")
        /\ lower' = [lower EXCEPT ![j] = LowerBinLbId]
     \/ /\ j \in Decreases
        /\ Goto(j, "burn")
        /\ UNCHANGED lower
  /\ UNCHANGED <<failures, stalled, faults, dbVars, histories>>

ShareIndex(j) == Bin[j] - lower[j]
InBounds(j) == ShareIndex(j) \in 0..(BinPerPosition - 1)

\* The share at the index is found and updated (and the bin, event and pair).
Credit(j) ==
  /\ Move(j, "credit", "completed")
  /\ shares = "all" /\ InBounds(j)
  /\ credits' = credits \cup {<<j, ShareIndex(j)>>}
  /\ UNCHANGED <<recorded, tokenAccount, shares, position, hasty>>
-----------------------------------------------------------------------------
(* Failures *)

\* What the code itself throws.  A decrease subtracts a string from a BigInt.
\* A close looks for a record of "DecreasePositionProcessor", and the records
\* hold processor names in lower case: it never finds one.
Refused(j) ==
  \/ j \in Creators /\ pc[j] = "shares" /\ shares # "none"
  \/ j \in Increases \cup Decreases /\ pc[j] = "find" /\ position = NoPosition
  \/ pc[j] = "credit" /\ ~ (shares = "all" /\ InBounds(j))
  \/ pc[j] = "burn"
  \/ pc[j] = "lookup"

\* handleError rethrows: BullMQ runs the job again or fails it.
Rethrow(j) ==
  /\ pc' = [pc EXCEPT ![j] = IF failures[j] + 1 < Attempts THEN "waiting" ELSE "failed"]
  /\ failures' = [failures EXCEPT ![j] = @ + 1]
  /\ thrown' = thrown \cup {j}
  /\ UNCHANGED <<stalled, lower, hasty>>

\* The error is logged and not rethrown.
Throw_Swallowed(j) ==
  /\ Refused(j)
  /\ Goto(j, "completed")
  /\ NoFault
  /\ UNCHANGED <<failures, stalled, lower, dbVars, histories>>

Throw(j) ==
  /\ Refused(j)
  /\ Rethrow(j)
  /\ NoFault
  /\ UNCHANGED dbVars

\* insertMany may have stored some of the shares when it is cut off.
SharesCutOff(active) ==
  shares' \in IF shares = "none" /\ \E j \in active : pc[j] = "shares"
             THEN {"none", "some"} ELSE {shares}

\* A call fails.  A write that took effect all the same leaves the rows as
\* its step does: the retry finds its record in either case.
CallFails(j) ==
  /\ pc[j] \in Running
  /\ Fault
  /\ Rethrow(j)
  /\ SharesCutOff({j})
  /\ UNCHANGED <<recorded, tokenAccount, position, credits>>

\* The process dies; a job that is interrupted for the second time fails.
Crash ==
  LET active == {j \in Jobs : pc[j] \in Running} IN
  /\ active # {}
  /\ Fault
  /\ pc' = [j \in Jobs |-> IF j \notin active THEN pc[j]
                           ELSE IF j \in stalled THEN "failed" ELSE "waiting"]
  /\ stalled' = stalled \cup active
  /\ SharesCutOff(active)
  /\ UNCHANGED <<failures, lower, recorded, tokenAccount, position, credits, histories>>
-----------------------------------------------------------------------------
Step(j) ==
  \/ Begin(j) \/ Check(j) \/ Insert(j)
  \/ FindPosition(j) \/ InsertShares(j) \/ CreatePosition(j) \/ UpdatePosition(j)
  \/ FindForDelta(j) \/ Credit(j)
  \/ Throw(j)

\* The calls that only the create instruction makes.
CreateStep == ReadOwner \/ FindTokenAccount \/ CreateTokenAccount

Next ==
  \/ \E j \in Jobs : Step(j) \/ CallFails(j)
  \/ CreateStep
  \/ Crash

Spec == Init /\ [][Next]_vars

(* The queues run every job, and awaits resolve. *)
Fairness == WF_vars(CreateStep) /\ \A j \in Jobs : WF_vars(Step(j))

FairSpec == Spec /\ Fairness
-----------------------------------------------------------------------------
TypeOK ==
  /\ pc \in [Jobs -> Running \cup Settled \cup {"waiting"}]
  /\ failures \in [Jobs -> 0..Attempts]
  /\ stalled \subseteq Jobs
  /\ recorded \subseteq Jobs
  /\ tokenAccount \in BOOLEAN
  /\ shares \in {"none", "some", "all"}
  /\ position \in Position
  /\ lower \in [Increases -> {0, Lower}]
  /\ credits \subseteq Increases \X (0..(BinPerPosition - 1))
  /\ faults \in 0..MaxFaults
  /\ thrown \subseteq Jobs /\ hasty \subseteq Increases

(* A stored position has all its liquidity shares, whichever of the two    *)
(* create paths stored it and wherever the other one was.                  *)
SharesWithPosition == position # NoPosition => shares = "all"

(* The instruction and the event never both store the row: of two runs     *)
(* that found no position, the unique share ids stop one.                  *)
OneCreator ==
  /\ ~ (pc[create] = "make" /\ pc[event] = "make")
  /\ position # NoPosition => \A j \in Creators : pc[j] # "make"

(* Neither path undoes the other: an owner or bounds once known stay.      *)
NoRegress ==
  [][/\ position.owner = "real" => position'.owner = "real"
     /\ position.bounds = "real" => position'.bounds = "real"]_vars

(* A position is left without its owner, its bounds or its token account   *)
(* only by a run that failed: when both jobs are completed and no run of   *)
(* theirs threw and nothing crashed, all are there.                        *)
CompleteUnlessThrown ==
  faults = 0 /\ thrown \cap Creators = {} /\ (\A j \in Creators : pc[j] = "completed")
    => position = [owner |-> "real", bounds |-> "real"] /\ tokenAccount

(* An increase begun after the event was applied adds to its bin's share,  *)
(* whatever the create instruction does to the row at the same time.       *)
CreditsRightShare ==
  faults = 0 /\ event \notin thrown =>
    \A c \in credits : c[1] \in hasty \/ c[2] = Bin[c[1]] - Lower

(* Every increase adds to at most one share.  Without a fault it is lost,  *)
(* because its first run threw, only if that run began before the event    *)
(* was applied, or if the event's job lost its own race for the shares.    *)
CreditedOnce ==
  /\ \A c, d \in credits : c[1] = d[1] => c = d
  /\ faults = 0 => \A j \in Increases : pc[j] \in Settled =>
                     \/ \E c \in credits : c[1] = j
                     \/ j \in thrown /\ (j \in hasty \/ event \in thrown)

(* The two create paths cannot keep each other from storing the position:  *)
(* while no call fails, it is stored in the end.                           *)
EventuallyPosition == <>(position # NoPosition \/ faults > 0)

(* create-position.processor.ts:165, 254: "Check if position already       *)
(* exists and update or insert".  Without a fault, both paths have had     *)
(* their effect when their jobs are settled.                               *)
UpdateOrInsert ==
  faults = 0 /\ (\A j \in Creators : pc[j] \in Settled)
    => position = [owner |-> "real", bounds |-> "real"]
=============================================================================
