-------------------------- MODULE LiquidityLedger --------------------------
(***************************************************************************)
(* The bins and the pair that swaps, position increases and composition    *)
(* fees are added to, and the event rows they leave behind.                *)
(*                                                                         *)
(* A processor reads a row, adds to what it read and writes the sum back,  *)
(* with awaits between and no transaction; the jobs are in three queues    *)
(* with several slots each.  A job below stands for an instruction whose   *)
(* effects are run once (InstructionWorker): a run that fails after its    *)
(* record is not resumed, so any failure abandons the rest of it.          *)
(*                                                                         *)
(* A row holds the jobs whose amounts are in its sums; how amounts are     *)
(* added is the subject of BinMath.                                        *)
(***************************************************************************)
EXTENDS Naturals, Sequences

CONSTANTS
  Swaps,       \* jobs of swap instructions
  InnerSwaps,  \* the ones another program called
  SwapEvents,  \* jobs of bin-swap events
  Increases,   \* jobs of position-increase events
  Fees,        \* jobs of composition-fees events
  Of,          \* Of[e]: the swap that emitted event e
  Bins,        \* the bins of the pair
  Path,        \* Path[j]: the bins an event or an increase adds to, in order
  reserves,    \* columns reserveX, reserveY of the pair
  fees         \* columns activeId, protocolFeesX, protocolFeesY of the pair

Jobs == Swaps \cup SwapEvents \cup Increases \cup Fees
Rows == Bins \cup {reserves, fees}

ASSUME LiquidityLedgerAssumption ==
  /\ InnerSwaps \subseteq Swaps
  /\ Swaps \cap (SwapEvents \cup Increases \cup Fees) = {}
  /\ SwapEvents \cap (Increases \cup Fees) = {}
  /\ Increases \cap Fees = {}
  /\ Of \in [SwapEvents -> Swaps]
  /\ reserves # fees /\ reserves \notin Bins /\ fees \notin Bins
  /\ Path \in [SwapEvents \cup Increases -> Seq(Bins)]
  /\ \A j \in SwapEvents \cup Increases : Path[j] # <<>>
  /\ \A e \in SwapEvents : Len(Path[e]) = 1
  /\ \A j \in Increases : \A a, b \in 1..Len(Path[j]) : Path[j][a] = Path[j][b] => a = b

VARIABLES
  pc,          \* pc[j]: where job j is
  at,          \* at[j]: position of an increase in its bins
  row,         \* row[r]: jobs whose amounts r holds
  seen,        \* seen[<<j, r>>]: what j read of r
  swapEvents,  \* ids of the SwapEvent rows
  vaults,      \* vaults[e]: the vaults event e is, or will be, stored with
  events,      \* pairs of a job and the row its stored event is about
  written,     \* history: written[r], the jobs that have written r
  missed,      \* history: missed[<<j, r>>], jobs that wrote r after j had read it
  hasty        \* history: events begun before the job of their swap was completed

tables == <<row, swapEvents, vaults, events>>
histories == <<written, missed, hasty>>
vars == <<pc, at, row, seen, swapEvents, vaults, events, written, missed, hasty>>

Running == {"create", "fill", "read", "write", "lookup", "store", "total"}
Settled == {"completed", "abandoned"}

Init ==
  /\ pc = [j \in Jobs |-> "waiting"]
  /\ at = [j \in Increases |-> 1]
  /\ row = [r \in Rows |-> {}]
  /\ seen = [x \in Jobs \X Rows |-> {}]
  /\ swapEvents = {}
  /\ vaults = [e \in SwapEvents |-> "none"]
  /\ events = {}
  /\ written = [r \in Rows |-> {}]
  /\ missed = [x \in Jobs \X Rows |-> {}]
  /\ hasty = {}

Move(j, from, to) ==
  /\ pc[j] = from
  /\ pc' = [pc EXCEPT ![j] = to]

BinOf(j) == Path[j][IF j \in Increases THEN at[j] ELSE 1]

\* j has read r and will write it.
Holds(j, r) ==
  \/ j \in SwapEvents \cup Increases /\ pc[j] = "write" /\ r = BinOf(j)
  \/ j \in Increases /\ pc[j] \in {"read", "write", "store", "total"} /\ r = reserves
  \/ j \in Fees /\ pc[j] \in {"store", "total"} /\ r = fees

Read(j, r) == seen' = [seen EXCEPT ![<<j, r>>] = row[r]]

Put(j, r, jobs) ==
  /\ row' = [row EXCEPT ![r] = jobs]
  /\ seen' = [seen EXCEPT ![<<j, r>>] = {}]
  /\ written' = [written EXCEPT ![r] = @ \cup {j}]
  /\ missed' = [x \in Jobs \X Rows |->
                  IF x[2] = r /\ x[1] # j /\ Holds(x[1], r)
                  THEN missed[x] \cup {j} ELSE missed[x]]

Write(j, r) == Put(j, r, seen[<<j, r>>] \cup {j})
-----------------------------------------------------------------------------
(* swap.processor, the instruction *)

\* `${blockNumber}-${signature}-${instructionIndex}-${innerIndexStr}`
SwapEventId(s) == <<s, IF s \in InnerSwaps THEN "inner" ELSE "*">>

BeginSwap(s) ==
  /\ Move(s, "waiting", "create")
  /\ UNCHANGED <<at, tables, seen, histories>>

CreateSwapEvent(s) ==
  /\ Move(s, "create", "fill")
  /\ swapEvents' = swapEvents \cup {SwapEventId(s)}
  /\ UNCHANGED <<at, row, seen, vaults, events, histories>>

\* Fields of the rows that updateOne is to find, and those its filter asks for.
BinSwapEventFields == {"id", "pairId", "binId", "lbBinId", "userVaultIn",
  "userVaultOut", "pairVaultIn", "pairVaultOut", "swapForY", "blockNumber",
  "signature", "index", "innerIndex", "blockTime"}
Filter == {"pairId", "blockNumber", "signature", "instructionIndex"}

\* No row has a field that the schema has not; updateOne changes one that matches.
FillVaults(s) ==
  LET matched == {e \in SwapEvents : /\ Filter \subseteq BinSwapEventFields
                                     /\ Of[e] = s /\ <<e, BinOf(e)>> \in events} IN
  /\ Move(s, "fill", "completed")
  /\ vaults' \in IF matched = {} THEN {vaults}
                ELSE {[vaults EXCEPT ![e] = "known"] : e \in matched}
  /\ UNCHANGED <<at, row, seen, swapEvents, events, histories>>
-----------------------------------------------------------------------------
(* swap.processor, the event *)

BeginEvent(e) ==
  /\ Move(e, "waiting", "read")
  /\ hasty' = IF pc[Of[e]] = "completed" THEN hasty ELSE hasty \cup {e}
  /\ UNCHANGED <<at, tables, seen, written, missed>>

ReadSwapBin(e) ==
  /\ e \in SwapEvents
  /\ Move(e, "read", "write")
  /\ Read(e, BinOf(e))
  /\ UNCHANGED <<at, tables, histories>>

\* The row is set to the amounts of the event alone.
WriteSwapBin_Overwrites(e) ==
  /\ e \in SwapEvents
  /\ Move(e, "write", "lookup")
  /\ Put(e, BinOf(e), {e})
  /\ UNCHANGED <<at, swapEvents, vaults, events, hasty>>

WriteSwapBin(e) ==
  /\ e \in SwapEvents
  /\ Move(e, "write", "lookup")
  /\ Write(e, BinOf(e))
  /\ UNCHANGED <<at, swapEvents, vaults, events, hasty>>

\* The id is made with the inner index of the event itself.
LookUpVaults_OwnIndex(e) ==
  /\ Move(e, "lookup", "store")
  /\ vaults' = [vaults EXCEPT ![e] =
                  IF <<Of[e], "inner">> \in swapEvents THEN "known" ELSE "dummy"]
  /\ UNCHANGED <<at, row, seen, swapEvents, events, histories>>

\* The token mints, then the row of the swap, by an id without an inner index.
LookUpVaults(e) ==
  /\ Move(e, "lookup", "store")
  /\ vaults' = [vaults EXCEPT ![e] =
                  IF <<Of[e], "*">> \in swapEvents THEN "known" ELSE "dummy"]
  /\ UNCHANGED <<at, row, seen, swapEvents, events, histories>>

StoreSwapEvent(e) ==
  /\ e \in SwapEvents
  /\ Move(e, "store", "completed")
  /\ events' = events \cup {<<e, BinOf(e)>>}
  /\ UNCHANGED <<at, row, seen, swapEvents, vaults, histories>>
-----------------------------------------------------------------------------
(* increase-position: the pair is read first and written last.  The shares *)
(* are in PositionLifecycle.                                               *)

BeginIncrease(j) ==
  /\ j \in Increases
  /\ Move(j, "waiting", "read")
  /\ Read(j, reserves)
  /\ UNCHANGED <<at, tables, histories>>

ReadIncreaseBin(j) ==
  /\ j \in Increases
  /\ Move(j, "read", "write")
  /\ Read(j, BinOf(j))
  /\ UNCHANGED <<at, tables, histories>>

WriteIncreaseBin(j) ==
  /\ j \in Increases
  /\ Move(j, "write", "store")
  /\ Write(j, BinOf(j))
  /\ UNCHANGED <<at, swapEvents, vaults, events, hasty>>

\* The pair's reserves are updated inside the loop.
StoreUpdateEvent_NoLoop(j) ==
  /\ j \in Increases
  /\ Move(j, "store", "total")
  /\ events' = events \cup {<<j, BinOf(j)>>}
  /\ UNCHANGED <<at, row, seen, swapEvents, vaults, histories>>

\* A create that fails is caught, for the row that may be there already.
StoreUpdateEvent_Caught(j) ==
  /\ j \in Increases
  /\ Move(j, "store", IF at[j] = Len(Path[j]) THEN "total" ELSE "read")
  /\ events' \in {events, events \cup {<<j, BinOf(j)>>}}
  /\ at' = IF at[j] = Len(Path[j]) THEN at ELSE [at EXCEPT ![j] = @ + 1]
  /\ UNCHANGED <<row, seen, swapEvents, vaults, histories>>

StoreUpdateEvent(j) ==
  /\ j \in Increases
  /\ Move(j, "store", IF at[j] = Len(Path[j]) THEN "total" ELSE "read")
  /\ events' = events \cup {<<j, BinOf(j)>>}
  /\ at' = IF at[j] = Len(Path[j]) THEN at ELSE [at EXCEPT ![j] = @ + 1]
  /\ UNCHANGED <<row, seen, swapEvents, vaults, histories>>

WriteReserves(j) ==
  /\ j \in Increases
  /\ Move(j, "total", "completed")
  /\ Write(j, reserves)
  /\ UNCHANGED <<at, swapEvents, vaults, events, hasty>>
-----------------------------------------------------------------------------
(* composition-fees *)

BeginFees(f) ==
  /\ f \in Fees
  /\ Move(f, "waiting", "store")
  /\ Read(f, fees)
  /\ UNCHANGED <<at, tables, histories>>

StoreFeesEvent(f) ==
  /\ f \in Fees
  /\ Move(f, "store", "total")
  /\ events' = events \cup {<<f, fees>>}
  /\ UNCHANGED <<at, row, seen, swapEvents, vaults, histories>>

WriteFees(f) ==
  /\ f \in Fees
  /\ Move(f, "total", "completed")
  /\ Write(f, fees)
  /\ UNCHANGED <<at, swapEvents, vaults, events, hasty>>
-----------------------------------------------------------------------------
\* The data cannot be decoded, a row that must be there is missing, a call
\* fails or the process dies: a retry finds the record of the instruction and
\* returns.
Abandon(j) ==
  /\ pc[j] \notin Settled
  /\ pc' = [pc EXCEPT ![j] = "abandoned"]
  /\ seen' = [x \in Jobs \X Rows |-> IF x[1] = j THEN {} ELSE seen[x]]
  /\ UNCHANGED <<at, tables, histories>>

Next ==
  \/ \E s \in Swaps : BeginSwap(s) \/ CreateSwapEvent(s) \/ FillVaults(s)
  \/ \E e \in SwapEvents : \/ BeginEvent(e) \/ ReadSwapBin(e) \/ WriteSwapBin(e)
                           \/ LookUpVaults(e) \/ StoreSwapEvent(e)
  \/ \E j \in Increases : \/ BeginIncrease(j) \/ ReadIncreaseBin(j) \/ WriteIncreaseBin(j)
                          \/ StoreUpdateEvent(j) \/ WriteReserves(j)
  \/ \E f \in Fees : BeginFees(f) \/ StoreFeesEvent(f) \/ WriteFees(f)
  \/ \E j \in Jobs : Abandon(j)

Spec == Init /\ [][Next]_vars
-----------------------------------------------------------------------------
TypeOK ==
  /\ pc \in [Jobs -> Running \cup Settled \cup {"waiting"}]
  /\ at \in [Increases -> Nat]
  /\ \A j \in Increases : at[j] \in 1..Len(Path[j])
  /\ row \in [Rows -> SUBSET Jobs]
  /\ seen \in [Jobs \X Rows -> SUBSET Jobs]
  /\ swapEvents \subseteq Swaps \X {"inner", "*"}
  /\ vaults \in [SwapEvents -> {"none", "known", "dummy"}]
  /\ events \subseteq Jobs \X Rows
  /\ written \in [Rows -> SUBSET Jobs]
  /\ missed \in [Jobs \X Rows -> SUBSET Jobs]
  /\ hasty \subseteq SwapEvents

(* No amount leaves a row without a cause: one that was added and is not   *)
(* in it was overwritten by a job, still in the row, that had read the row *)
(* before and wrote it after.  Jobs that do not overlap add up, whatever   *)
(* was abandoned and in whichever order they run.                          *)
LossesExplained ==
  \A r \in Rows : \A k \in written[r] \ row[r] : \E j \in row[r] : k \in missed[<<j, r>>]

(* The reserves of the pair count an increase only when all its bins have  *)
(* been written and their update events stored, however many of its steps  *)
(* other jobs ran between.                                                 *)
PairAfterBins ==
  \A j \in written[reserves] : \A a \in 1..Len(Path[j]) :
    j \in written[Path[j][a]] /\ <<j, Path[j][a]>> \in events

(* The rows and the events about them stay together: a stored event is     *)
(* about a bin that was written, and a bin that was written without its    *)
(* event is the last one its job came to, which is between the two or was  *)
(* broken off there.  The pair's fees hold an event only if it is stored,  *)
(* and what was completed has both.                                        *)
EventsMatchRows ==
  /\ \A x \in events : x[2] \in Bins => x[1] \in written[x[2]]
  /\ \A b \in Bins : \A j \in written[b] :
       \/ <<j, b>> \in events
       \/ b = BinOf(j) /\ pc[j] \in {"lookup", "store", "abandoned"}
  /\ \A f \in written[fees] : <<f, fees>> \in events
  /\ \A e \in SwapEvents : pc[e] = "completed" => <<e, BinOf(e)>> \in events
  /\ \A f \in Fees : pc[f] = "completed" => f \in written[fees]

(* An event begun after the job of its swap was completed is stored with   *)
(* the vaults of the swap, if no other program called the swap.            *)
VaultsKnown ==
  \A e \in SwapEvents \ hasty :
    Of[e] \notin InnerSwaps /\ <<e, BinOf(e)>> \in events => vaults[e] = "known"
=============================================================================
