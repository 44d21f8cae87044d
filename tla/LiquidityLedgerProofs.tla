----------------------- MODULE LiquidityLedgerProofs -----------------------
(* Proofs about LiquidityLedger, for all sets of jobs and all paths.  Each  *)
(* step is one job's: the invariants are kept for the others by what the    *)
(* steps have in common, and for the job itself step by step.               *)
EXTENDS LiquidityLedger, TLAPS

-----------------------------------------------------------------------------
(* Types *)

LEMMA Kinds ==
  /\ Swaps \subseteq Jobs /\ SwapEvents \subseteq Jobs
  /\ Increases \subseteq Jobs /\ Fees \subseteq Jobs
  /\ Bins \subseteq Rows /\ reserves \in Rows /\ fees \in Rows
  /\ \A e \in SwapEvents : Of[e] \in Swaps
BY LiquidityLedgerAssumption DEF Jobs, Rows

LEMMA Paths ==
  ASSUME NEW j \in SwapEvents \cup Increases
  PROVE  /\ Len(Path[j]) \in Nat \ {0}
         /\ \A a \in 1..Len(Path[j]) : Path[j][a] \in Bins
<1>1. Path[j] \in Seq(Bins) /\ Path[j] # <<>>
  BY LiquidityLedgerAssumption
<1> QED
  BY <1>1

LEMMA BinOfIsBin ==
  ASSUME TypeOK, NEW j \in SwapEvents \cup Increases
  PROVE  BinOf(j) \in Bins
<1>1. CASE j \in Increases
  BY <1>1, Paths DEF BinOf, TypeOK
<1>2. CASE j \notin Increases
  BY <1>2, Paths DEF BinOf
<1> QED
  BY <1>1, <1>2

LEMMA ReadType ==
  ASSUME TypeOK, NEW j \in Jobs, NEW r \in Rows, Read(j, r)
  PROVE  seen' \in [Jobs \X Rows -> SUBSET Jobs]
BY DEF TypeOK, Read

LEMMA PutType ==
  ASSUME TypeOK, NEW j \in Jobs, NEW r \in Rows, NEW s \in SUBSET Jobs, Put(j, r, s)
  PROVE  /\ row' \in [Rows -> SUBSET Jobs]
         /\ seen' \in [Jobs \X Rows -> SUBSET Jobs]
         /\ written' \in [Rows -> SUBSET Jobs]
         /\ missed' \in [Jobs \X Rows -> SUBSET Jobs]
<1>1. row' \in [Rows -> SUBSET Jobs]
  BY DEF TypeOK, Put
<1>2. seen' \in [Jobs \X Rows -> SUBSET Jobs]
  BY DEF TypeOK, Put
<1>3. written' \in [Rows -> SUBSET Jobs]
  BY DEF TypeOK, Put
<1>4. missed' \in [Jobs \X Rows -> SUBSET Jobs]
  BY DEF TypeOK, Put
<1> QED
  BY <1>1, <1>2, <1>3, <1>4

LEMMA WriteType ==
  ASSUME TypeOK, NEW j \in Jobs, NEW r \in Rows, Write(j, r)
  PROVE  /\ row' \in [Rows -> SUBSET Jobs]
         /\ seen' \in [Jobs \X Rows -> SUBSET Jobs]
         /\ written' \in [Rows -> SUBSET Jobs]
         /\ missed' \in [Jobs \X Rows -> SUBSET Jobs]
<1>1. seen[<<j, r>>] \cup {j} \in SUBSET Jobs
  BY DEF TypeOK
<1> QED
  BY <1>1, PutType DEF Write

LEMMA MoveType ==
  ASSUME TypeOK, NEW j \in Jobs, NEW from,
         NEW to \in Running \cup Settled, Move(j, from, to)
  PROVE  /\ pc' \in [Jobs -> Running \cup Settled \cup {"waiting"}]
         /\ pc'[j] = to /\ \A i \in Jobs : i # j => pc'[i] = pc[i]
BY DEF TypeOK, Move

LEMMA InitType == Init => TypeOK
<1> SUFFICES ASSUME Init PROVE TypeOK
  OBVIOUS
<1>1. \A j \in Increases : at[j] \in 1..Len(Path[j])
  BY Paths DEF Init
<1> QED
  BY <1>1 DEF Init, TypeOK, Running, Settled

LEMMA SwapType ==
  ASSUME TypeOK, NEW s \in Swaps, BeginSwap(s) \/ CreateSwapEvent(s) \/ FillVaults(s)
  PROVE  TypeOK'
<1> USE DEF Running, Settled
<1>0. s \in Jobs
  BY Kinds
<1>1. CASE BeginSwap(s)
  BY <1>0, <1>1, MoveType DEF BeginSwap, TypeOK, tables, histories
<1>2. CASE CreateSwapEvent(s)
  BY <1>0, <1>2, MoveType DEF CreateSwapEvent, SwapEventId, TypeOK, histories
<1>3. CASE FillVaults(s)
  <2>1. vaults' \in [SwapEvents -> {"none", "known", "dummy"}]
    BY <1>3 DEF FillVaults, TypeOK
  <2> QED
    BY <1>0, <1>3, <2>1, MoveType DEF FillVaults, TypeOK, histories
<1> QED
  BY <1>1, <1>2, <1>3

LEMMA EventType ==
  ASSUME TypeOK, NEW e \in SwapEvents,
         BeginEvent(e) \/ ReadSwapBin(e) \/ WriteSwapBin(e) \/ LookUpVaults(e) \/ StoreSwapEvent(e)
  PROVE  TypeOK'
<1> USE DEF Running, Settled
<1>0. e \in Jobs /\ BinOf(e) \in Rows
  BY Kinds, BinOfIsBin
<1>1. CASE BeginEvent(e)
  BY <1>0, <1>1, MoveType DEF BeginEvent, TypeOK, tables
<1>2. CASE ReadSwapBin(e)
  BY <1>0, <1>2, MoveType, ReadType DEF ReadSwapBin, TypeOK, tables, histories
<1>3. CASE WriteSwapBin(e)
  BY <1>0, <1>3, MoveType, WriteType DEF WriteSwapBin, TypeOK
<1>4. CASE LookUpVaults(e)
  BY <1>0, <1>4, MoveType DEF LookUpVaults, TypeOK, histories
<1>5. CASE StoreSwapEvent(e)
  BY <1>0, <1>5, MoveType DEF StoreSwapEvent, TypeOK, histories
<1> QED
  BY <1>1, <1>2, <1>3, <1>4, <1>5

LEMMA IncreaseType ==
  ASSUME TypeOK, NEW j \in Increases,
         \/ BeginIncrease(j) \/ ReadIncreaseBin(j) \/ WriteIncreaseBin(j)
         \/ StoreUpdateEvent(j) \/ WriteReserves(j)
  PROVE  TypeOK'
<1> USE DEF Running, Settled
<1>0. j \in Jobs /\ BinOf(j) \in Rows /\ reserves \in Rows
  BY Kinds, BinOfIsBin
<1>1. CASE BeginIncrease(j)
  BY <1>0, <1>1, MoveType, ReadType DEF BeginIncrease, TypeOK, tables, histories
<1>2. CASE ReadIncreaseBin(j)
  BY <1>0, <1>2, MoveType, ReadType DEF ReadIncreaseBin, TypeOK, tables, histories
<1>3. CASE WriteIncreaseBin(j)
  BY <1>0, <1>3, MoveType, WriteType DEF WriteIncreaseBin, TypeOK
<1>4. CASE StoreUpdateEvent(j)
  <2>1. at' \in [Increases -> Nat] /\ \A i \in Increases : at'[i] \in 1..Len(Path[i])
    BY <1>4, Paths DEF StoreUpdateEvent, TypeOK
  <2>2. pc' \in [Jobs -> Running \cup Settled \cup {"waiting"}]
    BY <1>0, <1>4, MoveType DEF StoreUpdateEvent
  <2> QED
    BY <1>0, <1>4, <2>1, <2>2 DEF StoreUpdateEvent, TypeOK, histories
<1>5. CASE WriteReserves(j)
  BY <1>0, <1>5, MoveType, WriteType DEF WriteReserves, TypeOK
<1> QED
  BY <1>1, <1>2, <1>3, <1>4, <1>5

LEMMA FeesType ==
  ASSUME TypeOK, NEW f \in Fees, BeginFees(f) \/ StoreFeesEvent(f) \/ WriteFees(f)
  PROVE  TypeOK'
<1> USE DEF Running, Settled
<1>0. f \in Jobs /\ fees \in Rows
  BY Kinds
<1>1. CASE BeginFees(f)
  BY <1>0, <1>1, MoveType, ReadType DEF BeginFees, TypeOK, tables, histories
<1>2. CASE StoreFeesEvent(f)
  BY <1>0, <1>2, MoveType DEF StoreFeesEvent, TypeOK, histories
<1>3. CASE WriteFees(f)
  BY <1>0, <1>3, MoveType, WriteType DEF WriteFees, TypeOK
<1> QED
  BY <1>1, <1>2, <1>3

LEMMA AbandonType ==
  ASSUME TypeOK, NEW j \in Jobs, Abandon(j)
  PROVE  TypeOK'
<1>1. seen' \in [Jobs \X Rows -> SUBSET Jobs]
  BY DEF Abandon, TypeOK
<1>2. pc' \in [Jobs -> Running \cup Settled \cup {"waiting"}]
  BY DEF Abandon, TypeOK, Settled
<1> QED
  BY <1>1, <1>2 DEF Abandon, TypeOK, tables, histories

LEMMA StepType == TypeOK /\ [Next]_vars => TypeOK'
<1> SUFFICES ASSUME TypeOK, [Next]_vars PROVE TypeOK'
  OBVIOUS
<1>1. CASE UNCHANGED vars
  BY <1>1 DEF TypeOK, vars
<1> QED
  BY <1>1, SwapType, EventType, IncreaseType, FeesType, AbandonType DEF Next

(* The tables, the positions of the jobs and the histories keep their      *)
(* types; the position of an increase stays in its path.                   *)
THEOREM TypeCorrect == Spec => []TypeOK
  BY InitType, StepType, PTL DEF Spec
-----------------------------------------------------------------------------
(* Amounts *)

(* What a job that holds a row has not seen, it or one whose amounts it    *)
(* has seen is known to miss.                                              *)
HeldExplained ==
  \A j \in Jobs, r \in Rows : Holds(j, r) =>
    \A k \in written[r] \ seen[<<j, r>>] :
      k \in missed[<<j, r>>] \/ \E i \in seen[<<j, r>>] : k \in missed[<<i, r>>]

Explained == LossesExplained /\ HeldExplained

LEMMA InitExplained == Init => Explained
  BY DEF Init, Explained, LossesExplained, HeldExplained, Rows, Jobs

(* A step that writes no row, and after which no job holds a row it did    *)
(* not hold before.                                                        *)
LEMMA QuietKeepsExplained ==
  ASSUME TypeOK, Explained, UNCHANGED <<row, written, missed>>,
         \A i \in Jobs, r \in Rows : Holds(i, r)' => Holds(i, r) /\ seen'[<<i, r>>] = seen[<<i, r>>]
  PROVE  Explained'
<1>1. LossesExplained'
  BY DEF Explained, LossesExplained
<1>2. HeldExplained'
  BY DEF Explained, HeldExplained
<1> QED
  BY <1>1, <1>2 DEF Explained

(* A step that reads a row: what it sees is all there is, and what is no   *)
(* longer there is explained by what it sees.                              *)
LEMMA ReadKeepsExplained ==
  ASSUME TypeOK, Explained, NEW j \in Jobs, NEW r \in Rows, Read(j, r),
         UNCHANGED <<row, written, missed>>,
         \A i \in Jobs, q \in Rows : Holds(i, q)' => Holds(i, q) \/ (i = j /\ q = r)
  PROVE  Explained'
<1>1. LossesExplained'
  BY DEF Explained, LossesExplained
<1>2. seen'[<<j, r>>] = row[r]
  BY DEF Read, TypeOK
<1>3. \A i \in Jobs, q \in Rows : i # j \/ q # r => seen'[<<i, q>>] = seen[<<i, q>>]
  BY DEF Read, TypeOK
<1>4. ASSUME NEW i \in Jobs, NEW q \in Rows, Holds(i, q)', NEW k \in written[q] \ seen'[<<i, q>>]
      PROVE  k \in missed[<<i, q>>] \/ \E h \in seen'[<<i, q>>] : k \in missed[<<h, q>>]
  <2>1. CASE i = j /\ q = r
    BY <1>2, <1>4, <2>1 DEF Explained, LossesExplained
  <2>2. CASE i # j \/ q # r
    BY <1>3, <1>4, <2>2 DEF Explained, HeldExplained
  <2> QED
    BY <2>1, <2>2
<1>5. HeldExplained'
  BY <1>4 DEF HeldExplained
<1> QED
  BY <1>1, <1>5 DEF Explained

(* A step that writes what it has read and its own amount: every other     *)
(* holder of the row misses it from now on.                                *)
LEMMA WriteKeepsExplained ==
  ASSUME TypeOK, Explained, NEW j \in Jobs, NEW r \in Rows, Holds(j, r), Write(j, r),
         \A i \in Jobs, q \in Rows : Holds(i, q)' => Holds(i, q) /\ ~(i = j /\ q = r)
  PROVE  Explained'
<1>1. /\ row'[r] = seen[<<j, r>>] \cup {j} /\ written'[r] = written[r] \cup {j}
      /\ \A q \in Rows : q # r => row'[q] = row[q] /\ written'[q] = written[q]
  BY DEF Write, Put, TypeOK
<1>2. \A i \in Jobs, q \in Rows :
        ~(i = j /\ q = r) => seen'[<<i, q>>] = seen[<<i, q>>]
  BY DEF Write, Put, TypeOK
<1>3. /\ \A i \in Jobs, q \in Rows : missed[<<i, q>>] \subseteq missed'[<<i, q>>]
      /\ \A i \in Jobs : i # j /\ Holds(i, r) => j \in missed'[<<i, r>>]
  BY DEF Write, Put, TypeOK
<1>4. seen[<<j, r>>] \subseteq Jobs /\ \A q \in Rows : row[q] \subseteq Jobs
  BY DEF TypeOK
<1>5. ASSUME NEW q \in Rows, NEW k \in written'[q] \ row'[q]
      PROVE  \E h \in row'[q] : k \in missed'[<<h, q>>]
  <2>1. CASE q = r
    <3>1. k \in written[r] \ seen[<<j, r>>]
      BY <1>1, <1>5, <2>1
    <3>2. k \in missed[<<j, r>>] \/ \E h \in seen[<<j, r>>] : k \in missed[<<h, r>>]
      BY <3>1 DEF Explained, HeldExplained
    <3> QED
      BY <1>1, <1>3, <1>4, <2>1, <3>2
  <2>2. CASE q # r
    <3>1. k \in written[q] \ row[q] /\ row'[q] = row[q]
      BY <1>1, <1>5, <2>2
    <3>2. \E h \in row[q] : k \in missed[<<h, q>>]
      BY <3>1 DEF Explained, LossesExplained
    <3> QED
      BY <1>3, <1>4, <3>1, <3>2
  <2> QED
    BY <2>1, <2>2
<1>6. ASSUME NEW i \in Jobs, NEW q \in Rows, Holds(i, q)', NEW k \in written'[q] \ seen'[<<i, q>>]
      PROVE  k \in missed'[<<i, q>>] \/ \E h \in seen'[<<i, q>>] : k \in missed'[<<h, q>>]
  <2>1. Holds(i, q) /\ ~(i = j /\ q = r) /\ seen'[<<i, q>>] = seen[<<i, q>>]
    BY <1>2, <1>6
  <2>2. seen[<<i, q>>] \subseteq Jobs
    BY DEF TypeOK
  <2>3. CASE k \in written[q]
    <3>1. k \in missed[<<i, q>>] \/ \E h \in seen[<<i, q>>] : k \in missed[<<h, q>>]
      BY <1>6, <2>1, <2>3 DEF Explained, HeldExplained
    <3> QED
      BY <1>3, <2>1, <2>2, <3>1
  <2>4. CASE k \notin written[q]
    <3>1. k = j /\ q = r
      BY <1>1, <1>6, <2>4
    <3> QED
      BY <1>3, <2>1, <3>1
  <2> QED
    BY <2>3, <2>4
<1>7. LossesExplained'
  BY <1>5 DEF LossesExplained
<1>8. HeldExplained'
  BY <1>6 DEF HeldExplained
<1> QED
  BY <1>7, <1>8 DEF Explained

LEMMA OthersHold ==
  ASSUME TypeOK, NEW j \in Jobs, NEW from, NEW to, Move(j, from, to),
         \A i \in Increases : i # j => at'[i] = at[i]
  PROVE  \A i \in Jobs, r \in Rows : i # j => (Holds(i, r)' <=> Holds(i, r))
<1>1. \A i \in Jobs : i # j => pc'[i] = pc[i]
  BY DEF TypeOK, Move
<1> QED
  BY <1>1 DEF Holds, BinOf

LEMMA SwapKeepsExplained ==
  ASSUME TypeOK, Explained, NEW s \in Swaps, BeginSwap(s) \/ CreateSwapEvent(s) \/ FillVaults(s)
  PROVE  Explained'
<1>1. s \in Jobs /\ s \notin SwapEvents \cup Increases \cup Fees
  BY LiquidityLedgerAssumption DEF Jobs
<1>2. UNCHANGED <<at, row, seen, written, missed>>
  BY DEF BeginSwap, CreateSwapEvent, FillVaults, tables, histories
<1>3. \E from, to : Move(s, from, to)
  BY DEF BeginSwap, CreateSwapEvent, FillVaults
<1>4. \A i \in Jobs, r \in Rows : i # s => (Holds(i, r)' <=> Holds(i, r))
  BY <1>1, <1>2, <1>3, OthersHold
<1>5. \A r \in Rows : ~Holds(s, r)'
  BY <1>1 DEF Holds
<1> QED
  BY <1>2, <1>4, <1>5, QuietKeepsExplained

LEMMA EventKeepsExplained ==
  ASSUME TypeOK, Explained, NEW e \in SwapEvents,
         BeginEvent(e) \/ ReadSwapBin(e) \/ WriteSwapBin(e) \/ LookUpVaults(e) \/ StoreSwapEvent(e)
  PROVE  Explained'
<1>1. e \in Jobs /\ e \notin Increases /\ e \notin Fees /\ BinOf(e) \in Rows
  BY LiquidityLedgerAssumption, Kinds, BinOfIsBin
<1>2. UNCHANGED at /\ BinOf(e)' = BinOf(e)
  BY <1>1 DEF BeginEvent, ReadSwapBin, WriteSwapBin, LookUpVaults, StoreSwapEvent, BinOf
<1>3. \E from, to : Move(e, from, to)
  BY DEF BeginEvent, ReadSwapBin, WriteSwapBin, LookUpVaults, StoreSwapEvent
<1>4. \A i \in Jobs, r \in Rows : i # e => (Holds(i, r)' <=> Holds(i, r))
  BY <1>1, <1>2, <1>3, OthersHold
<1>5. \A r \in Rows : Holds(e, r)' <=> pc'[e] = "write" /\ r = BinOf(e)
  BY <1>1, <1>2 DEF Holds
<1>6. CASE BeginEvent(e) \/ LookUpVaults(e) \/ StoreSwapEvent(e)
  <2>1. pc'[e] # "write" /\ UNCHANGED <<row, seen, written, missed>>
    BY <1>1, <1>6, MoveType
      DEF BeginEvent, LookUpVaults, StoreSwapEvent, tables, histories, Running, Settled
  <2> QED
    BY <1>4, <1>5, <2>1, QuietKeepsExplained
<1>7. CASE ReadSwapBin(e)
  <2>1. Read(e, BinOf(e)) /\ UNCHANGED <<row, written, missed>>
    BY <1>7 DEF ReadSwapBin, tables, histories
  <2> QED
    BY <1>1, <1>4, <1>5, <2>1, ReadKeepsExplained
<1>8. CASE WriteSwapBin(e)
  <2>1. Write(e, BinOf(e)) /\ pc[e] = "write" /\ pc'[e] # "write"
    BY <1>1, <1>8, MoveType DEF WriteSwapBin, Move, Running
  <2>2. Holds(e, BinOf(e))
    BY <2>1 DEF Holds
  <2> QED
    BY <1>1, <1>4, <1>5, <2>1, <2>2, WriteKeepsExplained
<1> QED
  BY <1>6, <1>7, <1>8

LEMMA IncreaseKeepsExplained ==
  ASSUME TypeOK, Explained, NEW j \in Increases,
         \/ BeginIncrease(j) \/ ReadIncreaseBin(j) \/ WriteIncreaseBin(j)
         \/ StoreUpdateEvent(j) \/ WriteReserves(j)
  PROVE  Explained'
<1>1. /\ j \in Jobs /\ j \notin Fees /\ BinOf(j) \in Rows
      /\ reserves \in Rows /\ BinOf(j) # reserves
  BY LiquidityLedgerAssumption, Kinds, BinOfIsBin
<1>2. \A i \in Increases : i # j => at'[i] = at[i]
  BY DEF BeginIncrease, ReadIncreaseBin, WriteIncreaseBin, StoreUpdateEvent, WriteReserves, TypeOK
<1>3. \E from, to : Move(j, from, to)
  BY DEF BeginIncrease, ReadIncreaseBin, WriteIncreaseBin, StoreUpdateEvent, WriteReserves
<1>4. \A i \in Jobs, r \in Rows : i # j => (Holds(i, r)' <=> Holds(i, r))
  BY <1>1, <1>2, <1>3, OthersHold
<1>5. \A r \in Rows : Holds(j, r) <=> \/ pc[j] = "write" /\ r = BinOf(j)
                                      \/ pc[j] \in {"read", "write", "store", "total"} /\ r = reserves
  BY <1>1 DEF Holds
<1>6. \A r \in Rows : Holds(j, r)' <=> \/ pc'[j] = "write" /\ r = BinOf(j)'
                                       \/ pc'[j] \in {"read", "write", "store", "total"} /\ r = reserves
  BY <1>1 DEF Holds
<1>7. ~StoreUpdateEvent(j) => BinOf(j)' = BinOf(j)
  BY DEF BeginIncrease, ReadIncreaseBin, WriteIncreaseBin, WriteReserves, BinOf
<1>8. CASE BeginIncrease(j)
  <2>1. pc'[j] = "read" /\ Read(j, reserves) /\ UNCHANGED <<row, written, missed>>
    BY <1>1, <1>8, MoveType DEF BeginIncrease, tables, histories, Running
  <2> QED
    BY <1>1, <1>4, <1>6, <2>1, ReadKeepsExplained
<1>9. CASE ReadIncreaseBin(j)
  <2>1. /\ pc[j] = "read" /\ pc'[j] = "write" /\ Read(j, BinOf(j))
        /\ UNCHANGED <<row, written, missed>> /\ BinOf(j)' = BinOf(j)
    BY <1>1, <1>9, MoveType DEF ReadIncreaseBin, Move, BinOf, tables, histories, Running
  <2> QED
    BY <1>1, <1>4, <1>5, <1>6, <2>1, ReadKeepsExplained
<1>10. CASE WriteIncreaseBin(j)
  <2>1. pc[j] = "write" /\ pc'[j] = "store" /\ Write(j, BinOf(j))
    BY <1>1, <1>10, MoveType DEF WriteIncreaseBin, Move, Running
  <2> QED
    BY <1>1, <1>4, <1>5, <1>6, <2>1, WriteKeepsExplained
<1>11. CASE StoreUpdateEvent(j)
  <2>1. pc[j] = "store" /\ pc'[j] \in {"read", "total"} /\ UNCHANGED <<row, seen, written, missed>>
    BY <1>1, <1>11, MoveType DEF StoreUpdateEvent, Move, histories, Running
  <2> QED
    BY <1>4, <1>5, <1>6, <2>1, QuietKeepsExplained
<1>12. CASE WriteReserves(j)
  <2>1. pc[j] = "total" /\ pc'[j] = "completed" /\ Write(j, reserves)
    BY <1>1, <1>12, MoveType DEF WriteReserves, Move, Settled
  <2> QED
    BY <1>1, <1>4, <1>5, <1>6, <2>1, WriteKeepsExplained
<1> QED
  BY <1>8, <1>9, <1>10, <1>11, <1>12

LEMMA FeesKeepExplained ==
  ASSUME TypeOK, Explained, NEW f \in Fees, BeginFees(f) \/ StoreFeesEvent(f) \/ WriteFees(f)
  PROVE  Explained'
<1>1. f \in Jobs /\ f \notin Increases /\ f \notin SwapEvents /\ fees \in Rows
  BY LiquidityLedgerAssumption, Kinds
<1>2. UNCHANGED at /\ \E from, to : Move(f, from, to)
  BY DEF BeginFees, StoreFeesEvent, WriteFees
<1>3. \A i \in Jobs, r \in Rows : i # f => (Holds(i, r)' <=> Holds(i, r))
  BY <1>1, <1>2, OthersHold
<1>4. \A r \in Rows : Holds(f, r) <=> (pc[f] \in {"store", "total"} /\ r = fees)
  BY <1>1 DEF Holds
<1>8. \A r \in Rows : Holds(f, r)' <=> (pc'[f] \in {"store", "total"} /\ r = fees)
  BY <1>1 DEF Holds
<1>5. CASE BeginFees(f)
  <2>1. Read(f, fees) /\ UNCHANGED <<row, written, missed>>
    BY <1>5 DEF BeginFees, tables, histories
  <2> QED
    BY <1>1, <1>3, <1>4, <1>8, <2>1, ReadKeepsExplained
<1>6. CASE StoreFeesEvent(f)
  <2>1. pc[f] = "store" /\ UNCHANGED <<row, seen, written, missed>>
    BY <1>6 DEF StoreFeesEvent, Move, histories
  <2> QED
    BY <1>3, <1>4, <1>8, <2>1, QuietKeepsExplained
<1>7. CASE WriteFees(f)
  <2>1. pc[f] = "total" /\ pc'[f] = "completed" /\ Write(f, fees)
    BY <1>1, <1>7, MoveType DEF WriteFees, Move, Settled
  <2> QED
    BY <1>1, <1>3, <1>4, <1>8, <2>1, WriteKeepsExplained
<1> QED
  BY <1>5, <1>6, <1>7

LEMMA AbandonKeepsExplained ==
  ASSUME TypeOK, Explained, NEW j \in Jobs, Abandon(j)
  PROVE  Explained'
<1>1. UNCHANGED <<at, row, written, missed>>
  BY DEF Abandon, tables, histories
<1>2. Move(j, pc[j], "abandoned")
  BY DEF Abandon, Move
<1>3. \A i \in Jobs, r \in Rows : i # j => (Holds(i, r)' <=> Holds(i, r))
  BY <1>1, <1>2, OthersHold
<1>4. \A r \in Rows : ~Holds(j, r)'
  <2>1. pc'[j] = "abandoned"
    BY DEF Abandon, TypeOK
  <2> QED
    BY <2>1 DEF Holds
<1>5. \A i \in Jobs, r \in Rows : i # j => seen'[<<i, r>>] = seen[<<i, r>>]
  BY DEF Abandon
<1> QED
  BY <1>1, <1>3, <1>4, <1>5, QuietKeepsExplained

LEMMA StepExplained == TypeOK /\ Explained /\ [Next]_vars => Explained'
<1> SUFFICES ASSUME TypeOK, Explained, [Next]_vars PROVE Explained'
  OBVIOUS
<1>1. CASE UNCHANGED vars
  BY <1>1 DEF Explained, LossesExplained, HeldExplained, Holds, BinOf, vars, tables, histories
<1> QED
  BY <1>1, SwapKeepsExplained, EventKeepsExplained, IncreaseKeepsExplained,
     FeesKeepExplained, AbandonKeepsExplained DEF Next

(* An amount that is not in a row it was added to was overwritten by a job *)
(* that had read the row before: nothing else makes the sums wrong.        *)
THEOREM NothingLostUnexplained == Spec => []LossesExplained
<1>1. Explained => LossesExplained
  BY DEF Explained
<1> QED
  BY InitExplained, StepExplained, TypeCorrect, <1>1, PTL DEF Spec
-----------------------------------------------------------------------------
(* Progress of the jobs *)

(* The acting job and what it leaves alone. *)
StepBy(j) ==
  /\ \A i \in Jobs : i # j \/ pc[i] = "completed" => pc'[i] = pc[i]
  /\ \A i \in Increases : i # j => at'[i] = at[i]
  /\ \A r \in Rows : written[r] \subseteq written'[r] /\ written'[r] \subseteq written[r] \cup {j}
  /\ events \subseteq events'
  /\ \A i \in Jobs, r \in Rows : <<i, r>> \in events' => i = j \/ <<i, r>> \in events
  /\ swapEvents \subseteq swapEvents'
  /\ \A e \in SwapEvents : e # j => vaults'[e] \in {vaults[e], "known"}
  /\ hasty \subseteq hasty' /\ hasty' \subseteq hasty \cup {j}

Done(j, b) == j \in written[b] /\ <<j, b>> \in events

SwapProgress(s) == pc[s] \in {"fill", "completed"} => SwapEventId(s) \in swapEvents

EventProgress(e) ==
  /\ pc[e] \in {"lookup", "store", "completed"} => e \in written[BinOf(e)]
  /\ <<e, BinOf(e)>> \in events <=> pc[e] = "completed"
  /\ \A b \in Bins : e \in written[b] =>
       b = BinOf(e) /\ pc[e] \in {"lookup", "store", "completed", "abandoned"}
  /\ e \notin hasty /\ pc[e] \in {"read", "write", "lookup", "store", "completed"}
       => pc[Of[e]] = "completed"
  /\ e \notin hasty /\ Of[e] \notin InnerSwaps /\ pc[e] \in {"store", "completed"}
       => vaults[e] = "known"

IncreaseProgress(j) ==
  /\ \A a \in 1..Len(Path[j]) : a < at[j] => Done(j, Path[j][a])
  /\ pc[j] \in {"store", "total", "completed"} => j \in written[BinOf(j)]
  /\ pc[j] \in {"total", "completed"} => at[j] = Len(Path[j]) /\ Done(j, BinOf(j))
  /\ j \in written[reserves] => pc[j] = "completed"
  /\ \A b \in Bins : j \in written[b] =>
       <<j, b>> \in events \/ (b = BinOf(j) /\ pc[j] \in {"store", "abandoned"})

FeesProgress(f) ==
  /\ pc[f] \in {"total", "completed"} => <<f, fees>> \in events
  /\ f \in written[fees] <=> pc[f] = "completed"

OwnRows ==
  /\ written[reserves] \subseteq Increases
  /\ written[fees] \subseteq Fees
  /\ \A j \in Jobs, b \in Bins :
       /\ <<j, b>> \in events => j \in written[b]
       /\ j \in written[b] => j \in SwapEvents \cup Increases

Progress ==
  /\ \A s \in Swaps : SwapProgress(s)
  /\ \A e \in SwapEvents : EventProgress(e)
  /\ \A j \in Increases : IncreaseProgress(j)
  /\ \A f \in Fees : FeesProgress(f)
  /\ OwnRows

LEMMA InitProgress == Init => Progress
<1> SUFFICES ASSUME Init PROVE Progress
  OBVIOUS
<1>1. \A i \in Jobs : pc[i] = "waiting"
  BY DEF Init
<1>2. \A e \in SwapEvents : EventProgress(e)
  BY <1>1, Kinds DEF Init, EventProgress
<1>3. \A j \in Increases : IncreaseProgress(j)
  <2> SUFFICES ASSUME NEW j \in Increases PROVE IncreaseProgress(j)
    OBVIOUS
  <2>1. at[j] = 1 /\ Len(Path[j]) \in Nat /\ j \in Jobs
    BY Kinds, Paths DEF Init
  <2> QED
    BY <1>1, <2>1, Kinds DEF Init, IncreaseProgress
<1> QED
  BY <1>1, <1>2, <1>3, Kinds DEF Init, Progress, SwapProgress, FeesProgress, OwnRows

(* What the steps have in common keeps the progress of the other jobs. *)
LEMMA OthersProgress ==
  ASSUME TypeOK, TypeOK', Progress, NEW j \in Jobs, StepBy(j)
  PROVE  /\ \A s \in Swaps : s # j => SwapProgress(s)'
         /\ \A e \in SwapEvents : e # j => EventProgress(e)'
         /\ \A i \in Increases : i # j => IncreaseProgress(i)'
         /\ \A f \in Fees : f # j => FeesProgress(f)'
<1>1. ASSUME NEW s \in Swaps, s # j PROVE SwapProgress(s)'
  BY <1>1, Kinds DEF Progress, SwapProgress, StepBy, SwapEventId
<1>2. ASSUME NEW e \in SwapEvents, e # j PROVE EventProgress(e)'
  <2>1. /\ e \in Jobs /\ Of[e] \in Jobs /\ e \notin Increases
        /\ BinOf(e) \in Rows /\ BinOf(e)' = BinOf(e)
    BY Kinds, BinOfIsBin, LiquidityLedgerAssumption DEF BinOf
  <2>2. /\ pc'[e] = pc[e]
        /\ pc[Of[e]] = "completed" => pc'[Of[e]] = "completed"
        /\ e \in hasty' <=> e \in hasty
        /\ \A b \in Bins \cup {BinOf(e)} : e \in written'[b] <=> e \in written[b]
        /\ vaults[e] = "known" => vaults'[e] = "known"
        /\ <<e, BinOf(e)>> \in events' <=> <<e, BinOf(e)>> \in events
    BY <1>2, <2>1, Kinds DEF StepBy
  <2>3. EventProgress(e)
    BY DEF Progress
  <2> QED
    BY <2>1, <2>2, <2>3 DEF EventProgress
<1>3. ASSUME NEW i \in Increases, i # j PROVE IncreaseProgress(i)'
  <2>1. /\ i \in Jobs /\ BinOf(i) \in Rows /\ reserves \in Rows
        /\ \A a \in 1..Len(Path[i]) : Path[i][a] \in Rows
    BY Kinds, BinOfIsBin, Paths
  <2>2. /\ pc'[i] = pc[i] /\ at'[i] = at[i] /\ BinOf(i)' = BinOf(i)
        /\ \A r \in Rows : i \in written'[r] <=> i \in written[r]
        /\ events \subseteq events' /\ Bins \subseteq Rows
    BY <1>3, <2>1, Kinds DEF StepBy, BinOf
  <2>3. IncreaseProgress(i)
    BY DEF Progress
  <2> QED
    BY <2>1, <2>2, <2>3 DEF IncreaseProgress, Done
<1>4. ASSUME NEW f \in Fees, f # j PROVE FeesProgress(f)'
  BY <1>4, Kinds DEF Progress, FeesProgress, StepBy
<1> QED
  BY <1>1, <1>2, <1>3, <1>4

(* How the actions change the histories. *)
LEMMA WriteGrows ==
  ASSUME TypeOK, NEW j \in Jobs, NEW r \in Rows, Write(j, r)
  PROVE  /\ written'[r] = written[r] \cup {j}
         /\ \A q \in Rows : q # r => written'[q] = written[q]
BY DEF TypeOK, Write, Put

LEMMA SwapKeepsProgress ==
  ASSUME TypeOK, TypeOK', Progress, NEW s \in Swaps,
         BeginSwap(s) \/ CreateSwapEvent(s) \/ FillVaults(s)
  PROVE  Progress'
<1>1. /\ s \in Jobs /\ s \notin SwapEvents /\ s \notin Increases /\ s \notin Fees
      /\ reserves \in Rows /\ fees \in Rows /\ Bins \subseteq Rows
  BY LiquidityLedgerAssumption, Kinds
<1>2. \E from, to : Move(s, from, to) /\ from # "completed" /\ from \notin Settled
  BY DEF BeginSwap, CreateSwapEvent, FillVaults, Settled
<1>3. /\ \A i \in Jobs : i # s \/ pc[i] = "completed" => pc'[i] = pc[i]
  BY <1>1, <1>2 DEF Move, TypeOK
<1>4. \A e \in SwapEvents : vaults'[e] \in {vaults[e], "known"}
  BY DEF BeginSwap, CreateSwapEvent, FillVaults, TypeOK, tables
<1>5. UNCHANGED <<at, written, events, hasty>> /\ swapEvents \subseteq swapEvents'
  BY DEF BeginSwap, CreateSwapEvent, FillVaults, tables, histories
<1>6. StepBy(s)
  BY <1>3, <1>4, <1>5 DEF StepBy
<1>7. SwapProgress(s)'
  <2>1. CASE BeginSwap(s)
    BY <1>1, <2>1 DEF BeginSwap, Move, TypeOK, SwapProgress
  <2>2. CASE CreateSwapEvent(s)
    BY <1>1, <2>2 DEF CreateSwapEvent, SwapProgress, SwapEventId
  <2>3. CASE FillVaults(s)
    BY <1>1, <2>3 DEF FillVaults, Move, SwapProgress, Progress
  <2> QED
    BY <2>1, <2>2, <2>3
<1>8. OwnRows'
  BY <1>5 DEF OwnRows, Progress
<1> QED
  BY <1>1, <1>6, <1>7, <1>8, OthersProgress DEF Progress

LEMMA EventKeepsProgress ==
  ASSUME TypeOK, TypeOK', Progress, NEW e \in SwapEvents,
         BeginEvent(e) \/ ReadSwapBin(e) \/ WriteSwapBin(e) \/ LookUpVaults(e) \/ StoreSwapEvent(e)
  PROVE  Progress'
<1>1. /\ e \in Jobs /\ e \notin Swaps /\ e \notin Increases /\ e \notin Fees
      /\ BinOf(e) \in Bins /\ BinOf(e) \in Rows /\ BinOf(e) # reserves /\ BinOf(e) # fees
      /\ reserves \in Rows /\ fees \in Rows /\ Bins \subseteq Rows
      /\ Of[e] \in Swaps /\ Of[e] \in Jobs /\ Of[e] # e
  BY LiquidityLedgerAssumption, Kinds, BinOfIsBin
<1>2. /\ BinOf(e)' = BinOf(e) /\ UNCHANGED <<at, swapEvents>>
      /\ \E from, to : Move(e, from, to) /\ from # "completed"
  BY <1>1 DEF BeginEvent, ReadSwapBin, WriteSwapBin, LookUpVaults, StoreSwapEvent, BinOf, tables
<1>3. \A i \in Jobs : i # e \/ pc[i] = "completed" => pc'[i] = pc[i]
  BY <1>1, <1>2 DEF Move, TypeOK
<1>4. /\ hasty \subseteq hasty' /\ hasty' \subseteq hasty \cup {e}
      /\ ~BeginEvent(e) => hasty' = hasty
  BY DEF BeginEvent, ReadSwapBin, WriteSwapBin, LookUpVaults, StoreSwapEvent, histories
<1>5. \A i \in SwapEvents : i # e => vaults'[i] = vaults[i]
  BY DEF BeginEvent, ReadSwapBin, WriteSwapBin, LookUpVaults, StoreSwapEvent, tables, TypeOK
<1>6. /\ events' = IF StoreSwapEvent(e) THEN events \cup {<<e, BinOf(e)>>} ELSE events
      /\ ~WriteSwapBin(e) => written' = written
      /\ WriteSwapBin(e) => /\ written'[BinOf(e)] = written[BinOf(e)] \cup {e}
                            /\ \A q \in Rows : q # BinOf(e) => written'[q] = written[q]
  BY <1>1, WriteGrows
    DEF BeginEvent, ReadSwapBin, WriteSwapBin, LookUpVaults, StoreSwapEvent, tables, histories
<1>7. StepBy(e)
  <2>1. /\ events \subseteq events'
        /\ \A i \in Jobs, r \in Rows : <<i, r>> \in events' => i = e \/ <<i, r>> \in events
    BY <1>6
  <2>2. \A r \in Rows : written[r] \subseteq written'[r] /\ written'[r] \subseteq written[r] \cup {e}
    BY <1>6
  <2> QED
    BY <1>2, <1>3, <1>4, <1>5, <2>1, <2>2 DEF StepBy
<1>8. EventProgress(e)'
  <2>0. EventProgress(e) /\ SwapProgress(Of[e]) /\ pc'[Of[e]] = pc[Of[e]]
    BY <1>1, <1>3 DEF Progress
  <2>1. CASE BeginEvent(e)
    <3>1. /\ pc[e] = "waiting" /\ pc'[e] = "read" /\ UNCHANGED <<events, written>>
          /\ e \notin hasty' => pc[Of[e]] = "completed"
      BY <1>1, <2>1 DEF BeginEvent, Move, TypeOK, tables
    <3> QED
      BY <1>2, <2>0, <3>1 DEF EventProgress
  <2>2. CASE ReadSwapBin(e)
    <3>1. pc[e] = "read" /\ pc'[e] = "write" /\ UNCHANGED <<events, written, hasty>>
      BY <1>1, <2>2 DEF ReadSwapBin, Move, TypeOK, tables, histories
    <3> QED
      BY <1>2, <2>0, <3>1 DEF EventProgress
  <2>3. CASE WriteSwapBin(e)
    <3>1. /\ pc[e] = "write" /\ pc'[e] = "lookup" /\ UNCHANGED <<events, hasty>>
          /\ e \in written'[BinOf(e)]
          /\ \A b \in Bins : b # BinOf(e) => written'[b] = written[b]
      BY <1>1, <1>6, <2>3 DEF WriteSwapBin, Move, TypeOK
    <3> QED
      BY <1>2, <2>0, <3>1 DEF EventProgress
  <2>4. CASE LookUpVaults(e)
    <3>1. /\ pc[e] = "lookup" /\ pc'[e] = "store" /\ UNCHANGED <<events, hasty, written>>
          /\ <<Of[e], "*">> \in swapEvents => vaults'[e] = "known"
      BY <1>1, <2>4 DEF LookUpVaults, Move, TypeOK, histories
    <3>2. e \notin hasty /\ Of[e] \notin InnerSwaps => <<Of[e], "*">> \in swapEvents
      BY <2>0, <3>1 DEF EventProgress, SwapProgress, SwapEventId
    <3> QED
      BY <1>2, <2>0, <3>1, <3>2 DEF EventProgress
  <2>5. CASE StoreSwapEvent(e)
    <3>1. /\ pc[e] = "store" /\ pc'[e] = "completed" /\ UNCHANGED <<hasty, written, vaults>>
          /\ <<e, BinOf(e)>> \in events'
      BY <1>1, <2>5 DEF StoreSwapEvent, Move, TypeOK, histories
    <3> QED
      BY <1>2, <2>0, <3>1 DEF EventProgress
  <2> QED
    BY <2>1, <2>2, <2>3, <2>4, <2>5
<1>9. OwnRows'
  <2>1. StoreSwapEvent(e) => e \in written[BinOf(e)] /\ written' = written
    BY <1>6 DEF StoreSwapEvent, Move, Progress, EventProgress, histories
  <2>2. written'[reserves] = written[reserves] /\ written'[fees] = written[fees]
    BY <1>1, <1>6
  <2>3. \A r \in Rows : written[r] \subseteq written'[r]
    BY <1>6
  <2> QED
    BY <1>1, <1>6, <2>1, <2>2, <2>3 DEF OwnRows, Progress
<1> QED
  BY <1>1, <1>7, <1>8, <1>9, OthersProgress DEF Progress

LEMMA IncreaseKeepsProgress ==
  ASSUME TypeOK, TypeOK', Progress, NEW j \in Increases,
         \/ BeginIncrease(j) \/ ReadIncreaseBin(j) \/ WriteIncreaseBin(j)
         \/ StoreUpdateEvent(j) \/ WriteReserves(j)
  PROVE  Progress'
<1>1. /\ j \in Jobs /\ j \notin Swaps /\ j \notin SwapEvents /\ j \notin Fees
      /\ BinOf(j) \in Bins /\ BinOf(j) \in Rows /\ BinOf(j) # reserves /\ BinOf(j) # fees
      /\ reserves \in Rows /\ fees \in Rows /\ reserves # fees /\ Bins \subseteq Rows
      /\ reserves \notin Bins
  BY LiquidityLedgerAssumption, Kinds, BinOfIsBin
<1>2. /\ UNCHANGED <<swapEvents, vaults, hasty>>
      /\ \A i \in Increases : i # j => at'[i] = at[i]
      /\ \E from, to : Move(j, from, to) /\ from # "completed"
  BY DEF BeginIncrease, ReadIncreaseBin, WriteIncreaseBin, StoreUpdateEvent, WriteReserves,
         tables, histories, TypeOK
<1>3. \A i \in Jobs : i # j \/ pc[i] = "completed" => pc'[i] = pc[i]
  BY <1>1, <1>2 DEF Move, TypeOK
<1>4. events' = IF StoreUpdateEvent(j) THEN events \cup {<<j, BinOf(j)>>} ELSE events
  BY DEF BeginIncrease, ReadIncreaseBin, WriteIncreaseBin, StoreUpdateEvent, WriteReserves, tables
<1>5. /\ ~WriteIncreaseBin(j) /\ ~WriteReserves(j) => written' = written
      /\ WriteIncreaseBin(j) => Write(j, BinOf(j))
      /\ WriteReserves(j) => Write(j, reserves)
  BY DEF BeginIncrease, ReadIncreaseBin, WriteIncreaseBin, StoreUpdateEvent, WriteReserves, histories
<1>6. \A r \in Rows : written[r] \subseteq written'[r] /\ written'[r] \subseteq written[r] \cup {j}
  <2>1. CASE WriteIncreaseBin(j) \/ WriteReserves(j)
    <3>1. PICK r \in Rows : Write(j, r)
      BY <1>1, <1>5, <2>1
    <3> QED
      BY <1>1, <3>1, WriteGrows
  <2> QED
    BY <1>5, <2>1
<1>7. StepBy(j)
  <2>1. /\ events \subseteq events'
        /\ \A i \in Jobs, r \in Rows : <<i, r>> \in events' => i = j \/ <<i, r>> \in events
    BY <1>4
  <2> QED
    BY <1>2, <1>3, <1>6, <2>1 DEF StepBy
<1>8. /\ IncreaseProgress(j) /\ at[j] \in 1..Len(Path[j]) /\ Len(Path[j]) \in Nat
      /\ BinOf(j) = Path[j][at[j]] /\ BinOf(j)' = Path[j][at'[j]]
      /\ \A a \in 1..Len(Path[j]) : Path[j][a] \in Bins
  BY Paths DEF Progress, TypeOK, BinOf
<1>9. \A b \in Rows : Done(j, b) => Done(j, b)'
  BY <1>4, <1>6 DEF Done
<1>10. IncreaseProgress(j)'
  <2>1. CASE BeginIncrease(j) \/ ReadIncreaseBin(j)
    <3>1. /\ pc[j] \in {"waiting", "read"} /\ pc'[j] \in {"read", "write"}
          /\ UNCHANGED <<at, written, events>>
      BY <1>1, <2>1 DEF BeginIncrease, ReadIncreaseBin, Move, TypeOK, tables, histories
    <3> QED
      BY <1>8, <3>1 DEF IncreaseProgress, Done
  <2>2. CASE WriteIncreaseBin(j)
    <3>1. /\ pc[j] = "write" /\ pc'[j] = "store" /\ UNCHANGED <<at, events>>
          /\ j \in written'[BinOf(j)] /\ written'[reserves] = written[reserves]
          /\ \A b \in Bins : b # BinOf(j) => written'[b] = written[b]
      BY <1>1, <1>5, <2>2, WriteGrows DEF WriteIncreaseBin, Move, TypeOK
    <3>2. \A a \in 1..Len(Path[j]) : a < at[j] => Done(j, Path[j][a])'
      BY <1>1, <1>8, <1>9 DEF IncreaseProgress
    <3>3. BinOf(j)' = BinOf(j)
      BY <1>8, <3>1
    <3> QED
      BY <1>8, <3>1, <3>2, <3>3 DEF IncreaseProgress, Done
  <2>3. CASE StoreUpdateEvent(j)
    <3>1. /\ pc[j] = "store" /\ UNCHANGED written
          /\ pc' = [pc EXCEPT ![j] = IF at[j] = Len(Path[j]) THEN "total" ELSE "read"]
          /\ at' = IF at[j] = Len(Path[j]) THEN at ELSE [at EXCEPT ![j] = @ + 1]
      BY <2>3 DEF StoreUpdateEvent, Move, histories
    <3>2. \A a \in 1..Len(Path[j]) : a <= at[j] => Done(j, Path[j][a])'
      <4>1. j \in written'[Path[j][at[j]]] /\ <<j, Path[j][at[j]]>> \in events'
        BY <1>4, <1>8, <2>3, <3>1 DEF IncreaseProgress
      <4>2. SUFFICES ASSUME NEW a \in 1..Len(Path[j]), a <= at[j]
                     PROVE  j \in written'[Path[j][a]] /\ <<j, Path[j][a]>> \in events'
        BY DEF Done
      <4>3. CASE a = at[j]
        BY <4>1, <4>3
      <4>4. CASE a < at[j]
        BY <1>4, <1>8, <3>1, <4>4 DEF IncreaseProgress, Done
      <4> QED
        BY <1>8, <4>2, <4>3, <4>4
    <3>5. \A b \in Bins : j \in written'[b] => <<j, b>> \in events'
      BY <1>4, <1>8, <2>3, <3>1 DEF IncreaseProgress
    <3>3. CASE at[j] = Len(Path[j])
      <4>1. pc'[j] = "total" /\ at'[j] = at[j] /\ BinOf(j)' = BinOf(j) /\ BinOf(j) = Path[j][at[j]]
        BY <1>1, <1>8, <3>1, <3>3 DEF TypeOK
      <4>2. Done(j, BinOf(j))'
        BY <1>8, <3>2, <4>1
      <4> QED
        BY <1>8, <3>1, <3>2, <3>3, <3>5, <4>1, <4>2 DEF IncreaseProgress, Done
    <3>4. CASE at[j] # Len(Path[j])
      <4>1. pc'[j] = "read" /\ at'[j] = at[j] + 1
        BY <1>1, <3>1, <3>4 DEF TypeOK
      <4> QED
        BY <1>8, <3>1, <3>2, <3>5, <4>1 DEF IncreaseProgress
    <3> QED
      BY <3>3, <3>4
  <2>4. CASE WriteReserves(j)
    <3>1. /\ pc[j] = "total" /\ pc'[j] = "completed" /\ UNCHANGED <<at, events>>
          /\ \A b \in Bins : written'[b] = written[b]
      BY <1>1, <1>5, <2>4, WriteGrows DEF WriteReserves, Move, TypeOK
    <3>2. \A a \in 1..Len(Path[j]) : a < at[j] => Done(j, Path[j][a])'
      BY <1>1, <1>8, <1>9 DEF IncreaseProgress
    <3>3. at[j] = Len(Path[j]) /\ Done(j, BinOf(j)) /\ BinOf(j)' = BinOf(j)
      BY <1>8, <3>1 DEF IncreaseProgress
    <3> QED
      BY <1>8, <3>1, <3>2, <3>3 DEF IncreaseProgress, Done
  <2> QED
    BY <2>1, <2>2, <2>3, <2>4
<1>11. OwnRows'
  <2>1. StoreUpdateEvent(j) => j \in written[BinOf(j)]
    BY <1>8 DEF StoreUpdateEvent, Move, IncreaseProgress
  <2>2. written'[fees] = written[fees] /\ written'[reserves] \subseteq written[reserves] \cup {j}
    BY <1>1, <1>5, <1>6, WriteGrows
  <2> QED
    BY <1>1, <1>4, <1>6, <2>1, <2>2 DEF OwnRows, Progress
<1> QED
  BY <1>1, <1>7, <1>10, <1>11, OthersProgress DEF Progress

LEMMA FeesKeepProgress ==
  ASSUME TypeOK, TypeOK', Progress, NEW f \in Fees,
         BeginFees(f) \/ StoreFeesEvent(f) \/ WriteFees(f)
  PROVE  Progress'
<1>1. /\ f \in Jobs /\ f \notin Swaps /\ f \notin SwapEvents /\ f \notin Increases
      /\ fees \in Rows /\ reserves \in Rows /\ reserves # fees
      /\ Bins \subseteq Rows /\ fees \notin Bins
  BY LiquidityLedgerAssumption, Kinds
<1>2. /\ UNCHANGED <<at, swapEvents, vaults, hasty>>
      /\ \E from, to : Move(f, from, to) /\ from # "completed"
  BY DEF BeginFees, StoreFeesEvent, WriteFees, tables, histories
<1>3. \A i \in Jobs : i # f \/ pc[i] = "completed" => pc'[i] = pc[i]
  BY <1>1, <1>2 DEF Move, TypeOK
<1>4. events' = IF StoreFeesEvent(f) THEN events \cup {<<f, fees>>} ELSE events
  BY DEF BeginFees, StoreFeesEvent, WriteFees, tables
<1>5. /\ ~WriteFees(f) => written' = written
      /\ WriteFees(f) => /\ written'[fees] = written[fees] \cup {f}
                         /\ \A q \in Rows : q # fees => written'[q] = written[q]
  BY <1>1, WriteGrows DEF BeginFees, StoreFeesEvent, WriteFees, histories
<1>6. \A r \in Rows : written[r] \subseteq written'[r] /\ written'[r] \subseteq written[r] \cup {f}
  BY <1>5
<1>7. StepBy(f)
  <2>1. /\ events \subseteq events'
        /\ \A i \in Jobs, r \in Rows : <<i, r>> \in events' => i = f \/ <<i, r>> \in events
    BY <1>4
  <2> QED
    BY <1>2, <1>3, <1>6, <2>1 DEF StepBy
<1>8. FeesProgress(f)'
  <2>0. FeesProgress(f)
    BY DEF Progress
  <2>1. CASE BeginFees(f)
    <3>1. pc[f] = "waiting" /\ pc'[f] = "store" /\ UNCHANGED <<written, events>>
      BY <1>1, <2>1 DEF BeginFees, Move, TypeOK, tables, histories
    <3> QED
      BY <2>0, <3>1 DEF FeesProgress
  <2>2. CASE StoreFeesEvent(f)
    <3>1. pc[f] = "store" /\ pc'[f] = "total" /\ UNCHANGED written /\ <<f, fees>> \in events'
      BY <1>1, <2>2 DEF StoreFeesEvent, Move, TypeOK, histories
    <3> QED
      BY <2>0, <3>1 DEF FeesProgress
  <2>3. CASE WriteFees(f)
    <3>1. pc[f] = "total" /\ pc'[f] = "completed" /\ f \in written'[fees] /\ UNCHANGED events
      BY <1>1, <1>5, <2>3 DEF WriteFees, Move, TypeOK
    <3> QED
      BY <2>0, <3>1 DEF FeesProgress
  <2> QED
    BY <2>1, <2>2, <2>3
<1>9. OwnRows'
  BY <1>1, <1>4, <1>5, <1>6 DEF OwnRows, Progress
<1> QED
  BY <1>1, <1>7, <1>8, <1>9, OthersProgress DEF Progress

LEMMA AbandonKeepsProgress ==
  ASSUME TypeOK, TypeOK', Progress, NEW j \in Jobs, Abandon(j)
  PROVE  Progress'
<1>1. /\ UNCHANGED <<at, swapEvents, vaults, events, written, hasty>>
      /\ pc'[j] = "abandoned" /\ pc[j] # "completed"
      /\ \A i \in Jobs : i # j => pc'[i] = pc[i]
  BY DEF Abandon, TypeOK, Settled, tables, histories
<1>2. StepBy(j)
  BY <1>1 DEF StepBy
<1>3. /\ \A s \in Swaps : s = j => SwapProgress(s)'
      /\ \A e \in SwapEvents : e = j => EventProgress(e)'
      /\ \A i \in Increases : i = j => IncreaseProgress(i)'
      /\ \A f \in Fees : f = j => FeesProgress(f)'
  <2>1. \A s \in Swaps : s = j => SwapProgress(s)'
    BY <1>1 DEF SwapProgress
  <2>2. ASSUME NEW e \in SwapEvents, e = j PROVE EventProgress(e)'
    BY <1>1, <2>2 DEF EventProgress, BinOf, Progress
  <2>3. ASSUME NEW i \in Increases, i = j PROVE IncreaseProgress(i)'
    BY <1>1, <2>3 DEF IncreaseProgress, Done, BinOf, Progress
  <2>4. \A f \in Fees : f = j => FeesProgress(f)'
    BY <1>1 DEF FeesProgress, Progress
  <2> QED
    BY <2>1, <2>2, <2>3, <2>4
<1>4. OwnRows'
  BY <1>1 DEF OwnRows, Progress
<1> QED
  BY <1>2, <1>3, <1>4, OthersProgress DEF Progress

LEMMA StepProgress == TypeOK /\ TypeOK' /\ Progress /\ [Next]_vars => Progress'
<1> SUFFICES ASSUME TypeOK, TypeOK', Progress, [Next]_vars PROVE Progress'
  OBVIOUS
<1>1. CASE UNCHANGED vars
  BY <1>1 DEF Progress, SwapProgress, EventProgress, IncreaseProgress, FeesProgress,
              OwnRows, Done, BinOf, vars, tables, histories
<1> QED
  BY <1>1, SwapKeepsProgress, EventKeepsProgress, IncreaseKeepsProgress,
     FeesKeepProgress, AbandonKeepsProgress DEF Next

LEMMA ProgressInvariant == Spec => [](TypeOK /\ Progress)
<1>1. Init => TypeOK /\ Progress
  BY InitType, InitProgress
<1>2. TypeOK /\ Progress /\ [Next]_vars => TypeOK' /\ Progress'
  BY StepType, StepProgress
<1> QED
  BY <1>1, <1>2, PTL DEF Spec

(* The pair counts an increase only when all its bins were written and all *)
(* its update events stored.                                               *)
THEOREM PairLast == Spec => []PairAfterBins
<1>1. TypeOK /\ Progress => PairAfterBins
  <2> SUFFICES ASSUME TypeOK, Progress, NEW j \in written[reserves], NEW a \in 1..Len(Path[j])
               PROVE  j \in written[Path[j][a]] /\ <<j, Path[j][a]>> \in events
    BY DEF PairAfterBins
  <2>1. j \in Increases
    BY DEF Progress, OwnRows
  <2>2. IncreaseProgress(j) /\ at[j] \in 1..Len(Path[j]) /\ Len(Path[j]) \in Nat /\ BinOf(j) = Path[j][at[j]]
    BY <2>1, Paths DEF Progress, TypeOK, BinOf
  <2>3. at[j] = Len(Path[j]) /\ Done(j, BinOf(j))
    BY <2>2 DEF IncreaseProgress
  <2> QED
    BY <2>2, <2>3 DEF IncreaseProgress, Done
<1> QED
  BY ProgressInvariant, <1>1, PTL

(* No stored event without the write it is about, and no completed job     *)
(* without its event.                                                      *)
THEOREM EventsFollowRows == Spec => []EventsMatchRows
<1>1. TypeOK /\ Progress => EventsMatchRows
  <2> SUFFICES ASSUME TypeOK, Progress PROVE EventsMatchRows
    OBVIOUS
  <2>1. \A x \in events : x[2] \in Bins => x[1] \in written[x[2]]
    BY DEF TypeOK, Progress, OwnRows
  <2>5. ASSUME NEW b \in Bins, NEW j \in written[b]
        PROVE  <<j, b>> \in events \/ (b = BinOf(j) /\ pc[j] \in {"lookup", "store", "abandoned"})
    <3>1. j \in SwapEvents \cup Increases
      BY <2>5, Kinds DEF TypeOK, Progress, OwnRows
    <3>2. CASE j \in SwapEvents
      BY <2>5, <3>2 DEF Progress, EventProgress
    <3>3. CASE j \in Increases
      BY <2>5, <3>3 DEF Progress, IncreaseProgress
    <3> QED
      BY <3>1, <3>2, <3>3
  <2>2. \A f \in written[fees] : <<f, fees>> \in events
    BY DEF Progress, OwnRows, FeesProgress
  <2>3. \A e \in SwapEvents : pc[e] = "completed" => <<e, BinOf(e)>> \in events
    BY DEF Progress, EventProgress
  <2>4. \A f \in Fees : pc[f] = "completed" => f \in written[fees]
    BY DEF Progress, FeesProgress
  <2> QED
    BY <2>1, <2>2, <2>3, <2>4, <2>5 DEF EventsMatchRows
<1> QED
  BY ProgressInvariant, <1>1, PTL

(* An event begun when the job of its swap was completed has the vaults.   *)
THEOREM VaultsFound == Spec => []VaultsKnown
<1>1. Progress => VaultsKnown
  BY DEF Progress, EventProgress, VaultsKnown
<1> QED
  BY ProgressInvariant, <1>1, PTL
-----------------------------------------------------------------------------
(* No overlap, no loss *)

\* No amount comes into a row but by a write of its job.
Added == /\ \A r \in Rows : row[r] \subseteq written[r]
         /\ \A x \in Jobs \X Rows : seen[x] \subseteq written[x[2]]

\* A row whose writers missed nothing holds all amounts that were added to it.
SumsComplete ==
  \A r \in Rows : (\A j \in row[r] : missed[<<j, r>>] = {}) => row[r] = written[r]

LEMMA ReadAdded ==
  ASSUME TypeOK, Added, NEW j \in Jobs, NEW r \in Rows, Read(j, r), UNCHANGED <<row, written>>
  PROVE  Added'
<1>1. ASSUME NEW x \in Jobs \X Rows PROVE seen'[x] \subseteq written'[x[2]]
  <2>1. CASE x = <<j, r>>
    BY <2>1 DEF Added, Read, TypeOK
  <2>2. CASE x # <<j, r>>
    BY <2>2 DEF Added, Read, TypeOK
  <2> QED BY <2>1, <2>2
<1> QED BY <1>1 DEF Added

LEMMA WriteAdded ==
  ASSUME TypeOK, Added, NEW j \in Jobs, NEW r \in Rows, Write(j, r)
  PROVE  Added'
<1>1. /\ row' = [row EXCEPT ![r] = seen[<<j, r>>] \cup {j}]
      /\ seen' = [seen EXCEPT ![<<j, r>>] = {}]
      /\ written' = [written EXCEPT ![r] = @ \cup {j}]
  BY DEF Write, Put
<1>2. seen[<<j, r>>] \subseteq written[r]
  BY DEF Added
<1>3. \A q \in Rows : row'[q] \subseteq written'[q]
  BY <1>1, <1>2 DEF Added, TypeOK
<1>4. \A q \in Rows : written[q] \subseteq written'[q]
  BY <1>1 DEF TypeOK
<1>5. \A x \in Jobs \X Rows : seen'[x] \subseteq seen[x] /\ x[2] \in Rows
  BY <1>1 DEF TypeOK
<1>6. \A x \in Jobs \X Rows : seen'[x] \subseteq written'[x[2]]
  BY <1>4, <1>5 DEF Added
<1> QED BY <1>3, <1>6 DEF Added

LEMMA StepAdded == TypeOK /\ Added /\ [Next]_vars => Added'
<1> SUFFICES ASSUME TypeOK, Added, [Next]_vars PROVE Added'
  OBVIOUS
<1>1. CASE UNCHANGED <<row, seen, written>>
  BY <1>1 DEF Added
<1>2. ASSUME NEW e \in SwapEvents, ReadSwapBin(e) \/ WriteSwapBin(e) PROVE Added'
  BY <1>2, Kinds, BinOfIsBin, ReadAdded, WriteAdded
  DEF ReadSwapBin, WriteSwapBin, tables, histories
<1>3. ASSUME NEW j \in Increases,
             BeginIncrease(j) \/ ReadIncreaseBin(j) \/ WriteIncreaseBin(j) \/ WriteReserves(j)
      PROVE  Added'
  BY <1>3, Kinds, BinOfIsBin, ReadAdded, WriteAdded
  DEF BeginIncrease, ReadIncreaseBin, WriteIncreaseBin, WriteReserves, tables, histories
<1>4. ASSUME NEW f \in Fees, BeginFees(f) \/ WriteFees(f) PROVE Added'
  BY <1>4, Kinds, ReadAdded, WriteAdded DEF BeginFees, WriteFees, tables, histories
<1>5. ASSUME NEW j \in Jobs, Abandon(j) PROVE Added'
  BY <1>5 DEF Abandon, Added, tables, histories
<1>6. ASSUME \/ \E s \in Swaps : BeginSwap(s) \/ CreateSwapEvent(s) \/ FillVaults(s)
             \/ \E e \in SwapEvents : BeginEvent(e) \/ LookUpVaults(e) \/ StoreSwapEvent(e)
             \/ \E j \in Increases : StoreUpdateEvent(j)
             \/ \E f \in Fees : StoreFeesEvent(f)
      PROVE  UNCHANGED <<row, seen, written>>
  BY <1>6 DEF BeginSwap, CreateSwapEvent, FillVaults, BeginEvent, LookUpVaults, StoreSwapEvent,
              StoreUpdateEvent, StoreFeesEvent, tables, histories
<1> QED BY <1>1, <1>2, <1>3, <1>4, <1>5, <1>6 DEF Next, vars, tables, histories

(* Where the jobs that are in a row have not overlapped with another        *)
(* writer, its sums are right, whatever was broken off and in whichever    *)
(* order swaps, increases and fees came.                                   *)
THEOREM NoOverlapNoLoss == Spec => []SumsComplete
<1>1. Init => Added
  BY DEF Init, Added, Rows
<1>2. Added /\ LossesExplained => SumsComplete
  BY DEF Added, LossesExplained, SumsComplete
<1> QED BY <1>1, <1>2, StepAdded, TypeCorrect, NothingLostUnexplained, PTL DEF Spec
-----------------------------------------------------------------------------
(* No livelock.  What is left of a job: the calls of a turn, and of an      *)
(* increase the turns for its other bins.                                  *)

Stage(s) ==
  CASE s = "waiting"            -> 6
    [] s \in {"create", "read"} -> 5
    [] s \in {"fill", "write"}  -> 4
    [] s = "lookup"             -> 3
    [] s = "store"              -> 2
    [] s = "total"              -> 1
    [] s \in Settled            -> 0

JobLeft(j) ==
  Stage(pc[j]) + (IF j \in Increases THEN 4 * (Len(Path[j]) - at[j]) ELSE 0)

NoLivelock ==
  [][/\ \A j \in Jobs : JobLeft(j) \in Nat /\ JobLeft(j)' <= JobLeft(j)
     /\ \E j \in Jobs : JobLeft(j)' < JobLeft(j)]_vars

LEMMA StageNat ==
  /\ \A s \in Running \cup Settled \cup {"waiting"} : Stage(s) \in Nat
  /\ Stage("waiting") = 6 /\ Stage("create") = 5 /\ Stage("read") = 5
  /\ Stage("fill") = 4 /\ Stage("write") = 4 /\ Stage("lookup") = 3
  /\ Stage("store") = 2 /\ Stage("total") = 1
  /\ Stage("completed") = 0 /\ Stage("abandoned") = 0
  /\ \A s \in (Running \cup {"waiting"}) : Stage(s) > 0
BY DEF Stage, Running, Settled

LEMMA LeftNat ==
  ASSUME TypeOK, NEW j \in Jobs
  PROVE  JobLeft(j) \in Nat
<1>1. pc[j] \in Running \cup Settled \cup {"waiting"} /\ Stage(pc[j]) \in Nat
  <2>1. pc[j] \in Running \cup Settled \cup {"waiting"}
    BY DEF TypeOK
  <2> QED BY <2>1, StageNat
<1>2. j \in Increases => Len(Path[j]) \in Nat /\ at[j] \in Nat /\ at[j] <= Len(Path[j])
  BY Paths DEF TypeOK
<1> QED BY <1>1, <1>2 DEF JobLeft

\* One call after the other.
LEMMA MoveLeft ==
  ASSUME TypeOK, NEW j \in Jobs, NEW from, NEW to, Move(j, from, to), at' = at,
         Stage(to) \in Nat, Stage(to) < Stage(from)
  PROVE  /\ JobLeft(j)' < JobLeft(j)
         /\ \A i \in Jobs : i # j => JobLeft(i)' = JobLeft(i)
<1>1. pc[j] = from /\ pc'[j] = to /\ \A i \in Jobs : i # j => pc'[i] = pc[i]
  BY DEF Move, TypeOK
<1>2. pc[j] \in Running \cup Settled \cup {"waiting"} /\ Stage(pc[j]) \in Nat
  <2>1. pc[j] \in Running \cup Settled \cup {"waiting"}
    BY DEF TypeOK
  <2> QED BY <2>1, StageNat
<1>3. j \in Increases => Len(Path[j]) \in Nat /\ at[j] \in Nat
  BY Paths DEF TypeOK
<1>4. \A i \in Jobs : i # j => JobLeft(i)' = JobLeft(i)
  BY <1>1 DEF JobLeft
<1> QED BY <1>1, <1>2, <1>3, <1>4 DEF JobLeft

\* The next turn of an increase's loop.
LEMMA LoopLeft ==
  ASSUME TypeOK, NEW j \in Increases, StoreUpdateEvent(j)
  PROVE  /\ JobLeft(j)' < JobLeft(j)
         /\ \A i \in Jobs : i # j => JobLeft(i)' = JobLeft(i)
<1>0. j \in Jobs
  BY Kinds
<1>1. CASE at[j] = Len(Path[j])
  BY <1>0, <1>1, MoveLeft, StageNat DEF StoreUpdateEvent
<1>2. CASE at[j] # Len(Path[j])
  <2>1. pc[j] = "store" /\ pc'[j] = "read" /\ \A i \in Jobs : i # j => pc'[i] = pc[i]
    BY <1>0, <1>2 DEF StoreUpdateEvent, Move, TypeOK
  <2>2. at'[j] = at[j] + 1 /\ \A i \in Increases : i # j => at'[i] = at[i]
    BY <1>2 DEF StoreUpdateEvent, TypeOK
  <2>3. Len(Path[j]) \in Nat /\ at[j] \in Nat
    BY Paths DEF TypeOK
  <2>4. \A i \in Jobs : i # j => JobLeft(i)' = JobLeft(i)
    BY <2>1, <2>2 DEF JobLeft
  <2>5. JobLeft(j)' = 5 + 4 * (Len(Path[j]) - (at[j] + 1))
    BY <2>1, <2>2, StageNat DEF JobLeft
  <2>6. JobLeft(j) = 2 + 4 * (Len(Path[j]) - at[j])
    BY <2>1, StageNat DEF JobLeft
  <2> QED BY <2>3, <2>4, <2>5, <2>6
<1> QED BY <1>1, <1>2

LEMMA StepLeft ==
  ASSUME TypeOK, Next
  PROVE  \E j \in Jobs : /\ JobLeft(j)' < JobLeft(j)
                         /\ \A i \in Jobs : i # j => JobLeft(i)' = JobLeft(i)
<1>1. ASSUME NEW s \in Swaps, BeginSwap(s) \/ CreateSwapEvent(s) \/ FillVaults(s)
      PROVE  /\ JobLeft(s)' < JobLeft(s)
             /\ \A i \in Jobs : i # s => JobLeft(i)' = JobLeft(i)
  BY <1>1, Kinds, MoveLeft, StageNat DEF BeginSwap, CreateSwapEvent, FillVaults
<1>2. ASSUME NEW e \in SwapEvents,
             \/ BeginEvent(e) \/ ReadSwapBin(e) \/ WriteSwapBin(e)
             \/ LookUpVaults(e) \/ StoreSwapEvent(e)
      PROVE  /\ JobLeft(e)' < JobLeft(e)
             /\ \A i \in Jobs : i # e => JobLeft(i)' = JobLeft(i)
  BY <1>2, Kinds, MoveLeft, StageNat
  DEF BeginEvent, ReadSwapBin, WriteSwapBin, LookUpVaults, StoreSwapEvent
<1>3. ASSUME NEW j \in Increases,
             \/ BeginIncrease(j) \/ ReadIncreaseBin(j) \/ WriteIncreaseBin(j) \/ WriteReserves(j)
      PROVE  /\ JobLeft(j)' < JobLeft(j)
             /\ \A i \in Jobs : i # j => JobLeft(i)' = JobLeft(i)
  BY <1>3, Kinds, MoveLeft, StageNat
  DEF BeginIncrease, ReadIncreaseBin, WriteIncreaseBin, WriteReserves
<1>4. ASSUME NEW f \in Fees, BeginFees(f) \/ StoreFeesEvent(f) \/ WriteFees(f)
      PROVE  /\ JobLeft(f)' < JobLeft(f)
             /\ \A i \in Jobs : i # f => JobLeft(i)' = JobLeft(i)
  BY <1>4, Kinds, MoveLeft, StageNat DEF BeginFees, StoreFeesEvent, WriteFees
<1>5. ASSUME NEW j \in Jobs, Abandon(j)
      PROVE  /\ JobLeft(j)' < JobLeft(j)
             /\ \A i \in Jobs : i # j => JobLeft(i)' = JobLeft(i)
  <2>1. pc[j] \in Running \cup {"waiting"}
    BY <1>5 DEF Abandon, TypeOK
  <2>2. Move(j, pc[j], "abandoned") /\ at' = at
    BY <1>5 DEF Abandon, Move
  <2> QED BY <2>1, <2>2, MoveLeft, StageNat
<1> QED BY <1>1, <1>2, <1>3, <1>4, <1>5, LoopLeft, Kinds DEF Next

(* Whatever writers take turns at a row: finitely many jobs do not work for *)
(* ever.  Every step lessens what is left of one job, a natural number,    *)
(* and of no other.                                                        *)
THEOREM WorkEnds == Spec => NoLivelock
<1> DEFINE LeftIsNat == \A j \in Jobs : JobLeft(j) \in Nat
<1>1. TypeOK => LeftIsNat
  BY LeftNat
<1>2. TypeOK /\ LeftIsNat /\ LeftIsNat' /\ [Next]_vars =>
        [/\ \A j \in Jobs : JobLeft(j) \in Nat /\ JobLeft(j)' <= JobLeft(j)
         /\ \E j \in Jobs : JobLeft(j)' < JobLeft(j)]_vars
  <2> SUFFICES ASSUME TypeOK, LeftIsNat, LeftIsNat', Next
               PROVE  /\ \A j \in Jobs : JobLeft(j) \in Nat /\ JobLeft(j)' <= JobLeft(j)
                      /\ \E j \in Jobs : JobLeft(j)' < JobLeft(j)
    OBVIOUS
  <2>1. PICK j \in Jobs : /\ JobLeft(j)' < JobLeft(j)
                          /\ \A i \in Jobs : i # j => JobLeft(i)' = JobLeft(i)
    BY StepLeft
  <2>2. \A i \in Jobs : JobLeft(i) \in Nat /\ JobLeft(i)' \in Nat
    OBVIOUS
  <2>3. ASSUME NEW i \in Jobs PROVE JobLeft(i)' <= JobLeft(i)
    BY <2>1, <2>2
  <2> QED BY <2>1, <2>2, <2>3
<1> QED BY <1>1, <1>2, TypeCorrect, PTL DEF Spec, NoLivelock
=============================================================================
