SPECIFICATION Spec
CONSTANTS
  ChainLength = 4
  Slot <- Straddle
  Failed <- ThirdFailed
  Signature <- FixedSecond
  BackwardLimit = 2
  ForwardLimit = 2
  BatchSize = 2
  ScanTicks = {s1, s2}
  QueueTicks = {q1, q2}
  MaxFaults = 1
SYMMETRY TickSymmetry
INVARIANTS
  TypeOK
  NoGap
  HistoryComplete
  QueuedHasJob
  QueuedOncePerFault
  SlotOrder
\* A scanner whose ticks all return early has stopped.
CHECK_DEADLOCK FALSE
