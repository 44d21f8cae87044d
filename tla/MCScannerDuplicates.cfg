SPECIFICATION Spec
CONSTANTS
  ChainLength = 2
  Slot <- OneEach
  Failed <- NoneFailed
  Signature <- FixedSecond
  BackwardLimit = 2
  ForwardLimit = 2
  BatchSize = 2
  ScanTicks = {s1, s2}
  QueueTicks = {q1}
  MaxFaults = 0
SYMMETRY TickSymmetry
INVARIANTS
  UniqueSignatures
\* A scanner whose ticks all return early has stopped.
CHECK_DEADLOCK FALSE
