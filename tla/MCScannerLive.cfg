SPECIFICATION FairSpec
CONSTANTS
  ChainLength = 3
  Slot <- Half
  Failed <- SecondFailed
  Signature <- FixedThird
  BackwardLimit = 2
  ForwardLimit = 2
  BatchSize = 2
  ScanTicks = {s1, s2}
  QueueTicks = {q1}
  MaxFaults = 1
PROPERTIES
  EventuallyStored
  EventuallyQueued
\* A scanner whose ticks all return early has stopped.
CHECK_DEADLOCK FALSE
