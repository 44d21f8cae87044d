SPECIFICATION FairSpec
CONSTANTS
  j1 = j1  j2 = j2  j3 = j3  k1 = k1  k2 = k2
  Jobs = {j1, j2, j3}
  Keys = {k1, k2}
  Key <- TwoOfThree
  Unreadable <- Last
  Slots = {w1, w2}
  NoJob = NoJob
  NoSlot = NoSlot
  Attempts = 2
  MaxStalls = 1
  Writes = 2
  MaxFaults = 3
INVARIANTS
  TypeOK
  OneWriter
  CompletedRecorded
  FaultFreeApplied
PROPERTIES
  EffectsAtMostOnce
  EventuallySettled
\* A queue whose jobs are all settled has stopped.
CHECK_DEADLOCK FALSE
