SPECIFICATION Spec
CONSTANTS
  j1 = j1  j2 = j2  j3 = j3  k1 = k1  k2 = k2
  Jobs = {j1, j2}
  Keys = {k1}
  Key <- Two
  Unreadable <- None
  Slots = {w1, w2}
  NoJob = NoJob
  NoSlot = NoSlot
  Attempts = 3
  MaxStalls = 1
  Writes = 2
  MaxFaults = 1
SYMMETRY SlotSymmetry
INVARIANTS
  ProcessedMeansApplied
\* A queue whose jobs are all settled has stopped.
CHECK_DEADLOCK FALSE
