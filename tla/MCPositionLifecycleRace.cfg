SPECIFICATION Spec
CONSTANTS
  i1 = i1  i2 = i2
  create = create  event = event
  Increases = {}
  Decreases = {}
  Closes = {}
  Bin <- Nowhere
  Lower = 1
  BinPerPosition = 3
  Attempts = 3
  MaxFaults = 0
INVARIANTS
  UpdateOrInsert
\* Positions whose jobs are all settled have stopped.
CHECK_DEADLOCK FALSE
