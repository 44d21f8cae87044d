SPECIFICATION FairSpec
CONSTANTS
  i1 = i1  i2 = i2
  create = create  event = event
  Increases = {}
  Decreases = {d1}
  Closes = {c1}
  Bin <- Nowhere
  Lower = 1
  BinPerPosition = 3
  Attempts = 3
  MaxFaults = 2
PROPERTIES
  EventuallyPosition
\* Positions whose jobs are all settled have stopped.
CHECK_DEADLOCK FALSE
