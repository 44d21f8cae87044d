SPECIFICATION Spec
CONSTANTS
  i1 = i1  i2 = i2
  create = create  event = event
  Increases = {i1, i2}
  Decreases = {}
  Closes = {}
  Bin <- TwoBins
  Lower = 1
  BinPerPosition = 3
  Attempts = 3
  MaxFaults = 2
INVARIANTS
  SharesWithPosition
  CompleteUnlessThrown
  CreditsRightShare
  CreditedOnce
PROPERTIES
  NoRegress
\* Positions whose jobs are all settled have stopped.
CHECK_DEADLOCK FALSE
