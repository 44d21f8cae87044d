SPECIFICATION FairSpec
CONSTANTS
  t1 = t1  t2 = t2
  Txs = {t1, t2}
  Jobs = {t1, t2}
  Signature <- HardCoded
  Instructions <- Parsed
  Attempts = 2
  MaxStalls = 1
  MaxFaults = 2
INVARIANTS
  ProcessedMeansRouted
  EventAfterInstruction
  CopiesPaid
  CompletedAccounted
PROPERTIES
  RoutesAsOneRun
  EventuallySettled
\* A queue whose jobs are all settled has stopped.
CHECK_DEADLOCK FALSE
