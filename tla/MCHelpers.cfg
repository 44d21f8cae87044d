SPECIFICATION MCSpec
CONSTANTS
  Limit = 2
  MaxRetries = 1
  MaxSignatures = 5
  MaxFaults = 2
  Scale = 4096
  MiddleBinId = 8
  MaxBinStep = 8
  BasisPoints = 100
  Mantissa = 10
  FractionDigits = 3
  Ids <- MCIds
  Amounts = {0, 231, 493, 967}
  Reserves = {397, 1053, 1957}
  Decimals = {0, 2, 4}
INVARIANTS
  CreatorIsFirst
  PricesGeometric
  ReservesAgree
  AmountsNormalized
PROPERTIES
  EventuallyAnswered
\* A lookup that is answered has ended.
CHECK_DEADLOCK FALSE
