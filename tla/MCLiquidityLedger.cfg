SPECIFICATION Spec
CONSTANTS
  s1 = s1  e1 = e1  i1 = i1  i2 = i2  f1 = f1  f2 = f2  b1 = b1  b2 = b2
  Swaps = {s1}
  InnerSwaps = {}
  SwapEvents = {e1}
  Increases = {i1, i2}
  Fees = {f1, f2}
  Of <- Emitters
  Bins = {b1, b2}
  Path <- OneSwap
  reserves = reserves
  fees = fees
INVARIANTS
  LossesExplained
  PairAfterBins
  EventsMatchRows
  VaultsKnown
\* Every job may be settled.
CHECK_DEADLOCK FALSE
