SPECIFICATION MCSpec
CONSTANTS
  c = c  p1 = p1  p1copy = p1copy  p2 = p2  a1 = a1  a1copy = a1copy  f1 = f1  q1 = q1  s1 = s1
  config = config  pair1 = pair1  pair2 = pair2  mintX = mintX  mintY = mintY  array = array  asset = asset
  ConfigJobs = {c}
  PairJobs = {p1, p1copy, p2}
  ArrayJobs = {a1, a1copy}
  FeeJobs = {f1}
  AssetJobs = {q1}
  StatusJobs = {s1}
  Of <- MCOf
  Configs = {config}
  Mints = {mintX, mintY}
  Pairs = {pair1, pair2}
  Arrays = {array}
  Assets = {asset}
  ConfigOf <- MCConfigOf
  MintX <- MCMintX
  MintY <- MCMintY
  BinArraySize = 3
  MaxAttempts = 3
  MaxFaults = 1
INVARIANTS
  PairComplete
  UpdatesStand
  ArraysWhole
  RetriesSuffice
PROPERTIES
  PairEventually
\* Every job may be settled.
CHECK_DEADLOCK FALSE
