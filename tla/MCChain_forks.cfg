SPECIFICATION FairSpec
CONSTANTS
  Hash = {1, 2, 3, 4, 5, 6, 7, 8, 9, 10, 11, 12}
  Genesis = 1
  NoHash = NoHash
  Parent <- ForkParent
  Depth <- ForkDepth
  Evidence = {"e1", "e2"}
  Evds <- ForkEvds
  Alpha = 1
  SyncMax = 2
  RefBlocks = 2
  Wrap = 64
  Ahead = {}
  Invalid = {}
  Batches <- ForkBatches
  Own = {10, 11}
  MaxCopies = 1
  MaxBranches = 4
  MaxRestarts = 0
INVARIANTS StaysUp MinerNotStale CacheIsPath EvidenceOnce
PROPERTIES LongestChainRule SettledIsStored
CHECK_DEADLOCK FALSE
