SPECIFICATION ReadsSpec
CONSTANTS
  Hash = {1, 2, 3, 4, 5, 6, 7, 8, 9, 10, 11}
  Genesis = 1
  NoHash = NoHash
  Parent <- ReadsParent
  Depth <- ReadsDepth
  Evidence = {}
  Evds <- ReadsNoEvds
  Alpha = 1
  SyncMax = 2
  RefBlocks = 2
  Wrap = 64
  Ahead = {}
  Invalid = {}
  Batches <- ReadsBatches
  Own = {}
  MaxCopies = 1
  MaxBranches = 3
  MaxRestarts = 1
  Asked = {2, 4, 8}
  Miner <- ReadsMiner
INVARIANTS ServedAsPromised AnswersAreChain
PROPERTIES LatestNotBack ScoreCountsBlocks
CHECK_DEADLOCK FALSE
