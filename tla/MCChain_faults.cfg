SPECIFICATION Spec
CONSTANTS
  Hash = {1, 2, 3, 4, 5, 6, 7, 8, 9, 10, 11}
  Genesis = 1
  NoHash = NoHash
  Parent <- FaultParent
  Depth <- FaultDepth
  Evidence = {"e1", "e2"}
  Evds <- FaultEvds
  Alpha = 1
  SyncMax = 1
  RefBlocks = 1
  Wrap = 64
  Ahead = {7}
  Invalid = {9, 10}
  Batches <- FaultBatches
  Own = {}
  MaxCopies = 2
  MaxBranches = 4
  MaxRestarts = 1
INVARIANTS TypeOK DbLinked
PROPERTIES RefinesLedger
CHECK_DEADLOCK FALSE
