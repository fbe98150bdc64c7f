SPECIFICATION FairSpec
CONSTANTS
  Node = {"c", "p", "q"}
  Peers <- Star
  Hash = {1, 2, 3, 4, 5, 6}
  Genesis = 1
  Parent <- TreeParent
  Depth <- TreeDepth
  Start <- StartStar
  Mines <- MinesStar
  Ready = {"p", "q"}
  Asking = {"c"}
  Chunk = 2
  SyncMax = 1
  Wrap = 16
  MaxPending = 1
  MaxFlight = 2
  MaxLost = 1
  Early <- Either
INVARIANTS NeverMiscounted
PROPERTIES CatchesUp InitEnds FloodEnds
CHECK_DEADLOCK FALSE
