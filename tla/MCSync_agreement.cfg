SPECIFICATION FairSpec
CONSTANTS
  Node = {"c", "p"}
  Peers <- Pair
  Hash = {1, 2, 3, 4, 5, 6}
  Genesis = 1
  Parent <- TreeParent
  Depth <- TreeDepth
  Start <- StartPair
  Mines <- MinesPair
  Ready = {"p"}
  Asking = {"c"}
  Chunk = 2
  SyncMax = 1
  Wrap = 16
  MaxPending = 1
  MaxFlight = 2
  MaxLost = 1
  Early = {}
PROPERTY Agreement
CHECK_DEADLOCK FALSE
