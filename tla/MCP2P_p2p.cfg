SPECIFICATION FairSpec
CONSTANTS
  Node = {"a", "b", "c"}
  Finds <- FindsAll
  Moved <- MovedC
  Light = {"c"}
  ChainID <- OneChain
  Old = {}
  maxPeersNum = 1
  MaxSock = 2
  MaxFaults = 1
INVARIANTS WithinLimit Authentic RemovalMeant
PROPERTIES AttemptsEnd HalfOpenEnds
CHECK_DEADLOCK FALSE
