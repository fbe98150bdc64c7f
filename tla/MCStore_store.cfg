SPECIFICATION Spec
CONSTANTS
  Hash <- MCHash
  Genesis = "g"
  Parent <- MCParent
  Depth <- MCDepth
  Evds <- MCEvds
  PubKey <- MCPubKey
  Miner <- MCMiner
  NoHash = "none"
INVARIANTS ReadsWhole IndexesAgree
PROPERTIES StoreIsLedger
