SPECIFICATION MiningFairSpec
CONSTANTS
  Evidence = {"a"}
  Weight <- MineWeight
  CacheSize = 2
  MaxOffers = 1
  Cores = {1, 2}
  BlockEvds = 1
  MaxWorkers = 2
  MaxHead = 2
INVARIANTS NonceFitsHeader OwnBlockAccepted
PROPERTIES JobsEnd SchedulerGoesOn
CHECK_DEADLOCK FALSE
