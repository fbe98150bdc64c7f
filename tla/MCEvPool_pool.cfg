SPECIFICATION PoolFairSpec
CONSTANTS
  Evidence = {"a", "b", "c", "d"}
  Weight <- PoolWeight
  CacheSize = 3
  MaxOffers = 1
INVARIANTS PoolSorted
PROPERTIES UploadsReturn
