SPECIFICATION Spec
CONSTANTS
  PrefixBits = 4
  ReferenceBlocks = 3
  Alpha = 8
  BlockInterval = 3
  BlockTargetLimit <- MCLimit
  MaxGap = 9
  MinDiff = 8
INVARIANTS WithinLimit
PROPERTIES FollowsRate
CHECK_DEADLOCK FALSE
