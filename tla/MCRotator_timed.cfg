SPECIFICATION FairSpec
CONSTANTS
  ValidatorCount = 4
  MaxRank = 1
INVARIANT ViewIsTimed
CHECK_DEADLOCK FALSE
