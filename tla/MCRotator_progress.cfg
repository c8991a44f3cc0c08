SPECIFICATION FairSpec
CONSTANTS
  ValidatorCount = 4
  MaxRank = 1
PROPERTY Progress
CHECK_DEADLOCK FALSE
