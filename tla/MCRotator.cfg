SPECIFICATION FairSpec
CONSTANTS
  ValidatorCount = 4
  MaxRank = 1
INVARIANTS PendingIsTimed QuietAfterFaults
PROPERTIES PendingEnds ViewSpec
CHECK_DEADLOCK FALSE
