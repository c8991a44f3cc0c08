SPECIFICATION ConsSpec
CONSTANTS
  Node = {0, 1}
  Proposer = {0, 1}
  MajorityCount = 2
  Leader0 = 0
  MaxHeight = 4
  Retries = 0
  ValidatorCount = 2
  MaxChanges = 6
  MaxRestarts = 0
  EventBuffer = 1
  MaxBlocks = 9
  MaxUndelivered = 1
CONSTRAINTS Small Guide
INVARIANT SameHistory
CHECK_DEADLOCK FALSE
