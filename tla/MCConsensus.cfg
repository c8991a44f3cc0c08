SPECIFICATION ConsSpec
CONSTANTS
  Node = {0, 1}
  Proposer = {0, 1}
  MajorityCount = 2
  Leader0 = 0
  MaxHeight = 5
  Retries = 0
  ValidatorCount = 2
  MaxChanges = 1
  MaxRestarts = 1
  EventBuffer = 1
  MaxBlocks = 6
  MaxUndelivered = 2
CONSTRAINT Small
INVARIANTS CommittedBranch DroppedUnmissed HeadsHeld
PROPERTY Spec
CHECK_DEADLOCK FALSE
