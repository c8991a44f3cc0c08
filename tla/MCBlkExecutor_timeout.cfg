SPECIFICATION FairSpec
CONSTANTS
  Account = {"a", "b"}
  Modulus = 4
  Id <- MCId
  Block <- MCBlock
  Key <- MCKey
  Value <- MCValue
  TxCount = 5
  Slow = {2}
  Asks <- MCAsks
  Outcome <- MCOutcome
  Limit = 3
  Buffer = 2
  Initial <- MCInitial
INVARIANT SameStateOnAllNodes
CHECK_DEADLOCK FALSE
