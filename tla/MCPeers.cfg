SPECIFICATION FairSpec
CONSTANTS
  Streams = {s1, s2, s3, s4}
  NoStream = none
  MaxTimers = 2
  MaxFailures = 2
INVARIANTS ReconnectPending NoHalfOpen
PROPERTY Reconnects
CHECK_DEADLOCK FALSE
