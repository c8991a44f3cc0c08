SPECIFICATION RequestsSpec
CONSTANTS
  Streams = {s1, s2, s3}
  NoStream = none
  MaxTimers = 1
  MaxFailures = 1
  Call = {c1, c2}
  Buffer = 1
  MaxRequests = 2
  MaxOther = 1
INVARIANTS ReconnectPending NoHalfOpen AnswerIsMine AnswerIsKept
PROPERTY Reconnects
CHECK_DEADLOCK FALSE
