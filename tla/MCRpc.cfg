SPECIFICATION FairSpec
CONSTANTS
  a = a
  b = b
  d = d
  None = None
  Callers = {a, b, d}
  Jobs <- MCJobs
  MaxBatch = 2
  MaxPending = 1
  LeaderChangeRetry = 2
  MaxReconnectAttempts = 2
  OutboundCap = 1
  StreamCap = 1
INVARIANTS
  TypeOK
  TimestampsOrdered
  InflightMatches
  AnswerIsOwn
  ExecutedAtMostOnce
PROPERTY
  CallsReturn
CHECK_DEADLOCK FALSE
