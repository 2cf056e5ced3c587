SPECIFICATION FairSpec
CONSTANTS
  s1 = s1
  s2 = s2
  s3 = s3
  q1 = q1
  q2 = q2
  None = None
  Stores = {s1, s2, s3}
  Learners = {s3}
  Witnesses = {}
  Requests = {q1, q2}
  Scenarios <- MCScenarios
  Present = {1, 2, 3, 4}
  MaxAttempts = 1
  MaxLockAttempts = 1
  MaxNotReady = 1
  AttemptCap = 2
  Concurrency = 1
INVARIANTS
  TypeOK
  NoIntersection
  IndexesAgree
  EachKeyAnsweredOnce
  ScanInOrder
PROPERTIES
  ImmediateRetryHasNews
  RequestsEnd
CHECK_DEADLOCK FALSE
