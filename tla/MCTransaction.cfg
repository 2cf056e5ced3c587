SPECIFICATION FairSpec
CONSTANTS
  Keys = {1, 2, 3}
  Values = {1, 2}
  RegionOf <- MCRegionOf
  MinFlushKeys = 1
  ScanLimits = {1, 2}
  Scenarios <- MCScenarios
INVARIANTS
  GetsAgree
  ScansAgree
  LocksHeld
  NothingLost
  RollbackCleans
PROPERTIES
  TasksEnd
CHECK_DEADLOCK FALSE
