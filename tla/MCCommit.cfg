SPECIFICATION Spec
CONSTANTS
  Keys = {1, 2, 3}
  Values = {1, 2}
  RegionOf <- MCRegionOf
  MinFlushKeys = 1
  ScanLimits = {1, 2}
  Scenarios <- Rewriting
INVARIANT CommitIsComplete
CHECK_DEADLOCK FALSE
