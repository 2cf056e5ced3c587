SPECIFICATION Spec
CONSTANTS
  k1 = k1  k2 = k2  k3 = k3
  r1 = r1  r2 = r2
  i1 = i1  i2 = i2
  Keys = {k1, k2, k3}
  CheckKeys = {}
  Primary = k1
  Regions = {r1, r2}
  RegionMaps <- EitherLayout
  SafeWindow = 9
  Modes = {"async", "1pc", "async+1pc"}
  MaxCalls = 2
  RetryAfter = {"refused", "lag"}
  RollbackAfter = {"refused", "lag"}
  MaxTs = 4
  Readers = {i1}
  Expiry = {FALSE}
  GcRegions = {r1, r2}
INVARIANTS
  Atomicity
  AtomicVisibility
  AckedIsDurable
  NoPanic
  RecoveryDecides
PROPERTY
  ImplementsAtomicTxn
CHECK_DEADLOCK FALSE
