SPECIFICATION FairSpec
CONSTANTS
  t1 = t1
  t2 = t2
  t3 = t3
  Txns <- MCTxns
  NoTxn = NoTxn
  Keys = {1, 2, 3}
  NumSlots = 2
  SlotOf <- MCSlotOf
  WriteKeys <- MCWriteKeys
  LatchListCount = 2
  ExpireDuration = 2
  CheckInterval = 3
  CheckCounter = 1
  MaxTs = 6
  MaxCancels = 1
INVARIANTS
  TypeOK
  GuardMeansAcquired
  CommitsDisjoint
  StaleIsJustified
  NoMissedConflict
  NoLostWakeup
PROPERTY
  RequestsServed
CHECK_DEADLOCK FALSE
