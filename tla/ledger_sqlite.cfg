SPECIFICATION FairSpec
CONSTANTS
  b1 = b1  b2 = b2
  k1 = k1  k2 = k2  k3 = k3  k4 = k4  k5 = k5  k6 = k6
  None = None
  Buckets = {b1}
  Keys = {k1, k2, k3}
  Commands <- ContendingCommands
  GlobalLock = TRUE
  UseTransaction = FALSE
  RebuildBuckets = {b1}
  PauseBuckets = {b1}
  MaxCalls = 4
  MaxFaults = 1
INVARIANTS TypeOK NoOverdraft ReadModelFollowsLedger SuccessMeansRecorded
PROPERTIES LockDrains
CHECK_DEADLOCK FALSE
