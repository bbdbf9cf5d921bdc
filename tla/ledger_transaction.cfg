SPECIFICATION Spec
CONSTANTS
  b1 = b1  b2 = b2
  k1 = k1  k2 = k2  k3 = k3  k4 = k4  k5 = k5  k6 = k6
  None = None
  Buckets = {b1}
  Keys = {k1, k2, k3, k4, k5, k6}
  Commands <- TradingCommands
  GlobalLock = TRUE
  UseTransaction = TRUE
  RebuildBuckets = {}
  PauseBuckets = {}
  MaxCalls = 5
  MaxFaults = 1
INVARIANTS MoneyConserved
CHECK_DEADLOCK FALSE
