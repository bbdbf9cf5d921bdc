SPECIFICATION FairSpec
CONSTANTS
  b1 = b1  b2 = b2
  k1 = k1  k2 = k2  k3 = k3  k4 = k4  k5 = k5  k6 = k6
  None = None
  Buckets = {b1, b2}
  Keys = {k1, k2, k3, k4}
  Commands <- SharedKeyCommands
  GlobalLock = FALSE
  UseTransaction = FALSE
  RebuildBuckets = {}
  PauseBuckets = {}
  MaxCalls = 4
  MaxFaults = 1
INVARIANTS OneEntryPerKey EntryAndBalanceTogether
PROPERTIES AppliedIsAnnounced ImplementsAtomicLedger
CHECK_DEADLOCK FALSE
