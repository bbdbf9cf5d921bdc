SPECIFICATION FairSpec
CONSTANTS
  MaxQty = 2
  Setups <- LiveSetups
  None = None
INVARIANTS PolledNeverOverSettled ReleaseOnlyUnfilled
PROPERTIES FillsReachLedger
CHECK_DEADLOCK FALSE
