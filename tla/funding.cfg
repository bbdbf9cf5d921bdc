SPECIFICATION FairSpec
CONSTANTS
  Setups <- FundingSetups
  MaxAttempts = 2
  None = None
INVARIANTS StartedMeansFunded OutflowBounded LedgerNeverInflated LedgerMatchesOutflow
PROPERTIES PaidOrderDecided
CHECK_DEADLOCK FALSE
