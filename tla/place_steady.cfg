CONSTANTS
  IntentIds = {1, 2, 3}
  Pasts = {{2}, {3}}
  Slot <- TwoSlots
  Terms <- TwoSlots
  Funds = 3
  Answers = {"open", "filled", "rejected"}
  Errors = {"INSUFFICIENT_FUNDS", "NO_ID"}
  LateLanding = FALSE
  MaxRetries = 1
  MaxStops = 0
  MaxCrashes = 0
  None = None
SPECIFICATION FairSpec
CHECK_DEADLOCK FALSE
INVARIANTS LiveOrderReserved OneOrderPerSlot OnlyFailedOrdersKeepFunds
PROPERTIES IntentsResolve InDoubtResolves
