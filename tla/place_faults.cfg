CONSTANTS
  IntentIds = {1, 2}
  Pasts = {{}}
  Slot <- TwoSlots
  Terms <- TwoSlots
  Funds = 3
  Answers = {"open", "cancelled"}
  Errors = {"INSUFFICIENT_FUNDS"}
  LateLanding = TRUE
  MaxRetries = 1
  MaxStops = 1
  MaxCrashes = 1
  None = None
SPECIFICATION Spec
CHECK_DEADLOCK FALSE
INVARIANTS PlacedAtMostOnce ClientIdFresh
