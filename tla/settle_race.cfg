SPECIFICATION Spec
CONSTANTS
  MaxQty = 2
  Setups <- RaceSetups
  None = None
INVARIANTS NeverOverSettled
CHECK_DEADLOCK FALSE
