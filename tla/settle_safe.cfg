SPECIFICATION Spec
CONSTANTS
  MaxQty = 2
  Setups <- SafeSetups
  None = None
INVARIANTS CursorBacked NeverAheadOfExchange
PROPERTIES ProgressOnlyForward
CHECK_DEADLOCK FALSE
