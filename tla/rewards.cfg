SPECIFICATION FairSpec
CONSTANTS
  c1 = c1
  c2 = c2
  Amount = 12
  Corrected = 5
  Scale = 10
  Users = {1, 2}
  Creators = {c1, c2}
  Setups <- SixSetups
  None = None
INVARIANTS AllocationsAddUp CreditedWithinReward MovedAtMostOnce
PROPERTIES ConfirmedMovesOn
CHECK_DEADLOCK FALSE
