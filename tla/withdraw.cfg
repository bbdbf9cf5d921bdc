SPECIFICATION FairSpec
CONSTANTS
  w1 = w1
  w2 = w2
  Ids = {w1, w2}
  Wallet = 2
  MaxAttempts = 2
  Setups <- ThreeSetups
  None = None
INVARIANTS PaidAtMostOnce OutcomeTellsPayment FundsConserved
PROPERTIES WithdrawalsSettle
CHECK_DEADLOCK FALSE
