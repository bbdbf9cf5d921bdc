SPECIFICATION FairSpec
CONSTANTS
  s1 = s1
  s2 = s2
  s3 = s3
  o1 = o1
  o2 = o2
  Swaps = {s1, s2, s3}
  Orders = {o1, o2}
  Callers = {1, 2}
  Confirmations = 2
  StuckBlocks = 1
  Gas = 1
  Setups <- UsedWallet
  None = None
INVARIANTS NonceNeverContended NoncesContiguous SettledOnlyIfMined
PROPERTIES ExecutionsGetMined
CHECK_DEADLOCK FALSE
