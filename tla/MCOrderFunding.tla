--------------------------- MODULE MCOrderFunding ---------------------------
EXTENDS OrderFunding

AllFaults == {"reject", "lost", "throw", "crash", "slow", "pair", "reread"}

Setup(deposits, fee, kinds, n) ==
  [deposits |-> deposits, requiredFee |-> fee, faults |-> kinds, maxFaults |-> n]

\* A third transfer that races with time-out, refund and withdrawal; every fault on
\* the plain payment, and two on its refund or withdrawal; a missing fee; an asset the pair does not know.
FundingSetups ==
  {Setup(<<"base", "quote", "base">>, 0, {}, 0), Setup(<<"base", "quote">>, 0, AllFaults, 1),
   Setup(<<"base", "quote">>, 0, {"reject", "lost"}, 2),
   Setup(<<"base", "quote">>, 1, {"reject"}, 1), Setup(<<"other", "base">>, 0, {"lost"}, 1)}
=============================================================================
