-------------------------- MODULE MCRewardPipeline --------------------------
EXTENDS RewardPipeline, TLC

CONSTANTS c1, c2

\* Two unequal shares whose ratios do not divide the amounts, two whose ratios are
\* both rounded up, and none.
Uneven == [u \in {1, 2} |-> u]
Lopsided == (1 :> 1) @@ (2 :> 19)
NoShares == <<>>

Setup(shares, creators, creates, confirms, distributions, corrections, n) ==
  [shares |-> shares, creators |-> creators, creates |-> creates, confirms |-> confirms,
   distributions |-> distributions, corrections |-> corrections, faults |-> n]

\* Two allocations of one reward that may overlap; a reward and its correction, both
\* distributed, and one of them with a part of zero; a reward with a fault, confirmed
\* by hand or distributed twice; transfers of both with two faults.
SixSetups == {Setup({NoShares, Uneven, Lopsided}, {c1, c2}, 2, 0, 0, 0, 0),
              Setup({Uneven}, {c1}, 2, 0, 2, 1, 0),
              Setup({Lopsided}, {c1}, 1, 0, 1, 1, 0),
              Setup({Uneven}, {}, 0, 1, 1, 0, 1),
              Setup({Uneven}, {c1}, 1, 0, 2, 0, 1),
              Setup({Uneven}, {}, 0, 0, 1, 1, 2)}
=============================================================================
