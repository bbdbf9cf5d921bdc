--------------------------- MODULE MCWithdrawals ----------------------------
EXTENDS Withdrawals

CONSTANTS w1, w2

\* Two withdrawals beside each other, one with two faults, and pauseAndWithdraw
\* called twice beside one.
ThreeSetups ==
  {[asked |-> {w1, w2}, calls |-> 0, faults |-> 1], [asked |-> {w1}, calls |-> 0, faults |-> 2],
   [asked |-> {w1}, calls |-> 2, faults |-> 1]}
=============================================================================
