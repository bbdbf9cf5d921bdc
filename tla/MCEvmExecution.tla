--------------------------- MODULE MCEvmExecution ---------------------------
EXTENDS EvmExecution

CONSTANTS s1, s2, s3, o1, o2

Setup(order, callers, count, blocks, reorgBound, n) ==
  [order |-> order, callers |-> callers, count |-> count, blocks |-> blocks,
   reorgs |-> reorgBound, faults |-> n]

One == [s \in {s1} |-> o1]
Apart == [s \in {s1, s2} |-> IF s = s1 THEN o1 ELSE o2]
Together == [s \in {s1, s2} |-> o1]
Three == [s \in {s1, s2, s3} |-> o1]

\* Wallets that have sent transactions before: three submissions with a fault; one
\* swap, two parallel calls and a reorganisation; the same with one call at a time,
\* a fault and more blocks; two swaps in one order, and in two.
UsedWallet == {Setup(Three, {}, 1, 4, 0, 1), Setup(One, {1, 2}, 1, 4, 1, 0),
               Setup(One, {1}, 2, 6, 1, 1),
               Setup(Together, {1}, 2, 4, 0, 0), Setup(Apart, {1}, 1, 4, 0, 0)}
=============================================================================
