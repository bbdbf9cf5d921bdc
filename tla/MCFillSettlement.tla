-------------------------- MODULE MCFillSettlement --------------------------
EXTENDS FillSettlement

Order(n, other) ==
  [ qty |-> n, otherLocked |-> other, partial |-> "open", forms |-> {}, lossy |-> FALSE,
    polls |-> FALSE, cancels |-> {}, faults |-> 0 ]

\* Fills are seen by the passes only.
PassesOnly == [Order(2, 2) EXCEPT !.polls = TRUE]

\* Fills are seen by both watchers of a stream that loses nothing.
StreamOnly == [Order(2, 2) EXCEPT !.forms = {"order", "trade"}]

\* The same with trades that tell the total.
StreamTotals == [Order(2, 2) EXCEPT !.forms = {"order", "tradeWithTotal"}]

\* A lossy stream of bare orders and trades with and without totals, and a fault.
LossyStream ==
  [Order(2, 2) EXCEPT !.partial = "partially_filled", !.lossy = TRUE, !.faults = 1,
                      !.forms = {"bareOrder", "trade", "tradeWithTotal"}]

\* Everything at once, for one unit.
Everything ==
  [Order(1, 0) EXCEPT !.forms = {"order"}, !.lossy = TRUE, !.polls = TRUE,
                      !.cancels = {"intent", "shutdown"}, !.faults = 1]

LiveSetups ==
  {PassesOnly} \cup {[s EXCEPT !.partial = p] : s \in {StreamOnly, StreamTotals},
                                               p \in {"open", "partially_filled"}}
SafeSetups == {LossyStream, Everything}
RaceSetups == {[Order(2, 2) EXCEPT !.forms = {"order"}]}
=============================================================================
