--------------------------- MODULE OrderTracking ---------------------------
(***************************************************************************)
(* The rules ExchangeOrderTrackerService, FillSettlementService and         *)
(* OrderReservationService apply to one exchange order: how a reported      *)
(* status and cumulative fill are merged into the tracked order, which part *)
(* of a fill is still to be settled, and what a terminal order releases.    *)
(* Quantities are whole units; a missing quantity is None.                  *)
(***************************************************************************)
EXTENDS Integers, FiniteSets

Terminal == {"filled", "cancelled", "failed", "external_missing"}

Pollable == {"pending_create", "open", "partially_filled", "pending_cancel"}

Status == Terminal \cup Pollable

\* The states an order may move to from each state.
ValidNext ==
  [ pending_create   |-> {"open", "partially_filled", "filled", "cancelled", "failed"},
    open             |-> {"partially_filled", "pending_cancel", "filled", "cancelled",
                          "failed"},
    partially_filled |-> {"partially_filled", "pending_cancel", "filled", "cancelled"},
    pending_cancel   |-> {"partially_filled", "filled", "cancelled", "failed"},
    filled           |-> {}, cancelled |-> {}, failed |-> {}, external_missing |-> {} ]

\* resolveNextStatus does not refuse the report.
Accepts(old, new) == new = old \/ new \in ValidNext[old]

Larger(m, n) == IF m > n THEN m ELSE n

Smaller(m, n) == IF m < n THEN m ELSE n

\* Mutant: the later report wins, whatever it says.
MergeLatest(old, new) == new

\* mergeOrder: the quantities never go down.
Merge(old, new) ==
  [ status  |-> new.status,
    cum     |-> Larger(old.cum, new.cum),
    settled |-> Larger(old.settled, new.settled) ]

\* buildIncrementalSettlementFill: the cumulative quantity a fill is settled
\* up to.
EffectiveCum(o, fillCum) == IF o.cum > 0 THEN Smaller(fillCum, o.cum) ELSE fillCum

\* adjustPartialFillStatus: an order that ended short of its quantity is a
\* cancelled one.
AdjustPartialFill(status, cum, qty) ==
  IF status = "filled" /\ cum < qty THEN "cancelled" ELSE status

\* Mutant: the quantity filled is not deducted.
ReleaseAmountWhole(reason, filled, qty, locked) == Smaller(qty, locked)

\* releaseRemainingLimitOrderReservation: the rest of the reservation, at most
\* what is locked; everything locked if a cancelled order has no rest.
ReleaseAmount(reason, filled, qty, locked) ==
  LET done == IF reason = "filled" /\ filled = 0 THEN qty ELSE filled
      rest == Larger(qty - done, 0)
  IN  CASE rest > 0 -> Smaller(rest, locked)
        [] rest = 0 /\ reason = "filled" -> 0
        [] OTHER -> locked
=============================================================================
