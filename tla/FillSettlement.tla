--------------------------- MODULE FillSettlement ---------------------------
(***************************************************************************)
(* One limit order on an exchange, from its acknowledgement on: how fills   *)
(* reach the ledger and how its reservation is released.  Fills are seen by *)
(* the user stream (one drain at a time), by the reconciliation poll (one   *)
(* pass at a time), by the tick and by any update of the tracked order that *)
(* shows unsettled progress; each starts a settlement of its own, and all   *)
(* of them interleave at every await.  Cancel intents and the shutdown of   *)
(* the strategy end the order.  The tracked order lives in memory and is    *)
(* written behind; the process may crash anywhere.                          *)
(*                                                                          *)
(* The ledger is taken at its word (AtomicLedger): a command is atomic and  *)
(* recorded once per key.  The order is a sell, so that a fill of n units   *)
(* debits n locked units; a buy differs by a factor, the price.             *)
(***************************************************************************)
EXTENDS OrderTracking, Sequences, SequencesExt

CONSTANTS
  MaxQty,   \* bound: the largest quantity of the order
  Setups,   \* the surroundings the order may have: see Setup
  None      \* no event, a field an event lacks

Forms == {"order", "bareOrder", "trade", "tradeWithTotal"}

\* The watchers of the user stream, each a loop of its own.
Feeds == {"order", "trade"}

\* qty: quantity of the order, all of it reserved; otherLocked: locked in the same
\* bucket for other orders; partial: what the exchange calls an open order with
\* fills; forms: the user-stream events it sends; lossy: the stream may drop some;
\* polls: the reconciliation passes run; cancels: who may cancel, an intent or the
\* shutdown of the strategy; faults: bound of the crashes, failed calls and writes
\* and repeated events.
Setup ==
  [ qty : 1..MaxQty, otherLocked : Nat, partial : {"open", "partially_filled"},
    forms : SUBSET Forms, lossy : BOOLEAN, polls : BOOLEAN,
    cancels : SUBSET {"intent", "shutdown"}, faults : Nat ]

ASSUME SetupAssumption == MaxQty \in Nat /\ Setups \subseteq Setup
ASSUME NoValueAssumption == None \notin Int /\ None \notin Status

VARIABLES
  setup,    \* the surroundings; fixed
  exchange, \* the order on the exchange: what is filled, and its state
  queue,    \* user-stream events not handled yet, of each watcher
  fillSeen, \* the last fill fingerprint and the last total of a trade event
  routing,  \* the fill event whose order the drain is looking up
  order,    \* the tracked order in memory
  writes,   \* upserts of the tracked order under way, in order
  stored,   \* the row of the tracked order
  tasks,    \* the settlements under way, by who started them
  poll,     \* the reconciliation pass
  cancel,   \* the cancel under way
  release,  \* the releases of the reservation under way
  ledger,   \* what the ledger has recorded for this order
  paused,   \* new reservations of the bucket are paused
  running,  \* the strategy instance is stored as running
  session,  \* the executor has a session for the order
  faults    \* faults so far

vars == <<setup, exchange, queue, fillSeen, routing, order, writes, stored, tasks, poll,
          cancel, release, ledger, paused, running, session, faults>>

Qty == setup.qty

Units == 0..MaxQty

\* Who settles: the drain, the poll, or a dispatch of the tracker, which keeps
\* one settlement per cumulative quantity (fillSettlementDispatches).
Stream == <<"stream", 0>>
Poll == <<"poll", 0>>
Dispatch(c) == <<"dispatch", c>>
Settlers == {Stream, Poll} \cup {Dispatch(c) : c \in 1..MaxQty}

NoTask == [pc |-> "none", cum |-> 0, qty |-> 0]
NoRelease == [pc |-> "none", reason |-> "cancelled", filled |-> 0, amount |-> 0]
NoSeen == [fingerprint |-> None, total |-> 0]
Placed == [status |-> "open", cum |-> 0, settled |-> 0]
NoPoll == [pc |-> "idle", seen |-> Placed, filled |-> 0, status |-> "open"]
NoCancel == [pc |-> "idle", kind |-> "intent", seen |-> Placed, status |-> "open"]

Init ==
  /\ setup \in Setups
  /\ exchange = [filled |-> 0, state |-> "open"]
  /\ queue = [f \in Feeds |-> <<>>]
  /\ fillSeen = NoSeen
  /\ routing = None
  /\ order = Placed
  /\ writes = <<>>
  /\ stored = Placed
  /\ tasks = [a \in Settlers |-> NoTask]
  /\ poll = NoPoll
  /\ cancel = NoCancel
  /\ release = [r \in {"tracker", "intent"} |-> NoRelease]
  /\ ledger = [ locked |-> Qty + setup.otherLocked,
                paid |-> [c \in 1..MaxQty |-> 0], received |-> [c \in 1..MaxQty |-> 0],
                fees |-> {},
                released |-> [r \in {"filled", "cancelled"} |-> 0] ]
  /\ paused = FALSE
  /\ running = TRUE
  /\ session = TRUE
  /\ faults = 0

-----------------------------------------------------------------------------
(* The exchange. *)

\* The status of the order as the exchange's report is normalised.
Reported(x) ==
  CASE x.state = "open" /\ x.filled = 0 -> "open"
    [] x.state = "open" /\ x.filled > 0 -> setup.partial
    [] x.state = "closed" -> "filled"
    [] x.state = "canceled" -> "cancelled"
    [] x.state = "expired" -> "failed"

OrderEvents(x) ==
  {[kind |-> "order", id |-> None, status |-> Reported(x), cum |-> x.filled,
    qty |-> IF f = "order" THEN Qty ELSE None] :
     f \in setup.forms \cap {"order", "bareOrder"}}

TradeEvents(x, q) ==
  {[kind |-> "trade", id |-> x.filled, status |-> None, qty |-> q,
    cum |-> IF f = "tradeWithTotal" THEN x.filled ELSE None] :
     f \in setup.forms \cap {"trade", "tradeWithTotal"}}

InSomeOrder(evs) == IF setup.lossy THEN SetToAllKPermutations(evs) ELSE SetToSeqs(evs)

\* runOrderWatcher and runTradeWatcher: each keeps the order of its events, but
\* either may be ahead of the other; a lossy stream drops any of them.
Send(evs) ==
  \E o \in InSomeOrder({ev \in evs : ev.kind = "order"}),
     t \in InSomeOrder({ev \in evs : ev.kind = "trade"}) :
    queue' = [queue EXCEPT !["order"] = @ \o o, !["trade"] = @ \o t]

ExchangeFills(q) ==
  /\ exchange.state = "open"
  /\ exchange.filled + q <= Qty
  /\ LET sum == exchange.filled + q
         x == [filled |-> sum, state |-> IF sum = Qty THEN "closed" ELSE "open"]
     IN  exchange' = x /\ Send(OrderEvents(x) \cup TradeEvents(x, q))
  /\ UNCHANGED <<setup, fillSeen, routing, order, writes, stored, tasks, poll, cancel, release,
                 ledger, paused, running, session, faults>>

\* The exchange cancels or expires the order, or closes it short of its quantity.
ExchangeEnds(state) ==
  /\ exchange.state = "open"
  /\ state = "closed" => exchange.filled > 0
  /\ exchange' = [exchange EXCEPT !.state = state]
  /\ Send(OrderEvents(exchange'))
  /\ UNCHANGED <<setup, fillSeen, routing, order, writes, stored, tasks, poll, cancel, release,
                 ledger, paused, running, session, faults>>

-----------------------------------------------------------------------------
(* Settlements and updates of the tracked order. *)

\* Mutant: the whole fill is settled, not its progress over the cursor.
BeginSettlementWhole(a, fillCum, o) ==
  LET eff == EffectiveCum(o, fillCum)
  IN  IF session /\ eff > o.settled
      THEN [tasks EXCEPT ![a] = [pc |-> "pay", cum |-> eff, qty |-> eff]]
      ELSE tasks

\* Mutant: progress of one unit is not noticed.
BeginSettlementOffByOne(a, fillCum, o) ==
  LET eff == EffectiveCum(o, fillCum)
  IN  IF session /\ eff > o.settled + 1
      THEN [tasks EXCEPT ![a] = [pc |-> "pay", cum |-> eff, qty |-> eff - o.settled]]
      ELSE tasks

\* Mutant: the fill is limited by the quantity of the order only.
BeginSettlementUncapped(a, fillCum, o) ==
  LET eff == Smaller(fillCum, Qty)
  IN  IF session /\ eff > o.settled
      THEN [tasks EXCEPT ![a] = [pc |-> "pay", cum |-> eff, qty |-> eff - o.settled]]
      ELSE tasks

\* handleSessionFill up to its first await, for the tracked order o: nothing
\* without a session or when the fill shows no unsettled progress.
BeginSettlement(a, fillCum, o) ==
  LET eff == EffectiveCum(o, fillCum)
  IN  IF session /\ eff > o.settled
      THEN [tasks EXCEPT ![a] = [pc |-> "pay", cum |-> eff, qty |-> eff - o.settled]]
      ELSE tasks

\* dispatchUnsettledFillSettlement: one settlement per cumulative quantity.
DispatchUnsettled(o) ==
  IF o.cum > o.settled /\ tasks[Dispatch(o.cum)] = NoTask
  THEN BeginSettlement(Dispatch(o.cum), o.cum, o)
  ELSE tasks

\* A write equal to the last one under way changes nothing and is left out.
Persist(o) ==
  writes' = IF o = (IF writes = <<>> THEN stored ELSE Last(writes)) THEN writes
            ELSE Append(writes, o)

\* upsertOrder: the merged order is stored behind; refused reports do nothing.
Upsert(new) ==
  IF Accepts(order.status, new.status)
  THEN order' = Merge(order, new) /\ Persist(order')
  ELSE UNCHANGED <<order, writes>>

\* upsertOrder's second half when it may settle.
SettleAfterUpsert(new) ==
  tasks' = IF Accepts(order.status, new.status) THEN DispatchUnsettled(order') ELSE tasks

StartRelease(reason, filled) ==
  [pc |-> "read", reason |-> reason, filled |-> filled, amount |-> 0]

\* releaseReservationForTerminalOrder: once, when the order becomes terminal.
ReleaseAfterUpsert(new) ==
  release' = IF /\ Accepts(order.status, new.status)
                /\ order.status \notin Terminal
                /\ new.status \in {"cancelled", "filled"}
             THEN [release EXCEPT !["tracker"] = StartRelease(order'.status, order'.cum)]
             ELSE release

UpsertOrder(new) == Upsert(new) /\ ReleaseAfterUpsert(new) /\ SettleAfterUpsert(new)

\* settleFill throws: reservations of the bucket are paused, the cursor stays.
SettlementFails(a) ==
  /\ tasks' = [tasks EXCEPT ![a] = NoTask]
  /\ paused' = TRUE
  /\ UNCHANGED <<order, writes, ledger>>

\* One leg of settleFill in the ledger, keyed by the cumulative quantity: the
\* same amount again is a replay, another amount a conflict.
Leg(a, recorded, affordable, newLedger, nextPc) ==
  LET c == tasks[a].cum
      q == tasks[a].qty
  IN  \/ /\ \/ recorded[c] = q /\ UNCHANGED ledger
            \/ recorded[c] = 0 /\ affordable /\ ledger' = newLedger
         /\ tasks' = [tasks EXCEPT ![a].pc = nextPc]
         /\ UNCHANGED <<order, writes, paused>>
      \/ /\ recorded[c] # q
         /\ recorded[c] = 0 => ~affordable
         /\ SettlementFails(a)

\* The paying leg comes first: it is the one that can be refused.
Pay(a) ==
  LET c == tasks[a].cum
      q == tasks[a].qty
  IN  /\ tasks[a].pc = "pay"
      /\ Leg(a, ledger.paid, ledger.locked >= q,
             [ledger EXCEPT !.paid[c] = q, !.locked = @ - q], "receive")
      /\ UNCHANGED <<setup, exchange, queue, fillSeen, routing, stored, poll, cancel, release,
                     running, session, faults>>

Receive(a) ==
  LET c == tasks[a].cum
      q == tasks[a].qty
  IN  /\ tasks[a].pc = "receive"
      /\ Leg(a, ledger.received, TRUE, [ledger EXCEPT !.received[c] = q], "fee")
      /\ UNCHANGED <<setup, exchange, queue, fillSeen, routing, stored, poll, cancel, release,
                     running, session, faults>>

\* applyFillFee: a fee that cannot be debited is left to manual review.
Fee(a) ==
  /\ tasks[a].pc = "fee"
  /\ \/ ledger' = [ledger EXCEPT !.fees = @ \cup {tasks[a].cum}]
     \/ UNCHANGED ledger
  /\ tasks' = [tasks EXCEPT ![a].pc = "mark"]
  /\ UNCHANGED <<setup, exchange, queue, fillSeen, routing, order, writes, stored, poll, cancel,
                 release, paused, running, session, faults>>

\* Mutant: the cursor is moved to what the tracker has seen by now.
MarkSettledAll(a) ==
  /\ tasks[a].pc = "mark"
  /\ order' = [order EXCEPT !.settled = Larger(@, order.cum)]
  /\ Persist(order')
  /\ tasks' = [tasks EXCEPT ![a] = NoTask]
  /\ UNCHANGED <<setup, exchange, queue, fillSeen, routing, stored, poll, cancel, release,
                 ledger, paused, running, session, faults>>

\* markFillSettled: the cursor never goes back.
MarkSettled(a) ==
  /\ tasks[a].pc = "mark"
  /\ order' = [order EXCEPT !.settled = Larger(@, tasks[a].cum)]
  /\ Persist(order')
  /\ tasks' = [tasks EXCEPT ![a] = NoTask]
  /\ UNCHANGED <<setup, exchange, queue, fillSeen, routing, stored, poll, cancel, release,
                 ledger, paused, running, session, faults>>

\* A ledger command fails for a reason of its own.
LedgerFails(a) ==
  /\ tasks[a].pc \in {"pay", "receive"}
  /\ faults < setup.faults
  /\ faults' = faults + 1
  /\ SettlementFails(a)
  /\ UNCHANGED <<setup, exchange, queue, fillSeen, routing, stored, poll, cancel, release,
                 running, session>>

\* onTick dispatches what is stored as seen and not settled.
Tick ==
  /\ tasks' = DispatchUnsettled(order)
  /\ tasks' # tasks
  /\ UNCHANGED <<setup, exchange, queue, fillSeen, routing, order, writes, stored, poll, cancel,
                 release, ledger, paused, running, session, faults>>

-----------------------------------------------------------------------------
(* The user stream: one event at a time, to the end of its settlement. *)

IsFill(ev) == ev.kind = "trade" \/ ev.status \in {"partially_filled", "filled"}

Fingerprint(ev) == <<ev.id, ev.cum, ev.qty>>

\* isDuplicateFill
IsDuplicate(ev) ==
  \/ Fingerprint(ev) = fillSeen.fingerprint
  \/ ev.status # None /\ fillSeen.total > 0 /\ fillSeen.total >= ev.cum

DrainIdle == routing = None /\ tasks[Stream] = NoTask

\* flushPendingEvents takes the next event, of whichever watcher brought it
\* first; the exchange may send it twice.
StreamTake ==
  /\ DrainIdle
  /\ \E f \in Feeds :
       /\ queue[f] # <<>>
       /\ \/ queue' = [queue EXCEPT ![f] = Tail(@)] /\ UNCHANGED faults
          \/ faults < setup.faults /\ faults' = faults + 1 /\ UNCHANGED queue
       /\ LET ev == Head(queue[f])
          IN  \/ /\ ~IsFill(ev)
                 /\ UpsertOrder([status |-> ev.status, cum |-> ev.cum, settled |-> 0])
                 /\ UNCHANGED <<fillSeen, routing>>
              \/ /\ IsFill(ev) /\ IsDuplicate(ev)
                 /\ UNCHANGED <<fillSeen, routing, order, writes, tasks, release>>
              \/ /\ IsFill(ev) /\ ~IsDuplicate(ev)
                 /\ routing' = ev
                 /\ fillSeen' = [ fingerprint |-> Fingerprint(ev),
                                  total |-> IF ev.status = None /\ ev.cum # None THEN ev.cum
                                            ELSE fillSeen.total ]
                 /\ UNCHANGED <<order, writes, tasks, release>>
  /\ UNCHANGED <<setup, exchange, stored, poll, cancel, ledger, paused, running, session>>

\* routeFillCandidate after its lookup: an event with a status updates the
\* order without settling; the fill is settled up to its total, which for a
\* trade without one is the tracked total before the update plus the trade.
StreamRoute ==
  /\ routing # None
  /\ routing' = None
  /\ LET ev == routing
         new == [status |-> ev.status, cum |-> ev.cum, settled |-> 0]
         fillCum == IF ev.cum # None THEN ev.cum ELSE order.cum + ev.qty
     IN  /\ IF ev.status # None
            THEN Upsert(new) /\ ReleaseAfterUpsert(new)
            ELSE UNCHANGED <<order, writes, release>>
         /\ tasks' = IF ev.qty # None \/ ev.cum > order.cum
                     THEN BeginSettlement(Stream, fillCum, order')
                     ELSE tasks
  /\ UNCHANGED <<setup, exchange, queue, fillSeen, stored, poll, cancel, ledger, paused, running,
                 session, faults>>

-----------------------------------------------------------------------------
(* The reconciliation pass over this order. *)

\* pollDueOrders selects the order and keeps what it saw of it.
PollSelect ==
  /\ setup.polls
  /\ poll.pc = "idle"
  /\ order.status \in Pollable
  /\ poll' = [NoPoll EXCEPT !.pc = "check", !.seen = order]
  /\ UNCHANGED <<setup, exchange, queue, fillSeen, routing, order, writes, stored, tasks, cancel,
                 release, ledger, paused, running, session, faults>>

\* isStrategyOrderStillActive: the order of a stopped strategy is declared
\* cancelled without asking the exchange.
PollCheck ==
  /\ poll.pc = "check"
  /\ \/ /\ running
        /\ poll' = [poll EXCEPT !.pc = "fetch"]
        /\ UNCHANGED <<order, writes, release, tasks>>
     \/ /\ ~running
        /\ poll' = [poll EXCEPT !.pc = "fetchOpen"]
        /\ UpsertOrder([poll.seen EXCEPT !.status = "cancelled"])
  /\ UNCHANGED <<setup, exchange, queue, fillSeen, routing, stored, cancel, ledger, paused,
                 running, session, faults>>

\* The exchange serves fetchOrder; the answer is on its way.
PollFetch ==
  /\ poll.pc = "fetch"
  /\ poll' = [poll EXCEPT
                !.pc = "apply", !.filled = exchange.filled,
                !.status = AdjustPartialFill(Reported(exchange), exchange.filled, Qty)]
  /\ UNCHANGED <<setup, exchange, queue, fillSeen, routing, order, writes, stored, tasks, cancel,
                 release, ledger, paused, running, session, faults>>

\* The answer updates the order, and is settled if it shows progress over what
\* the pass saw when it selected the order.
PollApply ==
  /\ poll.pc = "apply"
  /\ poll' = [poll EXCEPT !.pc = "fetchOpen"]
  /\ LET new == [status |-> poll.status, cum |-> poll.filled,
                 settled |-> poll.seen.settled]
     IN  Upsert(new) /\ ReleaseAfterUpsert(new)
  /\ tasks' = IF poll.filled > poll.seen.cum
              THEN BeginSettlement(Poll, poll.filled, order')
              ELSE tasks
  /\ UNCHANGED <<setup, exchange, queue, fillSeen, routing, stored, cancel, ledger, paused,
                 running, session, faults>>

\* Once the fill is settled the open orders are fetched.
PollFetchOpen ==
  /\ poll.pc = "fetchOpen"
  /\ tasks[Poll] = NoTask
  /\ poll' = [poll EXCEPT !.pc = "compare", !.status = Reported(exchange)]
  /\ UNCHANGED <<setup, exchange, queue, fillSeen, routing, order, writes, stored, tasks, cancel,
                 release, ledger, paused, running, session, faults>>

\* reconcileOpenOrderSnapshot: an order tracked as open that is not among the
\* open orders of the exchange is external_missing.
PollCompare ==
  /\ poll.pc = "compare"
  /\ poll' = NoPoll
  /\ IF poll.status \in Terminal /\ order.status \in {"open", "partially_filled"}
     THEN order' = [order EXCEPT !.status = "external_missing"] /\ Persist(order')
     ELSE UNCHANGED <<order, writes>>
  /\ UNCHANGED <<setup, exchange, queue, fillSeen, routing, stored, tasks, cancel, release,
                 ledger, paused, running, session, faults>>

\* A fetch fails: the pass goes on when the exchange is unavailable or knows
\* no such order, and ends on any other error.
PollFails ==
  /\ poll.pc \in {"fetch", "fetchOpen"}
  /\ tasks[Poll] = NoTask
  /\ faults < setup.faults
  /\ faults' = faults + 1
  /\ poll' \in {NoPoll, IF poll.pc = "fetch" THEN [poll EXCEPT !.pc = "fetchOpen"]
                        ELSE NoPoll}
  /\ UNCHANGED <<setup, exchange, queue, fillSeen, routing, order, writes, stored, tasks, cancel,
                 release, ledger, paused, running, session>>

-----------------------------------------------------------------------------
(* Cancelling: a CANCEL_ORDER intent, or the shutdown of the strategy. *)

\* The intent executor looks the order up; one that is cancelled already only
\* has its reservation released.
CancelIntent ==
  /\ "intent" \in setup.cancels
  /\ cancel.pc = "idle"
  /\ running
  /\ \/ /\ order.status \notin {"pending_cancel", "cancelled", "filled"}
        /\ cancel' = [NoCancel EXCEPT !.pc = "send", !.seen = order]
        /\ UNCHANGED release
     \/ /\ order.status = "cancelled"
        /\ release["intent"] = NoRelease
        /\ release' = [release EXCEPT !["intent"] = StartRelease("cancelled", order.cum)]
        /\ UNCHANGED cancel
  /\ UNCHANGED <<setup, exchange, queue, fillSeen, routing, order, writes, stored, tasks, poll,
                 ledger, paused, running, session, faults>>

\* cancelAllRunningStrategies: the instance is stored as stopped first.
Shutdown ==
  /\ "shutdown" \in setup.cancels
  /\ cancel.pc = "idle"
  /\ running
  /\ running' = FALSE
  /\ cancel' = [ NoCancel EXCEPT
                   !.pc = IF order.status \in {"filled", "cancelled", "failed"}
                          THEN "force" ELSE "send",
                   !.kind = "shutdown", !.seen = order ]
  /\ UNCHANGED <<setup, exchange, queue, fillSeen, routing, order, writes, stored, tasks, poll,
                 release, ledger, paused, session, faults>>

CancelAnswer(status) == [cancel EXCEPT !.pc = "ack", !.status = status]

CancelError == IF cancel.kind = "shutdown" THEN [cancel EXCEPT !.pc = "wait"] ELSE NoCancel

\* cancelOrder at the exchange: it cancels the order, or accepts the cancel and
\* executes it later, or knows no open order, and its answer may be lost.  The
\* shutdown takes "order not found" for a successful cancel, the intent fails.
CancelSend ==
  /\ cancel.pc = "send"
  /\ \/ /\ exchange.state = "open"
        /\ exchange' = [exchange EXCEPT !.state = "canceled"]
        /\ Send(OrderEvents(exchange'))
        /\ cancel' \in {CancelAnswer("cancelled"), CancelError}
     \/ /\ exchange.state = "open"
        /\ cancel' \in {CancelAnswer("pending_cancel"), CancelError}
        /\ UNCHANGED <<exchange, queue>>
     \/ /\ exchange.state # "open"
        /\ cancel' \in {CancelError} \cup
                       (IF cancel.kind = "shutdown" THEN {CancelAnswer("cancelled")} ELSE {})
        /\ UNCHANGED <<exchange, queue>>
  /\ UNCHANGED <<setup, fillSeen, routing, order, writes, stored, tasks, poll, release, ledger,
                 paused, running, session, faults>>

\* The answer: the intent releases the rest by the quantity it saw before it
\* sent the cancel; the shutdown leaves the release to the tracker.
CancelAck ==
  /\ cancel.pc = "ack"
  /\ LET new == IF cancel.kind = "shutdown" THEN [cancel.seen EXCEPT !.status = cancel.status]
                ELSE [status |-> cancel.status, cum |-> 0, settled |-> 0]
     IN  /\ Upsert(new)
         /\ SettleAfterUpsert(new)
         /\ \/ cancel.kind = "shutdown" /\ ReleaseAfterUpsert(new)
            \/ /\ cancel.kind = "intent"
               /\ cancel.status = "cancelled"
               /\ release' = [release EXCEPT
                                !["intent"] = StartRelease("cancelled", cancel.seen.cum)]
            \/ /\ cancel.kind = "intent"
               /\ cancel.status = "pending_cancel"
               /\ UNCHANGED release
  /\ cancel' = IF cancel.kind = "shutdown" THEN [cancel EXCEPT !.pc = "wait"] ELSE NoCancel
  /\ UNCHANGED <<setup, exchange, queue, fillSeen, routing, stored, poll, ledger, paused, running,
                 session, faults>>

\* waitForTrackedOrdersToSettle: until the order is terminal or time is up.
ShutdownWait ==
  /\ cancel.pc = "wait"
  /\ \/ cancel' = [cancel EXCEPT !.pc = "force"]
     \/ /\ order.status \notin {"filled", "cancelled", "failed"}
        /\ cancel' = [cancel EXCEPT !.pc = "refresh", !.seen = order,
                                    !.status = Reported(exchange)]
  /\ UNCHANGED <<setup, exchange, queue, fillSeen, routing, order, writes, stored, tasks, poll,
                 release, ledger, paused, running, session, faults>>

\* The filled quantity of the answer is a number, which readString turns into
\* the quantity tracked before.
ShutdownRefresh ==
  /\ cancel.pc = "refresh"
  /\ UpsertOrder([cancel.seen EXCEPT !.status = cancel.status])
  /\ cancel' = [cancel EXCEPT !.pc = "wait"]
  /\ UNCHANGED <<setup, exchange, queue, fillSeen, routing, stored, poll, ledger, paused, running,
                 session, faults>>

\* forceTrackedOrdersTerminal, then the session is detached.
ShutdownForce ==
  /\ cancel.pc = "force"
  /\ IF order.status \in {"filled", "cancelled", "failed"}
     THEN UNCHANGED <<order, writes, release, tasks>>
     ELSE UpsertOrder([order EXCEPT !.status = "cancelled"])
  /\ session' = FALSE
  /\ cancel' = NoCancel
  /\ UNCHANGED <<setup, exchange, queue, fillSeen, routing, stored, poll, ledger, paused, running,
                 faults>>

-----------------------------------------------------------------------------
(* Releasing the reservation. *)

\* An earlier release under the same key ends it, as does an empty lock.
ReleaseRead(r) ==
  LET t == release[r]
      amount == ReleaseAmount(t.reason, t.filled, Qty, ledger.locked)
  IN  /\ t.pc = "read"
      /\ release' = [release EXCEPT
                       ![r] = IF ledger.released[t.reason] > 0 \/ amount = 0 THEN NoRelease
                              ELSE [t EXCEPT !.pc = "unlock", !.amount = amount]]
      /\ UNCHANGED <<setup, exchange, queue, fillSeen, routing, order, writes, stored, tasks,
                     poll, cancel, ledger, paused, running, session, faults>>

\* unlockFunds; its error is logged.
ReleaseUnlock(r) ==
  LET t == release[r]
  IN  /\ t.pc = "unlock"
      /\ release' = [release EXCEPT ![r] = NoRelease]
      /\ ledger' = IF ledger.released[t.reason] = 0 /\ ledger.locked >= t.amount
                   THEN [ledger EXCEPT !.released[t.reason] = t.amount,
                                       !.locked = @ - t.amount]
                   ELSE ledger
      /\ UNCHANGED <<setup, exchange, queue, fillSeen, routing, order, writes, stored, tasks,
                     poll, cancel, paused, running, session, faults>>

-----------------------------------------------------------------------------
(* The row of the tracked order, and crashes. *)

StoreOrder ==
  /\ writes # <<>>
  /\ stored' = Head(writes)
  /\ writes' = Tail(writes)
  /\ UNCHANGED <<setup, exchange, queue, fillSeen, routing, order, tasks, poll, cancel, release,
                 ledger, paused, running, session, faults>>

\* persistOrder logs a failed upsert and forgets it.
StoreFails ==
  /\ writes # <<>>
  /\ faults < setup.faults
  /\ faults' = faults + 1
  /\ writes' = Tail(writes)
  /\ UNCHANGED <<setup, exchange, queue, fillSeen, routing, order, stored, tasks, poll, cancel,
                 release, ledger, paused, running, session>>

\* A crash and the hydration of the tracker that follows it.
Crash ==
  /\ faults < setup.faults
  /\ faults' = faults + 1
  /\ queue' = [f \in Feeds |-> <<>>]
  /\ fillSeen' = NoSeen
  /\ routing' = None
  /\ order' = stored
  /\ writes' = <<>>
  /\ tasks' = [a \in Settlers |-> NoTask]
  /\ poll' = NoPoll
  /\ cancel' = NoCancel
  /\ release' = [r \in {"tracker", "intent"} |->
                   IF r = "tracker" /\ stored.status \in {"cancelled", "filled"}
                   THEN StartRelease(stored.status, stored.cum) ELSE NoRelease]
  /\ paused' = FALSE
  /\ session' = FALSE
  /\ UNCHANGED <<setup, exchange, stored, ledger, running>>

\* The session of a running strategy is restored some time after a restart.
RestoreSession ==
  /\ running
  /\ ~session
  /\ session' = TRUE
  /\ UNCHANGED <<setup, exchange, queue, fillSeen, routing, order, writes, stored, tasks, poll,
                 cancel, release, ledger, paused, running, faults>>

-----------------------------------------------------------------------------
Settle(a) == Pay(a) \/ Receive(a) \/ Fee(a) \/ MarkSettled(a)

PollStep == PollCheck \/ PollFetch \/ PollApply \/ PollFetchOpen \/ PollCompare

CancelStep == CancelSend \/ CancelAck \/ ShutdownWait \/ ShutdownRefresh \/ ShutdownForce

Next ==
  \/ \E q \in 1..Qty : ExchangeFills(q)
  \/ \E s \in {"closed", "canceled", "expired"} : ExchangeEnds(s)
  \/ \E a \in Settlers : Settle(a) \/ LedgerFails(a)
  \/ Tick
  \/ StreamTake \/ StreamRoute
  \/ PollSelect \/ PollStep \/ PollFails
  \/ CancelIntent \/ Shutdown \/ CancelStep
  \/ \E r \in {"tracker", "intent"} : ReleaseRead(r) \/ ReleaseUnlock(r)
  \/ StoreOrder \/ StoreFails
  \/ Crash \/ RestoreSession

Spec == Init /\ [][Next]_vars

\* Awaited calls return, timers fire: passes and ticks recur, queued events are
\* drained, settlements, releases and writes go on.  Nothing obliges the
\* exchange to fill, or anybody to cancel.
Fairness ==
  /\ \A a \in Settlers : WF_vars(Settle(a))
  /\ WF_vars(Tick)
  /\ WF_vars(StreamTake) /\ WF_vars(StreamRoute)
  /\ WF_vars(PollSelect) /\ WF_vars(PollStep)
  /\ WF_vars(CancelStep)
  /\ \A r \in {"tracker", "intent"} : WF_vars(ReleaseRead(r) \/ ReleaseUnlock(r))
  /\ WF_vars(StoreOrder) /\ WF_vars(RestoreSession)

FairSpec == Spec /\ Fairness
-----------------------------------------------------------------------------
(* What settlement promises. *)

Tracked == [status : Status, cum : Units, settled : Units]

MaybeUnits == Units \cup {None}

Event ==
  [ kind : {"order", "trade"}, id : MaybeUnits, status : Status \cup {None},
    cum : MaybeUnits, qty : MaybeUnits ]

\* The types of all variables.
TypeOK ==
  /\ setup \in Setups
  /\ exchange \in [filled : Units, state : {"open", "closed", "canceled", "expired"}]
  /\ queue \in [Feeds -> Seq(Event)]
  /\ fillSeen.total \in Units
  /\ fillSeen.fingerprint # None => fillSeen.fingerprint \in MaybeUnits \X MaybeUnits \X MaybeUnits
  /\ routing \in Event \cup {None}
  /\ order \in Tracked /\ stored \in Tracked /\ writes \in Seq(Tracked)
  /\ tasks \in [Settlers -> [pc : {"none", "pay", "receive", "fee", "mark"},
                             cum : Units, qty : Units]]
  /\ poll \in [pc : {"idle", "check", "fetch", "apply", "fetchOpen", "compare"},
               seen : Tracked, filled : Units, status : Status]
  /\ cancel \in [pc : {"idle", "send", "ack", "wait", "refresh", "force"},
                 kind : {"intent", "shutdown"}, seen : Tracked, status : Status]
  /\ release \in [{"tracker", "intent"} ->
                    [pc : {"none", "read", "unlock"}, reason : {"filled", "cancelled"},
                     filled : Units, amount : Nat]]
  /\ ledger \in [ locked : Nat, paid : [1..MaxQty -> Units], received : [1..MaxQty -> Units],
                  fees : SUBSET (1..MaxQty), released : [{"filled", "cancelled"} -> Nat] ]
  /\ paused \in BOOLEAN /\ running \in BOOLEAN /\ session \in BOOLEAN
  /\ faults \in Nat

\* The settlements of an order never debit more than the exchange has filled:
\* each submits only the progress over the settled cursor to the ledger.
NeverOverSettled == SumFunction(ledger.paid) <= exchange.filled

\* The passes alone see the fills; nobody cancels, nothing fails.
OnlyPolled == setup.forms = {} /\ setup.cancels = {} /\ setup.faults = 0

\* An order that only the passes and the ticks beside them settle is never over-settled,
\* although a tick may start from the cursor a pass is about to move.
PolledNeverOverSettled == OnlyPolled => NeverOverSettled

\* The settled cursor, in memory and in the row, is never ahead of the ledger:
\* both legs of everything up to it are booked, whatever settlements were
\* interleaved, refused or cut off by a crash.
CursorBacked ==
  \A o \in {order, stored} :
    /\ o.settled <= SumFunctionOnSet(ledger.paid, 1..o.settled)
    /\ o.settled <= SumFunctionOnSet(ledger.received, 1..o.settled)

\* Neither the tracked progress nor the cursor runs ahead of the exchange,
\* although a trade event without a total is added to the tracked total.
NeverAheadOfExchange ==
  order.cum <= exchange.filled /\ order.settled <= exchange.filled

\* Only the part of the reservation that was not filled is released.
ReleaseOnlyUnfilled ==
  ledger.released["filled"] + ledger.released["cancelled"] + exchange.filled <= Qty

\* The progress of an order never goes down and a terminal order stays what it
\* is, in every step that is not a crash, however stale the reports are.
ProgressOnlyForward ==
  [][ \/ Crash
      \/ /\ order'.cum >= order.cum
         /\ order'.settled >= order.settled
         /\ order.status \in Terminal => order'.status = order.status ]_vars

\* The n-th unit is lost to isDuplicateFill: a trade that told the total was capped by
\* the tracked one, and the order event that would have raised that is dropped as
\* already seen.
TakenForDuplicate(n) == fillSeen.total >= n /\ order.cum \in 1..n-1

\* Every fill of an exchange whose stream drops no events reaches the ledger, in whatever
\* order its two watchers bring them, also without passes; except one the tracker itself
\* drops as a duplicate and, with passes, those of an order declared missing meanwhile.
FillsReachLedger ==
  \A n \in 1..MaxQty :
    exchange.filled >= n ~>
      (\/ order.settled >= n
       \/ TakenForDuplicate(n)
       \/ setup.polls /\ order.status = "external_missing")
=============================================================================
