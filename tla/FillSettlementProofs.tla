------------------------ MODULE FillSettlementProofs ------------------------
(***************************************************************************)
(* Theorems about FillSettlement, for every bound of the quantity and every *)
(* set of surroundings: any events, losses, passes, cancels and faults. The *)
(* last two are about orders that only passes and ticks settle.             *)
(***************************************************************************)
EXTENDS FillSettlement, NatSets, SequenceTheorems

-----------------------------------------------------------------------------
(* The inductive invariant.  Its sets grow with n, what the exchange has    *)
(* filled, and l, what the ledger has booked.                               *)

\* Both legs of everything up to c are booked.
Backed(l, c) ==
  /\ c <= SumFunctionOnSet(l.paid, 1..c)
  /\ c <= SumFunctionOnSet(l.received, 1..c)

\* The versions of the tracked order that may be stored, read or on their way: none is
\* ahead of the exchange, and none has a cursor ahead of the ledger.
Versions(n, l) ==
  {o \in [status : Status, cum : 0..n, settled : 0..n] : Backed(l, o.settled)}

\* A trade says no more than was filled, nor does the total of any event.
Events(n) ==
  [kind : {"order"}, id : {None}, status : Status, cum : 0..n, qty : MaybeUnits] \cup
  [kind : {"trade"}, id : 0..n, status : {None}, cum : 0..n \cup {None}, qty : 0..n]

TaskSteps == {"none", "pay", "receive", "fee", "mark"}

\* A settlement adds its quantity to a cursor that is backed, and goes on only when its
\* leg is booked with just that quantity.
Settlements(n, l) ==
  {NoTask} \cup
  {t \in [pc : TaskSteps, cum : 1..n, qty : 1..n] :
     /\ t.qty <= t.cum /\ Backed(l, t.cum - t.qty)
     /\ t.pc \in {"receive", "fee", "mark"} => l.paid[t.cum] = t.qty
     /\ t.pc \in {"fee", "mark"} => l.received[t.cum] = t.qty}

Passes(n, l) ==
  [ pc : {"idle", "check", "fetch", "apply", "fetchOpen", "compare"},
    seen : Versions(n, l), filled : 0..n, status : Status ]

Cancels(n, l) ==
  [ pc : {"idle", "send", "ack", "wait", "refresh", "force"},
    kind : {"intent", "shutdown"}, seen : Versions(n, l), status : Status ]

Releases(n) ==
  [ pc : {"none", "read", "unlock"}, reason : {"filled", "cancelled"}, filled : 0..n,
    amount : Nat ]

Ledgers ==
  [ locked : Nat, paid : [1..MaxQty -> Units], received : [1..MaxQty -> Units],
    fees : SUBSET (1..MaxQty), released : [{"filled", "cancelled"} -> Nat] ]

Fingerprints == MaybeUnits \X MaybeUnits \X MaybeUnits

Seen == [fingerprint : Fingerprints \cup {None}, total : Units]

ExchangeStates == {"open", "closed", "canceled", "expired"}

Releasers == {"tracker", "intent"}

WorldInv ==
  /\ setup \in Setups
  /\ exchange \in [filled : 0..Qty, state : ExchangeStates]
  /\ paused \in BOOLEAN /\ running \in BOOLEAN /\ session \in BOOLEAN /\ faults \in Nat

StreamInv ==
  /\ queue \in [Feeds -> Seq(Events(exchange.filled))]
  /\ routing \in Events(exchange.filled) \cup {None}
  /\ fillSeen \in Seen

OrderInv ==
  /\ order \in Versions(exchange.filled, ledger)
  /\ stored \in Versions(exchange.filled, ledger)
  /\ writes \in Seq(Versions(exchange.filled, ledger))

TaskInv == tasks \in [Settlers -> Settlements(exchange.filled, ledger)]

PassInv ==
  /\ poll \in Passes(exchange.filled, ledger)
  /\ cancel \in Cancels(exchange.filled, ledger)

ReleaseInv == release \in [Releasers -> Releases(exchange.filled)]

LedgerInv == ledger \in Ledgers

SettleInv ==
  /\ WorldInv /\ StreamInv /\ OrderInv /\ TaskInv /\ PassInv /\ ReleaseInv /\ LedgerInv

-----------------------------------------------------------------------------
(* The sets of the invariant. *)

\* What is booked is only added to.
Extends(l, k) ==
  \A c \in 1..MaxQty : /\ l.paid[c] <= k.paid[c] /\ l.received[c] <= k.received[c]
                       /\ l.paid[c] # 0 => k.paid[c] = l.paid[c]
                       /\ l.received[c] # 0 => k.received[c] = l.received[c]

\* The bound of the quantities is a number, also in every possible setup.
LEMMA SetupFacts ==
  ASSUME NEW s \in Setups
  PROVE  MaxQty \in Nat /\ s \in Setup /\ s.qty \in 1..MaxQty
BY SetupAssumption DEF Setup

\* A cursor that is backed stays backed.
LEMMA BackedGrows ==
  ASSUME MaxQty \in Nat, NEW l \in Ledgers, NEW k \in Ledgers, Extends(l, k),
         NEW c \in 0..MaxQty, Backed(l, c)
  PROVE  Backed(k, c)
<1>1. IsFiniteSet(1..c) /\ 1..c \subseteq 1..MaxQty
  BY FS_Interval
<1>2. \A x \in 1..c : /\ l.paid[x] \in Int /\ k.paid[x] \in Nat /\ l.paid[x] <= k.paid[x]
                      /\ l.received[x] \in Int /\ k.received[x] \in Nat
                      /\ l.received[x] <= k.received[x]
  BY <1>1 DEF Ledgers, Units, Extends
<1>3. SumFunctionOnSet(l.paid, 1..c) <= SumFunctionOnSet(k.paid, 1..c)
  BY <1>1, <1>2, SumMonotone
<1>4. SumFunctionOnSet(l.received, 1..c) <= SumFunctionOnSet(k.received, 1..c)
  BY <1>1, <1>2, SumMonotone
<1>5. /\ SumFunctionOnSet(l.paid, 1..c) \in Int /\ SumFunctionOnSet(k.paid, 1..c) \in Int
      /\ SumFunctionOnSet(l.received, 1..c) \in Int
      /\ SumFunctionOnSet(k.received, 1..c) \in Int
  <2>1. \A x \in 1..c : /\ l.paid[x] \in Int /\ k.paid[x] \in Int
                        /\ l.received[x] \in Int /\ k.received[x] \in Int
    BY <1>2
  <2> QED BY <1>1, <2>1, SumFacts
<1> QED BY <1>3, <1>4, <1>5 DEF Backed

\* Nothing has to be booked for an order without fills.
LEMMA BackedZero ==
  ASSUME NEW l PROVE Backed(l, 0)
<1>1. 1..0 = {}
  OBVIOUS
<1>2. SumFunctionOnSet(l.paid, {}) = 0 /\ SumFunctionOnSet(l.received, {}) = 0
  BY FS_EmptySet, SumFacts
<1> QED BY <1>1, <1>2 DEF Backed

\* One leg: what is booked up to a cursor, and the quantity booked for a total above it.
LEMMA LegAdds ==
  ASSUME MaxQty \in Nat, NEW f \in [1..MaxQty -> Units], NEW c \in 1..MaxQty,
         NEW q \in 1..c, f[c] = q, c - q <= SumFunctionOnSet(f, 1..(c - q))
  PROVE  c <= SumFunctionOnSet(f, 1..c)
<1> DEFINE R == 1..(c - q)
           S == (1..c) \ {c}
<1>1. IsFiniteSet(1..c) /\ IsFiniteSet(S) /\ R \subseteq S /\ c \in 1..c
  <2>1. IsFiniteSet(1..c) /\ S \subseteq 1..c
    BY FS_Interval
  <2>2. IsFiniteSet(S)
    <3> HIDE DEF S
    <3> QED BY <2>1, FS_Subset
  <2> QED BY <2>1, <2>2
<1>2. \A x \in 1..c : f[x] \in Nat
  BY DEF Units
<1>3. SumFunctionOnSet(f, R) <= SumFunctionOnSet(f, S)
  <2>1. \A x \in R : f[x] \in Int /\ f[x] <= f[x]
    BY <1>2
  <2>2. \A x \in S : f[x] \in Nat
    BY <1>2
  <2> HIDE DEF R, S
  <2> QED BY <1>1, <2>1, <2>2, SumMonotone
<1>4. SumFunctionOnSet(f, 1..c) = f[c] + SumFunctionOnSet(f, S)
  <2>1. \A x \in 1..c : f[x] \in Int
    BY <1>2
  <2> QED BY <1>1, <2>1, SumFacts
<1>5. SumFunctionOnSet(f, S) \in Int /\ SumFunctionOnSet(f, R) \in Int
  <2>1. IsFiniteSet(R) /\ \A x \in S : f[x] \in Int
    BY <1>1, <1>2, FS_Subset
  <2>2. \A x \in R : f[x] \in Int
    BY <1>1, <1>2
  <2> HIDE DEF R, S
  <2> QED BY <1>1, <2>1, <2>2, SumFacts
<1>6. PICK r, s, t : /\ r \in Int /\ r = SumFunctionOnSet(f, R)
                     /\ s \in Int /\ s = SumFunctionOnSet(f, S)
                     /\ t = SumFunctionOnSet(f, 1..c)
  BY <1>5
<1>7. c - q <= r /\ r <= s /\ t = q + s
  BY <1>3, <1>4, <1>6
<1> HIDE DEF R, S
<1>8. c <= t
  BY <1>6, <1>7
<1> QED BY <1>6, <1>8

\* Once both legs of a settlement are booked its total is backed.
LEMMA SettledIsBacked ==
  ASSUME MaxQty \in Nat, NEW n \in 0..MaxQty, NEW l \in Ledgers,
         NEW t \in Settlements(n, l), t.pc \in {"fee", "mark"}
  PROVE  t.cum \in 1..n /\ Backed(l, t.cum)
<1>1. t # NoTask
  BY DEF NoTask
<1>2. /\ t.cum \in 1..n /\ t.qty \in 1..n /\ t.qty <= t.cum /\ Backed(l, t.cum - t.qty)
      /\ l.paid[t.cum] = t.qty /\ l.received[t.cum] = t.qty
  BY <1>1 DEF Settlements
<1>3. l.paid \in [1..MaxQty -> Units] /\ l.received \in [1..MaxQty -> Units]
  BY DEF Ledgers
<1>4. PICK c, q : c \in 1..MaxQty /\ q \in 1..c /\ c = t.cum /\ q = t.qty
  BY <1>2
<1>5. c <= SumFunctionOnSet(l.paid, 1..c)
  BY <1>2, <1>3, <1>4, LegAdds DEF Backed
<1>6. c <= SumFunctionOnSet(l.received, 1..c)
  BY <1>2, <1>3, <1>4, LegAdds DEF Backed
<1> QED BY <1>2, <1>4, <1>5, <1>6 DEF Backed

\* The sets only grow while the exchange fills and the ledger books.
LEMMA SetsGrow ==
  ASSUME MaxQty \in Nat, NEW n \in 0..MaxQty, NEW m \in 0..MaxQty, n <= m,
         NEW l \in Ledgers, NEW k \in Ledgers, Extends(l, k)
  PROVE  /\ Versions(n, l) \subseteq Versions(m, k)
         /\ Events(n) \subseteq Events(m)
         /\ Settlements(n, l) \subseteq Settlements(m, k)
         /\ Passes(n, l) \subseteq Passes(m, k)
         /\ Cancels(n, l) \subseteq Cancels(m, k)
         /\ Releases(n) \subseteq Releases(m)
<1>0. 0..n \subseteq 0..m /\ 1..n \subseteq 1..m /\ \A i \in 0..n : i \in 0..MaxQty
  OBVIOUS
<1>1. Versions(n, l) \subseteq Versions(m, k)
  BY <1>0, BackedGrows DEF Versions
<1>2. Events(n) \subseteq Events(m)
  BY <1>0 DEF Events
<1>3. Settlements(n, l) \subseteq Settlements(m, k)
  <2> SUFFICES ASSUME NEW t \in Settlements(n, l), t # NoTask PROVE t \in Settlements(m, k)
    BY DEF Settlements
  <2>1. /\ t \in [pc : TaskSteps, cum : 1..n, qty : 1..n]
        /\ t.qty <= t.cum /\ Backed(l, t.cum - t.qty)
        /\ t.pc \in {"receive", "fee", "mark"} => l.paid[t.cum] = t.qty
        /\ t.pc \in {"fee", "mark"} => l.received[t.cum] = t.qty
    BY DEF Settlements
  <2>2. t.cum \in 1..MaxQty /\ t.qty # 0 /\ t.cum - t.qty \in 0..MaxQty
    BY <2>1
  <2>3. Backed(k, t.cum - t.qty)
    BY <2>1, <2>2, BackedGrows
  <2>4. t \in [pc : TaskSteps, cum : 1..m, qty : 1..m]
    BY <1>0, <2>1
  <2>5. t.pc \in {"receive", "fee", "mark"} => k.paid[t.cum] = t.qty
    BY <2>1, <2>2 DEF Extends
  <2>6. t.pc \in {"fee", "mark"} => k.received[t.cum] = t.qty
    BY <2>1, <2>2 DEF Extends
  <2> QED BY <2>1, <2>3, <2>4, <2>5, <2>6 DEF Settlements
<1>4. Passes(n, l) \subseteq Passes(m, k) /\ Cancels(n, l) \subseteq Cancels(m, k)
  BY <1>0, <1>1 DEF Passes, Cancels
<1>5. Releases(n) \subseteq Releases(m)
  BY <1>0 DEF Releases
<1> QED BY <1>1, <1>2, <1>3, <1>4, <1>5

\* The versions an update, a settlement or the exchange may make of the order.
LEMMA VersionForms ==
  ASSUME NEW n \in Nat, NEW l
  PROVE  /\ \A st \in Status, c \in 0..n :
              [status |-> st, cum |-> c, settled |-> 0] \in Versions(n, l)
         /\ \A o \in Versions(n, l), st \in Status : [o EXCEPT !.status = st] \in Versions(n, l)
         /\ \A o \in Versions(n, l), st \in Status, c \in 0..n :
              [status |-> st, cum |-> c, settled |-> o.settled] \in Versions(n, l)
         /\ \A o \in Versions(n, l), c \in 0..n :
              Backed(l, c) => [o EXCEPT !.settled = Larger(@, c)] \in Versions(n, l)
<1>1. ASSUME NEW st \in Status, NEW c \in 0..n
      PROVE  [status |-> st, cum |-> c, settled |-> 0] \in Versions(n, l)
  BY <1>1, BackedZero DEF Versions
<1>2. ASSUME NEW o \in Versions(n, l), NEW st \in Status
      PROVE  [o EXCEPT !.status = st] \in Versions(n, l)
  BY <1>2 DEF Versions
<1>3. ASSUME NEW o \in Versions(n, l), NEW st \in Status, NEW c \in 0..n
      PROVE  [status |-> st, cum |-> c, settled |-> o.settled] \in Versions(n, l)
  BY <1>3 DEF Versions
<1>4. ASSUME NEW o \in Versions(n, l), NEW c \in 0..n, Backed(l, c)
      PROVE  [o EXCEPT !.settled = Larger(@, c)] \in Versions(n, l)
  BY <1>4 DEF Versions, Larger
<1> QED BY <1>1, <1>2, <1>3, <1>4

\* mergeOrder makes a version of two, and never loses progress.
LEMMA MergeFacts ==
  ASSUME NEW n \in Nat, NEW l, NEW o \in Versions(n, l), NEW new \in Versions(n, l)
  PROVE  /\ Merge(o, new) \in Versions(n, l)
         /\ Merge(o, new).cum >= o.cum /\ Merge(o, new).settled >= o.settled
         /\ Merge(o, new).status = new.status
BY DEF Merge, Versions, Larger

\* What a write of a version leaves to be written.
LEMMA PersistFacts ==
  ASSUME NEW S, writes \in Seq(S), NEW o \in S, Persist(o)
  PROVE  writes' \in Seq(S)
BY AppendProperties DEF Persist

\* A settlement begins at the cursor, and ends at the progress that is tracked.
LEMMA BeginFacts ==
  ASSUME NEW n \in Nat, NEW l, tasks \in [Settlers -> Settlements(n, l)], NEW a \in Settlers,
         NEW f \in Nat, NEW o \in Versions(n, l), o.cum = 0 => f <= n
  PROVE  BeginSettlement(a, f, o) \in [Settlers -> Settlements(n, l)]
<1> DEFINE e == EffectiveCum(o, f)
           t == [pc |-> "pay", cum |-> e, qty |-> e - o.settled]
<1>1. o.cum \in 0..n /\ o.settled \in 0..n /\ Backed(l, o.settled)
  BY DEF Versions
<1>2. e \in 0..n
  BY <1>1 DEF EffectiveCum, Smaller
<1>3. ASSUME e > o.settled PROVE t \in Settlements(n, l)
  <2>1. e - (e - o.settled) = o.settled /\ e \in 1..n /\ e - o.settled \in 1..n /\ e - o.settled <= e
    <3> HIDE DEF e
    <3> QED BY <1>1, <1>2, <1>3
  <2> HIDE DEF e
  <2> QED BY <1>1, <2>1 DEF Settlements, TaskSteps
<1>4. BeginSettlement(a, f, o) = tasks \/
        (e > o.settled /\ BeginSettlement(a, f, o) = [tasks EXCEPT ![a] = t])
  BY DEF BeginSettlement
<1> HIDE DEF e, t
<1> QED BY <1>3, <1>4

\* A status the exchange reports is one of the tracker's, a limited one too.
LEMMA ReportedFacts ==
  ASSUME setup \in Setup, NEW x, x.filled \in Nat, x.state \in ExchangeStates, NEW c, NEW q
  PROVE  Reported(x) \in Status /\ AdjustPartialFill(Reported(x), c, q) \in Status
<1>1. Reported(x) \in Status
  BY DEF Reported, ExchangeStates, Status, Terminal, Pollable, Setup
<1> QED BY <1>1 DEF AdjustPartialFill, Status, Terminal

-----------------------------------------------------------------------------
(* The steps. *)

\* The sets in the invariant's present state.
V == Versions(exchange.filled, ledger)

\* The steps of the tracked order, its writes and its row.
OrderMoves ==
  \/ UNCHANGED <<order, writes, stored>>
  \/ /\ UNCHANGED stored
     /\ \E new \in V : Upsert(new)
  \/ /\ UNCHANGED stored
     /\ \E c \in 0..exchange.filled :
          Backed(ledger, c) /\ order' = [order EXCEPT !.settled = Larger(@, c)]
     /\ Persist(order')
  \/ /\ UNCHANGED stored
     /\ order.status \in {"open", "partially_filled"}
     /\ order' = [order EXCEPT !.status = "external_missing"] /\ Persist(order')
  \/ /\ writes # <<>> /\ writes' = Tail(writes) /\ stored' \in {stored, Head(writes)}
     /\ UNCHANGED order
  \/ Crash

\* What is used of the invariant at every step.
LEMMA NowFacts ==
  ASSUME SettleInv
  PROVE  /\ MaxQty \in Nat /\ setup \in Setup /\ Qty \in 1..MaxQty
         /\ exchange.filled \in 0..Qty /\ exchange.filled \in Nat
         /\ exchange.filled \in 0..MaxQty /\ exchange.state \in ExchangeStates
<1>1. setup \in Setups /\ exchange \in [filled : 0..Qty, state : ExchangeStates]
  BY DEF SettleInv, WorldInv
<1>2. MaxQty \in Nat /\ setup \in Setup /\ setup.qty \in 1..MaxQty
  BY <1>1, SetupFacts
<1> QED BY <1>1, <1>2 DEF Qty

\* What is used of the order, the pass and the cancel.
LEMMA NowVersions ==
  ASSUME SettleInv
  PROVE  /\ order \in V /\ stored \in V /\ writes \in Seq(V)
         /\ poll.seen \in V /\ poll.filled \in 0..exchange.filled /\ poll.status \in Status
         /\ cancel.seen \in V /\ cancel.status \in Status
BY DEF SettleInv, OrderInv, PassInv, Passes, Cancels, V

\* An event the drain routes or applies.
LEMMA EventFacts ==
  ASSUME NEW n \in Nat, NEW ev \in Events(n)
  PROVE  /\ ~IsFill(ev) => ev.status \in Status /\ ev.cum \in 0..n
         /\ ev.status # None => ev.status \in Status /\ ev.cum \in 0..n
         /\ ev.cum # None => ev.cum \in 0..n
         /\ ev.cum = None => ev.qty \in 0..n
         /\ ev.qty = None => ev.cum \in 0..n
BY NoValueAssumption DEF Events, IsFill

\* Every step of the order is an update with a version of it, a cursor that is
\* backed, an order declared missing, a write that ends, or a crash.
LEMMA OrderSteps == SettleInv /\ [Next]_vars => OrderMoves
<1> SUFFICES ASSUME SettleInv, [Next]_vars PROVE OrderMoves
  OBVIOUS
<1>1. /\ MaxQty \in Nat /\ exchange.filled \in Nat /\ exchange.filled \in 0..MaxQty
      /\ setup \in Setup /\ exchange.state \in ExchangeStates
  BY NowFacts
<1>2. /\ order \in V /\ stored \in V /\ writes \in Seq(V)
      /\ poll.seen \in V /\ poll.filled \in 0..exchange.filled /\ poll.status \in Status
      /\ cancel.seen \in V /\ cancel.status \in Status
  BY NowVersions
<1>3. /\ \A st \in Status, c \in 0..exchange.filled :
           [status |-> st, cum |-> c, settled |-> 0] \in V
      /\ \A o \in V, st \in Status : [o EXCEPT !.status = st] \in V
      /\ \A o \in V, st \in Status, c \in 0..exchange.filled :
           [status |-> st, cum |-> c, settled |-> o.settled] \in V
  BY <1>1, VersionForms DEF V
<1>4. "cancelled" \in Status
  BY DEF Status, Terminal
<1>5. CASE StreamTake
  <2>1. CASE UNCHANGED <<order, writes>>
    BY <1>5, <2>1 DEF StreamTake, OrderMoves
  <2>2. ASSUME NEW f \in Feeds, queue[f] # <<>>, ~IsFill(Head(queue[f])),
               UpsertOrder([status |-> Head(queue[f]).status, cum |-> Head(queue[f]).cum,
                            settled |-> 0])
        PROVE  OrderMoves
    <3>1. PICK ev : ev = Head(queue[f])
      OBVIOUS
    <3>2. ev \in Events(exchange.filled)
      BY <2>2, <3>1, HeadTailProperties DEF SettleInv, StreamInv
    <3>3. ev.status \in Status /\ ev.cum \in 0..exchange.filled
      BY <1>1, <2>2, <3>1, <3>2, EventFacts
    <3> QED BY <1>3, <1>5, <2>2, <3>1, <3>3 DEF StreamTake, UpsertOrder, OrderMoves
  <2> QED BY <1>5, <2>1, <2>2 DEF StreamTake
<1>6. CASE StreamRoute
  <2>1. routing \in Events(exchange.filled)
    BY <1>6 DEF StreamRoute, SettleInv, StreamInv
  <2>2. CASE routing.status = None
    BY <1>6, <2>2 DEF StreamRoute, OrderMoves
  <2>3. CASE routing.status # None
    <3>1. routing.status \in Status /\ routing.cum \in 0..exchange.filled
      BY <1>1, <2>1, <2>3, EventFacts
    <3> QED BY <1>3, <1>6, <2>3, <3>1 DEF StreamRoute, OrderMoves
  <2> QED BY <2>2, <2>3
<1>7. CASE PollCheck
  BY <1>2, <1>3, <1>4, <1>7 DEF PollCheck, UpsertOrder, OrderMoves
<1>8. CASE PollApply
  BY <1>2, <1>3, <1>8 DEF PollApply, OrderMoves
<1>9. CASE PollCompare
  BY <1>9 DEF PollCompare, OrderMoves
<1>10. CASE CancelAck
  BY <1>1, <1>2, <1>3, <1>10 DEF CancelAck, OrderMoves
<1>11. CASE ShutdownRefresh
  BY <1>2, <1>3, <1>11 DEF ShutdownRefresh, UpsertOrder, OrderMoves
<1>12. CASE ShutdownForce
  BY <1>2, <1>3, <1>4, <1>12 DEF ShutdownForce, UpsertOrder, OrderMoves
<1>13. ASSUME NEW a \in Settlers, MarkSettled(a) PROVE OrderMoves
  <2>1. tasks[a] \in Settlements(exchange.filled, ledger) /\ tasks[a].pc = "mark"
    BY <1>13 DEF MarkSettled, SettleInv, TaskInv
  <2>2. tasks[a].cum \in 1..exchange.filled /\ Backed(ledger, tasks[a].cum)
    BY <1>1, <2>1, SettledIsBacked DEF SettleInv, LedgerInv
  <2> QED BY <1>1, <1>13, <2>2 DEF MarkSettled, OrderMoves
<1>14. CASE StoreOrder \/ StoreFails
  BY <1>14 DEF StoreOrder, StoreFails, OrderMoves
<1>15. ASSUME NEW a \in Settlers, Pay(a) \/ Receive(a) \/ Fee(a) \/ LedgerFails(a)
       PROVE  OrderMoves
  BY <1>15 DEF Pay, Receive, Fee, LedgerFails, Leg, SettlementFails, OrderMoves
<1>16. ASSUME NEW r \in Releasers, ReleaseRead(r) \/ ReleaseUnlock(r) PROVE OrderMoves
  BY <1>16 DEF ReleaseRead, ReleaseUnlock, OrderMoves
<1>17. CASE Tick \/ PollSelect \/ PollFetch \/ PollFetchOpen \/ PollFails \/ CancelIntent
            \/ Shutdown \/ CancelSend \/ ShutdownWait \/ RestoreSession \/ UNCHANGED vars
  BY <1>17 DEF Tick, PollSelect, PollFetch, PollFetchOpen, PollFails, CancelIntent, Shutdown,
       CancelSend, ShutdownWait, RestoreSession, vars, OrderMoves
<1>18. ASSUME (\E q \in 1..Qty : ExchangeFills(q)) \/
              (\E s \in {"closed", "canceled", "expired"} : ExchangeEnds(s))
       PROVE  OrderMoves
  BY <1>18 DEF ExchangeFills, ExchangeEnds, OrderMoves
<1> QED
  BY <1>5, <1>6, <1>7, <1>8, <1>9, <1>10, <1>11, <1>12, <1>13, <1>14, <1>15, <1>16, <1>17,
     <1>18 DEF Next, Settle, PollStep, CancelStep, Releasers, OrderMoves

-----------------------------------------------------------------------------
(* What the exchange fills and the ledger books only grows. *)

Grows ==
  /\ exchange.filled \in 0..MaxQty /\ exchange'.filled \in 0..MaxQty
  /\ exchange.filled <= exchange'.filled
  /\ ledger' \in Ledgers /\ Extends(ledger, ledger')

\* A leg is booked where none was, with the quantity of the settlement.
LEMMA LegSteps ==
  ASSUME SettleInv, NEW a \in Settlers, Pay(a) \/ Receive(a)
  PROVE  ledger' \in Ledgers /\ Extends(ledger, ledger')
<1>1. exchange.filled \in 0..MaxQty /\ MaxQty \in Nat
  BY NowFacts
<1>2. tasks[a] \in Settlements(exchange.filled, ledger) /\ tasks[a] # NoTask
  <2>1. tasks[a].pc \in {"pay", "receive"}
    BY DEF Pay, Receive
  <2> QED BY <2>1 DEF SettleInv, TaskInv, NoTask
<1>3. PICK c \in 1..MaxQty, q \in Units : c = tasks[a].cum /\ q = tasks[a].qty
  BY <1>1, <1>2 DEF Settlements, Units
<1>4. /\ ledger \in Ledgers
      /\ ledger.paid \in [1..MaxQty -> Units] /\ ledger.received \in [1..MaxQty -> Units]
      /\ ledger.locked \in Nat
  BY DEF SettleInv, LedgerInv, Ledgers
<1>5. CASE ledger' = ledger
  BY <1>1, <1>4, <1>5 DEF Extends, Units
<1>6. CASE /\ ledger.paid[c] = 0 /\ ledger.locked >= q
           /\ ledger' = [ledger EXCEPT !.paid[c] = q, !.locked = @ - q]
  <2>1. ledger.locked - q \in Nat
    BY <1>3, <1>4, <1>6 DEF Units
  <2>2. ledger' \in Ledgers
    BY <1>3, <1>4, <1>6, <2>1 DEF Ledgers
  <2>3. /\ ledger'.paid = [ledger.paid EXCEPT ![c] = q]
        /\ ledger'.received = ledger.received
    BY <1>4, <1>6 DEF Ledgers
  <2>4. Extends(ledger, ledger')
    BY <1>1, <1>3, <1>4, <1>6, <2>3 DEF Extends, Units
  <2> QED BY <2>2, <2>4
<1>7. CASE ledger.received[c] = 0 /\ ledger' = [ledger EXCEPT !.received[c] = q]
  <2>2. ledger' \in Ledgers
    BY <1>3, <1>4, <1>7 DEF Ledgers
  <2>3. /\ ledger'.received = [ledger.received EXCEPT ![c] = q]
        /\ ledger'.paid = ledger.paid
    BY <1>4, <1>7 DEF Ledgers
  <2>4. Extends(ledger, ledger')
    BY <1>1, <1>3, <1>4, <1>7, <2>3 DEF Extends, Units
  <2> QED BY <2>2, <2>4
<1> QED BY <1>3, <1>5, <1>6, <1>7 DEF Pay, Receive, Leg, SettlementFails

\* The other steps of the ledger book no leg.
LEMMA OtherLedgerSteps ==
  ASSUME SettleInv,
         \/ UNCHANGED ledger
         \/ \E a \in Settlers : Fee(a)
         \/ \E r \in Releasers : ReleaseUnlock(r)
  PROVE  ledger' \in Ledgers /\ Extends(ledger, ledger')
<1>1. exchange.filled \in 0..MaxQty /\ MaxQty \in Nat
  BY NowFacts
<1>2. /\ ledger \in Ledgers
      /\ ledger.paid \in [1..MaxQty -> Units] /\ ledger.received \in [1..MaxQty -> Units]
      /\ ledger.locked \in Nat
  BY DEF SettleInv, LedgerInv, Ledgers
<1>3. CASE ledger' = ledger
  BY <1>1, <1>2, <1>3 DEF Extends, Units
<1>4. ASSUME NEW a \in Settlers, Fee(a), ledger' # ledger
      PROVE  ledger' \in Ledgers /\ Extends(ledger, ledger')
  <2>1. tasks[a] \in Settlements(exchange.filled, ledger) /\ tasks[a] # NoTask
    BY <1>4 DEF SettleInv, TaskInv, Fee, NoTask
  <2>2. PICK c \in 1..MaxQty : c = tasks[a].cum
    BY <1>1, <2>1 DEF Settlements
  <2>3. ledger' = [ledger EXCEPT !.fees = @ \cup {c}]
    BY <1>4, <2>2 DEF Fee
  <2>4. ledger' \in Ledgers /\ ledger'.paid = ledger.paid /\ ledger'.received = ledger.received
    BY <1>2, <2>3 DEF Ledgers
  <2> QED BY <1>1, <1>2, <2>4 DEF Extends, Units
<1>5. ASSUME NEW r \in Releasers, ReleaseUnlock(r), ledger' # ledger
      PROVE  ledger' \in Ledgers /\ Extends(ledger, ledger')
  <2>1. release[r].amount \in Nat /\ release[r].reason \in {"filled", "cancelled"}
    BY <1>5 DEF SettleInv, ReleaseInv, Releases
  <2>2. PICK m \in Nat, s \in {"filled", "cancelled"} : m = release[r].amount /\ s = release[r].reason
    BY <2>1
  <2>3. ledger' = [ledger EXCEPT !.released[s] = m, !.locked = @ - m] /\ ledger.locked >= m
    BY <1>5, <2>2 DEF ReleaseUnlock
  <2>4. ledger.locked - m \in Nat
    BY <1>2, <2>3
  <2>5. ledger' \in Ledgers /\ ledger'.paid = ledger.paid /\ ledger'.received = ledger.received
    BY <1>2, <2>3, <2>4 DEF Ledgers
  <2> QED BY <1>1, <1>2, <2>5 DEF Extends, Units
<1> QED BY <1>3, <1>4, <1>5

\* Every step keeps the setup; the exchange, the flags and the ledger stay in their types.
LEMMA WorldStep == SettleInv /\ [Next]_vars => WorldInv' /\ Grows /\ setup' = setup
<1> SUFFICES ASSUME SettleInv, [Next]_vars PROVE WorldInv' /\ Grows /\ setup' = setup
  OBVIOUS
<1>1. /\ MaxQty \in Nat /\ Qty \in 1..MaxQty /\ exchange.filled \in 0..Qty
      /\ exchange.filled \in 0..MaxQty
  BY NowFacts
<1>2. /\ setup \in Setups /\ exchange \in [filled : 0..Qty, state : ExchangeStates]
      /\ paused \in BOOLEAN /\ running \in BOOLEAN /\ session \in BOOLEAN /\ faults \in Nat
  BY DEF SettleInv, WorldInv
<1>3. /\ setup' = setup /\ paused' \in BOOLEAN /\ running' \in BOOLEAN /\ session' \in BOOLEAN
      /\ faults' \in Nat
  <2> USE <1>2
  <2>1. CASE UNCHANGED <<setup, paused, running, session, faults>>
    BY <2>1
  <2>2. ASSUME NEW a \in Settlers, Settle(a) \/ LedgerFails(a)
        PROVE  setup' = setup /\ paused' \in BOOLEAN /\ UNCHANGED <<running, session>>
               /\ faults' \in Nat
    <3>1. CASE Settle(a)
      BY <3>1 DEF Settle, Pay, Receive, Fee, MarkSettled, Leg, SettlementFails
    <3>2. CASE LedgerFails(a)
      BY <3>2 DEF LedgerFails, SettlementFails
    <3> QED BY <2>2, <3>1, <3>2
  <2>3. CASE StreamTake \/ PollFails \/ StoreFails \/ Crash
    <3>1. /\ setup' = setup /\ running' = running /\ faults' \in {faults, faults + 1}
          /\ paused' \in {paused, FALSE} /\ session' \in {session, FALSE}
      BY <2>3 DEF StreamTake, PollFails, StoreFails, Crash
    <3>2. faults' \in Nat
      BY <3>1
    <3>3. paused' \in BOOLEAN /\ session' \in BOOLEAN /\ running' \in BOOLEAN
      BY <3>1, Zenon
    <3> QED BY <3>1, <3>2, <3>3
  <2>4. CASE Shutdown \/ ShutdownForce \/ RestoreSession
    BY <2>4 DEF Shutdown, ShutdownForce, RestoreSession
  <2>5. ASSUME \/ \E q \in 1..Qty : ExchangeFills(q)
               \/ \E s \in {"closed", "canceled", "expired"} : ExchangeEnds(s)
               \/ \E r \in Releasers : ReleaseRead(r) \/ ReleaseUnlock(r)
               \/ Tick \/ StreamRoute \/ PollSelect \/ PollStep \/ CancelIntent
               \/ CancelSend \/ CancelAck \/ ShutdownWait \/ ShutdownRefresh \/ StoreOrder
        PROVE  UNCHANGED <<setup, paused, running, session, faults>>
    BY <2>5 DEF ExchangeFills, ExchangeEnds, ReleaseRead, ReleaseUnlock, Tick, StreamRoute,
         PollSelect, PollStep, PollCheck, PollFetch, PollApply, PollFetchOpen, PollCompare,
         CancelIntent, CancelSend, CancelAck, ShutdownWait, ShutdownRefresh, StoreOrder
  <2> QED BY <2>1, <2>2, <2>3, <2>4, <2>5 DEF Next, CancelStep, Releasers, vars
<1>4. /\ exchange' \in [filled : 0..Qty, state : ExchangeStates]
      /\ exchange.filled <= exchange'.filled
  <2>1. CASE UNCHANGED exchange
    BY <1>1, <1>2, <2>1
  <2>2. ASSUME NEW q \in 1..Qty, ExchangeFills(q)
        PROVE  /\ exchange' \in [filled : 0..Qty, state : ExchangeStates]
               /\ exchange.filled <= exchange'.filled
    BY <1>1, <1>2, <2>2 DEF ExchangeFills, ExchangeStates
  <2>3. ASSUME NEW s \in {"closed", "canceled", "expired"}, ExchangeEnds(s)
        PROVE  /\ exchange' \in [filled : 0..Qty, state : ExchangeStates]
               /\ exchange.filled <= exchange'.filled
    BY <1>1, <1>2, <2>3 DEF ExchangeEnds, ExchangeStates
  <2>4. CASE CancelSend
    BY <1>1, <1>2, <2>4 DEF CancelSend, ExchangeStates
  <2>5. ASSUME \/ \E a \in Settlers : Settle(a) \/ LedgerFails(a)
               \/ \E r \in Releasers : ReleaseRead(r) \/ ReleaseUnlock(r)
               \/ Tick \/ StreamTake \/ StreamRoute \/ PollSelect \/ PollStep \/ PollFails
               \/ CancelIntent \/ Shutdown \/ CancelAck \/ ShutdownWait \/ ShutdownRefresh
               \/ ShutdownForce \/ StoreOrder \/ StoreFails \/ Crash \/ RestoreSession
        PROVE  UNCHANGED exchange
    BY <2>5 DEF Settle, Pay, Receive, Fee, MarkSettled, LedgerFails, ReleaseRead, ReleaseUnlock,
         Tick, StreamTake, StreamRoute, PollSelect, PollStep, PollCheck, PollFetch, PollApply,
         PollFetchOpen, PollCompare, PollFails, CancelIntent, Shutdown, CancelAck, ShutdownWait,
         ShutdownRefresh, ShutdownForce, StoreOrder, StoreFails, Crash, RestoreSession
  <2> QED BY <2>1, <2>2, <2>3, <2>4, <2>5 DEF Next, CancelStep, Releasers, vars
<1>5. ledger' \in Ledgers /\ Extends(ledger, ledger')
  <2>1. ASSUME \/ \E q \in 1..Qty : ExchangeFills(q)
               \/ \E s \in {"closed", "canceled", "expired"} : ExchangeEnds(s)
               \/ \E a \in Settlers : MarkSettled(a) \/ LedgerFails(a)
               \/ \E r \in Releasers : ReleaseRead(r)
               \/ Tick \/ StreamTake \/ StreamRoute \/ PollSelect \/ PollStep \/ PollFails
               \/ CancelIntent \/ Shutdown \/ CancelStep \/ StoreOrder \/ StoreFails \/ Crash
               \/ RestoreSession \/ UNCHANGED vars
        PROVE  UNCHANGED ledger
    BY <2>1 DEF ExchangeFills, ExchangeEnds, MarkSettled, LedgerFails, SettlementFails, ReleaseRead,
         Tick, StreamTake, StreamRoute, PollSelect, PollStep, PollCheck, PollFetch, PollApply,
         PollFetchOpen, PollCompare, PollFails, CancelIntent, Shutdown, CancelStep, CancelSend,
         CancelAck, ShutdownWait, ShutdownRefresh, ShutdownForce, StoreOrder, StoreFails, Crash,
         RestoreSession, vars
  <2>2. \/ UNCHANGED ledger
        \/ \E a \in Settlers : Pay(a) \/ Receive(a) \/ Fee(a)
        \/ \E r \in Releasers : ReleaseUnlock(r)
    BY <2>1 DEF Next, Settle, Releasers
  <2> QED BY <2>2, LegSteps, OtherLedgerSteps
<1>6. Grows
  <2>1. exchange'.filled \in 0..MaxQty
    BY <1>1, <1>4
  <2> QED BY <1>1, <1>4, <1>5, <2>1 DEF Grows
<1>7. WorldInv'
  BY <1>2, <1>3, <1>4 DEF WorldInv, Qty
<1> QED BY <1>3, <1>6, <1>7

\* The sets of the invariant have what they had before the step.
LEMMA SetsStay ==
  ASSUME SettleInv, Grows
  PROVE  /\ V \subseteq Versions(exchange'.filled, ledger')
         /\ Events(exchange.filled) \subseteq Events(exchange'.filled)
         /\ Settlements(exchange.filled, ledger) \subseteq Settlements(exchange'.filled, ledger')
         /\ Passes(exchange.filled, ledger) \subseteq Passes(exchange'.filled, ledger')
         /\ Cancels(exchange.filled, ledger) \subseteq Cancels(exchange'.filled, ledger')
         /\ Releases(exchange.filled) \subseteq Releases(exchange'.filled)
BY NowFacts, SetsGrow DEF Grows, V, SettleInv, LedgerInv

\* The order and all of its versions stay within the exchange and the ledger.
LEMMA OrderStep == SettleInv /\ [Next]_vars => OrderInv'
<1> SUFFICES ASSUME SettleInv, [Next]_vars PROVE OrderInv'
  OBVIOUS
<1>1. OrderMoves /\ Grows
  BY OrderSteps, WorldStep
<1>2. exchange.filled \in Nat
  BY NowFacts
<1>3. order \in V /\ stored \in V /\ writes \in Seq(V)
  BY NowVersions
<1>4. order' \in V /\ stored' \in V /\ writes' \in Seq(V)
  <2>1. CASE UNCHANGED <<order, writes, stored>>
    BY <1>3, <2>1
  <2>2. ASSUME NEW new \in V, Upsert(new), UNCHANGED stored
        PROVE  order' \in V /\ stored' \in V /\ writes' \in Seq(V)
    <3>1. CASE UNCHANGED <<order, writes>>
      BY <1>3, <2>2, <3>1
    <3>2. CASE order' = Merge(order, new) /\ Persist(order')
      <4>1. order' \in V
        BY <1>2, <1>3, <3>2, MergeFacts DEF V
      <4> QED BY <1>3, <2>2, <3>2, <4>1, PersistFacts
    <3> QED BY <2>2, <3>1, <3>2 DEF Upsert
  <2>3. ASSUME NEW c \in 0..exchange.filled, Backed(ledger, c), UNCHANGED stored,
               order' = [order EXCEPT !.settled = Larger(@, c)], Persist(order')
        PROVE  order' \in V /\ stored' \in V /\ writes' \in Seq(V)
    <3>1. order' \in V
      BY <1>2, <1>3, <2>3, VersionForms DEF V
    <3> QED BY <1>3, <2>3, <3>1, PersistFacts
  <2>4. CASE /\ UNCHANGED stored /\ Persist(order')
             /\ order' = [order EXCEPT !.status = "external_missing"]
    <3>1. order' \in V
      <4>1. "external_missing" \in Status
        BY DEF Status, Terminal
      <4> QED BY <1>2, <1>3, <2>4, <4>1, VersionForms DEF V
    <3> QED BY <1>3, <2>4, <3>1, PersistFacts
  <2>5. CASE /\ writes # <<>> /\ writes' = Tail(writes) /\ stored' \in {stored, Head(writes)}
             /\ UNCHANGED order
    BY <1>3, <2>5, HeadTailProperties
  <2>6. CASE Crash
    BY <1>3, <2>6, EmptySeq DEF Crash
  <2> QED BY <1>1, <2>1, <2>2, <2>3, <2>4, <2>5, <2>6 DEF OrderMoves
<1>5. V \subseteq Versions(exchange'.filled, ledger')
  BY <1>1, SetsStay
<1> QED BY <1>4, <1>5, SeqMonotonic DEF OrderInv

-----------------------------------------------------------------------------
(* The user stream. *)

\* The orders in which events may be queued are sequences of them.
LEMMA OrdersOfEvents ==
  ASSUME NEW S, NEW evs \in SUBSET S, IsFiniteSet(evs), NEW s \in InSomeOrder(evs)
  PROVE  s \in Seq(S)
<1>1. ASSUME NEW R \in SUBSET evs, NEW t \in SetToSeqs(R) PROVE t \in Seq(S)
  <2>1. Cardinality(R) \in Nat
    BY FS_Subset, FS_CardinalityType
  <2>2. t \in [1..Cardinality(R) -> S]
    BY <1>1 DEF SetToSeqs
  <2> QED BY <2>1, <2>2
<1>2. s \in SetToAllKPermutations(evs) \cup SetToSeqs(evs)
  BY DEF InSomeOrder
<1> QED BY <1>1, <1>2 DEF SetToAllKPermutations

\* What is sent is queued.
LEMMA SendFacts ==
  ASSUME NEW S, queue \in [Feeds -> Seq(S)], NEW evs \in SUBSET S, IsFiniteSet(evs), Send(evs)
  PROVE  queue' \in [Feeds -> Seq(S)]
<1>1. ASSUME NEW k
      PROVE  {ev \in evs : ev.kind = k} \in SUBSET S /\ IsFiniteSet({ev \in evs : ev.kind = k})
  BY FS_Subset
<1>2. PICK o \in InSomeOrder({ev \in evs : ev.kind = "order"}),
           t \in InSomeOrder({ev \in evs : ev.kind = "trade"}) :
        queue' = [queue EXCEPT !["order"] = @ \o o, !["trade"] = @ \o t]
  BY DEF Send
<1>3. o \in Seq(S) /\ t \in Seq(S)
  BY <1>1, <1>2, OrdersOfEvents
<1>4. queue["order"] \o o \in Seq(S) /\ queue["trade"] \o t \in Seq(S)
  BY <1>3, ConcatProperties DEF Feeds
<1> QED BY <1>2, <1>4 DEF Feeds

\* The events of an exchange that has filled as much.
LEMMA ExchangeEvents ==
  ASSUME setup \in Setup, MaxQty \in Nat, NEW n \in 0..MaxQty, NEW st \in ExchangeStates,
         NEW q \in 0..n, NEW x, x = [filled |-> n, state |-> st]
  PROVE  /\ OrderEvents(x) \in SUBSET Events(n) /\ IsFiniteSet(OrderEvents(x))
         /\ TradeEvents(x, q) \in SUBSET Events(n) /\ IsFiniteSet(TradeEvents(x, q))
<1> DEFINE E(v) == [kind |-> "order", id |-> None, status |-> Reported(x), cum |-> n, qty |-> v]
           T(v) == [kind |-> "trade", id |-> n, status |-> None, cum |-> v, qty |-> q]
<1>1. Reported(x) \in Status
  BY ReportedFacts
<1>2. Qty \in MaybeUnits /\ None \in MaybeUnits
  BY DEF Setup, Qty, MaybeUnits, Units
<1>3. OrderEvents(x) \subseteq {E(Qty), E(None)} /\ TradeEvents(x, q) \subseteq {T(n), T(None)}
  BY DEF OrderEvents, TradeEvents
<1>4. ASSUME NEW u, NEW v PROVE IsFiniteSet({u, v})
  <2>1. IsFiniteSet({u})
    BY FS_Singleton
  <2>2. IsFiniteSet({u} \cup {v})
    BY <2>1, FS_AddElement
  <2>3. {u, v} = {u} \cup {v}
    OBVIOUS
  <2> QED BY <2>2, <2>3
<1>5. E(Qty) \in Events(n) /\ E(None) \in Events(n)
  <2>1. ASSUME NEW v \in MaybeUnits
        PROVE  E(v) \in [kind : {"order"}, id : {None}, status : Status, cum : 0..n,
                         qty : MaybeUnits]
    BY <1>1
  <2> HIDE DEF E
  <2> QED BY <1>2, <2>1 DEF Events
<1>6. T(n) \in Events(n) /\ T(None) \in Events(n)
  BY DEF Events
<1> HIDE DEF E, T
<1>7. OrderEvents(x) \in SUBSET Events(n) /\ TradeEvents(x, q) \in SUBSET Events(n)
  BY <1>3, <1>5, <1>6
<1> QED BY <1>3, <1>4, <1>7, FS_Subset

\* The queue, the event on its way and what was seen last stay events of the exchange.
LEMMA StreamStep == SettleInv /\ [Next]_vars => StreamInv'
<1> SUFFICES ASSUME SettleInv, [Next]_vars PROVE StreamInv'
  OBVIOUS
<1> DEFINE n == exchange.filled
           m == exchange'.filled
<1>1. Grows /\ WorldInv' /\ setup' = setup
  BY WorldStep
<1>2. /\ MaxQty \in Nat /\ n \in 0..MaxQty /\ m \in 0..MaxQty /\ n <= m /\ setup \in Setup
      /\ exchange.state \in ExchangeStates
  BY <1>1, NowFacts DEF Grows
<1>3. /\ queue \in [Feeds -> Seq(Events(n))] /\ routing \in Events(n) \cup {None} /\ fillSeen \in Seen
  BY DEF SettleInv, StreamInv
<1>4. Events(n) \subseteq Events(m)
  BY <1>1, SetsStay
<1>5. /\ queue \in [Feeds -> Seq(Events(m))] /\ routing \in Events(m) \cup {None}
  BY <1>3, <1>4, SeqMonotonic
<1>6. exchange \in [filled : 0..Qty, state : ExchangeStates]
  BY DEF SettleInv, WorldInv
<1>7. ASSUME NEW q \in 1..Qty, ExchangeFills(q) PROVE StreamInv'
  <2>1. PICK x : x = exchange'
    OBVIOUS
  <2>2. /\ x = [filled |-> n + q, state |-> IF n + q = Qty THEN "closed" ELSE "open"]
        /\ Send(OrderEvents(x) \cup TradeEvents(x, q))
    BY <1>7, <2>1 DEF ExchangeFills
  <2>3. PICK st \in ExchangeStates : x = [filled |-> m, state |-> st]
    BY <2>1, <2>2 DEF ExchangeStates
  <2>4. q \in 0..m
    <3>1. q \in Nat
      BY <1>7, NowFacts
    <3> QED BY <1>2, <2>1, <2>2, <3>1
  <2>5. /\ OrderEvents(x) \in SUBSET Events(m) /\ IsFiniteSet(OrderEvents(x))
        /\ TradeEvents(x, q) \in SUBSET Events(m) /\ IsFiniteSet(TradeEvents(x, q))
    BY <1>2, <2>3, <2>4, ExchangeEvents
  <2>6. IsFiniteSet(OrderEvents(x) \cup TradeEvents(x, q))
    BY <2>5, FS_Union
  <2>7. queue' \in [Feeds -> Seq(Events(m))]
    BY <1>5, <2>2, <2>5, <2>6, SendFacts
  <2> QED BY <1>3, <1>5, <1>7, <2>7 DEF ExchangeFills, StreamInv
<1>8. ASSUME NEW st \in ExchangeStates, exchange' = [exchange EXCEPT !.state = st],
             Send(OrderEvents(exchange')), UNCHANGED <<routing, fillSeen>>
      PROVE  StreamInv'
  <2>1. PICK x : x = exchange'
    OBVIOUS
  <2>2. x = [filled |-> m, state |-> st] /\ Send(OrderEvents(x)) /\ 0 \in 0..m
    BY <1>2, <1>6, <1>8, <2>1
  <2>3. OrderEvents(x) \in SUBSET Events(m) /\ IsFiniteSet(OrderEvents(x))
    BY <1>2, <2>2, ExchangeEvents
  <2>4. queue' \in [Feeds -> Seq(Events(m))]
    BY <1>5, <2>2, <2>3, SendFacts
  <2> QED BY <1>3, <1>5, <1>8, <2>4 DEF StreamInv
<1>9. ASSUME NEW s \in {"closed", "canceled", "expired"}, ExchangeEnds(s) PROVE StreamInv'
  BY <1>8, <1>9 DEF ExchangeEnds, ExchangeStates
<1>10. CASE UNCHANGED <<queue, routing, fillSeen>>
  BY <1>3, <1>5, <1>10 DEF StreamInv
<1>11. CASE CancelSend
  <2>1. CASE UNCHANGED queue
    BY <1>10, <1>11, <2>1 DEF CancelSend
  <2>2. CASE exchange' = [exchange EXCEPT !.state = "canceled"] /\ Send(OrderEvents(exchange'))
    BY <1>8, <1>11, <2>2 DEF CancelSend, ExchangeStates
  <2> QED BY <1>11, <2>1, <2>2 DEF CancelSend
<1>12. CASE StreamTake
  <2>1. PICK f \in Feeds :
          /\ queue[f] # <<>>
          /\ \/ queue' = [queue EXCEPT ![f] = Tail(@)]
             \/ UNCHANGED queue
          /\ \/ UNCHANGED <<fillSeen, routing>>
             \/ /\ routing' = Head(queue[f])
                /\ fillSeen' = [ fingerprint |-> Fingerprint(Head(queue[f])),
                                 total |-> IF /\ Head(queue[f]).status = None
                                              /\ Head(queue[f]).cum # None
                                           THEN Head(queue[f]).cum ELSE fillSeen.total ]
    BY <1>12 DEF StreamTake
  <2>2. PICK ev : ev = Head(queue[f])
    OBVIOUS
  <2>3. ev \in Events(n) /\ ev \in Events(m) /\ Tail(queue[f]) \in Seq(Events(m))
    BY <1>3, <1>4, <1>5, <2>1, <2>2, HeadTailProperties
  <2>4. queue' \in [Feeds -> Seq(Events(m))] /\ routing' \in Events(m) \cup {None}
    BY <1>5, <2>1, <2>2, <2>3
  <2>5. fillSeen' \in Seen
    <3>1. CASE UNCHANGED fillSeen
      BY <1>3, <3>1
    <3>2. CASE fillSeen' = [ fingerprint |-> Fingerprint(ev),
                             total |-> IF ev.status = None /\ ev.cum # None THEN ev.cum
                                       ELSE fillSeen.total ]
      <4>1. ev.id \in MaybeUnits /\ ev.cum \in MaybeUnits /\ ev.qty \in MaybeUnits
        BY <1>2, <2>3 DEF Events, MaybeUnits, Units
      <4>2. Fingerprint(ev) \in Fingerprints
        BY <4>1 DEF Fingerprint, Fingerprints
      <4>3. (IF ev.status = None /\ ev.cum # None THEN ev.cum ELSE fillSeen.total) \in Units
        BY <1>3, <4>1 DEF Seen, MaybeUnits
      <4> QED BY <3>2, <4>2, <4>3 DEF Seen
    <3> QED BY <2>1, <2>2, <3>1, <3>2
  <2> QED BY <2>4, <2>5 DEF StreamInv
<1>13. CASE StreamRoute
  BY <1>3, <1>5, <1>13 DEF StreamRoute, StreamInv
<1>14. CASE Crash
  <2>1. NoSeen \in Seen
    BY <1>2 DEF NoSeen, Seen, Units
  <2> QED BY <1>14, <2>1, EmptySeq DEF Crash, StreamInv
<1>15. ASSUME \/ \E a \in Settlers : Settle(a) \/ LedgerFails(a)
              \/ \E r \in Releasers : ReleaseRead(r) \/ ReleaseUnlock(r)
              \/ Tick \/ PollSelect \/ PollStep \/ PollFails \/ CancelIntent \/ Shutdown
              \/ CancelAck \/ ShutdownWait \/ ShutdownRefresh \/ ShutdownForce \/ StoreOrder
              \/ StoreFails \/ RestoreSession \/ UNCHANGED vars
       PROVE  UNCHANGED <<queue, routing, fillSeen>>
  BY <1>15 DEF Settle, Pay, Receive, Fee, MarkSettled, LedgerFails, ReleaseRead, ReleaseUnlock,
       Tick, PollSelect, PollStep, PollCheck, PollFetch, PollApply, PollFetchOpen, PollCompare,
       PollFails, CancelIntent, Shutdown, CancelAck, ShutdownWait, ShutdownRefresh,
       ShutdownForce, StoreOrder, StoreFails, RestoreSession, vars
<1> QED
  BY <1>7, <1>9, <1>10, <1>11, <1>12, <1>13, <1>14, <1>15 DEF Next, CancelStep, Releasers

-----------------------------------------------------------------------------
(* The settlements. *)

\* The order only moves forward in a step that is not a crash.
LEMMA ForwardStep ==
  ASSUME SettleInv, [Next]_vars, ~Crash
  PROVE  /\ order'.cum >= order.cum /\ order'.settled >= order.settled
         /\ order.status \in Terminal => order'.status = order.status
<1>1. OrderMoves /\ exchange.filled \in Nat /\ order \in V
  BY OrderSteps, NowFacts, NowVersions
<1>2. /\ order \in [status : Status, cum : 0..exchange.filled, settled : 0..exchange.filled]
      /\ order.cum \in Int /\ order.settled \in Int
  BY <1>1 DEF V, Versions
<1>3. CASE UNCHANGED order
  BY <1>2, <1>3
<1>4. ASSUME NEW new \in V, Upsert(new)
      PROVE  /\ order'.cum >= order.cum /\ order'.settled >= order.settled
             /\ order.status \in Terminal => order'.status = order.status
  <2>1. CASE UNCHANGED order
    BY <1>3, <2>1
  <2>2. CASE Accepts(order.status, new.status) /\ order' = Merge(order, new)
    <3>1. order'.cum >= order.cum /\ order'.settled >= order.settled /\ order'.status = new.status
      BY <1>1, <2>2, MergeFacts DEF V
    <3>2. order.status \in Terminal => ValidNext[order.status] = {}
      BY DEF Terminal, ValidNext
    <3> QED BY <2>2, <3>1, <3>2 DEF Accepts
  <2> QED BY <1>4, <2>1, <2>2 DEF Upsert
<1>5. ASSUME NEW c \in 0..exchange.filled, order' = [order EXCEPT !.settled = Larger(@, c)]
      PROVE  /\ order'.cum >= order.cum /\ order'.settled >= order.settled
             /\ order.status \in Terminal => order'.status = order.status
  BY <1>1, <1>2, <1>5 DEF Larger
<1>6. CASE /\ order.status \in {"open", "partially_filled"}
           /\ order' = [order EXCEPT !.status = "external_missing"]
  BY <1>2, <1>6 DEF Terminal
<1> QED BY <1>1, <1>3, <1>4, <1>5, <1>6 DEF OrderMoves

\* The settlement the tracker dispatches for the progress of the order.
LEMMA DispatchFacts ==
  ASSUME MaxQty \in Nat, NEW n \in 0..MaxQty, NEW l,
         tasks \in [Settlers -> Settlements(n, l)], NEW o \in Versions(n, l)
  PROVE  DispatchUnsettled(o) \in [Settlers -> Settlements(n, l)]
<1>1. o.cum \in 0..n /\ o.settled \in 0..n
  BY DEF Versions
<1>2. CASE o.cum > o.settled
  <2>1. Dispatch(o.cum) \in Settlers /\ o.cum \in Nat /\ o.cum <= n
    BY <1>1, <1>2 DEF Settlers
  <2>2. BeginSettlement(Dispatch(o.cum), o.cum, o) \in [Settlers -> Settlements(n, l)]
    BY <2>1, BeginFacts
  <2> QED BY <2>2 DEF DispatchUnsettled
<1>3. CASE ~(o.cum > o.settled)
  BY <1>3 DEF DispatchUnsettled
<1> QED BY <1>2, <1>3

\* A settlement goes on when its leg is booked with its quantity.
LEMMA LegTasks ==
  ASSUME NEW n \in Nat, NEW l, tasks \in [Settlers -> Settlements(n, l)], NEW a \in Settlers,
         tasks[a] # NoTask,
         NEW p \in {"receive", "fee", "mark"}, tasks' = [tasks EXCEPT ![a].pc = p],
         p = "receive" => l.paid[tasks[a].cum] = tasks[a].qty,
         p = "fee" => tasks[a].pc = "receive" /\ l.received[tasks[a].cum] = tasks[a].qty,
         p = "mark" => tasks[a].pc = "fee"
  PROVE  tasks' \in [Settlers -> Settlements(n, l)]
<1>1. PICK t \in Settlements(n, l) : t = tasks[a]
  OBVIOUS
<1>2. /\ t \in [pc : TaskSteps, cum : 1..n, qty : 1..n]
      /\ t.qty <= t.cum /\ Backed(l, t.cum - t.qty)
      /\ t.pc \in {"receive", "fee", "mark"} => l.paid[t.cum] = t.qty
      /\ t.pc \in {"fee", "mark"} => l.received[t.cum] = t.qty
  BY <1>1 DEF Settlements
<1>3. [t EXCEPT !.pc = p] \in [pc : TaskSteps, cum : 1..n, qty : 1..n]
  BY <1>2 DEF TaskSteps
<1>4. PICK u : u = [t EXCEPT !.pc = p]
  OBVIOUS
<1>5. u.pc = p /\ u.cum = t.cum /\ u.qty = t.qty
  BY <1>2, <1>4
<1>6. l.paid[u.cum] = u.qty /\ (p # "receive" => l.received[u.cum] = u.qty)
  BY <1>1, <1>2, <1>5
<1>7. u \in Settlements(n, l)
  BY <1>2, <1>3, <1>4, <1>5, <1>6 DEF Settlements
<1>8. tasks' = [tasks EXCEPT ![a] = u]
  BY <1>1, <1>4
<1> QED BY <1>7, <1>8

\* Every settlement stays on a cursor that is backed, with its legs booked as it goes on.
LEMMA TaskStep == SettleInv /\ [Next]_vars => TaskInv'
<1> SUFFICES ASSUME SettleInv, [Next]_vars PROVE TaskInv'
  OBVIOUS
<1>1. PICK n, l : n = exchange'.filled /\ l = ledger'
  OBVIOUS
<1>2. /\ Grows /\ OrderInv' /\ OrderInv /\ MaxQty \in Nat /\ exchange.filled \in Nat
      /\ exchange.filled <= n /\ n \in 0..MaxQty /\ n \in Nat
  BY <1>1, WorldStep, OrderStep, NowFacts DEF Grows, SettleInv
<1>3. tasks \in [Settlers -> Settlements(n, l)] /\ order' \in Versions(n, l)
  BY <1>1, <1>2, SetsStay DEF SettleInv, TaskInv, OrderInv
<1> SUFFICES tasks' \in [Settlers -> Settlements(n, l)]
  BY <1>1 DEF TaskInv
<1>4. NoTask \in Settlements(n, l) /\ Stream \in Settlers /\ Poll \in Settlers
  BY DEF Settlements, Settlers
<1>5. ASSUME NEW new, SettleAfterUpsert(new) PROVE tasks' \in [Settlers -> Settlements(n, l)]
  BY <1>2, <1>3, <1>5, DispatchFacts DEF SettleAfterUpsert
<1>6. CASE UNCHANGED tasks
  BY <1>3, <1>6
<1>7. CASE StreamTake \/ PollCheck \/ CancelAck \/ ShutdownRefresh \/ ShutdownForce
  <2>1. UNCHANGED tasks \/ \E new : SettleAfterUpsert(new)
    BY <1>7 DEF StreamTake, PollCheck, CancelAck, ShutdownRefresh, ShutdownForce, UpsertOrder
  <2> QED BY <1>5, <1>6, <2>1
<1>8. CASE Tick
  BY <1>2, <1>3, <1>8, DispatchFacts DEF Tick
<1>9. CASE StreamRoute
  <2>1. routing \in Events(exchange.filled)
    BY <1>9 DEF StreamRoute, SettleInv, StreamInv
  <2>2. PICK f : /\ f = IF routing.cum # None THEN routing.cum ELSE order.cum + routing.qty
                 /\ tasks' = tasks \/ tasks' = BeginSettlement(Stream, f, order')
    BY <1>9 DEF StreamRoute
  <2>3. order.cum \in 0..exchange.filled /\ order'.cum \in 0..n
    BY <1>2, <1>3 DEF OrderInv, Versions
  <2>4. order'.cum >= order.cum
    <3>1. ~Crash
      BY <1>9 DEF StreamRoute, Crash, SettleInv, WorldInv
    <3> QED BY <3>1, ForwardStep
  <2>5. /\ routing.cum # None => routing.cum \in 0..exchange.filled
        /\ routing.cum = None => routing.qty \in 0..exchange.filled
    BY <1>2, <2>1, EventFacts
  <2>6. f \in Nat /\ (order'.cum = 0 => f <= n)
    BY <1>2, <2>2, <2>3, <2>4, <2>5
  <2> QED BY <1>2, <1>3, <1>4, <2>2, <2>6, BeginFacts
<1>10. CASE PollApply
  <2>1. poll.filled \in 0..exchange.filled
    BY NowVersions
  <2>2. poll.filled \in Nat /\ poll.filled <= n
    BY <1>2, <2>1
  <2>3. tasks' = tasks \/ tasks' = BeginSettlement(Poll, poll.filled, order')
    BY <1>10 DEF PollApply
  <2> QED BY <1>2, <1>3, <1>4, <2>2, <2>3, BeginFacts
<1>11. CASE Crash
  BY <1>4, <1>11 DEF Crash
<1>12. ASSUME NEW a \in Settlers, tasks' = [tasks EXCEPT ![a] = NoTask]
       PROVE  tasks' \in [Settlers -> Settlements(n, l)]
  BY <1>3, <1>4, <1>12
<1>13. ASSUME NEW a \in Settlers, Pay(a) PROVE tasks' \in [Settlers -> Settlements(n, l)]
  <2>1. tasks[a] # NoTask
    BY <1>13 DEF Pay, NoTask
  <2>2. CASE SettlementFails(a)
    BY <1>12, <2>2 DEF SettlementFails
  <2>3. CASE /\ tasks' = [tasks EXCEPT ![a].pc = "receive"]
             /\ l.paid[tasks[a].cum] = tasks[a].qty
    BY <1>2, <1>3, <2>1, <2>3, LegTasks
  <2>4. PICK c, q : c = tasks[a].cum /\ q = tasks[a].qty
    OBVIOUS
  <2>5. ASSUME ledger' = [ledger EXCEPT !.paid[c] = q, !.locked = @ - q]
        PROVE  l.paid[c] = q
    <3>1. c \in 1..MaxQty
      BY <1>2, <1>3, <2>1, <2>4 DEF Settlements
    <3>2. ledger.paid \in [1..MaxQty -> Units] /\ ledger \in Ledgers
      BY DEF SettleInv, LedgerInv, Ledgers
    <3> QED BY <1>1, <2>5, <3>1, <3>2 DEF Ledgers
  <2> QED BY <1>1, <1>13, <2>2, <2>3, <2>4, <2>5 DEF Pay, Leg
<1>14. ASSUME NEW a \in Settlers, Receive(a) PROVE tasks' \in [Settlers -> Settlements(n, l)]
  <2>1. tasks[a] # NoTask /\ tasks[a].pc = "receive"
    BY <1>14 DEF Receive, NoTask
  <2>2. CASE SettlementFails(a)
    BY <1>12, <2>2 DEF SettlementFails
  <2>3. CASE /\ tasks' = [tasks EXCEPT ![a].pc = "fee"]
             /\ l.received[tasks[a].cum] = tasks[a].qty
    BY <1>2, <1>3, <2>1, <2>3, LegTasks
  <2>4. PICK c, q : c = tasks[a].cum /\ q = tasks[a].qty
    OBVIOUS
  <2>5. ASSUME ledger' = [ledger EXCEPT !.received[c] = q]
        PROVE  l.received[c] = q
    <3>1. c \in 1..MaxQty
      BY <1>2, <1>3, <2>1, <2>4 DEF Settlements
    <3>2. ledger.received \in [1..MaxQty -> Units] /\ ledger \in Ledgers
      BY DEF SettleInv, LedgerInv, Ledgers
    <3> QED BY <1>1, <2>5, <3>1, <3>2 DEF Ledgers
  <2> QED BY <1>1, <1>14, <2>2, <2>3, <2>4, <2>5 DEF Receive, Leg
<1>15. ASSUME NEW a \in Settlers, Fee(a) PROVE tasks' \in [Settlers -> Settlements(n, l)]
  <2>1. tasks[a] # NoTask /\ tasks[a].pc = "fee" /\ tasks' = [tasks EXCEPT ![a].pc = "mark"]
    BY <1>15 DEF Fee, NoTask
  <2> QED BY <1>2, <1>3, <2>1, LegTasks
<1>16. ASSUME NEW a \in Settlers, MarkSettled(a) \/ LedgerFails(a)
       PROVE  tasks' \in [Settlers -> Settlements(n, l)]
  BY <1>12, <1>16 DEF MarkSettled, LedgerFails, SettlementFails
<1>17. ASSUME \/ \E q \in 1..Qty : ExchangeFills(q)
              \/ \E s \in {"closed", "canceled", "expired"} : ExchangeEnds(s)
              \/ \E r \in Releasers : ReleaseRead(r) \/ ReleaseUnlock(r)
              \/ PollSelect \/ PollFetch \/ PollFetchOpen \/ PollCompare \/ PollFails
              \/ CancelIntent \/ Shutdown \/ CancelSend \/ ShutdownWait \/ StoreOrder
              \/ StoreFails \/ RestoreSession \/ UNCHANGED vars
       PROVE  UNCHANGED tasks
  BY <1>17 DEF ExchangeFills, ExchangeEnds, ReleaseRead, ReleaseUnlock, PollSelect, PollFetch,
       PollFetchOpen, PollCompare, PollFails, CancelIntent, Shutdown, CancelSend, ShutdownWait,
       StoreOrder, StoreFails, RestoreSession, vars
<1> QED
  BY <1>6, <1>7, <1>8, <1>9, <1>10, <1>11, <1>13, <1>14, <1>15, <1>16, <1>17
     DEF Next, Settle, PollStep, CancelStep, Releasers

-----------------------------------------------------------------------------
(* The pass, the cancel and the releases. *)

\* What the pass and the cancel saw of the order stays a version of it.
LEMMA PassStep == SettleInv /\ [Next]_vars => PassInv'
<1> SUFFICES ASSUME SettleInv, [Next]_vars PROVE PassInv'
  OBVIOUS
<1>1. PICK n, l : n = exchange'.filled /\ l = ledger'
  OBVIOUS
<1>2. /\ Grows /\ MaxQty \in Nat /\ n \in 0..MaxQty /\ exchange.filled \in 0..n
      /\ setup \in Setup /\ exchange.state \in ExchangeStates /\ exchange.filled \in Nat
  BY <1>1, WorldStep, NowFacts DEF Grows
<1>3. /\ poll \in Passes(n, l) /\ cancel \in Cancels(n, l) /\ order \in Versions(n, l)
  BY <1>1, <1>2, SetsStay DEF SettleInv, PassInv, OrderInv, V
<1> SUFFICES poll' \in Passes(n, l) /\ cancel' \in Cancels(n, l)
  BY <1>1 DEF PassInv
<1>4. /\ Reported(exchange) \in Status
      /\ AdjustPartialFill(Reported(exchange), exchange.filled, Qty) \in Status
  BY <1>2, ReportedFacts
<1>5. {"open", "cancelled", "pending_cancel"} \subseteq Status
  BY DEF Status, Terminal, Pollable
<1>6. Placed \in Versions(n, l)
  BY <1>2, <1>5, VersionForms DEF Placed
<1>7. NoPoll \in Passes(n, l) /\ NoCancel \in Cancels(n, l)
  BY <1>2, <1>5, <1>6 DEF NoPoll, NoCancel, Passes, Cancels
<1>8. CASE UNCHANGED <<poll, cancel>>
  BY <1>3, <1>8
<1>9. CASE PollSelect
  <2>1. poll' = [NoPoll EXCEPT !.pc = "check", !.seen = order] /\ cancel' = cancel
    BY <1>9 DEF PollSelect
  <2> QED BY <1>3, <1>7, <2>1 DEF Passes
<1>10. CASE PollCheck \/ PollApply
  <2>1. cancel' = cancel /\ \E p \in {"fetch", "fetchOpen"} : poll' = [poll EXCEPT !.pc = p]
    BY <1>10 DEF PollCheck, PollApply
  <2> QED BY <1>3, <2>1 DEF Passes
<1>11. CASE PollFetch
  <2>1. PICK st \in Status, q \in 0..n :
          poll' = [poll EXCEPT !.pc = "apply", !.filled = q, !.status = st]
    BY <1>2, <1>4, <1>11 DEF PollFetch
  <2>2. cancel' = cancel
    BY <1>11 DEF PollFetch
  <2> QED BY <1>3, <2>1, <2>2 DEF Passes
<1>12. CASE PollFetchOpen
  <2>1. PICK st \in Status : poll' = [poll EXCEPT !.pc = "compare", !.status = st]
    BY <1>4, <1>12 DEF PollFetchOpen
  <2>2. cancel' = cancel
    BY <1>12 DEF PollFetchOpen
  <2> QED BY <1>3, <2>1, <2>2 DEF Passes
<1>13. CASE PollCompare \/ PollFails \/ Crash
  <2>1. cancel' \in {cancel, NoCancel} /\ poll' \in {NoPoll, [poll EXCEPT !.pc = "fetchOpen"]}
    BY <1>13 DEF PollCompare, PollFails, Crash
  <2>2. [poll EXCEPT !.pc = "fetchOpen"] \in Passes(n, l)
    BY <1>3 DEF Passes
  <2> QED BY <1>3, <1>7, <2>1, <2>2
<1>14. CASE CancelIntent \/ Shutdown
  <2>1. CASE CancelIntent
    <3>1. /\ poll' = poll
          /\ cancel' = cancel \/ cancel' = [NoCancel EXCEPT !.pc = "send", !.seen = order]
      BY <2>1, Zenon DEF CancelIntent
    <3>2. [NoCancel EXCEPT !.pc = "send", !.seen = order] \in Cancels(n, l)
      BY <1>3, <1>7 DEF Cancels
    <3> QED BY <1>3, <3>1, <3>2
  <2>2. CASE Shutdown
    <3>1. PICK p \in {"send", "force"} :
            poll' = poll /\ cancel' = [NoCancel EXCEPT !.pc = p, !.kind = "shutdown", !.seen = order]
      BY <2>2, Zenon DEF Shutdown
    <3>2. [NoCancel EXCEPT !.pc = p, !.kind = "shutdown", !.seen = order] \in Cancels(n, l)
      BY <1>3, <1>7, <3>1 DEF Cancels
    <3> QED BY <1>3, <3>1, <3>2
  <2> QED BY <1>14, <2>1, <2>2
<1>15. CASE CancelSend \/ CancelAck \/ ShutdownRefresh \/ ShutdownForce
  <2>1. /\ poll' = poll
        /\ \/ cancel' = NoCancel \/ cancel' = [cancel EXCEPT !.pc = "wait"]
           \/ \E st \in {"cancelled", "pending_cancel"} :
                cancel' = [cancel EXCEPT !.pc = "ack", !.status = st]
    BY <1>15 DEF CancelSend, CancelAck, ShutdownRefresh, ShutdownForce, CancelAnswer, CancelError
  <2>2. /\ [cancel EXCEPT !.pc = "wait"] \in Cancels(n, l)
        /\ \A st \in {"cancelled", "pending_cancel"} :
             [cancel EXCEPT !.pc = "ack", !.status = st] \in Cancels(n, l)
    BY <1>3, <1>5 DEF Cancels
  <2> QED BY <1>3, <1>7, <2>1, <2>2
<1>16. CASE ShutdownWait
  <2>1. /\ poll' = poll
        /\ \/ cancel' = [cancel EXCEPT !.pc = "force"]
           \/ cancel' = [cancel EXCEPT !.pc = "refresh", !.seen = order,
                                       !.status = Reported(exchange)]
    BY <1>16 DEF ShutdownWait
  <2>2. /\ [cancel EXCEPT !.pc = "force"] \in Cancels(n, l)
        /\ \A st \in Status : [cancel EXCEPT !.pc = "refresh", !.seen = order, !.status = st]
                             \in Cancels(n, l)
    BY <1>3 DEF Cancels
  <2> QED BY <1>3, <1>4, <2>1, <2>2
<1>17. ASSUME \/ \E q \in 1..Qty : ExchangeFills(q)
              \/ \E s \in {"closed", "canceled", "expired"} : ExchangeEnds(s)
              \/ \E a \in Settlers : Settle(a) \/ LedgerFails(a)
              \/ \E r \in Releasers : ReleaseRead(r) \/ ReleaseUnlock(r)
              \/ Tick \/ StreamTake \/ StreamRoute \/ StoreOrder \/ StoreFails
              \/ RestoreSession \/ UNCHANGED vars
       PROVE  UNCHANGED <<poll, cancel>>
  BY <1>17 DEF ExchangeFills, ExchangeEnds, Settle, Pay, Receive, Fee, MarkSettled, LedgerFails,
       ReleaseRead, ReleaseUnlock, Tick, StreamTake, StreamRoute, StoreOrder, StoreFails,
       RestoreSession, vars
<1> QED
  BY <1>8, <1>9, <1>10, <1>11, <1>12, <1>13, <1>14, <1>15, <1>16, <1>17
     DEF Next, PollStep, CancelStep, Releasers

\* An order that ends has a reason for its release, and no more filled than the exchange.
LEMMA ReleaseStarts ==
  ASSUME NEW n \in Nat, release \in [Releasers -> Releases(n)], NEW new, Upsert(new),
         ReleaseAfterUpsert(new), order'.cum \in 0..n
  PROVE  release' \in [Releasers -> Releases(n)]
<1>1. CASE release' = release
  BY <1>1
<1>2. CASE /\ Accepts(order.status, new.status) /\ new.status \in {"cancelled", "filled"}
           /\ release' = [release EXCEPT !["tracker"] = StartRelease(order'.status, order'.cum)]
  <2>1. order'.status \in {"cancelled", "filled"}
    BY <1>2 DEF Upsert, Merge
  <2>2. PICK x : x = StartRelease(order'.status, order'.cum)
    OBVIOUS
  <2>3. x \in Releases(n)
    BY <2>1, <2>2 DEF StartRelease, Releases
  <2> QED BY <1>2, <2>2, <2>3
<1> QED BY <1>1, <1>2 DEF ReleaseAfterUpsert

\* A release has its reason, and never a quantity the exchange did not fill.
LEMMA ReleaseStep == SettleInv /\ [Next]_vars => ReleaseInv'
<1> SUFFICES ASSUME SettleInv, [Next]_vars PROVE ReleaseInv'
  OBVIOUS
<1>1. PICK n : n = exchange'.filled
  OBVIOUS
<1>2. /\ Grows /\ MaxQty \in Nat /\ n \in Nat /\ n \in 0..MaxQty /\ Qty \in 1..MaxQty
      /\ exchange.filled \in Nat /\ exchange.filled <= n
  BY <1>1, WorldStep, NowFacts DEF Grows
<1>3. release \in [Releasers -> Releases(n)]
  BY <1>1, <1>2, SetsStay DEF SettleInv, ReleaseInv
<1>4. /\ order.cum \in 0..n /\ order'.cum \in 0..n /\ stored.cum \in 0..n
      /\ cancel.seen.cum \in 0..n
  <2>1. order' \in Versions(n, ledger')
    BY <1>1, OrderStep DEF OrderInv
  <2>2. order \in V /\ stored \in V /\ cancel.seen \in V
    BY NowVersions
  <2>3. \A o \in V : o.cum \in 0..n
    BY <1>2 DEF V, Versions
  <2> QED BY <2>1, <2>2, <2>3 DEF Versions
<1> SUFFICES release' \in [Releasers -> Releases(n)]
  BY <1>1 DEF ReleaseInv
<1>5. NoRelease \in Releases(n)
  BY <1>2 DEF NoRelease, Releases
<1>6. CASE UNCHANGED release
  BY <1>3, <1>6
<1>7. ASSUME NEW new, Upsert(new), ReleaseAfterUpsert(new)
      PROVE  release' \in [Releasers -> Releases(n)]
  BY <1>2, <1>3, <1>4, <1>7, ReleaseStarts
<1>8. CASE StreamTake \/ StreamRoute \/ PollCheck \/ PollApply \/ ShutdownRefresh \/ ShutdownForce
  <2>1. UNCHANGED release \/ \E new : Upsert(new) /\ ReleaseAfterUpsert(new)
    BY <1>8 DEF StreamTake, StreamRoute, PollCheck, PollApply, ShutdownRefresh, ShutdownForce,
         UpsertOrder
  <2> QED BY <1>6, <1>7, <2>1
<1>9. ASSUME NEW c \in 0..n,
             release' = [release EXCEPT !["intent"] = StartRelease("cancelled", c)]
      PROVE  release' \in [Releasers -> Releases(n)]
  <2>1. StartRelease("cancelled", c) \in Releases(n)
    BY DEF StartRelease, Releases
  <2> QED BY <1>3, <1>9, <2>1
<1>10. CASE CancelIntent
  BY <1>4, <1>6, <1>9, <1>10 DEF CancelIntent
<1>11. CASE CancelAck
  <2>1. \/ UNCHANGED release
        \/ \E new : Upsert(new) /\ ReleaseAfterUpsert(new)
        \/ release' = [release EXCEPT !["intent"] = StartRelease("cancelled", cancel.seen.cum)]
    BY <1>11 DEF CancelAck
  <2> QED BY <1>4, <1>6, <1>7, <1>9, <2>1
<1>12. ASSUME NEW r \in Releasers, ReleaseRead(r) PROVE release' \in [Releasers -> Releases(n)]
  <2>1. PICK t \in Releases(n) : t = release[r]
    BY <1>3
  <2>2. PICK q : q = ReleaseAmount(t.reason, t.filled, Qty, ledger.locked)
    OBVIOUS
  <2>3. q \in Nat
    <3>1. t.filled \in Nat /\ Qty \in Nat /\ ledger.locked \in Nat
      BY <1>2, <2>1 DEF Releases, SettleInv, LedgerInv, Ledgers
    <3> QED BY <2>2, <3>1 DEF ReleaseAmount, Larger, Smaller
  <2>4. [t EXCEPT !.pc = "unlock", !.amount = q] \in Releases(n)
    BY <2>1, <2>3 DEF Releases
  <2> QED BY <1>3, <1>5, <1>12, <2>1, <2>2, <2>4 DEF ReleaseRead
<1>13. ASSUME NEW r \in Releasers, ReleaseUnlock(r) PROVE release' \in [Releasers -> Releases(n)]
  BY <1>3, <1>5, <1>13 DEF ReleaseUnlock
<1>14. CASE Crash
  <2>1. \A s \in {"cancelled", "filled"} : StartRelease(s, stored.cum) \in Releases(n)
    BY <1>4 DEF StartRelease, Releases
  <2>2. release' = [r \in Releasers |->
                      IF r = "tracker" /\ stored.status \in {"cancelled", "filled"}
                      THEN StartRelease(stored.status, stored.cum) ELSE NoRelease]
    BY <1>14 DEF Crash, Releasers
  <2> QED BY <1>5, <2>1, <2>2
<1>15. ASSUME \/ \E q \in 1..Qty : ExchangeFills(q)
              \/ \E s \in {"closed", "canceled", "expired"} : ExchangeEnds(s)
              \/ \E a \in Settlers : Settle(a) \/ LedgerFails(a)
              \/ Tick \/ PollSelect \/ PollFetch \/ PollFetchOpen \/ PollCompare \/ PollFails
              \/ Shutdown \/ CancelSend \/ ShutdownWait \/ StoreOrder \/ StoreFails
              \/ RestoreSession \/ UNCHANGED vars
       PROVE  UNCHANGED release
  BY <1>15 DEF ExchangeFills, ExchangeEnds, Settle, Pay, Receive, Fee, MarkSettled, LedgerFails,
       Tick, PollSelect, PollFetch, PollFetchOpen, PollCompare, PollFails, Shutdown, CancelSend,
       ShutdownWait, StoreOrder, StoreFails, RestoreSession, vars
<1> QED
  BY <1>6, <1>8, <1>10, <1>11, <1>12, <1>13, <1>14, <1>15 DEF Next, PollStep, CancelStep, Releasers

-----------------------------------------------------------------------------
(* The theorems. *)

\* The invariant holds when the order is acknowledged.
LEMMA InitInv == Init => SettleInv
<1> SUFFICES ASSUME Init PROVE SettleInv
  OBVIOUS
<1>1. setup \in Setups /\ exchange = [filled |-> 0, state |-> "open"]
  BY DEF Init
<1>2. MaxQty \in Nat /\ setup \in Setup /\ Qty \in 1..MaxQty /\ setup.otherLocked \in Nat
  BY <1>1, SetupFacts DEF Setup, Qty
<1>3. exchange.filled = 0 /\ 0 \in 0..0 /\ 0 \in Units /\ "open" \in Status
  BY <1>1, <1>2 DEF Units, Status, Pollable
<1>4. WorldInv
  <2>1. exchange \in [filled : 0..Qty, state : ExchangeStates]
    BY <1>1, <1>2 DEF ExchangeStates
  <2>2. faults \in Nat
    BY DEF Init
  <2>3. paused = FALSE /\ running = TRUE /\ session = TRUE
    BY DEF Init
  <2>4. paused \in BOOLEAN /\ running \in BOOLEAN /\ session \in BOOLEAN
    BY <2>3
  <2> QED BY <1>1, <2>1, <2>2, <2>4 DEF WorldInv
<1>5. StreamInv
  BY <1>3, EmptySeq DEF Init, StreamInv, NoSeen, Seen
<1>6. Placed \in Versions(exchange.filled, ledger)
  BY <1>3, VersionForms DEF Placed
<1>7. OrderInv
  BY <1>6, EmptySeq DEF Init, OrderInv
<1>8. TaskInv
  BY DEF Init, TaskInv, Settlements
<1>9. PassInv
  BY <1>3, <1>6 DEF Init, PassInv, NoPoll, NoCancel, Passes, Cancels
<1>10. ReleaseInv
  BY <1>3 DEF Init, ReleaseInv, Releasers, Releases, NoRelease
<1>11. LedgerInv
  BY <1>2, <1>3 DEF Init, LedgerInv, Ledgers
<1> QED BY <1>4, <1>5, <1>7, <1>8, <1>9, <1>10, <1>11 DEF SettleInv

\* No step leaves the invariant.
LEMMA SettleStep == SettleInv /\ [Next]_vars => SettleInv'
BY WorldStep, StreamStep, OrderStep, TaskStep, PassStep, ReleaseStep DEF SettleInv, Grows,
   LedgerInv

\* The invariant of every reachable state.
LEMMA Invariance == Spec => []SettleInv
BY SettleStep, InitInv, PTL DEF Spec

\* The variables have their types, whatever events, passes, cancels and faults there are.
THEOREM TypeCorrect == Spec => []TypeOK
<1>1. SettleInv => TypeOK
  <2> SUFFICES ASSUME SettleInv PROVE TypeOK
    OBVIOUS
  <2>1. /\ MaxQty \in Nat /\ exchange.filled \in 0..MaxQty /\ setup \in Setup
    BY NowFacts
  <2>2. 0..exchange.filled \subseteq Units /\ 1..exchange.filled \subseteq Units /\ 0 \in Units
    BY <2>1 DEF Units
  <2>3. Versions(exchange.filled, ledger) \subseteq Tracked
    BY <2>2 DEF Versions, Tracked
  <2>4. Events(exchange.filled) \subseteq Event
    BY <2>2 DEF Events, Event, MaybeUnits
  <2>5. Settlements(exchange.filled, ledger) \subseteq
          [pc : {"none", "pay", "receive", "fee", "mark"}, cum : Units, qty : Units]
    BY <2>2 DEF Settlements, NoTask, TaskSteps
  <2>6. queue \in [Feeds -> Seq(Event)] /\ routing \in Event \cup {None}
    BY <2>4, SeqMonotonic DEF SettleInv, StreamInv
  <2>7. order \in Tracked /\ stored \in Tracked /\ writes \in Seq(Tracked)
    BY <2>3, SeqMonotonic DEF SettleInv, OrderInv
  <2>8. tasks \in [Settlers -> [pc : {"none", "pay", "receive", "fee", "mark"},
                                cum : Units, qty : Units]]
    BY <2>5 DEF SettleInv, TaskInv
  <2>9. /\ poll \in [pc : {"idle", "check", "fetch", "apply", "fetchOpen", "compare"},
                      seen : Tracked, filled : Units, status : Status]
        /\ cancel \in [pc : {"idle", "send", "ack", "wait", "refresh", "force"},
                        kind : {"intent", "shutdown"}, seen : Tracked, status : Status]
    BY <2>2, <2>3 DEF SettleInv, PassInv, Passes, Cancels
  <2>10. release \in [{"tracker", "intent"} ->
                        [pc : {"none", "read", "unlock"}, reason : {"filled", "cancelled"},
                         filled : Units, amount : Nat]]
    BY <2>2 DEF SettleInv, ReleaseInv, Releasers, Releases
  <2>11. /\ setup \in Setups /\ paused \in BOOLEAN /\ running \in BOOLEAN /\ session \in BOOLEAN
         /\ faults \in Nat
    BY DEF SettleInv, WorldInv
  <2>12. exchange \in [filled : Units, state : {"open", "closed", "canceled", "expired"}]
    BY <2>2 DEF SettleInv, WorldInv, ExchangeStates
  <2>13. /\ fillSeen.total \in Units
         /\ fillSeen.fingerprint # None =>
              fillSeen.fingerprint \in MaybeUnits \X MaybeUnits \X MaybeUnits
    BY DEF SettleInv, StreamInv, Seen, Fingerprints
  <2>14. ledger \in [ locked : Nat, paid : [1..MaxQty -> Units], received : [1..MaxQty -> Units],
                      fees : SUBSET (1..MaxQty), released : [{"filled", "cancelled"} -> Nat] ]
    BY DEF SettleInv, LedgerInv, Ledgers
  <2> QED BY <2>6, <2>7, <2>8, <2>9, <2>10, <2>11, <2>12, <2>13, <2>14 DEF TypeOK
<1> QED BY <1>1, Invariance, PTL

\* The settled cursor, in memory and in the row, never passes what both legs of the ledger
\* have booked: handleSessionFill moves it only after both, and every restart, stale report
\* and repeated settlement leaves it there.
THEOREM CursorIsBacked == Spec => []CursorBacked
<1>1. SettleInv => CursorBacked
  BY DEF SettleInv, OrderInv, Versions, Backed, CursorBacked
<1> QED BY <1>1, Invariance, PTL

\* The tracked progress and the cursor never pass what the exchange has filled, although
\* events repeat and come late and a trade without a total is added to what is tracked.
THEOREM OrderBehindExchange == Spec => []NeverAheadOfExchange
<1>1. SettleInv => NeverAheadOfExchange
  <2> SUFFICES ASSUME SettleInv PROVE NeverAheadOfExchange
    OBVIOUS
  <2>1. /\ order \in Versions(exchange.filled, ledger) /\ exchange.filled \in Nat
    BY NowFacts DEF SettleInv, OrderInv
  <2> QED BY <2>1 DEF Versions, NeverAheadOfExchange
<1> QED BY <1>1, Invariance, PTL

\* upsertOrder and markFillSettled never take progress back, and a terminal order keeps its
\* status: only a crash, which loads the row, does.
THEOREM OrderMovesForward == Spec => ProgressOnlyForward
<1> DEFINE Forward ==
      \/ Crash
      \/ /\ order'.cum >= order.cum
         /\ order'.settled >= order.settled
         /\ order.status \in Terminal => order'.status = order.status
<1>1. SettleInv /\ [Next]_vars => [Forward]_vars
  BY ForwardStep
<1> QED BY <1>1, Invariance, PTL DEF Spec, ProgressOnlyForward

-----------------------------------------------------------------------------
(* An order that only passes and ticks settle.                             *)

\* What only a stream, a cancel or a crash would move.
Undisturbed ==
  /\ queue = [f \in Feeds |-> <<>>] /\ routing = None /\ cancel = NoCancel /\ release["intent"] = NoRelease
  /\ tasks[Stream] = NoTask /\ running /\ session

\* The order has the statuses that reports give it.
StatusReported ==
  /\ order.settled <= order.cum
  /\ order.status \in {"open", "partially_filled"} \cup Terminal
  /\ order.status = "partially_filled" => order.cum > 0

\* The answer of fetchOrder: a terminal status is the last word of the exchange.
Answered ==
  /\ poll.status \in {"open", "partially_filled", "filled", "cancelled", "failed"}
  /\ order.cum <= poll.filled
  /\ poll.status \in Terminal => exchange.state # "open" /\ poll.filled = exchange.filled
  /\ poll.status = "cancelled" => poll.filled < Qty
  /\ poll.status = "filled" => poll.filled = Qty
  /\ poll.status = "partially_filled" => poll.filled > 0

\* A pass goes on to the open orders only when its settlement is over, so that the order
\* has progress to settle only while that settlement is under way.
OneProgress ==
  /\ tasks[Poll] # NoTask => poll.pc = "fetchOpen"
  /\ order.settled < order.cum => tasks[Poll] # NoTask /\ tasks[Poll].cum = order.cum
  /\ poll.pc \in {"check", "fetch", "apply"} =>
       poll.seen = order /\ order.status \in {"open", "partially_filled"}
  /\ poll.pc = "apply" => Answered

\* Every settlement, also one a tick began, either settles the progress there is or
\* repeats what is booked.
SettlesOrRepeats ==
  \A a \in Settlers : tasks[a] # NoTask =>
    /\ tasks[a].cum <= order.cum
    /\ IF tasks[a].cum = order.cum /\ order.settled < order.cum
       THEN tasks[a].qty = order.cum - order.settled
       ELSE /\ ledger.paid[tasks[a].cum] = tasks[a].qty
            /\ ledger.received[tasks[a].cum] = tasks[a].qty
            /\ tasks[a].cum <= order.settled

\* What is booked adds up to the cursor and the progress under way.
BookedOnce ==
  /\ \A c \in 1..MaxQty : ledger.paid[c] # 0 \/ ledger.received[c] # 0 => c <= order.cum
  /\ order.settled = order.cum => SumFunction(ledger.paid) = order.cum
  /\ order.settled < order.cum =>
       /\ ledger.paid[order.cum] \in {0, order.cum - order.settled}
       /\ ledger.received[order.cum] \in {0, order.cum - order.settled}
       /\ SumFunction(ledger.paid) = order.settled + ledger.paid[order.cum]
  /\ ledger.locked + SumFunction(ledger.paid) + ledger.released["cancelled"]
       = Qty + setup.otherLocked

\* A release follows the last word of the exchange and frees what is left of the order.
ReleasesRest ==
  /\ exchange.state \in {"open", "canceled"} => exchange.filled < Qty
  /\ release["tracker"].pc # "none" =>
       /\ exchange.state # "open"
       /\ release["tracker"].filled = exchange.filled
       /\ IF release["tracker"].reason = "filled" THEN exchange.filled = Qty
          ELSE exchange.filled < Qty
  /\ release["tracker"].pc = "unlock" =>
       /\ release["tracker"].reason = "cancelled"
       /\ release["tracker"].amount <= Qty - exchange.filled
  /\ ledger.released["filled"] = 0
  /\ ledger.released["cancelled"] + exchange.filled <= Qty
  /\ ledger.released["cancelled"] # 0 => exchange.state # "open"

PolledInv ==
  /\ Undisturbed /\ StatusReported /\ OneProgress /\ SettlesOrRepeats
  /\ BookedOnce /\ ReleasesRest

\* One entry more in the books of a leg.
LEMMA PaidAdds ==
  ASSUME MaxQty \in Nat, NEW f \in [1..MaxQty -> Units]
  PROVE  /\ SumFunction(f) \in Int
         /\ (\A c \in 1..MaxQty : f[c] = 0) => SumFunction(f) = 0
         /\ \A c \in 1..MaxQty, q \in Units :
              f[c] = 0 => SumFunction([f EXCEPT ![c] = q]) = SumFunction(f) + q
<1> DEFINE S == 1..MaxQty
<1>1. IsFiniteSet(S) /\ \A x \in S : f[x] \in Nat
  <2>1. IsFiniteSet(S)
    BY FS_Interval
  <2>2. \A x \in S : f[x] \in Nat
    BY DEF Units
  <2> QED BY <2>1, <2>2
<1>2. SumFunction(f) = SumFunctionOnSet(f, S)
  BY DEF SumFunction
<1>3. SumFunctionOnSet(f, S) \in Int
  <2> HIDE DEF S
  <2> QED BY <1>1, SumFacts
<1>4. ASSUME \A x \in S : f[x] = 0 PROVE SumFunctionOnSet(f, S) = 0
  <2>1. \A x \in S : f[x] \in Int /\ 1 * f[x] <= 0 * f[x] /\ 0 * f[x] <= 1 * f[x]
    BY <1>4
  <2> HIDE DEF S
  <2>2. 1 \in Int /\ 0 \in Int
    OBVIOUS
  <2>3. 1 * SumFunctionOnSet(f, S) <= 0 * SumFunctionOnSet(f, S)
    BY <1>1, <2>1, <2>2, SumScaled
  <2>4. 0 * SumFunctionOnSet(f, S) <= 1 * SumFunctionOnSet(f, S)
    BY <1>1, <2>1, <2>2, SumScaled
  <2> QED BY <1>3, <2>3, <2>4
<1>5. ASSUME NEW c \in S, NEW q \in Units, f[c] = 0
      PROVE  SumFunction([f EXCEPT ![c] = q]) = SumFunctionOnSet(f, S) + q
  <2> DEFINE g == [f EXCEPT ![c] = q]
             R == S \ {c}
  <2>1. DOMAIN g = S /\ g[c] = q /\ \A x \in R : g[x] = f[x]
    OBVIOUS
  <2>2. \A x \in S : g[x] \in Int
    BY DEF Units
  <2>3. SumFunction(g) = SumFunctionOnSet(g, S)
    BY <2>1, Zenon DEF SumFunction
  <2> HIDE DEF g
  <2>4. IsFiniteSet(R)
    <3> HIDE DEF S
    <3> QED BY <1>1, FS_Subset
  <2>5. SumFunctionOnSet(f, S) = f[c] + SumFunctionOnSet(f, R)
    <3> HIDE DEF S
    <3> QED BY <1>1, SumFacts
  <2>6. SumFunctionOnSet(g, S) = g[c] + SumFunctionOnSet(g, R)
    <3> HIDE DEF S
    <3> QED BY <1>1, <2>2, SumFacts
  <2>7. \A x \in R : f[x] \in Int /\ f[x] = g[x]
    BY <1>1, <2>1
  <2>8. SumFunctionOnSet(f, R) = SumFunctionOnSet(g, R)
    <3> HIDE DEF R
    <3> QED BY <2>4, <2>7, SumAgrees
  <2>9. SumFunctionOnSet(f, R) \in Int
    <3> HIDE DEF R
    <3> QED BY <2>4, <2>7, SumFacts
  <2>10. PICK s : s \in Int /\ s = SumFunctionOnSet(f, R)
    BY <2>9
  <2>11. SumFunctionOnSet(f, S) = s /\ SumFunctionOnSet(g, S) = q + s /\ q \in Int
    BY <1>5, <2>1, <2>5, <2>6, <2>8, <2>10 DEF Units
  <2> HIDE DEF S, R
  <2>12. SumFunctionOnSet(g, S) = SumFunctionOnSet(f, S) + q
    BY <2>10, <2>11
  <2> QED BY <2>3, <2>12 DEF g
<1> QED BY <1>2, <1>3, <1>4, <1>5

\* What is used of the invariant at every step.
LEMMA PolledNow ==
  ASSUME OnlyPolled, SettleInv
  PROVE  /\ setup.forms = {} /\ setup.cancels = {} /\ ~(faults < setup.faults)
         /\ MaxQty \in Nat /\ Qty \in 1..MaxQty /\ setup.otherLocked \in Nat
         /\ exchange.filled \in 0..Qty
         /\ exchange = [filled |-> exchange.filled, state |-> exchange.state]
         /\ order = [status |-> order.status, cum |-> order.cum, settled |-> order.settled]
         /\ order.cum \in 0..exchange.filled /\ order.settled \in 0..exchange.filled
         /\ order.status \in Status
         /\ poll.filled \in 0..exchange.filled
         /\ ledger.paid \in [1..MaxQty -> Units] /\ ledger.received \in [1..MaxQty -> Units]
         /\ ledger.locked \in Nat /\ ledger.released \in [{"filled", "cancelled"} -> Nat]
         /\ SumFunction(ledger.paid) \in Int
         /\ DOMAIN tasks = Settlers /\ Stream \in Settlers /\ Poll \in Settlers
         /\ DOMAIN release = Releasers
<1>1. /\ MaxQty \in Nat /\ Qty \in 1..MaxQty /\ exchange.filled \in 0..Qty
      /\ setup \in Setup /\ setup \in Setups
  BY NowFacts DEF SettleInv, WorldInv
<1>2. setup.forms = {} /\ setup.cancels = {} /\ setup.faults = 0 /\ faults \in Nat
  BY <1>1 DEF OnlyPolled, SettleInv, WorldInv
<1>3. /\ order \in [status : Status, cum : 0..exchange.filled, settled : 0..exchange.filled]
      /\ poll.filled \in 0..exchange.filled
  BY NowVersions DEF V, Versions
<1>4. /\ ledger.paid \in [1..MaxQty -> Units] /\ ledger.received \in [1..MaxQty -> Units]
      /\ ledger.locked \in Nat /\ ledger.released \in [{"filled", "cancelled"} -> Nat]
  BY DEF SettleInv, LedgerInv, Ledgers
<1>5. SumFunction(ledger.paid) \in Int
  BY <1>1, <1>4, PaidAdds
<1>6. exchange = [filled |-> exchange.filled, state |-> exchange.state]
  BY DEF SettleInv, WorldInv
<1>7. DOMAIN tasks = Settlers /\ Stream \in Settlers /\ Poll \in Settlers
  BY DEF SettleInv, TaskInv, Settlers
<1>8. setup.otherLocked \in Nat
  BY <1>1 DEF Setup
<1>9. DOMAIN release = Releasers
  BY DEF SettleInv, ReleaseInv
<1> QED BY <1>1, <1>2, <1>3, <1>4, <1>5, <1>6, <1>7, <1>8, <1>9

\* The settlements under way.
LEMMA TaskFacts ==
  ASSUME SettleInv, NEW a \in Settlers, tasks[a] # NoTask
  PROVE  /\ tasks[a] = [pc |-> tasks[a].pc, cum |-> tasks[a].cum, qty |-> tasks[a].qty]
         /\ tasks[a].cum \in 1..MaxQty /\ tasks[a].qty \in 1..MaxQty
         /\ tasks[a].qty <= tasks[a].cum
         /\ tasks[a].pc \in {"receive", "fee", "mark"} =>
              ledger.paid[tasks[a].cum] = tasks[a].qty
         /\ tasks[a].pc \in {"fee", "mark"} => ledger.received[tasks[a].cum] = tasks[a].qty
<1>1. exchange.filled \in 0..MaxQty /\ MaxQty \in Nat
  BY NowFacts
<1>2. PICK t \in Settlements(exchange.filled, ledger) : t = tasks[a]
  BY DEF SettleInv, TaskInv
<1>3. /\ t \in [pc : TaskSteps, cum : 1..exchange.filled, qty : 1..exchange.filled]
      /\ t.qty <= t.cum
      /\ t.pc \in {"receive", "fee", "mark"} => ledger.paid[t.cum] = t.qty
      /\ t.pc \in {"fee", "mark"} => ledger.received[t.cum] = t.qty
  BY <1>2 DEF Settlements
<1> QED BY <1>1, <1>2, <1>3

\* The steps that are left.
LEMMA PolledSteps ==
  ASSUME OnlyPolled, SettleInv, Undisturbed, Next
  PROVE  \/ \E q \in 1..Qty : ExchangeFills(q)
         \/ \E s \in {"closed", "canceled", "expired"} : ExchangeEnds(s)
         \/ \E a \in Settlers : Settle(a)
         \/ Tick \/ PollSelect \/ PollStep \/ StoreOrder
         \/ ReleaseRead("tracker") \/ ReleaseUnlock("tracker")
<1>1. setup.forms = {} /\ setup.cancels = {} /\ ~(faults < setup.faults)
  BY PolledNow
<1>2. \A a \in Settlers : ~LedgerFails(a)
  BY <1>1 DEF LedgerFails
<1>3. ~PollFails /\ ~StoreFails /\ ~Crash
  BY <1>1 DEF PollFails, StoreFails, Crash
<1>4. ~StreamTake /\ ~StreamRoute
  BY DEF Undisturbed, StreamTake, StreamRoute
<1>5. ~CancelIntent /\ ~Shutdown
  BY <1>1 DEF CancelIntent, Shutdown
<1>6. ~CancelStep
  BY DEF Undisturbed, NoCancel, CancelStep, CancelSend, CancelAck, ShutdownWait, ShutdownRefresh,
     ShutdownForce
<1>7. ~RestoreSession
  BY DEF Undisturbed, RestoreSession
<1>8. ~ReleaseRead("intent") /\ ~ReleaseUnlock("intent")
  BY DEF Undisturbed, NoRelease, ReleaseRead, ReleaseUnlock
<1> QED BY <1>2, <1>3, <1>4, <1>5, <1>6, <1>7, <1>8 DEF Next

\* The exchange fills or ends the order: no event is sent, and nothing final was said.
LEMMA PolledExchange ==
  ASSUME OnlyPolled, SettleInv, PolledInv,
         \/ \E q \in 1..Qty : ExchangeFills(q)
         \/ \E s \in {"closed", "canceled", "expired"} : ExchangeEnds(s)
  PROVE  PolledInv'
<1>1. /\ setup.forms = {} /\ Qty \in 1..MaxQty /\ MaxQty \in Nat /\ exchange.filled \in 0..Qty
      /\ exchange = [filled |-> exchange.filled, state |-> exchange.state]
      /\ poll.filled \in 0..exchange.filled /\ exchange.filled \in Nat /\ Qty \in Nat
      /\ ledger.released \in [{"filled", "cancelled"} -> Nat]
  BY PolledNow
<1>2. /\ UNCHANGED <<setup, fillSeen, routing, order, writes, stored, tasks, poll, cancel, release,
                     ledger, paused, running, session, faults>>
      /\ exchange.state = "open" /\ exchange'.filled >= exchange.filled
      /\ exchange'.filled <= Qty /\ exchange'.filled \in Int
      /\ exchange'.state \in {"open", "canceled"} => exchange'.filled < Qty
  <2>1. ASSUME NEW q \in 1..Qty, ExchangeFills(q)
        PROVE  /\ UNCHANGED <<setup, fillSeen, routing, order, writes, stored, tasks, poll, cancel,
                              release, ledger, paused, running, session, faults>>
               /\ exchange.state = "open" /\ exchange'.filled >= exchange.filled
               /\ exchange'.filled <= Qty /\ exchange'.filled \in Int
               /\ exchange'.state \in {"open", "canceled"} => exchange'.filled < Qty
    BY <1>1, <2>1 DEF ExchangeFills
  <2>2. ASSUME NEW s \in {"closed", "canceled", "expired"}, ExchangeEnds(s)
        PROVE  /\ UNCHANGED <<setup, fillSeen, routing, order, writes, stored, tasks, poll, cancel,
                              release, ledger, paused, running, session, faults>>
               /\ exchange.state = "open" /\ exchange'.filled >= exchange.filled
               /\ exchange'.filled <= Qty /\ exchange'.filled \in Int
               /\ exchange'.state \in {"open", "canceled"} => exchange'.filled < Qty
    BY <1>1, <2>2 DEF ExchangeEnds, PolledInv, ReleasesRest
  <2> QED BY <2>1, <2>2
<1>3. queue' = [f \in Feeds |-> <<>>]
  <2>1. \A x, q : OrderEvents(x) = {} /\ TradeEvents(x, q) = {}
    BY <1>1 DEF OrderEvents, TradeEvents
  <2>2. Send({})
    <3>1. ASSUME NEW q \in 1..Qty, ExchangeFills(q) PROVE Send({})
      <4>1. PICK x : Send(OrderEvents(x) \cup TradeEvents(x, q))
        BY <3>1 DEF ExchangeFills
      <4>2. OrderEvents(x) \cup TradeEvents(x, q) = {}
        BY <2>1
      <4> QED BY <4>1, <4>2
    <3>2. ASSUME NEW s \in {"closed", "canceled", "expired"}, ExchangeEnds(s) PROVE Send({})
      <4>1. Send(OrderEvents(exchange'))
        BY <3>2 DEF ExchangeEnds
      <4> QED BY <2>1, <4>1
    <3> QED BY <3>1, <3>2
  <2>3. queue \in [Feeds -> Seq({})] /\ IsFiniteSet({})
    BY FS_EmptySet, EmptySeq DEF PolledInv, Undisturbed
  <2>4. queue' \in [Feeds -> Seq({})]
    BY <2>2, <2>3, SendFacts
  <2>5. \A q \in Seq({}) : q = <<>>
    BY SeqDef
  <2> QED BY <2>4, <2>5
<1>4. Undisturbed' /\ StatusReported' /\ SettlesOrRepeats' /\ BookedOnce'
  BY <1>2, <1>3 DEF PolledInv, Undisturbed, StatusReported, SettlesOrRepeats, BookedOnce, Qty
<1>5. OneProgress'
  <2>1. Qty' = Qty /\ UNCHANGED <<order, tasks, poll>>
    BY <1>2 DEF Qty
  <2>2. poll.pc = "apply" => Answered'
    BY <1>1, <1>2, <2>1 DEF PolledInv, OneProgress, Answered, Terminal
  <2> QED BY <2>1, <2>2 DEF PolledInv, OneProgress
<1>6. ReleasesRest'
  <2>1. Qty' = Qty /\ UNCHANGED <<release, ledger>>
    BY <1>2 DEF Qty
  <2>2. /\ release["tracker"].pc = "none" /\ ledger.released["filled"] = 0
        /\ ledger.released["cancelled"] = 0
    <3>1. release["tracker"].pc \in {"none", "read", "unlock"}
      BY DEF SettleInv, ReleaseInv, Releases, Releasers
    <3> QED BY <1>2, <3>1 DEF PolledInv, ReleasesRest
  <2> QED BY <1>1, <1>2, <2>1, <2>2 DEF ReleasesRest
<1> QED BY <1>4, <1>5, <1>6 DEF PolledInv

\* A settlement that goes on keeps its total and its quantity, and the others stay.
LEMMA PolledGoesOn ==
  ASSUME SettleInv, NEW a \in Settlers, tasks[a] # NoTask, NEW p \in {"receive", "fee", "mark"},
         tasks' = [tasks EXCEPT ![a].pc = p]
  PROVE  \A b \in Settlers : /\ tasks'[b] # NoTask <=> tasks[b] # NoTask
                             /\ tasks'[b].cum = tasks[b].cum /\ tasks'[b].qty = tasks[b].qty
                             /\ tasks[b] = NoTask => tasks'[b] = NoTask
<1>1. DOMAIN tasks = Settlers
  BY DEF SettleInv, TaskInv
<1>2. tasks[a] = [pc |-> tasks[a].pc, cum |-> tasks[a].cum, qty |-> tasks[a].qty]
  BY TaskFacts
<1>3. tasks' = [tasks EXCEPT ![a] = [tasks[a] EXCEPT !.pc = p]]
  OBVIOUS
<1>4. PICK t : t = [tasks[a] EXCEPT !.pc = p]
  OBVIOUS
<1>5. t.pc = p /\ t.cum = tasks[a].cum /\ t.qty = tasks[a].qty
  BY <1>2, <1>4
<1>6. t # NoTask
  BY <1>5 DEF NoTask
<1>7. tasks' = [tasks EXCEPT ![a] = t]
  BY <1>3, <1>4
<1> QED BY <1>1, <1>5, <1>6, <1>7

\* While progress is settled the lock holds it: what was paid, what is to be paid and what
\* was released stay within the reservation.
LEMMA PolledAffords ==
  ASSUME OnlyPolled, SettleInv, PolledInv, NEW a \in Settlers, tasks[a] # NoTask,
         ledger.paid[tasks[a].cum] = 0
  PROVE  /\ tasks[a].cum = order.cum /\ order.settled < order.cum
         /\ tasks[a].qty = order.cum - order.settled /\ ledger.locked >= tasks[a].qty
<1>1. /\ tasks[a].cum \in 1..MaxQty /\ tasks[a].qty \in 1..MaxQty /\ MaxQty \in Nat
      /\ exchange.filled \in 0..Qty /\ Qty \in 1..MaxQty /\ setup.otherLocked \in Nat
      /\ order.cum \in 0..exchange.filled /\ order.settled \in 0..exchange.filled
      /\ SumFunction(ledger.paid) \in Int /\ ledger.locked \in Nat
      /\ ledger.released \in [{"filled", "cancelled"} -> Nat]
  BY PolledNow, TaskFacts
<1>2. /\ tasks[a].cum = order.cum /\ order.settled < order.cum
      /\ tasks[a].qty = order.cum - order.settled
  BY <1>1 DEF PolledInv, SettlesOrRepeats
<1>3. PICK s, r \in Int : s = SumFunction(ledger.paid) /\ r = ledger.released["cancelled"]
  BY <1>1
<1>4. /\ s = order.settled /\ ledger.locked + s + r = Qty + setup.otherLocked
      /\ r + exchange.filled <= Qty
  BY <1>1, <1>2, <1>3 DEF PolledInv, BookedOnce, ReleasesRest
<1>5. ledger.locked >= order.cum - order.settled
  BY <1>1, <1>3, <1>4
<1> QED BY <1>2, <1>5

\* A settlement that goes on with a leg that is booked now, or was, disturbs nothing else.
LEMMA PolledLeg ==
  ASSUME OnlyPolled, SettleInv, PolledInv, NEW a \in Settlers, tasks[a] # NoTask,
         NEW p \in {"receive", "fee", "mark"}, tasks' = [tasks EXCEPT ![a].pc = p],
         UNCHANGED <<setup, exchange, queue, routing, order, poll, cancel, release, running,
                     session>>,
         \A c \in 1..MaxQty : /\ ledger.paid[c] # 0 => ledger'.paid[c] = ledger.paid[c]
                              /\ ledger.received[c] # 0 => ledger'.received[c] = ledger.received[c],
         ledger'.released = ledger.released
  PROVE  /\ Undisturbed' /\ StatusReported' /\ OneProgress' /\ SettlesOrRepeats'
         /\ ReleasesRest'
<1>1. /\ \A b \in Settlers : /\ tasks'[b] # NoTask <=> tasks[b] # NoTask
                             /\ tasks'[b].cum = tasks[b].cum /\ tasks'[b].qty = tasks[b].qty
      /\ tasks[Stream] = NoTask => tasks'[Stream] = NoTask
      /\ Stream \in Settlers /\ Poll \in Settlers
  BY PolledGoesOn, PolledNow
<1>2. Undisturbed' /\ StatusReported'
  BY <1>1 DEF PolledInv, Undisturbed, StatusReported
<1>3. OneProgress'
  BY <1>1 DEF PolledInv, OneProgress, Answered, Qty
<1>4. SettlesOrRepeats'
  <2> SUFFICES ASSUME NEW b \in Settlers, tasks'[b] # NoTask
               PROVE  /\ tasks[b].cum <= order.cum
                      /\ IF tasks[b].cum = order.cum /\ order.settled < order.cum
                         THEN tasks[b].qty = order.cum - order.settled
                         ELSE /\ ledger'.paid[tasks[b].cum] = tasks[b].qty
                              /\ ledger'.received[tasks[b].cum] = tasks[b].qty
                              /\ tasks[b].cum <= order.settled
    BY <1>1 DEF SettlesOrRepeats
  <2>1. tasks[b] # NoTask
    BY <1>1
  <2>2. tasks[b].cum \in 1..MaxQty /\ tasks[b].qty \in 1..MaxQty
    BY <2>1, TaskFacts
  <2> QED BY <2>1, <2>2 DEF PolledInv, SettlesOrRepeats
<1>5. ReleasesRest'
  BY DEF PolledInv, ReleasesRest, Qty
<1> QED BY <1>2, <1>3, <1>4, <1>5

\* The paying leg is never refused: it is a replay, or the lock holds it.
LEMMA PolledPay ==
  ASSUME OnlyPolled, SettleInv, PolledInv, NEW a \in Settlers, Pay(a)
  PROVE  PolledInv'
<1>1. tasks[a] # NoTask
  BY DEF Pay, NoTask
<1>2. PICK c, q : c = tasks[a].cum /\ q = tasks[a].qty
  OBVIOUS
<1>3. /\ c \in 1..MaxQty /\ q \in 1..MaxQty /\ MaxQty \in Nat /\ q # 0 /\ q \in Units
      /\ order.cum \in Int /\ order.settled \in Int
      /\ SumFunction(ledger.paid) \in Int /\ ledger.locked \in Int
      /\ ledger \in Ledgers
      /\ ledger.paid \in [1..MaxQty -> Units] /\ ledger.received \in [1..MaxQty -> Units]
      /\ ledger.released["cancelled"] \in Int
  <2>1. /\ exchange.filled \in 0..Qty /\ Qty \in 1..MaxQty
        /\ order.cum \in 0..exchange.filled /\ order.settled \in 0..exchange.filled
        /\ ledger.released \in [{"filled", "cancelled"} -> Nat]
        /\ MaxQty \in Nat /\ SumFunction(ledger.paid) \in Int /\ ledger.locked \in Nat
        /\ ledger.paid \in [1..MaxQty -> Units] /\ ledger.received \in [1..MaxQty -> Units]
    BY PolledNow
  <2>2. c \in 1..MaxQty /\ q \in 1..MaxQty
    BY <1>1, <1>2, TaskFacts
  <2>3. ledger \in Ledgers
    BY DEF SettleInv, LedgerInv
  <2>4. order.cum \in Int /\ order.settled \in Int
    BY <2>1
  <2>5. ledger.released["cancelled"] \in Int
    BY <2>1
  <2>6. q # 0 /\ q \in Units
    BY <2>1, <2>2 DEF Units
  <2> QED BY <2>1, <2>2, <2>3, <2>4, <2>5, <2>6
<1>4. /\ ledger.paid[c] \in {0, q}
      /\ ledger.paid[c] = 0 => /\ c = order.cum /\ order.settled < order.cum
                               /\ q = order.cum - order.settled /\ ledger.locked >= q
  <2>1. ledger.paid[c] = 0 => /\ c = order.cum /\ order.settled < order.cum
                              /\ q = order.cum - order.settled /\ ledger.locked >= q
    BY <1>1, <1>2, PolledAffords
  <2>2. ledger.paid[c] \in {0, q}
    BY <1>1, <1>2 DEF PolledInv, SettlesOrRepeats, BookedOnce
  <2> QED BY <2>1, <2>2
<1>5. /\ tasks' = [tasks EXCEPT ![a].pc = "receive"]
      /\ UNCHANGED <<setup, exchange, queue, routing, order, poll, cancel, release, running,
                     session>>
      /\ \/ ledger.paid[c] = q /\ ledger' = ledger
         \/ /\ ledger.paid[c] = 0
            /\ ledger' = [ledger EXCEPT !.paid[c] = q, !.locked = @ - q]
  BY <1>2, <1>4 DEF Pay, Leg
<1>6. CASE ledger' = ledger
  <2>1. BookedOnce'
    BY <1>5, <1>6 DEF PolledInv, BookedOnce, Qty
  <2> QED BY <1>1, <1>5, <1>6, <2>1, PolledLeg DEF PolledInv
<1>7. CASE /\ ledger.paid[c] = 0
           /\ ledger' = [ledger EXCEPT !.paid[c] = q, !.locked = @ - q]
  <2>1. /\ ledger'.paid = [ledger.paid EXCEPT ![c] = q] /\ ledger'.received = ledger.received
        /\ ledger'.locked = ledger.locked - q /\ ledger'.released = ledger.released
    BY <1>3, <1>7 DEF Ledgers
  <2>2. SumFunction(ledger'.paid) = SumFunction(ledger.paid) + q
    <3>1. SumFunction([ledger.paid EXCEPT ![c] = q]) = SumFunction(ledger.paid) + q
      BY <1>3, <1>7, PaidAdds
    <3> QED BY <2>1, <3>1
  <2>3. PICK s, t \in Int : s = SumFunction(ledger.paid) /\ t = SumFunction(ledger'.paid)
    BY <1>3, <2>2
  <2>4. s = order.settled /\ t = s + q /\ ledger'.paid[order.cum] = q
    BY <1>3, <1>4, <1>7, <2>1, <2>2, <2>3 DEF PolledInv, BookedOnce
  <2>5. BookedOnce'
    <3>1. UNCHANGED <<order, setup>> /\ Qty' = Qty
      BY <1>5 DEF Qty
    <3>2. \A x \in 1..MaxQty : ledger'.paid[x] # 0 \/ ledger'.received[x] # 0 => x <= order.cum
      BY <1>3, <1>4, <1>7, <2>1 DEF PolledInv, BookedOnce
    <3>3. ledger'.locked + t + ledger'.released["cancelled"] = Qty + setup.otherLocked
      <4>1. ledger.locked + s + ledger.released["cancelled"] = Qty + setup.otherLocked
        BY <2>3 DEF PolledInv, BookedOnce
      <4> QED BY <1>3, <2>1, <2>3, <2>4, <4>1
    <3>4. ledger'.received[order.cum] \in {0, order.cum - order.settled}
      BY <1>4, <1>7, <2>1 DEF PolledInv, BookedOnce
    <3>5. t = order.settled + ledger'.paid[order.cum] /\ order.settled < order.cum
          /\ ledger'.paid[order.cum] \in {0, order.cum - order.settled}
      BY <1>3, <1>4, <1>7, <2>4
    <3> QED BY <1>3, <2>3, <3>1, <3>2, <3>3, <3>4, <3>5 DEF BookedOnce
  <2>6. \A x \in 1..MaxQty : /\ ledger.paid[x] # 0 => ledger'.paid[x] = ledger.paid[x]
                             /\ ledger.received[x] # 0 => ledger'.received[x] = ledger.received[x]
    BY <1>3, <1>7, <2>1
  <2> QED BY <1>1, <1>5, <2>1, <2>5, <2>6, PolledLeg DEF PolledInv
<1> QED BY <1>5, <1>6, <1>7

\* Nor is the receiving leg.
LEMMA PolledReceive ==
  ASSUME OnlyPolled, SettleInv, PolledInv, NEW a \in Settlers, Receive(a)
  PROVE  PolledInv'
<1>1. tasks[a] # NoTask
  BY DEF Receive, NoTask
<1>2. PICK c, q : c = tasks[a].cum /\ q = tasks[a].qty
  OBVIOUS
<1>3. /\ c \in 1..MaxQty /\ q \in 1..MaxQty /\ MaxQty \in Nat /\ q # 0 /\ ledger \in Ledgers
      /\ ledger.received \in [1..MaxQty -> Units]
  BY <1>1, <1>2, PolledNow, TaskFacts DEF SettleInv, LedgerInv
<1>4. /\ ledger.received[c] \in {0, q}
      /\ ledger.received[c] = 0 => c = order.cum /\ order.settled < order.cum
                                   /\ q = order.cum - order.settled
  BY <1>1, <1>2, <1>3 DEF PolledInv, SettlesOrRepeats, BookedOnce
<1>5. /\ tasks' = [tasks EXCEPT ![a].pc = "fee"]
      /\ UNCHANGED <<setup, exchange, queue, routing, order, poll, cancel, release, running,
                     session>>
      /\ \/ ledger' = ledger
         \/ /\ ledger.received[c] = 0
            /\ ledger' = [ledger EXCEPT !.received[c] = q]
  BY <1>2, <1>4 DEF Receive, Leg
<1>6. CASE ledger' = ledger
  <2>1. BookedOnce'
    BY <1>5, <1>6 DEF PolledInv, BookedOnce, Qty
  <2> QED BY <1>1, <1>5, <1>6, <2>1, PolledLeg DEF PolledInv
<1>7. CASE /\ ledger.received[c] = 0 /\ ledger' = [ledger EXCEPT !.received[c] = q]
  <2>1. /\ ledger'.received = [ledger.received EXCEPT ![c] = q] /\ ledger'.paid = ledger.paid
        /\ ledger'.locked = ledger.locked /\ ledger'.released = ledger.released
    BY <1>3, <1>7 DEF Ledgers
  <2>2. BookedOnce'
    <3>1. UNCHANGED <<order, setup>> /\ Qty' = Qty /\ SumFunction(ledger'.paid) = SumFunction(ledger.paid)
      BY <1>5, <2>1 DEF Qty
    <3>2. \A x \in 1..MaxQty : ledger'.paid[x] # 0 \/ ledger'.received[x] # 0 => x <= order.cum
      <4>1. order.cum \in Int
        BY PolledNow
      <4> QED BY <1>3, <1>4, <1>7, <2>1, <4>1 DEF PolledInv, BookedOnce
    <3>3. ledger'.received[order.cum] = order.cum - order.settled /\ ledger'.paid = ledger.paid
      BY <1>3, <1>4, <1>7, <2>1
    <3> QED BY <2>1, <3>1, <3>2, <3>3 DEF PolledInv, BookedOnce
  <2>3. \A x \in 1..MaxQty : /\ ledger.paid[x] # 0 => ledger'.paid[x] = ledger.paid[x]
                             /\ ledger.received[x] # 0 => ledger'.received[x] = ledger.received[x]
    BY <1>3, <1>7, <2>1
  <2> QED BY <1>1, <1>5, <2>1, <2>2, <2>3, PolledLeg DEF PolledInv
<1> QED BY <1>5, <1>6, <1>7

\* A fee changes neither legs nor locks.
LEMMA PolledFee ==
  ASSUME OnlyPolled, SettleInv, PolledInv, NEW a \in Settlers, Fee(a)
  PROVE  PolledInv'
<1>1. tasks[a] # NoTask
  BY DEF Fee, NoTask
<1>2. PICK c : c = tasks[a].cum
  OBVIOUS
<1>3. /\ tasks' = [tasks EXCEPT ![a].pc = "mark"]
      /\ UNCHANGED <<setup, exchange, queue, routing, order, poll, cancel, release, running,
                     session>>
      /\ ledger' \in {ledger, [ledger EXCEPT !.fees = @ \cup {c}]}
  BY <1>2 DEF Fee
<1>4. /\ ledger'.paid = ledger.paid /\ ledger'.received = ledger.received
      /\ ledger'.locked = ledger.locked /\ ledger'.released = ledger.released
  BY <1>3 DEF SettleInv, LedgerInv, Ledgers
<1>5. BookedOnce'
  BY <1>3, <1>4 DEF PolledInv, BookedOnce, Qty
<1> QED BY <1>1, <1>3, <1>4, <1>5, PolledLeg DEF PolledInv

\* markFillSettled moves the cursor over the progress that is booked, and to nowhere else.
LEMMA PolledMark ==
  ASSUME OnlyPolled, SettleInv, PolledInv, NEW a \in Settlers, MarkSettled(a)
  PROVE  PolledInv'
<1>1. tasks[a] # NoTask /\ tasks[a].pc = "mark"
  BY DEF MarkSettled, NoTask
<1>2. PICK c, q : c = tasks[a].cum /\ q = tasks[a].qty
  OBVIOUS
<1>3. /\ c \in 1..MaxQty /\ q \in 1..MaxQty /\ MaxQty \in Nat
      /\ ledger.paid[c] = q /\ ledger.received[c] = q
      /\ order.cum \in Int /\ order.settled \in Int
      /\ order = [status |-> order.status, cum |-> order.cum, settled |-> order.settled]
      /\ DOMAIN tasks = Settlers
  <2>1. c \in 1..MaxQty /\ q \in 1..MaxQty /\ ledger.paid[c] = q /\ ledger.received[c] = q
    BY <1>1, <1>2, TaskFacts
  <2> QED BY <2>1, PolledNow
<1>4. /\ UNCHANGED <<setup, exchange, queue, routing, poll, cancel, release, ledger, running,
                     session>>
      /\ order' = [order EXCEPT !.settled = Larger(@, c)]
      /\ tasks' = [tasks EXCEPT ![a] = NoTask] /\ Qty' = Qty
  BY <1>2 DEF MarkSettled, Qty
<1>5. \A b \in Settlers : tasks'[b] # NoTask => tasks[b] # NoTask /\ tasks'[b] = tasks[b] /\ b # a
  BY <1>3, <1>4
<1>6. tasks[Stream] = NoTask => tasks'[Stream] = NoTask
  BY <1>3, <1>4
<1>7. Undisturbed' /\ ReleasesRest'
  BY <1>4, <1>6 DEF PolledInv, Undisturbed, ReleasesRest
<1>8. CASE c = order.cum /\ order.settled < order.cum
  <2>1. order' = [status |-> order.status, cum |-> order.cum, settled |-> order.cum]
    BY <1>3, <1>4, <1>8 DEF Larger
  <2>2. order'.status = order.status /\ order'.cum = order.cum /\ order'.settled = order.cum
    BY <2>1
  <2>3. q = order.cum - order.settled
    BY <1>1, <1>2, <1>8 DEF PolledInv, SettlesOrRepeats
  <2>4. StatusReported'
    BY <1>3, <2>2 DEF PolledInv, StatusReported
  <2>5. OneProgress'
    <3>1. poll.pc = "fetchOpen"
      BY <1>8 DEF PolledInv, OneProgress
    <3> QED BY <1>3, <1>4, <2>2, <3>1 DEF OneProgress
  <2>6. SettlesOrRepeats'
    <3> SUFFICES ASSUME NEW b \in Settlers, tasks'[b] # NoTask
                 PROVE  /\ tasks[b].cum <= order.cum
                        /\ ledger.paid[tasks[b].cum] = tasks[b].qty
                        /\ ledger.received[tasks[b].cum] = tasks[b].qty
      BY <1>3, <1>4, <1>5, <2>2 DEF SettlesOrRepeats
    <3>1. tasks[b] # NoTask
      BY <1>5
    <3> QED BY <1>3, <1>8, <2>3, <3>1 DEF PolledInv, SettlesOrRepeats
  <2>7. BookedOnce'
    <3>1. PICK s \in Int : s = SumFunction(ledger.paid)
      BY PolledNow
    <3>2. s = order.cum
      BY <1>3, <1>8, <2>3, <3>1 DEF PolledInv, BookedOnce
    <3> QED BY <1>3, <1>4, <2>2, <3>1, <3>2 DEF PolledInv, BookedOnce
  <2> QED BY <1>7, <2>4, <2>5, <2>6, <2>7 DEF PolledInv
<1>9. CASE ~(c = order.cum /\ order.settled < order.cum)
  <2>1. c <= order.settled
    BY <1>1, <1>2, <1>9 DEF PolledInv, SettlesOrRepeats
  <2>2. order' = order
    BY <1>3, <1>4, <2>1 DEF Larger
  <2>3. StatusReported' /\ BookedOnce'
    BY <1>4, <2>2 DEF PolledInv, StatusReported, BookedOnce
  <2>4. SettlesOrRepeats'
    BY <1>4, <1>5, <2>2 DEF PolledInv, SettlesOrRepeats
  <2>5. OneProgress'
    <3>1. Poll \in Settlers
      BY PolledNow
    <3>2. order.settled < order.cum => a # Poll /\ tasks'[Poll] = tasks[Poll]
      BY <1>2, <1>3, <1>4, <1>9, <3>1 DEF PolledInv, OneProgress
    <3>3. poll.pc = "apply" => Answered'
      BY <1>4, <2>2 DEF PolledInv, OneProgress, Answered
    <3> QED BY <1>4, <1>5, <2>2, <3>1, <3>2, <3>3 DEF PolledInv, OneProgress
  <2> QED BY <1>7, <2>3, <2>4, <2>5 DEF PolledInv
<1> QED BY <1>8, <1>9

\* A tick settles just the progress that is under way.
LEMMA PolledTick ==
  ASSUME OnlyPolled, SettleInv, PolledInv, Tick
  PROVE  PolledInv'
<1>1. PICK c, s : c = order.cum /\ s = order.settled
  OBVIOUS
<1>2. /\ c \in Int /\ s \in Int /\ c <= MaxQty /\ c >= 0 /\ s >= 0 /\ MaxQty \in Nat
      /\ DOMAIN tasks = Settlers /\ Stream \in Settlers /\ Poll \in Settlers
  <2>1. exchange.filled \in 0..Qty /\ Qty \in 1..MaxQty /\ order.cum \in 0..exchange.filled
        /\ order.settled \in 0..exchange.filled
    BY PolledNow
  <2> QED BY <1>1, <2>1, PolledNow
<1>3. /\ UNCHANGED <<setup, exchange, queue, routing, order, poll, cancel, release, ledger, running,
                     session>>
      /\ tasks' = DispatchUnsettled(order) /\ tasks' # tasks /\ Qty' = Qty
  BY DEF Tick, Qty
<1>4. s < c /\ tasks' = [tasks EXCEPT ![Dispatch(c)] = [pc |-> "pay", cum |-> c, qty |-> c - s]]
  <2>1. c > s /\ tasks' = BeginSettlement(Dispatch(c), c, order)
    BY <1>1, <1>3 DEF DispatchUnsettled
  <2>2. EffectiveCum(order, c) = c
    BY <1>1, <1>2, <2>1 DEF EffectiveCum, Smaller
  <2> QED BY <1>1, <1>2, <1>3, <2>1, <2>2 DEF BeginSettlement
<1>5. PICK d, t : d = Dispatch(c) /\ t = [pc |-> "pay", cum |-> c, qty |-> c - s]
  OBVIOUS
<1>6. d \in Settlers /\ d # Stream /\ d # Poll /\ t.cum = c /\ t.qty = c - s
  BY <1>2, <1>4, <1>5 DEF Settlers, Dispatch, Stream, Poll
<1>7. tasks' = [tasks EXCEPT ![d] = t]
  BY <1>4, <1>5
<1>8. /\ tasks'[d] = t /\ \A b \in Settlers \ {d} : tasks'[b] = tasks[b]
      /\ tasks'[Poll] = tasks[Poll] /\ tasks'[Stream] = tasks[Stream]
  BY <1>2, <1>6, <1>7
<1>9. Undisturbed' /\ StatusReported' /\ BookedOnce' /\ ReleasesRest'
  BY <1>3, <1>8 DEF PolledInv, Undisturbed, StatusReported, BookedOnce, ReleasesRest
<1>10. OneProgress'
  BY <1>3, <1>8 DEF PolledInv, OneProgress, Answered
<1>11. SettlesOrRepeats'
  <2> SUFFICES ASSUME NEW b \in Settlers, tasks'[b] # NoTask
               PROVE  /\ tasks'[b].cum <= order.cum
                      /\ IF tasks'[b].cum = order.cum /\ order.settled < order.cum
                         THEN tasks'[b].qty = order.cum - order.settled
                         ELSE /\ ledger.paid[tasks'[b].cum] = tasks'[b].qty
                              /\ ledger.received[tasks'[b].cum] = tasks'[b].qty
                              /\ tasks'[b].cum <= order.settled
    BY <1>3 DEF SettlesOrRepeats
  <2>1. CASE b = d
    BY <1>1, <1>2, <1>4, <1>6, <1>8, <2>1
  <2>2. CASE b # d
    <3>1. tasks'[b] = tasks[b]
      BY <1>8, <2>2
    <3> QED BY <3>1 DEF PolledInv, SettlesOrRepeats
  <2> QED BY <2>1, <2>2
<1> QED BY <1>9, <1>10, <1>11 DEF PolledInv

\* Selecting the order and asking for it change nothing it has; the answer is what the
\* exchange has just now.
LEMMA PolledAsks ==
  ASSUME OnlyPolled, SettleInv, PolledInv, PollSelect \/ PollCheck \/ PollFetch
  PROVE  PolledInv'
<1>1. UNCHANGED <<setup, exchange, queue, routing, order, tasks, cancel, release, ledger, running,
                  session>> /\ Qty' = Qty
  BY DEF PollSelect, PollCheck, PollFetch, PolledInv, Undisturbed, Qty
<1>2. Undisturbed' /\ StatusReported' /\ SettlesOrRepeats' /\ BookedOnce' /\ ReleasesRest'
  BY <1>1 DEF PolledInv, Undisturbed, StatusReported, SettlesOrRepeats, BookedOnce, ReleasesRest
<1>3. /\ poll.pc \in {"idle", "check", "fetch"}
      /\ tasks[Poll] = NoTask /\ ~(order.settled < order.cum)
  BY DEF PollSelect, PollCheck, PollFetch, PolledInv, OneProgress
<1>4. poll = [pc |-> poll.pc, seen |-> poll.seen, filled |-> poll.filled, status |-> poll.status]
  BY DEF SettleInv, PassInv, Passes
<1>5. CASE PollSelect
  <2>1. poll'.pc = "check" /\ poll'.seen = order
    BY <1>5 DEF PollSelect, NoPoll
  <2>2. order.status \in {"open", "partially_filled"}
    BY <1>5 DEF PollSelect, PolledInv, StatusReported, Pollable, Terminal
  <2>3. OneProgress'
    BY <1>1, <1>3, <2>1, <2>2 DEF OneProgress
  <2> QED BY <1>2, <2>3 DEF PolledInv
<1>6. CASE PollCheck
  <2>1. poll'.pc = "fetch" /\ poll'.seen = poll.seen /\ poll.pc = "check"
    BY <1>4, <1>6 DEF PollCheck, PolledInv, Undisturbed
  <2>2. OneProgress'
    BY <1>1, <1>3, <2>1 DEF PolledInv, OneProgress
  <2> QED BY <1>2, <2>2 DEF PolledInv
<1>7. CASE PollFetch
  <2>1. /\ poll'.pc = "apply" /\ poll'.seen = poll.seen /\ poll.pc = "fetch"
        /\ poll'.filled = exchange.filled
        /\ poll'.status = AdjustPartialFill(Reported(exchange), exchange.filled, Qty)
    BY <1>4, <1>7 DEF PollFetch
  <2>2. Answered'
    <3>1. /\ exchange.filled \in 0..Qty /\ Qty \in 1..MaxQty /\ MaxQty \in Nat
          /\ order.cum \in 0..exchange.filled
      BY PolledNow
    <3>2. exchange.state \in ExchangeStates /\ setup.partial \in {"open", "partially_filled"}
      BY NowFacts DEF Setup
    <3>3. exchange.state \in {"open", "canceled"} => exchange.filled < Qty
      BY DEF PolledInv, ReleasesRest
    <3>4. PICK n, st : n = exchange.filled /\ st = Reported(exchange)
      OBVIOUS
    <3>5. /\ st \in {"open", "partially_filled", "filled", "cancelled", "failed"}
          /\ st \in Terminal => exchange.state # "open"
          /\ st = "cancelled" => n < Qty
          /\ st = "partially_filled" => n > 0
      BY <3>1, <3>2, <3>3, <3>4 DEF Reported, ExchangeStates, Terminal
    <3>6. PICK w : w = AdjustPartialFill(st, n, Qty)
      OBVIOUS
    <3>7. /\ w \in {"open", "partially_filled", "filled", "cancelled", "failed"}
          /\ w \in Terminal => st \in Terminal
          /\ w = "cancelled" => n < Qty
          /\ w = "filled" => n = Qty
          /\ w = "partially_filled" => n > 0
      BY <3>1, <3>4, <3>5, <3>6 DEF AdjustPartialFill, Terminal
    <3>8. poll'.status = w /\ poll'.filled = n
      BY <2>1, <3>4, <3>6
    <3>9. order.cum <= n
      BY <3>1, <3>4
    <3> QED BY <1>1, <3>4, <3>5, <3>7, <3>8, <3>9 DEF Answered
  <2>3. OneProgress'
    BY <1>1, <1>3, <2>1, <2>2 DEF PolledInv, OneProgress
  <2> QED BY <1>2, <2>3 DEF PolledInv
<1> QED BY <1>5, <1>6, <1>7

\* The answer is taken over whole or not at all: progress is settled by the pass itself,
\* before anything else is asked, and the last word of the exchange starts the release.
LEMMA PolledApplies ==
  ASSUME OnlyPolled, SettleInv, PolledInv, PollApply
  PROVE  PolledInv'
<1> DEFINE n == poll.filled
           new == [status |-> poll.status, cum |-> n, settled |-> poll.seen.settled]
<1>1. /\ UNCHANGED <<setup, exchange, queue, routing, cancel, ledger, running, session>>
      /\ poll' = [poll EXCEPT !.pc = "fetchOpen"] /\ Qty' = Qty
      /\ Upsert(new) /\ ReleaseAfterUpsert(new)
      /\ tasks' = IF n > poll.seen.cum THEN BeginSettlement(Poll, n, order') ELSE tasks
      /\ poll.pc = "apply"
  BY DEF PollApply, Qty
<1>2. /\ poll.seen = order /\ order.status \in {"open", "partially_filled"} /\ Answered
      /\ tasks[Poll] = NoTask /\ order.settled = order.cum /\ session
      /\ order.status = "partially_filled" => order.cum > 0
  <2>1. ~(order.settled < order.cum) /\ order.settled <= order.cum
    BY <1>1 DEF PolledInv, OneProgress, StatusReported
  <2>2. order.settled \in Int /\ order.cum \in Int
    <3>1. order.cum \in 0..exchange.filled /\ order.settled \in 0..exchange.filled
      BY PolledNow
    <3> QED BY <3>1
  <2> QED BY <1>1, <2>1, <2>2 DEF PolledInv, OneProgress, StatusReported, Undisturbed
<1>3. /\ n \in Int /\ order.cum \in Int /\ order.settled \in Int /\ order.cum <= n /\ order.cum >= 0
      /\ n <= MaxQty /\ MaxQty \in Nat /\ n <= exchange.filled
      /\ DOMAIN tasks = Settlers /\ Poll \in Settlers /\ Stream \in Settlers /\ Poll # Stream
      /\ DOMAIN release = Releasers /\ order.status \in Status
      /\ order = [status |-> order.status, cum |-> order.cum, settled |-> order.settled]
  <2>1. exchange.filled \in 0..Qty /\ Qty \in 1..MaxQty /\ order.cum \in 0..exchange.filled
        /\ order.settled \in 0..exchange.filled /\ poll.filled \in 0..exchange.filled
        /\ MaxQty \in Nat
    BY PolledNow
  <2>2. order.cum <= poll.filled
    BY <1>2 DEF Answered
  <2>3. Poll # Stream
    BY DEF Poll, Stream
  <2>4. /\ n \in Int /\ order.cum \in Int /\ order.settled \in Int /\ order.cum >= 0
        /\ n <= MaxQty /\ n <= exchange.filled
    BY <2>1
  <2> QED BY <2>1, <2>2, <2>3, <2>4, PolledNow
<1>4. poll'.pc = "fetchOpen"
  BY <1>1 DEF SettleInv, PassInv, Passes
<1>5. CASE ~Accepts(order.status, poll.status)
  <2>1. order' = order /\ release' = release
    BY <1>1, <1>5 DEF Upsert, ReleaseAfterUpsert
  <2>2. order.status = "partially_filled" /\ order.cum > 0
    <3>1. poll.status \in {"open", "partially_filled", "filled", "cancelled", "failed"}
      BY <1>2 DEF Answered
    <3> QED BY <1>2, <1>5, <3>1 DEF Accepts, ValidNext
  <2>3. EffectiveCum(order, n) = order.cum
    BY <1>3, <2>2 DEF EffectiveCum, Smaller
  <2>4. tasks' = tasks
    BY <1>1, <1>2, <1>3, <2>1, <2>3 DEF BeginSettlement
  <2>5. OneProgress'
    BY <1>2, <1>3, <1>4, <2>1, <2>4 DEF OneProgress
  <2> QED BY <1>1, <2>1, <2>4, <2>5
          DEF PolledInv, Undisturbed, StatusReported, SettlesOrRepeats, BookedOnce, ReleasesRest
<1>6. CASE Accepts(order.status, poll.status)
  <2>1. order' = [status |-> poll.status, cum |-> n, settled |-> order.settled]
    BY <1>1, <1>2, <1>3, <1>6 DEF Upsert, Merge, Larger
  <2>2. order'.status = poll.status /\ order'.cum = n /\ order'.settled = order.cum
    BY <1>2, <2>1
  <2>3. StatusReported'
    <3>1. /\ poll.status \in {"open", "partially_filled"} \cup Terminal
          /\ poll.status = "partially_filled" => n > 0
      BY <1>2 DEF Answered, Terminal
    <3> QED BY <1>2, <1>3, <2>2, <3>1 DEF StatusReported
  <2>4. ReleasesRest'
    <3>1. CASE release' = release
      BY <1>1, <3>1 DEF PolledInv, ReleasesRest
    <3>2. CASE /\ poll.status \in {"cancelled", "filled"}
               /\ release' = [release EXCEPT !["tracker"] = StartRelease(order'.status, order'.cum)]
      <4>1. release'["tracker"] = [pc |-> "read", reason |-> poll.status, filled |-> n, amount |-> 0]
        BY <1>3, <2>2, <3>2 DEF StartRelease, Releasers
      <4>2. /\ exchange.state # "open" /\ n = exchange.filled
            /\ poll.status = "cancelled" => n < Qty
            /\ poll.status = "filled" => n = Qty
        BY <1>2, <3>2 DEF Answered, Terminal
      <4> QED BY <1>1, <3>2, <4>1, <4>2 DEF PolledInv, ReleasesRest
    <3> QED BY <1>1, <3>1, <3>2 DEF ReleaseAfterUpsert
  <2>5. release'["intent"] = release["intent"]
    BY <1>1, <1>3 DEF ReleaseAfterUpsert, Releasers
  <2>6. CASE n = order.cum
    <3>1. tasks' = tasks /\ UNCHANGED <<ledger, setup>>
      BY <1>1, <1>2, <1>3, <2>6
    <3>2. order'.cum = order.cum /\ order'.settled = order.settled
      BY <1>2, <2>2, <2>6
    <3>3. Undisturbed'
      BY <1>1, <2>5, <3>1 DEF PolledInv, Undisturbed
    <3>4. SettlesOrRepeats' /\ BookedOnce'
      BY <1>1, <3>1, <3>2 DEF PolledInv, SettlesOrRepeats, BookedOnce
    <3>5. OneProgress'
      BY <1>2, <1>3, <1>4, <3>1, <3>2 DEF OneProgress
    <3> QED BY <2>3, <2>4, <3>3, <3>4, <3>5 DEF PolledInv
  <2>7. CASE n > order.cum
    <3>1. PICK c, s : c = order'.cum /\ s = order'.settled
      OBVIOUS
    <3>2. c = n /\ s = order.cum /\ s < c /\ c \in Int /\ s \in Int /\ c > 0 /\ c <= MaxQty
      BY <1>3, <2>2, <2>7, <3>1
    <3>3. EffectiveCum(order', n) = c
      BY <2>2, <3>1, <3>2 DEF EffectiveCum, Smaller
    <3>4. PICK t : t = [pc |-> "pay", cum |-> c, qty |-> c - s]
      OBVIOUS
    <3>5. tasks' = [tasks EXCEPT ![Poll] = t]
      <4>1. tasks' = BeginSettlement(Poll, n, order')
        BY <1>1, <1>2, <2>7
      <4>2. EffectiveCum(order', n) > order'.settled
        BY <3>1, <3>2, <3>3
      <4> QED BY <1>2, <3>1, <3>3, <3>4, <4>1, <4>2 DEF BeginSettlement
    <3>6. tasks'[Poll] = t /\ t.cum = c /\ t.qty = c - s /\ t.pc = "pay"
      BY <1>3, <3>4, <3>5
    <3>7. \A b \in Settlers \ {Poll} : tasks'[b] = tasks[b]
      BY <1>3, <3>5
    <3>8. t # NoTask
      BY <3>6 DEF NoTask
    <3>9. Undisturbed'
      BY <1>1, <1>3, <2>5, <3>7 DEF PolledInv, Undisturbed
    <3>10. OneProgress'
      BY <1>4, <3>1, <3>6, <3>8 DEF OneProgress
    <3>11. SettlesOrRepeats'
      <4> SUFFICES ASSUME NEW b \in Settlers, tasks'[b] # NoTask
                   PROVE  /\ tasks'[b].cum <= c
                          /\ IF tasks'[b].cum = c /\ s < c
                             THEN tasks'[b].qty = c - s
                             ELSE /\ ledger.paid[tasks'[b].cum] = tasks'[b].qty
                                  /\ ledger.received[tasks'[b].cum] = tasks'[b].qty
                                  /\ tasks'[b].cum <= s
        BY <1>1, <3>1 DEF SettlesOrRepeats
      <4>1. CASE b = Poll
        BY <3>2, <3>6, <4>1
      <4>2. CASE b # Poll
        <5>1. tasks'[b] = tasks[b]
          BY <3>7, <4>2
        <5>2. tasks[b].cum \in 1..MaxQty
          BY <5>1, TaskFacts
        <5>3. /\ tasks[b].cum <= s /\ ledger.paid[tasks[b].cum] = tasks[b].qty
              /\ ledger.received[tasks[b].cum] = tasks[b].qty
          BY <1>2, <1>3, <3>2, <5>1 DEF PolledInv, SettlesOrRepeats
        <5> QED BY <1>3, <3>2, <5>1, <5>2, <5>3
      <4> QED BY <4>1, <4>2
    <3>12. BookedOnce'
      <4>1. PICK x \in Int : x = SumFunction(ledger.paid)
        BY PolledNow
      <4>2. /\ x = s /\ \A d \in 1..MaxQty : ledger.paid[d] # 0 \/ ledger.received[d] # 0 => d <= s
            /\ ledger.locked + x + ledger.released["cancelled"] = Qty + setup.otherLocked
        BY <1>2, <3>2, <4>1 DEF PolledInv, BookedOnce
      <4>3. c \in 1..MaxQty
        BY <1>3, <3>2
      <4>4. ledger.paid[c] = 0 /\ ledger.received[c] = 0
        BY <3>2, <4>2, <4>3
      <4>5. \A d \in 1..MaxQty : ledger.paid[d] # 0 \/ ledger.received[d] # 0 => d <= c
        BY <1>3, <3>2, <4>2
      <4> QED BY <1>1, <3>1, <3>2, <4>1, <4>2, <4>4, <4>5 DEF BookedOnce
    <3> QED BY <2>3, <2>4, <3>9, <3>10, <3>11, <3>12 DEF PolledInv
  <2> QED BY <1>3, <2>6, <2>7
<1> QED BY <1>5, <1>6

\* The rest of the pass begins with nothing to settle; an order that is found missing keeps
\* its progress.
LEMMA PolledEnds ==
  ASSUME OnlyPolled, SettleInv, PolledInv, PollFetchOpen \/ PollCompare
  PROVE  PolledInv'
<1>1. /\ UNCHANGED <<setup, exchange, queue, routing, tasks, cancel, release, ledger, running,
                     session>>
      /\ order' = order \/ order' = [order EXCEPT !.status = "external_missing"]
      /\ poll' = NoPoll \/ poll' = [poll EXCEPT !.pc = "compare", !.status = Reported(exchange)]
      /\ Qty' = Qty
  BY DEF PollFetchOpen, PollCompare, Qty
<1>2. /\ order'.cum = order.cum /\ order'.settled = order.settled
      /\ order'.status \in {order.status, "external_missing"}
  BY <1>1, PolledNow
<1>3. poll'.pc \in {"idle", "compare"}
  <2>1. [poll EXCEPT !.pc = "compare", !.status = Reported(exchange)].pc = "compare"
    BY DEF SettleInv, PassInv, Passes
  <2>2. NoPoll.pc = "idle"
    BY DEF NoPoll
  <2> QED BY <1>1, <2>1, <2>2, Zenon
<1>4. tasks[Poll] = NoTask /\ ~(order.settled < order.cum)
  BY DEF PollFetchOpen, PollCompare, PolledInv, OneProgress
<1>5. OneProgress'
  BY <1>1, <1>2, <1>3, <1>4 DEF OneProgress
<1>6. StatusReported'
  BY <1>2 DEF PolledInv, StatusReported, Terminal
<1>7. Undisturbed' /\ SettlesOrRepeats' /\ BookedOnce' /\ ReleasesRest'
  BY <1>1, <1>2 DEF PolledInv, Undisturbed, SettlesOrRepeats, BookedOnce, ReleasesRest
<1> QED BY <1>5, <1>6, <1>7 DEF PolledInv

\* The release reads what is left once the exchange has had its last word, and frees no more.
LEMMA PolledReleases ==
  ASSUME OnlyPolled, SettleInv, PolledInv,
         ReleaseRead("tracker") \/ ReleaseUnlock("tracker")
  PROVE  PolledInv'
<1>1. PICK t : t = release["tracker"]
  OBVIOUS
<1>2. /\ t \in Releases(exchange.filled) /\ DOMAIN release = Releasers
      /\ exchange.filled \in Int /\ exchange.filled >= 0 /\ exchange.filled <= Qty /\ Qty \in Int
      /\ ledger \in Ledgers /\ ledger.locked \in Nat
      /\ ledger.released \in [{"filled", "cancelled"} -> Nat]
  <2>1. exchange.filled \in 0..Qty /\ Qty \in 1..MaxQty
    BY PolledNow
  <2>2. t \in Releases(exchange.filled) /\ ledger \in Ledgers
    BY <1>1 DEF SettleInv, ReleaseInv, Releasers, LedgerInv
  <2> QED BY <2>1, <2>2, PolledNow
<1>3. t = [pc |-> t.pc, reason |-> t.reason, filled |-> t.filled, amount |-> t.amount]
      /\ t.amount \in Nat /\ t.reason \in {"filled", "cancelled"}
  BY <1>2 DEF Releases
<1>4. /\ UNCHANGED <<setup, exchange, queue, routing, order, tasks, poll, cancel, running, session>>
      /\ Qty' = Qty /\ t.pc # "none"
      /\ exchange.state # "open" /\ t.filled = exchange.filled
      /\ IF t.reason = "filled" THEN exchange.filled = Qty ELSE exchange.filled < Qty
      /\ ledger.released["filled"] = 0
      /\ ledger.released["cancelled"] + exchange.filled <= Qty
      /\ exchange.state \in {"open", "canceled"} => exchange.filled < Qty
  BY <1>1 DEF ReleaseRead, ReleaseUnlock, Qty, PolledInv, ReleasesRest
<1>5. Undisturbed /\ StatusReported' /\ OneProgress'
  BY <1>4 DEF PolledInv, Undisturbed, StatusReported, OneProgress, Answered
<1>6. CASE ReleaseRead("tracker")
  <2>1. PICK m : m = ReleaseAmount(t.reason, t.filled, Qty, ledger.locked)
    OBVIOUS
  <2>2. /\ ledger' = ledger
        /\ \/ release' = [release EXCEPT !["tracker"] = NoRelease]
           \/ /\ m # 0
              /\ release' = [release EXCEPT !["tracker"] = [t EXCEPT !.pc = "unlock", !.amount = m]]
    BY <1>1, <1>6, <2>1, Zenon DEF ReleaseRead
  <2>3. m # 0 => t.reason = "cancelled" /\ m <= Qty - exchange.filled
    <3>1. PICK n, l \in Int : n = exchange.filled /\ l = ledger.locked
      BY <1>2
    <3>2. m = ReleaseAmount(t.reason, n, Qty, l) /\ n >= 0 /\ n <= Qty /\ l >= 0
      BY <1>2, <1>4, <2>1, <3>1
    <3>3. CASE t.reason = "filled"
      <4>1. n = Qty
        BY <1>4, <3>1, <3>3
      <4> QED BY <1>2, <3>1, <3>2, <3>3, <4>1 DEF ReleaseAmount, Larger, Smaller
    <3>4. CASE t.reason = "cancelled"
      <4>1. n < Qty
        BY <1>4, <3>1, <3>4
      <4> QED BY <1>2, <3>1, <3>2, <3>4, <4>1 DEF ReleaseAmount, Larger, Smaller
    <3> QED BY <1>3, <3>3, <3>4
  <2>4. SettlesOrRepeats' /\ BookedOnce'
    BY <1>4, <2>2 DEF PolledInv, SettlesOrRepeats, BookedOnce
  <2>5. release'["intent"] = release["intent"]
    BY <1>2, <2>2 DEF Releasers
  <2>6. Undisturbed'
    BY <1>4, <2>5 DEF PolledInv, Undisturbed
  <2>7. ReleasesRest'
    <3>1. CASE release' = [release EXCEPT !["tracker"] = NoRelease]
      <4>1. release'["tracker"].pc = "none"
        BY <1>2, <3>1 DEF NoRelease, Releasers
      <4> QED BY <1>4, <2>2, <4>1 DEF ReleasesRest
    <3>2. CASE /\ m # 0
               /\ release' = [release EXCEPT !["tracker"] = [t EXCEPT !.pc = "unlock", !.amount = m]]
      <4>1. PICK u : u = [t EXCEPT !.pc = "unlock", !.amount = m]
        OBVIOUS
      <4>2. u.pc = "unlock" /\ u.reason = t.reason /\ u.filled = t.filled /\ u.amount = m
        BY <1>3, <4>1
      <4>3. release'["tracker"] = u
        BY <1>2, <3>2, <4>1 DEF Releasers
      <4> QED BY <1>4, <2>2, <2>3, <3>2, <4>2, <4>3 DEF ReleasesRest
    <3> QED BY <2>2, <3>1, <3>2
  <2> QED BY <1>5, <2>4, <2>6, <2>7 DEF PolledInv
<1>7. CASE ReleaseUnlock("tracker")
  <2>1. PICK m \in Nat : m = t.amount
    BY <1>3
  <2>2. t.reason = "cancelled" /\ m <= Qty - exchange.filled
    BY <1>1, <1>7, <2>1 DEF ReleaseUnlock, PolledInv, ReleasesRest
  <2>3. /\ release' = [release EXCEPT !["tracker"] = NoRelease]
        /\ ledger' = IF ledger.released["cancelled"] = 0 /\ ledger.locked >= m
                     THEN [ledger EXCEPT !.released["cancelled"] = m, !.locked = @ - m]
                     ELSE ledger
    BY <1>1, <1>7, <2>1, <2>2 DEF ReleaseUnlock
  <2>4. release'["intent"] = release["intent"] /\ release'["tracker"].pc = "none"
    BY <1>2, <2>3 DEF Releasers, NoRelease
  <2>5. Undisturbed'
    BY <1>4, <2>4 DEF PolledInv, Undisturbed
  <2>6. CASE ledger' = ledger
    <3>1. SettlesOrRepeats' /\ BookedOnce' /\ ReleasesRest'
      BY <1>4, <2>4, <2>6 DEF PolledInv, SettlesOrRepeats, BookedOnce, ReleasesRest
    <3> QED BY <1>5, <2>5, <3>1 DEF PolledInv
  <2>7. CASE /\ ledger.released["cancelled"] = 0
             /\ ledger' = [ledger EXCEPT !.released["cancelled"] = m, !.locked = @ - m]
    <3>1. /\ ledger'.paid = ledger.paid /\ ledger'.received = ledger.received
          /\ ledger'.locked = ledger.locked - m
          /\ ledger'.released["cancelled"] = m /\ ledger'.released["filled"] = 0
      BY <1>2, <1>4, <2>7 DEF Ledgers
    <3>2. SettlesOrRepeats'
      BY <1>4, <3>1 DEF PolledInv, SettlesOrRepeats
    <3>3. ReleasesRest'
      <4>1. m + exchange.filled <= Qty
        BY <1>2, <2>1, <2>2
      <4> QED BY <1>4, <2>4, <3>1, <4>1 DEF ReleasesRest
    <3>4. BookedOnce'
      <4>1. PICK s \in Int : s = SumFunction(ledger.paid)
        BY PolledNow
      <4>2. ledger.locked + s + 0 = Qty + setup.otherLocked
        BY <2>7, <4>1 DEF PolledInv, BookedOnce
      <4>3. ledger'.locked + s + ledger'.released["cancelled"] = Qty + setup.otherLocked
        <5>1. setup.otherLocked \in Int
          BY PolledNow
        <5> QED BY <1>2, <2>1, <3>1, <4>1, <4>2, <5>1
      <4> QED BY <1>4, <3>1, <4>1, <4>3 DEF PolledInv, BookedOnce
    <3> QED BY <1>5, <2>5, <3>2, <3>3, <3>4 DEF PolledInv
  <2> QED BY <2>3, <2>6, <2>7
<1> QED BY <1>6, <1>7

\* The order begins with nothing filled, booked or under way.
LEMMA PolledInit == OnlyPolled /\ Init => PolledInv
<1> SUFFICES ASSUME OnlyPolled, Init PROVE PolledInv
  OBVIOUS
<1>1. SettleInv
  BY InitInv
<1>2. /\ MaxQty \in Nat /\ Qty \in 1..MaxQty /\ setup.otherLocked \in Nat
      /\ ledger.paid \in [1..MaxQty -> Units]
  BY <1>1, PolledNow
<1>3. /\ order.status = "open" /\ order.cum = 0 /\ order.settled = 0
      /\ exchange.filled = 0 /\ exchange.state = "open" /\ poll.pc = "idle"
  BY DEF Init, Placed, NoPoll
<1>4. /\ ledger.locked = Qty + setup.otherLocked
      /\ \A c \in 1..MaxQty : ledger.paid[c] = 0 /\ ledger.received[c] = 0
      /\ ledger.released["filled"] = 0 /\ ledger.released["cancelled"] = 0
  BY DEF Init
<1>5. \A a \in Settlers : tasks[a] = NoTask
  BY DEF Init
<1>6. Stream \in Settlers /\ Poll \in Settlers
  BY DEF Settlers
<1>7. Undisturbed
  BY <1>5, <1>6 DEF Init, Undisturbed
<1>8. StatusReported /\ OneProgress /\ SettlesOrRepeats
  BY <1>3, <1>5, <1>6 DEF StatusReported, OneProgress, SettlesOrRepeats
<1>9. BookedOnce
  <2>1. SumFunction(ledger.paid) = 0
    BY <1>2, <1>4, PaidAdds
  <2> QED BY <1>2, <1>3, <1>4, <2>1 DEF BookedOnce
<1>10. ReleasesRest
  <2>1. release["tracker"].pc = "none"
    BY DEF Init, NoRelease
  <2> QED BY <1>2, <1>3, <1>4, <2>1 DEF ReleasesRest
<1> QED BY <1>7, <1>8, <1>9, <1>10 DEF PolledInv

\* The invariant of every reachable state of an order that is only polled.
LEMMA PolledInvariance == Spec => [](SettleInv /\ (OnlyPolled => PolledInv))
<1>1. OnlyPolled /\ SettleInv /\ PolledInv /\ [Next]_vars => PolledInv'
  <2> SUFFICES ASSUME OnlyPolled, SettleInv, PolledInv, [Next]_vars PROVE PolledInv'
    OBVIOUS
  <2>1. CASE UNCHANGED vars \/ StoreOrder
    <3>1. /\ UNCHANGED <<setup, exchange, queue, routing, order, tasks, poll, cancel, release,
                         ledger, running, session>>
          /\ Qty' = Qty
      BY <2>1 DEF vars, StoreOrder, Qty
    <3> QED BY <3>1 DEF PolledInv, Undisturbed, StatusReported, OneProgress, Answered,
                        SettlesOrRepeats, BookedOnce, ReleasesRest
  <2>2. CASE Next
    <3>1. \/ \E q \in 1..Qty : ExchangeFills(q)
          \/ \E s \in {"closed", "canceled", "expired"} : ExchangeEnds(s)
          \/ \E a \in Settlers : Settle(a)
          \/ Tick \/ PollSelect \/ PollStep \/ StoreOrder
          \/ ReleaseRead("tracker") \/ ReleaseUnlock("tracker")
      BY <2>2, PolledSteps DEF PolledInv
    <3>2. ASSUME NEW a \in Settlers, Settle(a) PROVE PolledInv'
      BY <3>2, PolledPay, PolledReceive, PolledFee, PolledMark DEF Settle
    <3>3. CASE PollSelect \/ PollStep
      BY <3>3, PolledAsks, PolledApplies, PolledEnds DEF PollStep
    <3> QED BY <2>1, <3>1, <3>2, <3>3, PolledExchange, PolledTick, PolledReleases
  <2> QED BY <2>1, <2>2
<1>2. SettleInv /\ [Next]_vars => (OnlyPolled' => OnlyPolled)
  BY WorldStep DEF OnlyPolled
<1>3. Init => SettleInv /\ (OnlyPolled => PolledInv)
  BY InitInv, PolledInit
<1>4. SettleInv /\ (OnlyPolled => PolledInv) /\ [Next]_vars
        => (SettleInv /\ (OnlyPolled => PolledInv))'
  BY <1>1, <1>2, SettleStep
<1> QED BY <1>3, <1>4, PTL DEF Spec

\* Where fills are seen by passes and ticks alone, the settlements never debit more than the
\* exchange has filled, although a tick settles beside the pass and repeats what it booked:
\* handleSessionFill takes the progress over a cursor that only moves with the ledger, and
\* the pass waits for it before it asks again.
THEOREM PolledFillsOnce == Spec => []PolledNeverOverSettled
<1>1. SettleInv /\ (OnlyPolled => PolledInv) => PolledNeverOverSettled
  <2> SUFFICES ASSUME OnlyPolled, SettleInv, PolledInv PROVE NeverOverSettled
    BY DEF PolledNeverOverSettled
  <2>1. /\ exchange.filled \in 0..Qty /\ Qty \in 1..MaxQty /\ MaxQty \in Nat
        /\ order.cum \in 0..exchange.filled /\ order.settled \in 0..exchange.filled
        /\ SumFunction(ledger.paid) \in Int
    BY PolledNow
  <2>2. PICK s \in Int : s = SumFunction(ledger.paid)
    BY <2>1
  <2>3. order.settled <= order.cum
    BY DEF PolledInv, StatusReported
  <2>4. s <= order.cum
    <3>1. CASE order.settled = order.cum
      BY <2>1, <2>2, <3>1 DEF PolledInv, BookedOnce
    <3>2. CASE order.settled < order.cum
      <4>1. PICK p : p = ledger.paid[order.cum]
        OBVIOUS
      <4>2. p \in {0, order.cum - order.settled} /\ s = order.settled + p
        BY <2>2, <3>2, <4>1 DEF PolledInv, BookedOnce
      <4> QED BY <2>1, <2>2, <3>2, <4>2
    <3> QED BY <2>1, <2>3, <3>1, <3>2
  <2> QED BY <2>1, <2>2, <2>4 DEF NeverOverSettled
<1> QED BY <1>1, PolledInvariance, PTL

\* Nor is anything released that was filled: the release starts with the last word of the
\* exchange and its quantity.
THEOREM PolledReleasesRest == Spec => [](OnlyPolled => ReleaseOnlyUnfilled)
<1>1. SettleInv /\ (OnlyPolled => PolledInv) => (OnlyPolled => ReleaseOnlyUnfilled)
  <2> SUFFICES ASSUME OnlyPolled, SettleInv, PolledInv PROVE ReleaseOnlyUnfilled
    OBVIOUS
  <2>1. /\ exchange.filled \in 0..Qty /\ Qty \in 1..MaxQty
        /\ ledger.released \in [{"filled", "cancelled"} -> Nat]
    BY PolledNow
  <2>2. PICK r \in Nat, n \in Int : r = ledger.released["cancelled"] /\ n = exchange.filled
    BY <2>1
  <2>3. ledger.released["filled"] = 0 /\ r + n <= Qty
    BY <2>2 DEF PolledInv, ReleasesRest
  <2> QED BY <2>1, <2>2, <2>3 DEF ReleaseOnlyUnfilled
<1> QED BY <1>1, PolledInvariance, PTL
=============================================================================
