--------------------------- MODULE OrderPlacement ---------------------------
(***************************************************************************)
(* From an intent to an order on the exchange, for one strategy and one      *)
(* ledger bucket: StrategyIntentWorkerService dispatches the oldest new      *)
(* intent, StrategyIntentExecutionService reserves, submits with retries,    *)
(* reconciles a placement whose answer it did not get and acknowledges;      *)
(* ExchangeOrderTrackerService polls what is in doubt;                       *)
(* StrategyInstanceLifecycleService stops the strategy in between; a crash   *)
(* forgets what is in memory and StrategyStartupRecoveryService takes up     *)
(* what it finds.                                                            *)
(*                                                                           *)
(* Every intent sells one unit. What happens to an acknowledged order is     *)
(* FillSettlement's subject: here a status the tracker accepts takes its     *)
(* effect on the ledger in the same step.                                    *)
(***************************************************************************)
EXTENDS Integers, FiniteSets, FiniteSetsExt, OrderTracking

CONSTANTS
  IntentIds,     \* numbers, in the order of createdAt
  Slot,          \* the slotKey of each intent
  Terms,         \* the price and quantity of each intent
  Pasts,         \* which intents the risk checks refused before, a set for each start
  Funds,         \* units available in the bucket at first
  Answers,       \* the statuses a create may be acknowledged with
  Errors,        \* the definite errors the exchange may answer with
  LateLanding,   \* a request that timed out may still reach the exchange
  MaxRetries,    \* strategy.intent_max_retries
  MaxStops,      \* bound: how often the strategy is stopped
  MaxCrashes,    \* bound: how often the process dies
  None

ASSUME PlacementAssumption ==
  /\ IsFiniteSet(IntentIds) /\ IntentIds = 1..Cardinality(IntentIds)
  /\ DOMAIN Slot = IntentIds /\ DOMAIN Terms = IntentIds /\ Pasts \subseteq SUBSET IntentIds
  /\ Funds \in Nat /\ MaxRetries \in Nat /\ MaxStops \in Nat /\ MaxCrashes \in Nat
  /\ Answers \subseteq {"open", "filled", "cancelled", "rejected"}
  /\ Errors \subseteq {"INSUFFICIENT_FUNDS", "INVALID_ORDER", "NO_ID"}
  /\ LateLanding \in BOOLEAN
  /\ None \notin Nat
  \* an exchange order is matched to an intent by its terms, and its slot follows
  /\ \A i, j \in IntentIds : Terms[i] = Terms[j] => Slot[i] = Slot[j]

\* Client order ids: a sequence number per ledger order.
ClientIds == 0..Cardinality(IntentIds) - 1

\* Keys of the tracker: by exchange order id, by client order id while there is
\* none, and the key the hydration gives to every row without exchange id.
TrackKeys == ({"id", "client"} \X ClientIds) \cup {<<"blank", 0>>}

VARIABLES
  strategy,   \* status of the strategy instance row
  intents,    \* intent rows: status and mixinOrderId
  marked,     \* consumer receipts of strategy-intent-execution
  mappings,   \* exchange order mappings: "none", "reserved" or "linked"
  rows,       \* tracked_order rows
  ledger,     \* available, locked and the keys used
  worker,     \* the head intent the worker holds, or None
  exec,       \* the intent being consumed, or None
  processed,  \* processedIntentIds
  nextSeq,    \* nextClientOrderSeqByOrderId, or None
  paused,     \* reservations of the bucket are paused
  orders,     \* the tracker's orders
  poll,       \* the order being polled and the answer, or None
  stop,       \* how far stopStrategyForUser is
  exchange,   \* the exchange's side of each client order id
  sender,     \* for which intent a client order id was sent
  placed,     \* history: orders the exchange opened for each intent
  hasty,      \* history: intents given up on a definite error after an attempt
              \* that was not answered
  threw,      \* the order whose query ended the last pass by an exception, or None
  stops,      \* bound
  crashes     \* bound

durable == <<strategy, intents, marked, mappings, rows, ledger>>
outside == <<exchange, sender, placed>>
vars == <<strategy, intents, marked, mappings, rows, ledger, worker, exec, processed,
          nextSeq, paused, orders, poll, stop, exchange, sender, placed, hasty, threw, stops,
          crashes>>

Final == {"DONE", "FAILED", "CANCELLED"}
Cancellable == {"NEW", "SENT", "ACKED"}

Tracked == [client : ClientIds, hasId : BOOLEAN, intent : IntentIds \cup {None},
            status : Status \cup {"internal_missing"}]

LedgerKeys ==
  [what : {"reserve", "failed", "interrupted"}, ref : IntentIds] \cup
  [what : {"settle", "missing_id", "rejected", "not_found", "cancelled"}, ref : ClientIds]

Key(w, r) == [what |-> w, ref |-> r]

\* Where consumeIntent is, and what it holds.
ExecPc ==
  {"begin", "sent", "gate", "client", "reserve", "check", "submit", "reconcile", "release",
   "attach", "track", "rejected", "acked", "done", "mark"}

Execution ==
  [ pc : ExecPc, intent : IntentIds, client : ClientIds \cup {None}, attempt : Nat,
    doubt : BOOLEAN, applied : BOOLEAN,
    error : {None, "INSUFFICIENT_FUNDS", "INVALID_ORDER", "NO_ID", "IntentCancelled",
             "REQUEST_TIMEOUT", "DUPLICATE_ORDER_ID"},
    answer : {None, "open", "filled", "cancelled", "rejected"} ]

\* An order being polled and what the exchange says of it.
Polled == [order : Tracked, answer : {None, "open", "filled", "cancelled", "rejected"}]

ASSUME NoneAssumption ==
  /\ None \notin Tracked /\ None \notin Execution /\ None \notin Polled
  /\ None \notin TrackKeys
  /\ None \notin {"open", "filled", "cancelled", "rejected"}

Init ==
  /\ strategy = "running"
  /\ \E past \in Pasts :
       intents = [i \in IntentIds |-> [status |-> IF i \in past THEN "FAILED" ELSE "unpublished",
                                       order |-> None]]
  /\ marked = {} /\ processed = {}
  /\ mappings = [c \in ClientIds |-> "none"]
  /\ rows = [k \in TrackKeys |-> None] /\ orders = rows
  /\ ledger = [available |-> Funds, locked |-> 0, keys |-> {}]
  /\ worker = None /\ exec = None /\ poll = None /\ stop = "idle"
  /\ nextSeq = None /\ paused = FALSE
  /\ exchange = [c \in ClientIds |-> "none"]
  /\ sender = [c \in ClientIds |-> None]
  /\ placed = [i \in IntentIds |-> 0] /\ hasty = {} /\ threw = None
  /\ stops = 0 /\ crashes = 0

-----------------------------------------------------------------------------
(* The ledger's part: each key is used once.                                 *)

\* lockFunds succeeds.
CanLock == ~paused /\ ledger.available > 0

Lock(l, key) ==
  [l EXCEPT !.available = @ - 1, !.locked = @ + 1, !.keys = @ \cup {key}]

\* unlockFunds of one unit, which throws when nothing is locked. A key that was
\* used is a replay.
CanUnlock(l, key) == key \in l.keys \/ l.locked > 0

Unlock(l, key) ==
  IF key \in l.keys \/ l.locked = 0 THEN l
  ELSE [l EXCEPT !.available = @ + 1, !.locked = @ - 1, !.keys = @ \cup {key}]

\* The paying leg of a fill of the one unit.
Settle(l, key) ==
  IF key \in l.keys \/ l.locked = 0 THEN l
  ELSE [l EXCEPT !.locked = @ - 1, !.keys = @ \cup {key}]

-----------------------------------------------------------------------------
(* The tracker's part.                                                       *)

Accepted(old, o) ==
  \/ old = None
  \/ /\ old.status = "internal_missing"
     /\ o.status \in Status \ {"pending_cancel", "external_missing"}
  \/ old.status # "internal_missing" /\ Accepts(old.status, o.status)

\* toOrderKey
OrderKey(o) == <<IF o.hasId THEN "id" ELSE "client", o.client>>

\* What an accepted report does to the ledger: the first terminal status
\* releases, a filled order is settled. An order that ends as failed or
\* external_missing releases nothing.
ReportEffect(l, old, o) ==
  IF old # None /\ old.status \in Terminal THEN l
  ELSE CASE o.status = "cancelled" -> Unlock(l, Key("cancelled", o.client))
         [] o.status = "filled" -> Settle(l, Key("settle", o.client))
         [] OTHER -> l

\* upsertOrder in the tracker's map tr: merge, write behind, and the effects.
Upsert(tr, o) ==
  LET k == OrderKey(o)
      old == tr[k]
  IN  IF ~Accepted(old, o) THEN orders' = tr /\ UNCHANGED <<rows, ledger>>
      ELSE /\ orders' = [tr EXCEPT ![k] = o]
           /\ rows' = [rows EXCEPT ![k] = o]
           /\ ledger' = ReportEffect(ledger, old, o)

\* normalizeStatus of an exchange status.
Normalize(s) ==
  IF s = "rejected" THEN "failed" ELSE s

Landed(c) == exchange[c] \in {"open", "filled", "cancelled", "rejected"}

TrackedOrders == {orders[k] : k \in {x \in TrackKeys : orders[x] # None}}

\* The strategy's own orders: a placeholder carries another strategy key.
Own == {o \in TrackedOrders : o.intent # None}

-----------------------------------------------------------------------------
(* Publishing and dispatching.                                               *)

SetStatus(i, s) == intents' = [intents EXCEPT ![i].status = s]

\* A tick of the session publishes the next intent.
Publish ==
  /\ strategy = "running" /\ stop = "idle"
  /\ \E i \in IntentIds :
       /\ intents[i].status = "unpublished"
       /\ \A j \in IntentIds : j < i => intents[j].status # "unpublished"
       /\ SetStatus(i, "NEW")
  /\ UNCHANGED <<strategy, marked, mappings, rows, ledger, worker, exec, processed,
                 nextSeq, paused, orders, poll, stop, outside, hasty, threw, stops, crashes>>

\* Mutant: an intent that was sent and not acknowledged is taken up again.
NextNewOrSent == {i \in IntentIds : intents[i].status \in {"NEW", "SENT"}}

\* getNextNewIntent
NextNew == {i \in IntentIds : intents[i].status = "NEW"}

\* dispatchAvailableIntents reads the head of a strategy with nothing in flight.
WorkerTake ==
  /\ worker = None /\ exec = None
  /\ NextNew # {} /\ worker' = Min(NextNew)
  /\ UNCHANGED <<durable, exec, processed, nextSeq, paused, orders, poll, stop, outside,
                 hasty, threw, stops, crashes>>

CancelPending(in) ==
  [i \in IntentIds |-> IF in[i].status \in Cancellable
                       THEN [in[i] EXCEPT !.status = "CANCELLED"] ELSE in[i]]

\* isIntentAllowedForStrategy, then dispatchIntent or cancelPendingIntents.
WorkerDispatch ==
  /\ worker # None /\ worker' = None
  /\ \/ /\ strategy # "running"
        /\ intents' = CancelPending(intents) /\ UNCHANGED exec
     \/ /\ strategy = "running" /\ UNCHANGED intents
        /\ exec' = IF worker \in processed THEN None
                   ELSE [pc |-> "begin", intent |-> worker, client |-> None,
                         attempt |-> 0, doubt |-> FALSE, applied |-> FALSE, error |-> None,
                         answer |-> None]
  /\ UNCHANGED <<strategy, marked, mappings, rows, ledger, processed, nextSeq, paused,
                 orders, poll, stop, outside, hasty, threw, stops, crashes>>

-----------------------------------------------------------------------------
(* consumeIntent of a CREATE_LIMIT_ORDER, between its awaits.                *)

At(pc) == exec # None /\ exec.pc = pc

Goto(pc) == exec' = [exec EXCEPT !.pc = pc]

\* The receipt and the strategy's status are looked up.
ExecBegin ==
  /\ At("begin")
  /\ LET i == exec.intent
     IN  \/ /\ i \in marked
            /\ SetStatus(i, "DONE") /\ processed' = processed \cup {i} /\ exec' = None
         \/ /\ i \notin marked /\ strategy # "running"
            /\ SetStatus(i, "CANCELLED") /\ processed' = processed \cup {i} /\ exec' = None
         \/ /\ i \notin marked /\ strategy = "running"
            /\ Goto("sent") /\ UNCHANGED <<intents, processed>>
  /\ UNCHANGED <<strategy, marked, mappings, rows, ledger, worker, nextSeq, paused, orders,
                 poll, stop, outside, hasty, threw, stops, crashes>>

ExecSent ==
  /\ At("sent") /\ SetStatus(exec.intent, "SENT") /\ Goto("gate")
  /\ UNCHANGED <<strategy, marked, mappings, rows, ledger, worker, processed, nextSeq,
                 paused, orders, poll, stop, outside, hasty, threw, stops, crashes>>

\* Mutant: only acknowledged orders occupy a slot.
SlotTakenById(i) ==
  \E o \in Own : o.hasId /\ o.status \in Pollable /\ Slot[o.intent] = Slot[i]

\* An order of this strategy occupies the slot, or one with the same terms is
\* being created.
SlotTaken(i) ==
  \E o \in Own : \/ o.status \in Pollable /\ Slot[o.intent] = Slot[i]
                 \/ o.status = "pending_create" /\ Terms[o.intent] = Terms[i]

\* Mutant: an intent whose slot is taken is dropped without a status.
ExecGateDrops ==
  /\ At("gate")
  /\ \/ SetStatus(exec.intent, "FAILED") /\ exec' = None
     \/ SlotTaken(exec.intent) /\ UNCHANGED intents /\ exec' = None
     \/ ~SlotTaken(exec.intent) /\ Goto("client") /\ UNCHANGED intents
  /\ UNCHANGED <<strategy, marked, mappings, rows, ledger, worker, processed, nextSeq,
                 paused, orders, poll, stop, outside, hasty, threw, stops, crashes>>

\* assertCreateLimitOrderRisk may refuse (market data, API key, order state);
\* then the slots are looked at.
ExecGate ==
  /\ At("gate")
  /\ \/ SetStatus(exec.intent, "FAILED") /\ exec' = None
     \/ SlotTaken(exec.intent) /\ SetStatus(exec.intent, "DONE") /\ exec' = None
     \/ ~SlotTaken(exec.intent) /\ Goto("client") /\ UNCHANGED intents
  /\ UNCHANGED <<strategy, marked, mappings, rows, ledger, worker, processed, nextSeq,
                 paused, orders, poll, stop, outside, hasty, threw, stops, crashes>>

MappingCount == Cardinality({c \in ClientIds : mappings[c] # "none"})

\* Mutant: only the mappings with an exchange order are counted.
ClientSeqLinked ==
  IF nextSeq = None THEN Cardinality({c \in ClientIds : mappings[c] = "linked"}) ELSE nextSeq

\* The sequence number of the next client order id: remembered, or counted.
ClientSeq == IF nextSeq = None THEN MappingCount ELSE nextSeq

\* reserveClientOrderId
ExecClientId ==
  /\ At("client") /\ ClientSeq \in ClientIds
  /\ mappings' = [mappings EXCEPT ![ClientSeq] = IF @ = "none" THEN "reserved" ELSE @]
  /\ nextSeq' = ClientSeq + 1
  /\ exec' = [exec EXCEPT !.pc = "reserve", !.client = ClientSeq]
  /\ UNCHANGED <<strategy, intents, marked, rows, ledger, worker, processed, paused, orders,
                 poll, stop, outside, hasty, threw, stops, crashes>>

\* reserveForLimitOrder: lockFunds under the intent's key.
ExecReserve ==
  /\ At("reserve")
  /\ LET key == Key("reserve", exec.intent)
     IN  \/ key \in ledger.keys /\ Goto("check") /\ UNCHANGED <<ledger, intents>>
         \/ /\ key \notin ledger.keys /\ CanLock
            /\ ledger' = Lock(ledger, key)
            /\ exec' = [exec EXCEPT !.pc = "check", !.applied = TRUE]
            /\ UNCHANGED intents
         \/ /\ key \notin ledger.keys /\ ~CanLock
            /\ SetStatus(exec.intent, "FAILED") /\ exec' = None /\ UNCHANGED ledger
  /\ UNCHANGED <<strategy, marked, mappings, rows, worker, processed, nextSeq, paused,
                 orders, poll, stop, outside, hasty, threw, stops, crashes>>

\* runWithRetries: ensureStrategyStillRunning before each attempt. The error it
\* throws is no exchange error, so it classifies as UNKNOWN.
ExecCheck ==
  /\ At("check")
  /\ \/ strategy = "running" /\ Goto("submit") /\ UNCHANGED <<intents, processed>>
     \/ /\ strategy # "running"
        /\ SetStatus(exec.intent, "CANCELLED")
        /\ processed' = processed \cup {exec.intent}
        /\ exec' = [exec EXCEPT !.pc = "reconcile", !.error = "IntentCancelled"]
  /\ UNCHANGED <<strategy, marked, mappings, rows, ledger, worker, nextSeq, paused, orders,
                 poll, stop, outside, hasty, threw, stops, crashes>>

\* Mutant: only a time-out leaves a placement in doubt.
AmbiguousTimeout(e) == e = "REQUEST_TIMEOUT"

\* isAmbiguousPlacementError
Ambiguous(e) == e \in {"IntentCancelled", "REQUEST_TIMEOUT", "DUPLICATE_ORDER_ID"}

\* An attempt failed: the next one, or the handler of the last error.
Failed(e) ==
  exec' = IF exec.attempt < MaxRetries
          THEN [exec EXCEPT !.pc = "check", !.attempt = @ + 1,
                            !.doubt = @ \/ e = "REQUEST_TIMEOUT"]
          ELSE [exec EXCEPT !.error = e,
                            !.pc = IF Ambiguous(e) THEN "reconcile" ELSE "release"]

Opens(s) ==
  /\ exchange' = [exchange EXCEPT ![exec.client] = s]
  /\ sender' = [sender EXCEPT ![exec.client] = exec.intent]
  /\ placed' = [placed EXCEPT ![exec.intent] = @ + 1]

\* submitClobCreateIntent: the exchange takes the order or not and its answer
\* arrives or not; a client order id it knows is a duplicate. A result without
\* id is no error of the attempt.
ExecSubmit ==
  /\ At("submit")
  /\ \/ /\ exchange[exec.client] = "none"
        /\ \/ \E s \in Answers : /\ Opens(s)
                                 /\ exec' = [exec EXCEPT !.pc = "attach", !.answer = s]
           \/ Opens("open") /\ Failed("REQUEST_TIMEOUT")
           \/ Failed("REQUEST_TIMEOUT") /\ UNCHANGED outside
           \/ /\ LateLanding /\ Failed("REQUEST_TIMEOUT")
              /\ exchange' = [exchange EXCEPT ![exec.client] = "flight"]
              /\ sender' = [sender EXCEPT ![exec.client] = exec.intent]
              /\ UNCHANGED placed
     \/ Landed(exec.client) /\ Failed("DUPLICATE_ORDER_ID") /\ UNCHANGED outside
     \/ \E e \in Errors \ {"NO_ID"} : Failed(e) /\ UNCHANGED outside
     \/ /\ "NO_ID" \in Errors /\ UNCHANGED outside
        /\ exec' = [exec EXCEPT !.pc = "release", !.error = "NO_ID"]
     \/ exchange[exec.client] = "flight" /\ Failed("REQUEST_TIMEOUT") /\ UNCHANGED outside
  /\ UNCHANGED <<durable, worker, processed, nextSeq, paused, orders, poll, stop, hasty, threw,
                 stops, crashes>>

\* The order reconcileInDoubtPlacement or restoreCreateIntentOpenOrder tracks.
Order(i, c, id, s) == [client |-> c, hasId |-> id, intent |-> i, status |-> s]

\* reconcileInDoubtPlacement: the exchange cannot be asked, knows the client
\* order id, or does not know it.
ExecReconcile ==
  /\ At("reconcile")
  /\ \/ /\ Upsert(orders, Order(exec.intent, exec.client, FALSE, "pending_create"))
        /\ Goto("acked")
     \/ /\ Landed(exec.client)
        /\ exec' = [exec EXCEPT !.pc = "attach", !.answer = exchange[exec.client]]
        /\ UNCHANGED <<orders, rows, ledger>>
     \/ ~Landed(exec.client) /\ Goto("release") /\ UNCHANGED <<orders, rows, ledger>>
  /\ UNCHANGED <<strategy, intents, marked, mappings, worker, processed, nextSeq, paused,
                 poll, stop, outside, hasty, threw, stops, crashes>>

\* The placement failed: the reservation is released, an insufficient balance at
\* the exchange pauses the bucket, and the intent fails unless it was cancelled.
ExecRelease ==
  /\ At("release")
  /\ ledger' = IF ~exec.applied THEN ledger
               ELSE Unlock(ledger, IF exec.error = "NO_ID" THEN Key("missing_id", exec.client)
                                   ELSE Key("failed", exec.intent))
  /\ paused' = (paused \/ exec.error = "INSUFFICIENT_FUNDS")
  /\ IF exec.error = "IntentCancelled" THEN UNCHANGED intents
     ELSE SetStatus(exec.intent, "FAILED")
  /\ hasty' = IF exec.doubt /\ exec.error \in Errors THEN hasty \cup {exec.intent} ELSE hasty
  /\ exec' = None
  /\ UNCHANGED <<strategy, marked, mappings, rows, worker, processed, nextSeq, orders, poll,
                 stop, outside, threw, stops, crashes>>

\* handleLimitOrderCreateAck: attachMixinOrderId and createMapping ...
ExecAttach ==
  /\ At("attach") /\ Goto("track")
  /\ intents' = [intents EXCEPT ![exec.intent].order = exec.client]
  /\ mappings' = [mappings EXCEPT ![exec.client] = "linked"]
  /\ UNCHANGED <<strategy, marked, rows, ledger, worker, processed, nextSeq, paused, orders,
                 poll, stop, outside, hasty, threw, stops, crashes>>

\* ... then the order is tracked with the acknowledged status ...
ExecTrack ==
  /\ At("track")
  /\ Upsert(orders, Order(exec.intent, exec.client, TRUE,
                          IF exec.answer = "open" THEN "pending_create"
                          ELSE Normalize(exec.answer)))
  /\ Goto(IF exec.answer \in {"rejected", "cancelled"} THEN "rejected" ELSE "acked")
  /\ UNCHANGED <<strategy, intents, marked, mappings, worker, processed, nextSeq, paused,
                 poll, stop, outside, hasty, threw, stops, crashes>>

\* Mutant: only the intent fails.
ExecRejectedKeeps ==
  /\ At("rejected")
  /\ UNCHANGED ledger
  /\ SetStatus(exec.intent, "FAILED") /\ exec' = None
  /\ UNCHANGED <<strategy, marked, mappings, rows, worker, processed, nextSeq, paused,
                 orders, poll, stop, outside, hasty, threw, stops, crashes>>

\* ... and one that ended unfilled gives its reservation back and fails.
ExecRejected ==
  /\ At("rejected")
  /\ ledger' = IF exec.applied THEN Unlock(ledger, Key("rejected", exec.client)) ELSE ledger
  /\ SetStatus(exec.intent, "FAILED") /\ exec' = None
  /\ UNCHANGED <<strategy, marked, mappings, rows, worker, processed, nextSeq, paused,
                 orders, poll, stop, outside, hasty, threw, stops, crashes>>

\* ACKED, DONE, then the receipt.
ExecAcked ==
  /\ At("acked") /\ SetStatus(exec.intent, "ACKED") /\ Goto("done")
  /\ UNCHANGED <<strategy, marked, mappings, rows, ledger, worker, processed, nextSeq,
                 paused, orders, poll, stop, outside, hasty, threw, stops, crashes>>

ExecDone ==
  /\ At("done") /\ SetStatus(exec.intent, "DONE") /\ Goto("mark")
  /\ UNCHANGED <<strategy, marked, mappings, rows, ledger, worker, processed, nextSeq,
                 paused, orders, poll, stop, outside, hasty, threw, stops, crashes>>

ExecMark ==
  /\ At("mark") /\ exec' = None
  /\ marked' = marked \cup {exec.intent} /\ processed' = processed \cup {exec.intent}
  /\ UNCHANGED <<strategy, intents, mappings, rows, ledger, worker, nextSeq, paused, orders,
                 poll, stop, outside, hasty, threw, stops, crashes>>

-----------------------------------------------------------------------------
(* The reconciliation pass of the tracker.                                   *)

\* Mutant: an order without exchange order id is not asked for.
DueById(o) == o \in Own /\ o.hasId /\ o.status \in Pollable

\* The orders a pass takes, in the order of their last poll.
Due(o) == o \in Own /\ o.status \in Pollable

\* pollDueOrders takes one order: cancelled if the strategy does not run,
\* otherwise the exchange is asked, by client order id if there is no other. A
\* query that fails as unavailable is skipped.
PollAsk(k) ==
  /\ poll = None /\ Due(orders[k])
  /\ LET o == orders[k] IN
       \/ /\ strategy # "running" /\ Upsert(orders, [o EXCEPT !.status = "cancelled"])
          /\ UNCHANGED poll
       \/ /\ strategy = "running"
          /\ poll' = [order |-> o,
                      answer |-> IF Landed(o.client) THEN exchange[o.client] ELSE None]
          /\ UNCHANGED <<orders, rows, ledger>>
  /\ threw' = IF threw = k THEN None ELSE threw
  /\ UNCHANGED <<strategy, intents, marked, mappings, worker, exec, processed, nextSeq,
                 paused, stop, outside, hasty, stops, crashes>>

\* A query that fails in any other way is rethrown: the pass ends, the time of the
\* order's last poll is not set, and the next pass comes to it first again.
PollThrows(k) ==
  /\ poll = None /\ Due(orders[k]) /\ strategy = "running" /\ threw' = k
  /\ UNCHANGED <<durable, worker, exec, processed, nextSeq, paused, orders, poll, stop,
                 outside, hasty, stops, crashes>>

\* selectDueOrders: orders that are being created come first, then the longest unpolled.
\* A query that throws at one of the former keeps the next pass from any other order.
PassesCutShort ==
  threw # None /\ orders[threw] # None /\ orders[threw].status = "pending_create"

\* The answer is applied. An order in doubt that the exchange does not know gives
\* its reservation back and failed; one it knows moves to the key of its
\* exchange order id.
PollApply ==
  /\ poll # None /\ poll' = None
  /\ LET o == poll.order
         inDoubt == ~o.hasId
     IN  \/ /\ poll.answer = None /\ inDoubt
            /\ \/ /\ ~CanUnlock(ledger, Key("not_found", o.client))
                  /\ UNCHANGED <<orders, rows, ledger>>
               \/ /\ CanUnlock(ledger, Key("not_found", o.client))
                  /\ LET k == OrderKey(o)
                         f == [o EXCEPT !.status = "failed"]
                     IN  IF Accepted(orders[k], f)
                         THEN /\ orders' = [orders EXCEPT ![k] = f]
                              /\ rows' = [rows EXCEPT ![k] = f]
                         ELSE UNCHANGED <<orders, rows>>
                  /\ ledger' = Unlock(ledger, Key("not_found", o.client))
         \/ poll.answer = None /\ ~inDoubt /\ UNCHANGED <<orders, rows, ledger>>
         \/ /\ poll.answer # None
            /\ Upsert(IF inDoubt THEN [orders EXCEPT ![OrderKey(o)] = None] ELSE orders,
                      [o EXCEPT !.hasId = TRUE, !.status = Normalize(poll.answer)])
  /\ UNCHANGED <<strategy, intents, marked, mappings, worker, exec, processed, nextSeq,
                 paused, stop, outside, hasty, threw, stops, crashes>>

\* reconcileOpenOrderSnapshot: open orders that are not tracked get a
\* placeholder, tracked open ones that the exchange lacks are missing.
Snapshot ==
  /\ LET missing == {c \in ClientIds : /\ exchange[c] = "open"
                                       /\ orders[<<"id", c>>] = None}
         gone == {c \in ClientIds : /\ exchange[c] # "open"
                                    /\ orders[<<"id", c>>] # None
                                    /\ orders[<<"id", c>>].status = "open"}
         Seen(tr) == [k \in TrackKeys |->
           CASE k[1] = "id" /\ k[2] \in missing -> Order(None, k[2], TRUE, "internal_missing")
             [] k[1] = "id" /\ k[2] \in gone -> [tr[k] EXCEPT !.status = "external_missing"]
             [] OTHER -> tr[k]]
     IN  /\ missing \cup gone # {}
         /\ orders' = Seen(orders)
         /\ rows' = [k \in TrackKeys |-> IF k[1] = "id" /\ k[2] \in missing \cup gone
                                         THEN Seen(orders)[k] ELSE rows[k]]
  /\ UNCHANGED <<strategy, intents, marked, mappings, ledger, worker, exec, processed,
                 nextSeq, paused, poll, stop, outside, hasty, threw, stops, crashes>>

-----------------------------------------------------------------------------
(* The exchange.                                                             *)

\* A late request lands; an open order fills or is rejected.
ExchangeMoves ==
  /\ \E c \in ClientIds :
       \/ /\ exchange[c] = "flight" /\ exchange' = [exchange EXCEPT ![c] = "open"]
          /\ placed' = [placed EXCEPT ![sender[c]] = @ + 1]
       \/ /\ exchange[c] = "open" /\ UNCHANGED placed
          /\ \E s \in Answers \ {"open"} : exchange' = [exchange EXCEPT ![c] = s]
  /\ UNCHANGED <<durable, worker, exec, processed, nextSeq, paused, orders, poll, stop,
                 sender, hasty, threw, stops, crashes>>

-----------------------------------------------------------------------------
(* Stopping and restarting the strategy.                                     *)

\* stopStrategyForUser: the row says stopped, ...
StopBegin ==
  /\ strategy = "running" /\ stop = "idle" /\ stops < MaxStops
  /\ strategy' = "stopped" /\ stop' = "cancel" /\ stops' = stops + 1
  /\ UNCHANGED <<intents, marked, mappings, rows, ledger, worker, exec, processed, nextSeq,
                 paused, orders, poll, outside, hasty, threw, crashes>>

\* ... cancelTrackedOrdersForStrategy cancels what has an exchange order id; an
\* order the exchange does not have open any more is cancelled too, unless the
\* error is another one and the refresh tells how it ended ...
StopCancel ==
  /\ stop = "cancel"
  /\ \E o \in {x \in Own : x.hasId /\ x.status \in Pollable} :
       /\ exchange' = [exchange EXCEPT ![o.client] = IF @ = "open" THEN "cancelled" ELSE @]
       /\ \/ Upsert(orders, [o EXCEPT !.status = "cancelled"])
          \/ /\ exchange[o.client] # "open"
             /\ Upsert(orders, [o EXCEPT !.status = Normalize(exchange[o.client])])
  /\ UNCHANGED <<strategy, intents, marked, mappings, worker, exec, processed, nextSeq,
                 paused, poll, stop, sender, placed, hasty, threw, stops, crashes>>

\* ... and cancelPendingIntents comes last; orders that did not settle within the
\* time-out are left.
StopEnd ==
  /\ stop = "cancel" /\ stop' = "idle"
  /\ intents' = CancelPending(intents)
  /\ UNCHANGED <<strategy, marked, mappings, rows, ledger, worker, exec, processed, nextSeq,
                 paused, orders, poll, outside, hasty, threw, stops, crashes>>

\* The user starts the strategy again: upsertStrategyInstance.
StartAgain ==
  /\ strategy = "stopped" /\ stop = "idle" /\ strategy' = "running"
  /\ UNCHANGED <<intents, marked, mappings, rows, ledger, worker, exec, processed, nextSeq,
                 paused, orders, poll, stop, outside, hasty, threw, stops, crashes>>

-----------------------------------------------------------------------------
(* Crash and startup.                                                        *)

\* hydratePersistedOrders: rows without exchange order id share one key; the last
\* one read stays.
Hydrated(pick) ==
  [k \in TrackKeys |-> CASE k[1] = "id" -> rows[k]
                         [] k[1] = "client" -> None
                         [] OTHER -> pick]

\* restoreMappedOpenOrder and restoreCreateIntentOpenOrder: open orders whose
\* client order id is mapped are tracked again as open.
Restored(tr) ==
  [k \in TrackKeys |->
     IF /\ k[1] = "id" /\ exchange[k[2]] = "open" /\ mappings[k[2]] # "none"
        /\ Accepted(tr[k], Order(sender[k[2]], k[2], TRUE, "open"))
     THEN Order(sender[k[2]], k[2], TRUE, "open") ELSE tr[k]]

\* listInterruptedCreateIntents, and those an open order can be matched to by its
\* terms that no earlier one has claimed.
Interrupted == {i \in IntentIds : intents[i].status \in {"SENT", "ACKED"}}

Matches(i) == {c \in ClientIds : /\ exchange[c] = "open" /\ mappings[c] # "none"
                                /\ Terms[sender[c]] = Terms[i]}

WithOpenOrder(i) ==
  Cardinality({j \in Interrupted : j < i /\ Terms[j] = Terms[i]}) < Cardinality(Matches(i))

\* recoverInterruptedCreateIntentReservations releases one unit for each intent
\* without an open order, in their order, until nothing is locked.
Lost == {i \in Interrupted : ~WithOpenOrder(i)}
Recovered == {i \in Lost : Cardinality({j \in Lost : j < i}) < ledger.locked}

\* The process dies and starts: everything in memory is lost, the orders are
\* hydrated, and a running strategy is recovered before anything is dispatched.
\* An exchange that cannot be read blocks the strategy.
CrashAndRestart ==
  /\ crashes < MaxCrashes /\ crashes' = crashes + 1
  /\ worker' = None /\ exec' = None /\ poll' = None /\ stop' = "idle"
  /\ processed' = {} /\ nextSeq' = None /\ paused' = FALSE /\ threw' = None
  /\ \E pick \in {rows[k] : k \in {x \in TrackKeys : x[1] # "id" /\ rows[x] # None}}
                 \cup IF \A k \in TrackKeys : k[1] # "id" => rows[k] = None
                      THEN {None} ELSE {} :
       LET hydrated == Hydrated(pick)
       IN  \/ /\ strategy = "running"
              /\ strategy' = IF Recovered = Lost THEN "running" ELSE "failed"
              /\ orders' = Restored(hydrated)
              /\ rows' = [k \in TrackKeys |-> IF k[1] = "id" THEN orders'[k] ELSE rows[k]]
              /\ ledger' = FoldSet(LAMBDA i, l : Unlock(l, Key("interrupted", i)), ledger,
                                   Recovered)
              /\ intents' = [i \in IntentIds |->
                   CASE i \in Recovered -> [intents[i] EXCEPT !.status = "CANCELLED"]
                     [] i \in Interrupted \ Lost -> [intents[i] EXCEPT !.status = "DONE"]
                     [] OTHER -> intents[i]]
              /\ mappings' = [c \in ClientIds |->
                   IF exchange[c] = "open" /\ mappings[c] # "none" THEN "linked"
                   ELSE mappings[c]]
           \/ /\ strategy = "running" /\ strategy' = "failed"
              /\ orders' = hydrated /\ UNCHANGED <<intents, mappings, rows, ledger>>
           \/ /\ strategy # "running" /\ orders' = hydrated
              /\ UNCHANGED <<strategy, intents, mappings, rows, ledger>>
  /\ UNCHANGED <<marked, outside, hasty, stops>>

Exec == \/ ExecBegin \/ ExecSent \/ ExecGate \/ ExecClientId \/ ExecReserve \/ ExecCheck
        \/ ExecSubmit \/ ExecReconcile \/ ExecRelease \/ ExecAttach \/ ExecTrack
        \/ ExecRejected \/ ExecAcked \/ ExecDone \/ ExecMark

Worker == WorkerTake \/ WorkerDispatch

Polls == (\E k \in TrackKeys : PollAsk(k) \/ PollThrows(k)) \/ PollApply \/ Snapshot

Next == \/ Publish \/ Worker \/ Exec \/ Polls \/ ExchangeMoves
        \/ StopBegin \/ StopCancel \/ StopEnd \/ StartAgain \/ CrashAndRestart

Spec == Init /\ [][Next]_vars

\* The worker's loop, the running execution and the passes go on, and a query is answered
\* unless it throws: while no pass is cut short, some placement in doubt is asked for as long
\* as there is one. Nothing is assumed of the exchange's orders, the sessions and the users.
FairSpec == /\ Spec
            /\ WF_vars(Worker) /\ WF_vars(Exec) /\ WF_vars(PollApply) /\ WF_vars(StopEnd)
            /\ SF_vars(~PassesCutShort /\ \E c \in ClientIds : PollAsk(<<"client", c>>))

-----------------------------------------------------------------------------
\* The types of the variables.
TypeOK ==
  /\ strategy \in {"running", "stopped", "failed"}
  /\ intents \in [IntentIds -> [status : {"unpublished", "NEW", "SENT", "ACKED"} \cup Final,
                                order : ClientIds \cup {None}]]
  /\ marked \subseteq IntentIds /\ processed \subseteq IntentIds
  /\ mappings \in [ClientIds -> {"none", "reserved", "linked"}]
  /\ rows \in [TrackKeys -> Tracked \cup {None}] /\ orders \in [TrackKeys -> Tracked \cup {None}]
  /\ ledger.available \in Nat /\ ledger.locked \in Nat /\ ledger.keys \subseteq LedgerKeys
  /\ worker \in IntentIds \cup {None} /\ exec \in Execution \cup {None}
  /\ poll \in Polled \cup {None} /\ threw \in TrackKeys \cup {None}
  /\ exchange \in [ClientIds -> {"none", "flight", "open", "filled", "cancelled", "rejected"}]

\* The exchange never opens two orders for one intent, whatever times out, is
\* retried, stopped or crashes (runWithRetries with one client order id, and only
\* NEW intents are dispatched).
PlacedAtMostOnce == \A i \in IntentIds : placed[i] <= 1

\* A client order id belongs to one intent, also when the counter is lost in a
\* crash and the mappings are counted (reserveClientOrderId).
ClientIdFresh ==
  (exec # None /\ exec.client # None) => sender[exec.client] \in {None, exec.intent}

\* The unit an order on the exchange may still pay is locked: no release, on
\* whatever path, takes it while the order lives. The exception is a placement
\* that only the error of its last attempt was looked at for.
LiveOrderReserved ==
  hasty = {} => Cardinality({c \in ClientIds : exchange[c] \in {"open", "flight"}}) <= ledger.locked

\* A slot never has two open orders (the check against tracked orders in
\* consumeIntent, with placements in doubt), with the same exception.
OneOrderPerSlot ==
  hasty = {} => \A c, d \in ClientIds :
    (c # d /\ exchange[c] = "open" /\ exchange[d] = "open") => Slot[sender[c]] # Slot[sender[d]]

\* Nothing runs and no tracked order can move.
Quiet == /\ worker = None /\ exec = None /\ poll = None
         /\ \A o \in TrackedOrders : o.status \in Terminal

\* When all has ended, funds are locked only for orders that failed or went
\* missing after their intent was done: every other path gave its unit back once
\* (releases of consumeIntent and of the tracker).
OnlyFailedOrdersKeepFunds ==
  Quiet => ledger.locked =
             Cardinality({c \in ClientIds :
               LET o == orders[<<"id", c>>] IN
                 /\ o # None
                 /\ \/ o.status = "external_missing"
                    \/ o.status = "failed" /\ intents[o.intent].status = "DONE"})

\* A published intent reaches a final status (worker, consumeIntent).
IntentsResolve ==
  \A i \in IntentIds : intents[i].status = "NEW" ~> intents[i].status \in Final

\* A placement in doubt does not stay so (reconcilePendingCreateByClientOrderId), unless
\* the passes end for good at an order that is being created: its query throws each time,
\* and it stays the first. The query of an acknowledged open order may throw for good.
InDoubtResolves ==
  <>[]PassesCutShort \/
  \A c \in ClientIds :
    orders[<<"client", c>>] # None ~>
      (orders[<<"client", c>>] = None \/ orders[<<"client", c>>].status \in Terminal)
=============================================================================
