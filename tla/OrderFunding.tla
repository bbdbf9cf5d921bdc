---------------------------- MODULE OrderFunding ----------------------------
(***************************************************************************)
(* How a market-making order is paid for and started: SnapshotsProcessor     *)
(* polls Mixin for transfers, SnapshotsService checks each against the       *)
(* order's intent, and MarketMakingOrderProcessor credits it, waits until    *)
(* base, quote and fee are there, refunds or withdraws them to the exchange, *)
(* watches the withdrawal and starts the strategy.                           *)
(*                                                                           *)
(* One order. A transfer is one unit of one asset. The jobs are Bull's: one  *)
(* per job id, run by parallel loops (the concurrency of the named           *)
(* processors adds up), retried when the handler throws, run again when the  *)
(* process died over it. A handler is cut where another one can come in      *)
(* between: at its awaits of rows that others write.                         *)
(***************************************************************************)
EXTENDS Integers, FiniteSets, Functions

CONSTANTS
  Setups,        \* what may be paid and what may go wrong, one of them per behaviour
  MaxAttempts,   \* attempts of a job
  None

Roles == {"base", "quote"}
Assets == Roles \cup {"fee"}

\* The order's assets and those its pair does not know.
Currencies == Assets \cup {"other"}

Kinds == {"reject", "lost", "throw", "crash", "slow", "pair", "reread"}

\* The transfers the user makes, by asset and in their order; the required
\* withdrawal fee in units of the fee asset; the faults, and how many.
ASSUME FundingAssumption ==
  /\ MaxAttempts \in Nat \ {0}
  /\ \A u \in Setups :
       /\ IsFiniteSet(DOMAIN u.deposits)
       /\ DOMAIN u.deposits = 1..Cardinality(DOMAIN u.deposits)
       /\ \A s \in DOMAIN u.deposits : u.deposits[s] \in Currencies
       /\ u.requiredFee \in Nat /\ u.maxFaults \in Nat
       /\ u.faults \subseteq Kinds

VARIABLE setup

Deposits == setup.deposits
Transfers == DOMAIN Deposits

\* More than any count of units in a behaviour.
Units == 0..Cardinality(Transfers) * (setup.maxFaults + 1)

\* Job ids: one per transfer, one per order for the others.
Jobs == ({"intake", "deposit"} \X Transfers) \cup
        ({"check", "withdraw", "monitor", "confirm", "join", "start"} \X {0})

VARIABLES
  made,       \* how many transfers the user made
  cursor,     \* snapshots:cursor: the newest transfer fetched
  fetched,    \* the transfers pollSnapshotsCron has yet to queue
  overdue,    \* the intent's expiresAt has passed
  timedOut,   \* PAYMENT_TIMEOUT_MS or MAX_PAYMENT_RETRIES has passed
  intent,     \* state of the MarketMakingOrderIntent
  payment,    \* MarketMakingPaymentState, or None
  order,      \* state of the MarketMakingOrder row, or None
  ledger,     \* funds of the order's buckets and the keys used
  jobs,       \* the queues
  task,       \* what the handler of an active job holds
  sent,       \* units Mixin withdrew to the exchange, per role
  arrival,    \* how far each withdrawal has come
  returned,   \* units of the order's payment transferred back
  bounced,    \* how often each transfer was sent back before it was counted
  strategy,   \* the order's strategy
  seen,       \* history: faults that happened, and "stale" after a lost update
  faults      \* bound

rows == <<intent, payment, order, ledger>>
mixin == <<sent, arrival, returned, bounced>>
clock == <<setup, overdue, timedOut>>
intake == <<made, cursor, fetched>>
vars == <<setup, made, cursor, fetched, overdue, timedOut, intent, payment, order, ledger, jobs,
          task, sent, arrival, returned, bounced, strategy, seen, faults>>

NoUnits == [a \in Currencies |-> 0]
Idle == [pc |-> "idle", read |-> None, role |-> None, debited |-> FALSE]

Init ==
  /\ setup \in Setups
  /\ made = 0 /\ cursor = 0 /\ fetched = {}
  /\ overdue = FALSE /\ timedOut = FALSE
  /\ intent = "pending" /\ payment = None /\ order = None
  /\ ledger = [funds |-> NoUnits, keys |-> {}]
  /\ jobs = [j \in Jobs |-> [status |-> "absent", tries |-> 0]]
  /\ task = [j \in Jobs |-> Idle]
  /\ sent = [r \in Roles |-> 0] /\ arrival = [r \in Roles |-> "none"]
  /\ returned = NoUnits /\ bounced = [s \in Transfers |-> 0]
  /\ strategy = "idle" /\ seen = {} /\ faults = 0

-----------------------------------------------------------------------------
(* Queue, faults and ledger.                                                 *)

\* queue.add with a job id: a job that is still known is not added again.
Added(js, j) ==
  IF js[j].status = "absent" THEN [js EXCEPT ![j] = [status |-> "waiting", tries |-> 0]] ELSE js

\* removeOnComplete
Removed(j) == j[1] \in {"intake", "check"}

Finished(js, j) ==
  [js EXCEPT ![j] = [status |-> IF Removed(j) THEN "absent" ELSE "done", tries |-> 0]]

\* The handler threw: another attempt, or the job has failed.
Thrown(js, j) ==
  [js EXCEPT ![j].tries = @ + 1,
             ![j].status = IF js[j].tries + 1 < MaxAttempts THEN "waiting"
                           ELSE IF j[1] = "check" THEN "absent" ELSE "failed"]

Starts(j, t) ==
  /\ jobs[j].status = "waiting"
  /\ jobs' = [jobs EXCEPT ![j].status = "active"]
  /\ task' = [task EXCEPT ![j] = t]

At(j, pc) == jobs[j].status = "active" /\ task[j].pc = pc

Goto(j, pc) == task' = [task EXCEPT ![j].pc = pc] /\ UNCHANGED jobs

Ends(j, js) == task' = [task EXCEPT ![j] = Idle] /\ jobs' = js

Fault(kind) ==
  /\ kind \in setup.faults /\ faults < setup.maxFaults
  /\ faults' = faults + 1 /\ seen' = seen \cup {kind}

NoFault == UNCHANGED <<seen, faults>>

\* A payment state is saved over one that was not the one read.
Overwrites(j) == /\ seen' = IF task[j].read = payment THEN seen ELSE seen \cup {"stale"}
                 /\ UNCHANGED faults

\* What a command on the order's bucket of an asset does under its key; of a
\* snapshot's credit the snapshot is part of the key.
LedgerKey(what, s, a, n) == [what |-> what, snapshot |-> s, asset |-> a, amount |-> n]

Replay(what, a, n) == LedgerKey(what, 0, a, n) \in ledger.keys

\* The key was used for another amount: the ledger refuses.
Conflict(what, a, n) == \E m \in Units \ {n} : Replay(what, a, m)

\* Mutant: the available balance is not looked at.
CoversAny(a, n) == TRUE

Covers(a, n) == ledger.funds[a] >= n

\* Mutant: the debit is recorded, the balance left.
DebitForgotten(what, a, n) == [ledger EXCEPT !.keys = @ \cup {LedgerKey(what, 0, a, n)}]

\* debitWithdrawal that is neither a replay nor refused.
Debit(what, a, n) ==
  [funds |-> [ledger.funds EXCEPT ![a] = @ - n], keys |-> ledger.keys \cup {LedgerKey(what, 0, a, n)}]

\* Mutant: a credit is applied as often as it is asked for.
CreditUnkeyed(what, s, a, n) ==
  [funds |-> [ledger.funds EXCEPT ![a] = @ + n], keys |-> ledger.keys \cup {LedgerKey(what, s, a, n)}]

\* creditDeposit
Credit(what, s, a, n) ==
  IF LedgerKey(what, s, a, n) \in ledger.keys THEN ledger
  ELSE [funds |-> [ledger.funds EXCEPT ![a] = @ + n],
        keys |-> ledger.keys \cup {LedgerKey(what, s, a, n)}]

-----------------------------------------------------------------------------
(* Transfers, polling and intake.                                            *)

UserPays ==
  /\ made < Cardinality(Transfers) /\ made' = made + 1
  /\ UNCHANGED <<cursor, fetched, clock, rows, jobs, task, mixin, strategy, seen, faults>>

TimePasses ==
  /\ \/ ~overdue /\ overdue' = TRUE /\ UNCHANGED timedOut
     \/ ~timedOut /\ payment # None /\ timedOut' = TRUE /\ UNCHANGED overdue
  /\ UNCHANGED <<setup, intake, rows, jobs, task, mixin, strategy, seen, faults>>

\* fetchSnapshots moves the cursor; a cursor that cannot be read counts as none.
PollFetch ==
  /\ fetched = {} /\ cursor' = made
  /\ \/ cursor < made /\ fetched' = (cursor + 1)..made /\ NoFault
     \/ made > 0 /\ fetched' = 1..made /\ Fault("reread")
  /\ UNCHANGED <<made, clock, rows, jobs, task, mixin, strategy>>

\* Then pollSnapshotsCron queues what was fetched.
PollQueue ==
  /\ fetched # {} /\ fetched' = {}
  /\ jobs' = [j \in Jobs |-> IF j[1] = "intake" /\ j[2] \in fetched THEN Added(jobs, j)[j] ELSE jobs[j]]
  /\ UNCHANGED <<made, cursor, clock, rows, task, mixin, strategy, seen, faults>>

\* transactionService.refund: its request id is a new one every time.
Bounces(s) == bounced' = [bounced EXCEPT ![s] = @ + 1]

\* handleSnapshot: refunded if the intent is overdue or not active, otherwise
\* queued for the order. Its errors are logged and the job is done.
Intake(s) ==
  /\ jobs[<<"intake", s>>].status = "waiting"
  /\ \/ /\ overdue \/ intent \notin {"pending", "in_progress"}
        /\ intent' = IF overdue THEN "expired" ELSE intent
        /\ \/ Bounces(s) /\ NoFault
           \/ Fault("reject") /\ UNCHANGED bounced
        /\ jobs' = Finished(jobs, <<"intake", s>>)
     \/ /\ ~overdue /\ intent \in {"pending", "in_progress"} /\ intent' = "in_progress"
        /\ jobs' = Added(Finished(jobs, <<"intake", s>>), <<"deposit", s>>)
        /\ UNCHANGED bounced /\ NoFault
  /\ UNCHANGED <<intake, clock, payment, order, ledger, task, sent, arrival, returned, strategy>>

-----------------------------------------------------------------------------
(* process_market_making_snapshots                                           *)

Fresh == [paid |-> NoUnits, complete |-> FALSE]

\* The pair and its fees are looked up and the payment state is read.
DepositRead(s) ==
  /\ LET j == <<"deposit", s>>
     IN  \/ Starts(j, [Idle EXCEPT !.pc = "credit", !.read = payment]) /\ NoFault
         \/ Fault("pair") /\ Starts(j, [Idle EXCEPT !.pc = "refund"])
  /\ UNCHANGED <<intake, clock, rows, mixin, strategy>>

\* creditDeposit, then an asset the pair does not know is refunded.
DepositCredit(s) ==
  /\ LET j == <<"deposit", s>>
     IN  /\ At(j, "credit")
         /\ ledger' = Credit("credit", s, Deposits[s], 1)
         /\ Goto(j, IF Deposits[s] \in Assets THEN "save" ELSE "refund")
  /\ UNCHANGED <<intake, clock, intent, payment, order, mixin, strategy, seen, faults>>

\* The payment state that was read is saved with this transfer added.
DepositSave(s) ==
  /\ LET j == <<"deposit", s>>
         old == IF task[j].read = None THEN Fresh ELSE task[j].read
     IN  /\ At(j, "save") /\ Goto(j, "queue") /\ Overwrites(j)
         /\ payment' = [old EXCEPT !.paid[Deposits[s]] = @ + 1]
  /\ UNCHANGED <<intake, clock, intent, order, ledger, mixin, strategy>>

\* One check per order.
DepositQueue(s) ==
  /\ LET j == <<"deposit", s>>
     IN  At(j, "queue") /\ Ends(j, Added(Finished(jobs, j), <<"check", 0>>))
  /\ UNCHANGED <<intake, clock, rows, mixin, strategy, seen, faults>>

\* refundUser: the debit is for a bucket of the snapshot's own, which is empty, so
\* the transfer goes on without one.
DepositRefund(s) ==
  /\ LET j == <<"deposit", s>>
     IN  /\ At(j, "refund")
         /\ \/ Bounces(s) /\ Ends(j, Finished(jobs, j)) /\ NoFault
            \/ Fault("reject") /\ Ends(j, Thrown(jobs, j)) /\ UNCHANGED bounced
            \/ Fault("lost") /\ Ends(j, Thrown(jobs, j)) /\ Bounces(s)
  /\ UNCHANGED <<intake, clock, rows, sent, arrival, returned, strategy>>

-----------------------------------------------------------------------------
(* check_payment_complete                                                    *)

check == <<"check", 0>>

HasAssets(p) == \A r \in Roles : p.paid[r] > 0

HasFee(p) == p.paid["fee"] >= setup.requiredFee

\* Incomplete and in time throws: the job waits. Otherwise the order is refused,
\* or accepted.
CheckRead ==
  /\ jobs[check].status = "waiting" /\ payment # None
  /\ \/ ~HasAssets(payment) /\ timedOut /\ Starts(check, [Idle EXCEPT !.pc = "refuse", !.read = payment])
     \/ /\ HasAssets(payment) /\ ~HasFee(payment)
        /\ Starts(check, [Idle EXCEPT !.pc = "refuse", !.read = payment])
     \/ /\ HasAssets(payment) /\ HasFee(payment)
        /\ Starts(check, [Idle EXCEPT !.pc = "accept", !.read = payment])
  /\ UNCHANGED <<intake, clock, rows, mixin, strategy, seen, faults>>

\* updateMarketMakingOrderState: an update of the row, if there is one.
SetOrder(s) == order' = IF order = None THEN None ELSE s

CheckRefuse ==
  /\ At(check, "refuse") /\ SetOrder("failed") /\ Goto(check, "refund")
  /\ UNCHANGED <<intake, clock, intent, payment, ledger, mixin, strategy, seen, faults>>

\* refundMarketMakingPendingOrder goes through the assets of the state it read;
\* those done are struck off it.
ToRefund == {a \in Assets : task[check].read.paid[a] > 0}

NextAsset == IF "base" \in ToRefund THEN "base" ELSE IF "quote" \in ToRefund THEN "quote" ELSE "fee"

\* executeRefundTransfer: a replayed debit skips the transfer, one that the funds
\* do not cover is left out, any other failure throws.
CheckRefundDebit ==
  /\ At(check, "refund")
  /\ LET a == NextAsset
         n == task[check].read.paid[a]
     IN  \/ ToRefund = {} /\ Ends(check, Finished(jobs, check)) /\ UNCHANGED ledger
         \/ /\ ToRefund # {} /\ Replay("refund", a, n)
            /\ task' = [task EXCEPT ![check].read.paid[a] = 0] /\ UNCHANGED <<jobs, ledger>>
         \/ /\ ToRefund # {} /\ Conflict("refund", a, n)
            /\ Ends(check, Thrown(jobs, check)) /\ UNCHANGED ledger
         \/ /\ ToRefund # {} /\ ~Replay("refund", a, n) /\ ~Conflict("refund", a, n)
            /\ task' = [task EXCEPT ![check].pc = "transfer", ![check].role = a,
                                    ![check].debited = Covers(a, n)]
            /\ ledger' = IF Covers(a, n) THEN Debit("refund", a, n) ELSE ledger
            /\ UNCHANGED jobs
  /\ UNCHANGED <<intake, clock, intent, payment, order, mixin, strategy, seen, faults>>

\* transfer, and compensateRefundDebit when it fails.
CheckRefundTransfer ==
  /\ At(check, "transfer")
  /\ LET a == task[check].role
         n == task[check].read.paid[a]
         undone == IF task[check].debited THEN Credit("refund-compensation", 0, a, n) ELSE ledger
         gone == [returned EXCEPT ![a] = @ + n]
     IN  \/ /\ returned' = gone /\ UNCHANGED <<jobs, ledger>> /\ NoFault
            /\ task' = [task EXCEPT ![check].pc = "refund", ![check].read.paid[a] = 0]
         \/ /\ Fault("reject") /\ UNCHANGED returned
            /\ ledger' = undone /\ Ends(check, Thrown(jobs, check))
         \/ /\ Fault("lost") /\ returned' = gone
            /\ ledger' = undone /\ Ends(check, Thrown(jobs, check))
  /\ UNCHANGED <<intake, clock, intent, payment, order, sent, arrival, bounced, strategy>>

\* The order row is created or updated and the intent completed ...
CheckAccept ==
  /\ At(check, "accept") /\ Goto(check, "save")
  /\ order' = (IF order = None THEN "payment_complete" ELSE order) /\ intent' = "completed"
  /\ UNCHANGED <<intake, clock, payment, ledger, mixin, strategy, seen, faults>>

\* ... the payment state that was read is saved as complete ...
CheckSave ==
  /\ At(check, "save") /\ Goto(check, "queue") /\ Overwrites(check)
  /\ payment' = [task[check].read EXCEPT !.complete = TRUE]
  /\ UNCHANGED <<intake, clock, intent, order, ledger, mixin, strategy>>

\* ... and the withdrawal is queued, once for the order.
CheckQueue ==
  /\ At(check, "queue") /\ SetOrder("payment_complete")
  /\ Ends(check, Added(Finished(jobs, check), <<"withdraw", 0>>))
  /\ UNCHANGED <<intake, clock, intent, payment, ledger, mixin, strategy, seen, faults>>

-----------------------------------------------------------------------------
(* withdraw_to_exchange                                                      *)

withdraw == <<"withdraw", 0>>

\* The order is withdrawing; API key, networks and addresses are looked up.
WithdrawRead ==
  /\ SetOrder("withdrawing")
  /\ \/ Starts(withdraw, [Idle EXCEPT !.pc = "debit", !.read = payment, !.role = "base"]) /\ NoFault
     \/ Starts(withdraw, [Idle EXCEPT !.pc = "fail"]) /\ Fault("throw")
  /\ UNCHANGED <<intake, clock, intent, payment, ledger, mixin, strategy>>

\* executeExchangeWithdrawal: a replayed debit goes on to the withdrawal, any
\* failure throws.
WithdrawDebit ==
  /\ At(withdraw, "debit")
  /\ LET r == task[withdraw].role
         n == task[withdraw].read.paid[r]
     IN  \/ /\ Replay("withdraw", r, n)
            /\ task' = [task EXCEPT ![withdraw].pc = "send", ![withdraw].debited = FALSE]
            /\ UNCHANGED ledger
         \/ /\ ~Replay("withdraw", r, n) /\ ~Conflict("withdraw", r, n)
            /\ n > 0 /\ Covers(r, n)
            /\ task' = [task EXCEPT ![withdraw].pc = "send", ![withdraw].debited = TRUE]
            /\ ledger' = Debit("withdraw", r, n)
         \/ /\ ~Replay("withdraw", r, n)
            /\ Conflict("withdraw", r, n) \/ n = 0 \/ ~Covers(r, n)
            /\ task' = [task EXCEPT ![withdraw].pc = "fail"] /\ UNCHANGED ledger
  /\ UNCHANGED <<intake, clock, intent, payment, order, jobs, mixin, strategy, seen, faults>>

\* executeWithdrawal with the debit's key as request key: Mixin takes a key once.
Withdrawn(r, n) ==
  /\ sent' = [sent EXCEPT ![r] = IF @ = 0 THEN n ELSE @]
  /\ arrival' = [arrival EXCEPT ![r] = IF @ = "none" THEN "sent" ELSE @]

WithdrawSend ==
  /\ At(withdraw, "send")
  /\ LET r == task[withdraw].role
         n == task[withdraw].read.paid[r]
         undone == IF task[withdraw].debited THEN Credit("withdraw-compensation", 0, r, n) ELSE ledger
     IN  \/ /\ Withdrawn(r, n) /\ UNCHANGED ledger /\ NoFault
            /\ task' = [task EXCEPT ![withdraw].pc = IF r = "base" THEN "debit" ELSE "queue",
                                    ![withdraw].role = "quote"]
         \/ /\ Fault("reject") /\ UNCHANGED <<sent, arrival>> /\ ledger' = undone
            /\ task' = [task EXCEPT ![withdraw].pc = "fail"]
         \/ /\ Fault("lost") /\ Withdrawn(r, n) /\ ledger' = undone
            /\ task' = [task EXCEPT ![withdraw].pc = "fail"]
  /\ UNCHANGED <<intake, clock, intent, payment, order, jobs, returned, bounced, strategy>>

\* Mutant: nobody watches the withdrawal.
WithdrawQueueForgets ==
  /\ At(withdraw, "queue") /\ Ends(withdraw, Finished(jobs, withdraw))
  /\ UNCHANGED <<intake, clock, rows, mixin, strategy, seen, faults>>

WithdrawQueue ==
  /\ At(withdraw, "queue")
  /\ Ends(withdraw, Added(Finished(jobs, withdraw), <<"monitor", 0>>))
  /\ UNCHANGED <<intake, clock, rows, mixin, strategy, seen, faults>>

WithdrawFail ==
  /\ At(withdraw, "fail") /\ SetOrder("failed") /\ Ends(withdraw, Thrown(jobs, withdraw))
  /\ UNCHANGED <<intake, clock, intent, payment, ledger, mixin, strategy, seen, faults>>

\* The withdrawal's snapshot has a transaction hash and a confirmation.
WithdrawalMoves ==
  /\ \E r \in Roles : arrival[r] = "sent" /\ arrival' = [arrival EXCEPT ![r] = "confirmed"]
  /\ UNCHANGED <<intake, clock, rows, jobs, task, sent, returned, bounced, strategy, seen, faults>>

-----------------------------------------------------------------------------
(* monitor_mixin_withdrawal, confirm_exchange_deposit, join_campaign: each     *)
(* writes only the order's state and queues the next job.                      *)

Waiting(kind) == jobs[<<kind, 0>>].status = "waiting"

Confirmed(r) == arrival[r] = "confirmed"

\* Mutant: one confirmed withdrawal is enough.
WithdrawalsConfirmedAny == \E r \in Roles : Confirmed(r)

WithdrawalsConfirmed == \A r \in Roles : Confirmed(r)

\* WITHDRAWAL_TIMEOUT_MS may have passed, or all attempts before it; otherwise
\* both must be confirmed.
Monitor ==
  /\ Waiting("monitor")
  /\ \/ /\ Fault("slow")
        /\ \/ SetOrder("failed") /\ jobs' = Finished(jobs, <<"monitor", 0>>)
           \/ UNCHANGED order /\ jobs' = [jobs EXCEPT ![<<"monitor", 0>>].status = "failed"]
     \/ /\ WithdrawalsConfirmed /\ SetOrder("deposit_confirming") /\ NoFault
        /\ jobs' = Added(Finished(jobs, <<"monitor", 0>>), <<"confirm", 0>>)
  /\ UNCHANGED <<intake, clock, intent, payment, ledger, task, mixin, strategy>>

\* The balances of the exchange account, which other orders use too, cover the
\* payment; otherwise the handler throws, and the last attempt leaves the order.
Confirm ==
  /\ Waiting("confirm")
  /\ \/ /\ SetOrder("deposit_confirmed") /\ NoFault
        /\ jobs' = Added(Finished(jobs, <<"confirm", 0>>), <<"join", 0>>)
     \/ /\ Fault("slow") /\ SetOrder("deposit_confirming")
        /\ jobs' = [jobs EXCEPT ![<<"confirm", 0>>].status = "failed"]
  /\ UNCHANGED <<intake, clock, intent, payment, ledger, task, mixin, strategy>>

\* The job data names no campaign, so none is joined; the order is created.
Join ==
  /\ Waiting("join")
  /\ \/ /\ SetOrder("created") /\ NoFault
        /\ jobs' = Added(Finished(jobs, <<"join", 0>>), <<"start", 0>>)
     \/ /\ SetOrder("failed") /\ Fault("throw")
        /\ jobs' = [jobs EXCEPT ![<<"join", 0>>].status = "failed"]
  /\ UNCHANGED <<intake, clock, intent, payment, ledger, task, mixin, strategy>>

-----------------------------------------------------------------------------
(* start_mm                                                                  *)

start == <<"start", 0>>

\* The order runs before its strategy does.
StartMark ==
  /\ order # None /\ Starts(start, [Idle EXCEPT !.pc = "launch"]) /\ SetOrder("running")
  /\ UNCHANGED <<intake, clock, intent, payment, ledger, mixin, strategy, seen, faults>>

StartLaunch ==
  /\ At(start, "launch")
  /\ \/ strategy' = "running" /\ Ends(start, Finished(jobs, start)) /\ UNCHANGED order /\ NoFault
     \/ Fault("throw") /\ SetOrder("failed") /\ Ends(start, Thrown(jobs, start)) /\ UNCHANGED strategy
  /\ UNCHANGED <<intake, clock, intent, payment, ledger, mixin>>

-----------------------------------------------------------------------------
(* What goes wrong with a handler itself.                                    *)

\* A database or queue call of a deposit or a check throws.
HandlerThrows ==
  /\ Fault("throw")
  /\ \E j \in Jobs : /\ j[1] \in {"deposit", "check"} /\ jobs[j].status = "active"
                     /\ Ends(j, Thrown(jobs, j))
  /\ UNCHANGED <<intake, clock, rows, mixin, strategy>>

\* The process dies: its handlers are gone and their jobs, stalled, run again.
\* What the poll had fetched is gone too. Strategies that ran are restored.
Crash ==
  /\ Fault("crash")
  /\ fetched' = {}
  /\ jobs' = [j \in Jobs |-> IF jobs[j].status = "active"
                             THEN [jobs[j] EXCEPT !.status = "waiting"] ELSE jobs[j]]
  /\ task' = [j \in Jobs |-> Idle]
  /\ UNCHANGED <<made, cursor, clock, rows, mixin, strategy>>

DepositJob(s) == \/ Intake(s) \/ DepositRead(s) \/ DepositCredit(s) \/ DepositSave(s)
                 \/ DepositQueue(s) \/ DepositRefund(s)

CheckJob == \/ CheckRead \/ CheckRefuse \/ CheckRefundDebit \/ CheckRefundTransfer
            \/ CheckAccept \/ CheckSave \/ CheckQueue

WithdrawJob == \/ WithdrawRead \/ WithdrawDebit \/ WithdrawSend \/ WithdrawQueue \/ WithdrawFail

StartJob == StartMark \/ StartLaunch

Next == \/ UserPays \/ TimePasses \/ PollFetch \/ PollQueue
        \/ \E s \in Transfers : DepositJob(s)
        \/ CheckJob \/ WithdrawJob \/ WithdrawalMoves \/ Monitor \/ Confirm \/ Join
        \/ StartJob \/ HandlerThrows \/ Crash

Spec == Init /\ [][Next]_vars

\* Queued jobs are run to their end, and withdrawals that were sent arrive.
FairSpec == /\ Spec
            /\ WF_vars(CheckJob) /\ WF_vars(WithdrawJob) /\ WF_vars(WithdrawalMoves)
            /\ WF_vars(Monitor) /\ WF_vars(Confirm) /\ WF_vars(Join) /\ WF_vars(StartJob)

-----------------------------------------------------------------------------
Payment == [paid : [Currencies -> Units], complete : BOOLEAN]

OrderStates == {"payment_complete", "withdrawing", "deposit_confirming", "deposit_confirmed",
                "created", "running", "failed"}

Commands == {"credit", "refund", "refund-compensation", "withdraw", "withdraw-compensation"}

\* Where a handler can be.
Places == {"idle", "credit", "save", "queue", "refund", "refuse", "transfer", "accept", "debit",
           "send", "fail", "launch"}

\* None is no payment state, no asset and no state of an order.
ASSUME NoneAssumption ==
  /\ None \notin [paid : [Currencies -> Nat], complete : BOOLEAN]
  /\ None \notin Assets /\ None \notin OrderStates

\* The types of the variables.
TypeOK ==
  /\ setup \in Setups /\ overdue \in BOOLEAN /\ timedOut \in BOOLEAN
  /\ made \in 0..Cardinality(Transfers) /\ cursor \in 0..made /\ fetched \subseteq 1..cursor
  /\ intent \in {"pending", "in_progress", "completed", "expired"}
  /\ payment \in Payment \cup {None} /\ order \in OrderStates \cup {None}
  /\ ledger \in [funds : [Currencies -> Int],
                 keys : SUBSET [what : Commands, snapshot : Nat, asset : Currencies, amount : Units]]
  /\ jobs \in [Jobs -> [status : {"absent", "waiting", "active", "done", "failed"}, tries : 0..MaxAttempts]]
  /\ task \in [Jobs -> [pc : Places, read : Payment \cup {None}, role : Assets \cup {None}, debited : BOOLEAN]]
  /\ sent \in [Roles -> Units] /\ arrival \in [Roles -> {"none", "sent", "confirmed"}]
  /\ returned \in [Currencies -> Nat] /\ bounced \in [Transfers -> Nat]
  /\ strategy \in {"idle", "running"}
  /\ seen \subseteq Kinds \cup {"stale"} /\ faults \in 0..setup.maxFaults

\* A strategy runs only for an order whose base and quote were both withdrawn to
\* the exchange and confirmed, whatever fails and is run again on the way
\* (monitor_mixin_withdrawal, confirm_exchange_deposit, start_mm).
StartedMeansFunded == strategy # "idle" => \A r \in Roles : sent[r] > 0 /\ Confirmed(r)

\* Units of an asset that left: sent back, refunded or withdrawn to the exchange.
Bounced(a) == SumFunctionOnSet(bounced, {s \in Transfers : Deposits[s] = a})

Out(a) == Bounced(a) + returned[a] + IF a \in Roles THEN sent[a] ELSE 0

MadeOf(a) == Cardinality({s \in 1..made : Deposits[s] = a})

\* No more of an asset leaves than came in, also when transfers are refused and
\* tried again, or come late and race with a refund: what a time-out refunded is
\* not withdrawn as well (debits in executeRefundTransfer and
\* executeExchangeWithdrawal). Excepted are lost answers, handlers run again after a
\* throw or a crash, a lost cursor, and payment states saved over each other.
OutflowBounded ==
  seen \subseteq {"reject", "slow", "pair"} =>
    \A a \in Currencies : Out(a) <= MadeOf(a)

\* Whatever fails and is run again, the ledger never shows more of an asset than
\* the user transferred: credits and compensations count once (keys of
\* creditDeposit in handleProcessMMSnapshot and in the compensations).
LedgerNeverInflated == \A a \in Currencies : ledger.funds[a] <= MadeOf(a)

Credits(a) == Cardinality({k \in ledger.keys : k.what = "credit" /\ k.asset = a})

\* An asset on its way out: debited and not yet transferred.
InTransit(a) ==
  \E j \in {check, withdraw} : jobs[j].status = "active" /\ task[j].role = a
                               /\ task[j].pc \in {"transfer", "send"}

\* Without faults every refund and every withdrawal of the order's assets has its
\* debit, under time-outs, late transfers and parallel handlers: the buckets hold
\* what was credited and has not left.
LedgerMatchesOutflow ==
  seen = {} => \A a \in Assets :
    InTransit(a) \/ ledger.funds[a] = Credits(a) - returned[a] - (IF a \in Roles THEN sent[a] ELSE 0)

\* An order that was accepted is started, or its withdrawal has failed for good,
\* unless a fault comes in between (the jobs from check_payment_complete to
\* start_mm).
PaidOrderDecided ==
  order = "payment_complete" ~>
    (strategy # "idle" \/ jobs[withdraw].status = "failed" \/ seen # {})
=============================================================================
