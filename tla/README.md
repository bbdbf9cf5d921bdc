# Mr.Market: TLA+ models of the money path

Mr.Market is a market-making server (NestJS, `server/src`). Users deposit funds
for an order, strategies turn the order into intents, intents become orders on
exchanges, and the fills of those orders move the user's money in an
order-scoped ledger. This directory specifies the parts of the server where
money can be lost, counted twice or left locked. It model-checks them with TLC on
small instances and proves the most important facts with TLAPS for every
instance.

Paths below are relative to `server/src/modules/market-making/` unless they
start with `server/` or `docs/`.

## 1. Inventory

One Node.js process runs everything. JavaScript code between two `await`s is
atomic; every `await` (a database call, an exchange call, a sleep) is a point
where other handlers run. So the concurrency that matters is the interleaving of
async handlers at their awaits, crashes between two awaited writes, and the
exchange, which moves on by itself.

| Part | State | Operations | Talks to | What makes it correct |
|---|---|---|---|---|
| Order ledger `ledger/balance-ledger.service.ts` | tables `ledger_entry` and `market_making_order_balance`, mutation locks (promise chains), paused buckets (in memory) | 14 typed mutations, pause and clear, rebuild | outbox; called by every part that moves money | no overdraft, one entry per key, row = projection of the entries, entry and row together, replays are not conflicts |
| Order tracker `trackers/exchange-order-tracker.service.ts` | tracked orders in memory, written behind to `tracked_order`; dispatches in flight | upsert, poll, open-order snapshot, mark settled, tick, hydrate | exchange, fill settlement, reservation | progress only forward, terminal is final, each fill settled, reservation released once |
| Fill settlement `strategy/settlement/fill-settlement.service.ts` | none of its own (the cursor `settledFilledQty` is the tracker's) | settle a fill: two ledger legs, fee, cursor | ledger, tracker | each unit filled is booked once, the cursor is backed by entries |
| User stream `trackers/user-stream-tracker.service.ts`, `user-stream/` | event queue, last fill fingerprint and trade total per order | drain, apply order events, route fills | tracker, fill settlement | lost, repeated, reordered events do no harm |
| Reservations `ledger/order-reservation.service.ts` | none (ledger entries) | reserve, release, release rest, recover dangling locks | ledger | only what is not filled is released |
| Shutdown `trackers/tracked-order-shutdown.service.ts`, `strategy/runtime/strategy-instance-lifecycle.service.ts` | stopping strategies | cancel, wait, force terminal, detach | exchange, tracker | nothing is released that may still fill |
| Intent execution `strategy/execution/strategy-intent-execution.service.ts` | intents' status, client-id mappings, processed markers | create, cancel, swap, stop; retries, in-doubt reconciliation | exchange, reservations, tracker | an order is placed at most once, a reservation lives as long as its order may |
| Intent worker and store | intents in flight, per strategy and per exchange | dispatch head intent, cancel pending intents | execution | per-strategy order, limits, no lost intent |
| Ledger reconciliation `reconciliation/reconciliation.service.ts` | pauses | fee corrections, pause and clear | ledger, exchange | no correction is applied twice |
| Strategy lifecycle, sessions and startup recovery `strategy/runtime/`, `strategy/recovery/` | sessions, instance rows | start, stop, rerun, restore | executor, tracker | stop wins over restart, recovery loses nothing |
| Order processor and withdrawals `user-orders/`, `orchestration/`, `server/src/modules/mixin/` | order state, queue jobs, withdrawals | payment, start, stop, exit; withdraw, confirm, compensate | ledger, Mixin | money leaves once, compensation happens once |
| EVM execution `evm-execution/` | nonces, executions, receipts | allocate, submit, confirm, settle swap and gas | chain, ledger | one nonce per transaction, gas debited once |
| Rewards `rewards/` | reward ledger, shares, vault transfers | observe, confirm, distribute, transfer | ledger, chain | no reward distributed twice |
| Tick coordinator `tick/` | registered components | ordered tick | all trackers | ticks do not overlap |
| Quote planning, strategy controllers | market data | compute quotes | intents | numeric, not modelled |
| Admin, auth, market data, health | - | requests and views | - | not modelled |

What is hard here, and why tests seldom reach it (`hazards` in `PROJECT.json`
gives the lines):

* the ledger's two saves are not one transaction on SQLite, the production
  database, and its lock must survive failures;
* four independent parts start settlements of the same fill and read the cursor
  before they await the ledger and move it after;
* the tracked order is written behind, so a crash leaves an older cursor;
* answers of the exchange, stream events and acknowledgements carry copies that
  are old when they are applied;
* "order not found", a missing order in a snapshot, or a stopped strategy are
  taken as evidence that an order ended;
* a placement, a refund, a withdrawal, a vault transfer or a broadcast whose answer
  is lost may have happened, and is retried, reconciled or given up;
* queue jobs run in parallel, are retried when they throw and run again when the
  process died over them, and most handlers read a row, await and save all of it.

## 2. Modules

| Module | Models |
|---|---|
| `LedgerRules` | The arithmetic of a mutation: admissible amounts, signs, the three parts of a balance, sufficiency, fees, realised result, and the projection the rebuild uses. No variables. |
| `AtomicLedger` | The abstract ledger: a command takes effect entirely, once per key, or not at all. |
| `BalanceLedger` | `BalanceLedgerService`: concurrent calls, lock, lookup, load, the two saves, commit and rollback, outbox, pauses, rebuild, crashes. |
| `NatSets` | A library of lemmas: induction over naturals and over finite sets in a form TLAPS can use, and from it the facts about recurrences and sums the theorems need. |
| `BalanceLedgerProofs` | Theorems about `LedgerRules` and `BalanceLedger`: balances and keys, the read model, the refinement. |
| `OrderTracking` | Status transitions, merge, settlement cap, partial-fill status and release amount. No variables. |
| `FillSettlement` | The life of one acknowledged order from fill to ledger and from reservation to release. |
| `OrderPlacement` | From a published intent to a tracked order: worker, reservation, retries, placements in doubt, stop, startup recovery. |
| `OrderFunding` | From a user's transfer to a running strategy: snapshots, payment, refund, withdrawal to the exchange, confirmation, start. |
| `Withdrawals` | Money leaving through Mixin: the withdrawal queue, its confirmation, and `pauseAndWithdraw`. |
| `RewardPipeline` | Campaign rewards: observe, correct, confirm, allocate, distribute, move to the vault. |
| `EvmExecution` | Swaps of one EVM wallet: nonces, broadcast, receipts, reorganisations, settlement of swap and gas. |
| `FillSettlementProofs`, `OrderPlacementProofs`, `OrderFundingProofs`, `WithdrawalsProofs`, `RewardPipelineProofs`, `EvmExecutionProofs` | Theorems about the module each is named for. |
| `MC...` | One per module with a run: the instances for TLC. |

The modules meet at the ledger. `BalanceLedger` implements `AtomicLedger`
(`ledger_atomic`); the other modules take the ledger at its word, so a command is one
step there, recorded once per key, and refused when the bucket does not cover it.
`OrderPlacement` ends where an order is acknowledged, `FillSettlement` begins
there, and both extend `OrderTracking`, the rules of the tracker. `OrderFunding`
ends where the strategy is started.

Several modules have a constant `Setups` and a variable `setup` that is chosen in
`Init` and never changes: the surroundings (who runs beside whom, which faults, how
many) of one behaviour. A run then covers several small instances rather than their
product, in which the interesting interleavings would drown.

### BalanceLedger and the code

`entries`, `rows` and `outbox` are the tables; `paused` is
`reservationPausedBalances`; `call[n]` is the n-th call of `applyMutation` with
its local variables, waiting in promise-chain order; `rebuild` is a
`rebuildOrderBalance` under way. `Call` enqueues; `Acquire`, `Lookup`, `Load`,
`SaveEntry`, `SaveBalance` are the stretches between awaits of
`applyMutationWithRepositories`; `Commit` is the transaction on other databases;
`SaveFails` a save that throws; `Publish` the outbox event after the lock.
`RebuildStart`, `RebuildReadEntries`, `RebuildReadRow`, `RebuildCreateRow`,
`RebuildCompare` are the steps of the rebuild, which takes no lock. `Crash`
forgets everything in memory. Two switches select what the deployment decides:
`UseTransaction` (false on SQLite, `shouldUseDataSourceTransaction`) and
`GlobalLock` (true when a data source is injected; tests construct the service
without one and then have one lock per bucket).

Abstracted: decimal strings are integers (the code rejects what BigNumber cannot
represent), timestamps and reference fields are left out, the content hash is the
record it hashes. `unapplied`, `outcome`, `calls` and `faults` are history or
bounds and feed nothing back, apart from the bounds' guards.

### FillSettlement and the code

`exchange` is the order as the exchange has it; `queue` the events the order
watcher and the trade watcher of the user stream have yet to bring, each in its own
order (the two loops run independently, so either may be ahead of the other); `fillSeen` the maps `latestFillFingerprintByOrder` and
`latestTradeCumulativeQtyByOrder`; `routing` the event `routeFillCandidate` is
looking the order up for; `order` the tracked order (status,
`cumulativeFilledQty`, `settledFilledQty`); `writes` and `stored` the upserts of
`persistOrder` under way and the row. `tasks` are the settlements: one of the
drain, one of the poll, and one per cumulative quantity for the tracker's
dispatches, as `fillSettlementDispatches` allows. `poll`, `cancel` and `release`
are the reconciliation pass, the cancel intent or the shutdown, and the releases
under way, each with the values it took before its last await. `ledger` has what
is locked and, per key, what was recorded. `setup` says how much is ordered, what
other orders have locked in the bucket, what the exchange calls a partly filled
order, which stream events it sends and whether it may drop some, whether passes
run, who may cancel, and how many faults there are.

Each action is the code between two awaits: `Pay`, `Receive`, `Fee` and
`MarkSettled` are `settleFill` and what follows; `StreamTake` and `StreamRoute`
the drain; `PollSelect`, `PollCheck`, `PollFetch`, `PollApply`, `PollFetchOpen`,
`PollCompare` the pass; `CancelIntent`, `CancelSend`, `CancelAck` the intent;
`Shutdown`, `ShutdownWait`, `ShutdownRefresh`, `ShutdownForce` the shutdown;
`ReleaseRead` and `ReleaseUnlock` the release; `StoreOrder`, `StoreFails`,
`Crash` persistence. The updates of the tracked order are whole: merge, write
behind, terminal release and dispatch happen in the step that applies a report,
each as far as the caller's options ask for it.

Abstracted: quantities are whole units, the order is a sell (a buy's paying leg
is the price times the units), prices are constant. PnL, markouts and
dual-account counters after a settlement are left out. Two reads of the release
that are awaited one after the other are one step: a release recorded between
them makes the later unlock a replay either way. A write equal to the last one
under way is left out. The exchange's own behaviour (`ExchangeFills`,
`ExchangeEnds`) and the return of a session after a restart (`RestoreSession`)
are environment.

### OrderPlacement and the code

One strategy and one bucket; every intent sells one unit. `intents`, `marked`,
`mappings`, `rows` and `strategy` are tables (intent rows, consumer receipts,
client-id mappings, tracked orders, the instance row); `worker`, `exec`,
`processed`, `nextSeq`, `paused`, `orders`, `poll` are memory. `Publish` is
`publishIntents`; `WorkerTake` and `WorkerDispatch` the worker's loop over the
strategy's head intent; the `Exec...` actions are `consumeIntent` for
CREATE_LIMIT_ORDER in the order of its awaits: `ExecBegin` (seen before),
`ExecSent`, `ExecGate` (instance running, slot free), `ExecClientId`,
`ExecReserve`, `ExecCheck` and `ExecSubmit` (one attempt of `runWithRetries`),
`ExecReconcile` (a placement in doubt), `ExecRelease` (a failed one),
`ExecAttach`, `ExecTrack`, `ExecRejected`, `ExecAcked`, `ExecDone`, `ExecMark`.
`PollAsk` and `PollApply` are the poll of a tracked order, by client order id
while it has no other; `PollThrows` is a query that throws an error other than
ServiceUnavailable, which ends the pass without noting the time of the poll (`threw`
is the order it happened at); `Snapshot` the placeholder for an unknown open order;
`StopBegin`, `StopCancel`, `StopEnd` and `StartAgain` the lifecycle;
`CrashAndRestart` the loss of memory with hydration and startup recovery, which
run before anything else does. Orders are keyed as the tracker keys them: by exchange id, by
client id while there is none, and, after hydration, under one key for all rows
without exchange id.

Abstracted: what happens to an acknowledged order afterwards (`FillSettlement`);
market orders and dual-account bookkeeping, which follow a placement; the limits
across strategies and exchanges. `Terms` and `Slot` stand for price, quantity and
slot key.

### OrderFunding and the code

One order, transfers of one unit. `cursor` and `fetched` are the poller's cursor
and what it has yet to queue; `intent`, `payment`, `order` are the rows; `jobs`
the Bull queues (one job per id, attempts, run again after a crash) and `task` what
an active handler holds. `PollFetch` and `PollQueue` are `pollSnapshotsCron`;
`DepositJob` the intake of a transfer and `process_market_making_snapshots`;
`CheckJob` (`CheckRead` to `CheckQueue`) is `check_payment_complete` with refunds;
`WithdrawJob` is `withdraw_to_exchange` with its compensations; `Monitor`,
`Confirm`, `Join` and `StartJob` are the jobs that follow. A handler is cut at the
awaits between which another writes the same row. Faults: a transfer refused,
an answer lost, a handler that throws, a crash, slow confirmations, a pair that
is gone, a cursor that cannot be read.

### Withdrawals and the code

`row`, `job`, `recon` are the withdrawal rows and its two kinds of jobs; `pc` the
handler. `InitializeWithdrawal`, `QueueAdd`, `QueueMark` are `initializeWithdrawal`
and `queueWithdrawal`; `Claim`, `CheckBalance`, `Send`, `MarkSent`, `Debit`,
`NoteDebitPending`, `HandleError` are `handleWithdrawal`; `ReconcileDebit` and
`ReconcileWrite` the reconcile job; `WorkerRead` and `WorkerWrite` the confirmation
worker. `OpCall` to `OpComplete` and `OpRollback` are `pauseAndWithdraw`, while the
order may still close on the exchange (`OrderCloses`). `initializeWithdrawal` and
`pauseAndWithdraw` have no caller in the repository; the model calls them at any
time.

### RewardPipeline and the code

`row`, `alloc`, `credited`, `marked` are the reward rows, the allocation rows, the
ledger's credits by key, and the transfer's receipts. `Observe`,
`ObserveCorrection`, `ConfirmRead`/`ConfirmSave`, `CreateRead`/`CreateSave`/
`CreateAllocation`, `DistributeRead`/`DistributeCredit`/`DistributeSave`/
`DistributeReread`/`DistributeEnd` and `MoveRead`/`MoveClaim`/`MoveSend`/`MoveMark`/
`MoveSave`/`MoveSaveThrows` cut the five operations at their awaits. Every save writes
the whole row that was read; a row changed meanwhile is noted in `seen` as `"stale"`.
A transfer pass reads all confirmed rows at once and takes one after the other. The
ledger refuses a zero allocation and a debit that is not covered, and the
distribution ends there.

Amounts are in units of the eighth decimal. A share is divided by the total first, to
the twentieth decimal and half up (`Ratio`, in units of `1 / Scale`), and the product
is rounded down to a whole unit (`Parts`), as BigNumber does it. The constant `Scale`
stands for 10^20; the theorems hold for every value of it.

### EvmExecution and the code

`row` are the execution rows, `locks` the allocator's promise chain, `sub` the
submissions, `call` the calls of confirmer, monitor, reconciliation and settlement.
`Reserve`, `ReserveGas`, `AllocateRead`, `CreateRow`, `Broadcast`, `MarkSubmitted`
are `submitAction`; `ConfirmRead`, `ConfirmReceipt`, `ConfirmHeight`,
`MonitorRead`, `MonitorReceipt` the confirmer; `MarkRead`, `MarkSave`, `MarkAgain`
the mark methods, which read, wait and save; `SettleRead` to `SettleGasRelease` the
settlement with its bucket-wide releases; `ReconcileRead` and `ReconcileEntries` the
runner. `Mine`, `MineEmpty`, `Reorg` are the chain: it takes transactions in
nonce order and replaces its last blocks, fewer than the confirmations asked for.
Confirmation, monitoring and settlement have no caller in the repository; the
model calls them at any time, in parallel where a setup says so.

## 3. Runs

Every run finishes within five minutes with two workers. Deadlock checking is off:
once the calls, the fills and the faults of an instance are used up, the system
rightly rests.

| Run | Instance | Checks |
|---|---|---|
| `ledger_sqlite` | one bucket, 4 calls out of 4 commands (a key with two payloads, a lock and a withdrawal that do not both fit), pause, rebuild, 1 fault; no transaction | `TypeOK`, `NoOverdraft`, `ReadModelFollowsLedger`, `SuccessMeansRecorded`, `LockDrains` |
| `ledger_transaction` | 7 commands with swap, liquidity, fee and reversal, 5 calls, 1 fault, transactions | `MoneyConserved` |
| `ledger_atomic` | two buckets, a key used on both, a fee and its reversal, 4 calls, 1 fault, no transaction, one lock per bucket | `OneEntryPerKey`, `EntryAndBalanceTogether`, `AppliedIsAnnounced`, `ImplementsAtomicLedger` |
| `settle_live` | 2 units; passes only, or a stream only, of order events beside trades without totals or trades with totals, that loses nothing; no faults | `PolledNeverOverSettled`, `ReleaseOnlyUnfilled`, `FillsReachLedger` |
| `settle_safe` | 2 units, a lossy stream of bare orders and trades with and without totals, 1 fault; or 1 unit with stream, passes, cancel intents, shutdown, 1 fault | `CursorBacked`, `NeverAheadOfExchange`, `ProgressOnlyForward` |
| `settle_race` (violation) | 2 units, order events only | `NeverOverSettled` fails |
| `place_steady` | 2 intents for one slot, or one for it and one for another slot; 1 retry, answers open, filled and rejected, definite errors, time-outs that landed or not | `LiveOrderReserved`, `OneOrderPerSlot`, `OnlyFailedOrdersKeepFunds`, `IntentsResolve`, `InDoubtResolves` |
| `place_faults` | the same with a stop, a crash, requests that land late, answers open and cancelled | `PlacedAtMostOnce`, `ClientIdFresh` |
| `funding` | five setups: a third transfer that races with time-out and refund; every fault on a plain payment; two faults on refund or withdrawal; a fee that is missing; an asset the pair does not know | `StartedMeansFunded`, `OutflowBounded`, `LedgerNeverInflated`, `LedgerMatchesOutflow`, `PaidOrderDecided` |
| `withdraw` | two withdrawals and 1 fault; one and 2 faults; one beside two calls of `pauseAndWithdraw` and 1 fault; a wallet of 2 | `PaidAtMostOnce`, `OutcomeTellsPayment`, `FundsConserved`, `WithdrawalsSettle` |
| `rewards` | 12 units, shares 1 : 2, 1 : 19 or none, ratios to one decimal; two overlapping allocations; a correction to 5, distributed as well, once with a part of zero; a fault with confirmation by hand, or with two distributions; two faults on the transfers of both | `AllocationsAddUp`, `CreditedWithinReward`, `MovedAtMostOnce`, `ConfirmedMovesOn` |
| `evm` | three submissions and 1 fault; one swap with two parallel calls and a reorganisation; the same with one call, a fault and more blocks; two swaps in one order, and in two | `NonceNeverContended`, `NoncesContiguous`, `SettledOnlyIfMined`, `ExecutionsGetMined` |

Where a property has an exception ("unless a crash came in between"), the
comment above it names the case and the code really is exposed to it: the list at
the end of this section says what happens then. Everything else that the instance
can do is within the property. The type invariants of the modules other than
`BalanceLedger` describe their state; no run is spent on them.

### Why the bounds are enough

*Ledger.* Every interference is between two calls, or a call and the rebuild, on one
bucket or one key. Four or five calls give an initial balance, two contenders
and a retry; a second fault repeats the first, because a crash leaves
nothing in memory. `ledger_atomic` uses the weaker locks on purpose: every order of
steps the one lock of the process allows, locks per bucket allow too, and only
with them does the unique index on the key have work to do.

*Settlement.* Two units are the smallest quantity with a partial fill followed by
another, which every settlement race needs; two more units locked for other
orders let a wrong debit or release go through instead of failing on the balance.
With one unit an order still has every status, every stale answer and every cancel
path. Two settlers of one kind cannot exist, as the drain and the pass run one
at a time and dispatches are keyed by total. A lossy stream may drop any of the
events of a change, so it covers exchanges that send only some of the forms. Trades
with totals beside order events are what `isDuplicateFill` needs to drop an order event.

*Placement.* A strategy has one intent in flight, so two intents give every meeting
of an execution with an order of an earlier one. With one slot and the same terms
orders can be mistaken for each other; with two slots two placements can be in doubt at
once, and a query that throws for one starves the other. `Pasts` gives both pairs: it
says which of three intents failed before the behaviour begins. One retry gives an
unanswered attempt before an answered one.

*Funding.* Base and quote and one transfer more give every race of a late transfer;
two attempts give a retry and a job that fails for good. Handlers run in
parallel, since the concurrency Bull counts is per named processor and adds up.

*Withdrawals.* Two withdrawals and a wallet of two compete for outputs; two calls of
`pauseAndWithdraw` with one operation id are the retry the keys are for.

*Rewards.* With quotients of one decimal (`Scale = 10`) shares 1 : 2 of 12 and of -7 leave
a remainder in both signs; shares 1 : 19, whose ratios are both rounded up, give more
than the reward, and of a correction a part of zero. With 20 decimals a reward must be
huge for the first of these. Two calls of each kind are needed for every overlap; a
cron never overlaps itself.

*EVM.* Three submissions give a queue with one in the middle; two confirmations and
reorganisations of one block are the smallest with a reorganisation the
confirmer must survive. The wallet has sent transactions before.

### Fairness

* Ledger and settlement: `Mutate(n)`, `Publish(k)`, `Rebuild` and the steps of
  settlements, drain, pass, cancel, release and write are weakly fair: database and
  exchange calls return or throw (connector and driver have time-outs), and the
  event loop runs ready continuations. `Tick` and `PollSelect` recur because the
  tick coordinator and the runner are driven by intervals. `LockDrains` says that
  no call is stuck; the calls of an instance are finite.
* Placement: worker loop and execution go on (weak). A pass takes orders that are being
  created before others, and those of one kind by the time of their last poll, at most
  four of them and two of one exchange. What is fair (strongly, as the pass is busy with
  other orders in between) is only that some placement in doubt is asked for while no
  pass is cut short. A query that fails as unavailable is answered at some later poll; one
  that throws anything else ends the pass, leaves the time of the poll unset, and comes
  first again: when it does so for good at an order being created, the others are never
  asked for, and `InDoubtResolves` says so (`PassesCutShort`).
* Funding: queued jobs are run to their end, and withdrawals that were sent arrive
  (a slow one is a fault of the model).
* Withdrawals: jobs run, chains confirm, and the worker, which goes through all sent
  withdrawals on a timer, comes back to each (strong, as it holds one at a time). The
  worker must be enabled: `strategy.mixin_withdrawal_confirmation_run` is `true`
  (`server/src/modules/mixin/withdrawal/withdrawal.module.ts:49-67`); without it a sent
  withdrawal is never completed.
* Rewards: both crons come back, a transfer pass goes through all it has read, and calls
  of `createAllocations` that have begun end.
* EVM: a submission that has begun ends and the chain takes the next transaction. A
  refused broadcast or a crash excuses every execution from then on.

Nothing is assumed of users, of fills and cancels on the exchange, of stops, crashes
or failures.

### The violation

`settle_race`: a dispatch for total 1 and the stream's settlement for total 2, both
started with cursor 0, debit 1 + 2 for two units filled. The keys differ, so the
ledger's idempotency does not help. `findings` has the line of the code and of
`docs/architecture/market-making-flow.md`, which says that only the positive delta is
submitted.

### What else the models show

These are weaknesses the modelled code has. Each is excepted by name in a property
or left out of a property's instance, and shows as a counterexample when the
exception is dropped or the instance is widened.

Ledger
* On SQLite entry and row can part when the process dies between the two saves
  (`docs/product/yellowpaper.md:289` says one cannot succeed while the other fails).
  `EntryAndBalanceTogether` claims the opposite there only until a save fails or the process
  dies. `ledger_atomic` shows that all else is atomic when only the effective entries
  are counted.
* `getSignedAmountForIdempotency` leaves out the sign of `gas_debit`, so the retry
  of a recorded gas debit is a conflict (`balance-ledger.service.ts:982`).
* A rebuild takes no lock and saves a zero row over one created meanwhile, which wipes out
  its updates; no property rules that out (`ReadModelFollowsLedger` counts them as missing
  from the row). It has no production caller.

Settlement
* A fill between the two fetches of one pass makes the order `external_missing`:
  terminal, not polled, its fill not settled (`exchange-order-tracker.service.ts:403`).
* A stream that loses nothing over-settles too, when its watchers overtake each other: a
  dispatch for one unit still awaits the ledger while the order event for two settles both.
  `NeverOverSettled` is therefore claimed of polled orders only.
* A trade that tells its total is noted as seen although the tracked total, which lags
  behind, caps it; the order event that would raise the total is then dropped as a
  duplicate (`user-stream-tracker.service.ts:744`), and without passes its units are never
  settled (`TakenForDuplicate`).
* The shutdown counts "order not found" as cancelled and releases what was filled
  (`tracked-order-shutdown.service.ts:64`); the cancel intent releases by the filled
  quantity it read before it awaited the cancel.
* A crash between the paying leg and the stored cursor debits the fill again under
  another key when the next total is larger.

Placement
* Only the error of the last attempt is classified: a time-out followed by a
  definite error releases the reservation of an order that may be live (`hasty`,
  `strategy-intent-execution.service.ts:440`).
* "Not found" for a placement in doubt releases its reservation although the request
  may still land.
* A create acknowledged as cancelled is released by the tracker and by the
  acknowledgement under two keys; startup recovery releases a unit for an interrupted
  intent that had not reserved yet. Both take a unit other orders locked.
* A query for one order that keeps throwing (anything but ServiceUnavailable) ends every
  pass at that order and starves the others (`exchange-order-tracker.service.ts:569`, `:1171`).
* Hydration gives all rows without exchange id one key, so several in-doubt orders
  collapse into one after a restart.

Funding and withdrawals
* Two handlers save the payment state over each other and one transfer is lost from
  it (`"stale"`).
* A withdrawal that was refused has its debit compensated; the retry replays the
  debit, which books nothing, and sends.
* The snapshot cursor is saved before the transfers are queued; a crash in between
  loses them.
* `executeWithdrawal` has no request key in `withdrawal.processor.ts`: an answer lost
  after the payment is paid again by the retry. `queueWithdrawal` writes `queued` after
  the job may have run; a crash then makes it run again. A crash while
  processing leaves a status no job takes up.
* `pauseAndWithdraw` rolls the debit back when its completed event fails after the
  payment.

Rewards
* Overlapping `createAllocations` calls with different shares overwrite each other's
  amounts; `distributeAllocations` asks neither whether the reward is confirmed nor
  whether its allocations are complete.
* Ratios are rounded half up before they are multiplied, so the parts of a reward of
  2 * 10^20 / n units of the eighth decimal or more, for n users, may add up to more than
  it; the negative remainder is dropped, as is that of a negative correction.
* A zero allocation makes every distribution end at it, and the allocations after it are
  not credited.
* A transfer whose answer or receipt is lost is made again.
* A negative correction is confirmed and can never be transferred: each pass claims it and
  sets it back.
* When the save of the catch block fails too, the reward stays claimed for good
  (`rewards/reward-vault-transfer.service.ts:96`).

EVM
* `Number(null)` is 0, so a wallet without rows and transactions starts at nonce 1 and
  nonce 0 is never sent (`evm-execution.service.ts:213`); `NoncesContiguous` fails with
  a setup whose `count` is 0.
* The nonces handed out follow one another (proved), but the nonce of a refused
  broadcast, or of a swap cut off by a crash before it, is never mined, all later ones wait
  for it, and its reservations are released by nobody.
* A database error after the broadcast leaves the row `created`, which no confirmer takes up,
  although the transaction is mined.
* A reorganisation between the reads of receipt and height counts confirmations
  of a block that is gone; `markReverted` saves the row as confirmed first, and a
  settlement in between books a reverted swap.
* The release after a swap frees everything locked in the bucket, also what other
  swaps of the order reserved.

## 4. Proofs

TLC checks the small instances of section 3. The theorems hold for every value of the
constants: any number of calls, intents, withdrawals, users or swaps, any amounts, any
setups, any number of retries, faults and crashes. Each follows the same argument: an
inductive invariant that TLC has checked on the run of the module first, one lemma per
kind of step that it is kept, and the theorem as what the invariant implies.

| Theorem | States | For |
|---|---|---|
| `BalanceLedgerProofs!TypeCorrect`, `NeverOverdrawn`, `KeysRecordedOnce` | `TypeOK`, `NoOverdraft`, `OneEntryPerKey` | all |
| `BalanceLedgerProofs!RebuildAgreesWithApply` | the write path and the rebuild path compute the same balance | all |
| `BalanceLedgerProofs!ReadModelIsProjection` | `ReadModelFollowsLedger` | all |
| `BalanceLedgerProofs!SavedTogether` | `EntryAndBalanceTogether` | no rebuild |
| `BalanceLedgerProofs!MoneyStays` | `MoneyConserved` | transactions, no rebuild, fees reversed once and in full |
| `BalanceLedgerProofs!LedgerIsAtomic` | `ImplementsAtomicLedger`, a refinement | no rebuild |
| `BalanceLedgerProofs!SuccessIsRecorded` | `SuccessMeansRecorded` | gas debits of positive amounts |
| `FillSettlementProofs!CursorIsBacked`, `OrderBehindExchange`, `OrderMovesForward` | `CursorBacked`, `NeverAheadOfExchange`, `ProgressOnlyForward` (an action property) | all |
| `FillSettlementProofs!PolledFillsOnce`, `PolledReleasesRest` | `PolledNeverOverSettled`; `ReleaseOnlyUnfilled` under the same premise, `OnlyPolled` | all |
| `OrderPlacementProofs!PlacedOnce`, `ClientIdsFresh` | `PlacedAtMostOnce`, `ClientIdFresh` | all |
| `OrderPlacementProofs!LiveOrdersReserved`, `SlotsExclusive`, `OnlyFailedKeep` | `LiveOrderReserved`, `OneOrderPerSlot`, `OnlyFailedOrdersKeepFunds` | a strategy that runs on |
| `OrderFundingProofs!StartedOnlyFunded`, `NeverInflated`, `OutflowIsBounded`, `LedgerMatches` | `StartedMeansFunded`, `LedgerNeverInflated`, `OutflowBounded`, `LedgerMatchesOutflow` | all |
| `WithdrawalsProofs!PaymentsUnique`, `OutcomesTruthful`, `PauseConservesFunds` | `PaidAtMostOnce`, `OutcomeTellsPayment`, `FundsConserved` | all |
| `RewardPipelineProofs!AllocationsSumUp`, `CreditsWithinReward`, `MovedOnce` | `AllocationsAddUp`, `CreditedWithinReward`, `MovedAtMostOnce` | all |
| `EvmExecutionProofs!NoncesNeverContended`, `NoncesHaveNoGap`, `BookedStaysMined` | `NonceNeverContended`, `NoncesContiguous`, `SettledOnlyIfMined` | all |

`TypeCorrect` is also proved of `FillSettlement`, `OrderFunding`, `Withdrawals`,
`RewardPipeline` and `EvmExecution`. Of `OrderPlacement` the types the argument needs are part of
its invariant (`PlaceTypes`); `TypeOK` as a whole is not proved, because startup recovery folds its
releases over a set, and what a fold computes needs an induction over data.

### The inductive invariants and why they are needed

*Ledger.* `LedgerInv` adds to `TypeOK` and the two properties: `SavingOK` (the balance a
call carries to its save has passed the checks, otherwise saving could overdraw),
`LockHeld` (a call that runs is the first of its lock; `OneRunner` then gives one
runner under the global lock) and `KeyIsNew` (under the global lock a key found new at the
lookup stays new until its entry is written: with a transaction the code relies on
the lookup alone). With a lock per bucket the unique index on the key does the work.

*Read model.* A saved row equals the projection of the entries that are not in
`unapplied`, where an entry is until its row is saved and again when a rebuild wipes it out.
In between, a call holds a balance it loaded: `Loaded` says which projection
that is, less what was missing when the row was loaded, so that a rebuild that saves the
row in between does not break the argument. Projections are recursive functions; that two
of them agree is `RecurrenceUnique` of `NatSets`. The refinement maps a step to the whole
application of a command when its balance row is saved and to a stutter otherwise; it needs
`FreshInv`, that the row is still what the call loaded. `EntryAndBalanceTogether` needs in
addition that, without a rebuild, `unapplied` holds nothing but the keys of calls between
their two saves, as long as there is a transaction or nothing has failed.

*Money.* `RulesConserve` is the arithmetic of one command: available and locked funds together
move by what is deposited, earned, paid as a fee or moved outside. It needs that the code's floor
of zero under the fees paid never bites, which no invariant of the row alone can say: `FeesInv`
adds that the fees paid are exactly the fees of the bucket that no entry reverses, summed over
the table. `FlowAdds` and `FeeTotals` follow both sums through an insert.

*Settlement.* All copies of the tracked order (the order itself, the stored row, writes
under way, what a pass or a cancel read) are `Versions`: none is ahead of the exchange, and
what the cursor claims is `Backed` by the sums of both legs. A settlement under way adds to a
cursor that is backed. These sets only grow with the exchange and the ledger, so a step that
changes neither cannot spoil a copy somebody else holds.

*Polled orders.* `PolledInv` says what makes the ticks beside the pass harmless. A pass asks for
the open orders only after its own settlement, so there is progress to settle only while that one is
under way (`OneProgress`); another settlement either has the same total and the same
quantity, hence the same keys, or repeats what is booked below the cursor (`SettlesOrRepeats`).
`BookedOnce` adds up both, and with `ReleasesRest` shows that the paying leg is never refused:
a refused leg would leave progress that the next pass settles under another key while a
tick still settles it under the old one. A release starts only from the last word of the
exchange, whose quantity is final.

*Placement.* `SequenceInv` says that the client order ids in use are the first m and that the
counter, when it is remembered, is m: this is why counting the mappings after a crash gives
a fresh id. `SenderInv` and `OneId` bind an id to its intent from the first request on, and
`ExchangeInv` then gives one order per intent, because the exchange opens one order per id.

*A strategy that runs on.* `SteadyInv` says for each client order id whether a unit is locked for
it (`Holds`): while it is being placed, while its placement is in doubt, and while the tracker has
its order as created, open or missing, or as failed without the release of a rejected create.
`Balance` is then that the bucket locks one unit for each id that holds one; every step moves both by
the same unit, or neither. That a release finds its key unused and takes no other order's unit
comes from `ClientKeys` (which key tells what became of the order) and from the ids being fresh.
`Covered` says that what the exchange has is being placed or tracked, so an open order holds its
unit; `SlotFree` that an execution past its check of the slots finds its slot free until it opens an
order, because nothing else opens one; `IntentInv` ties an order's end to its intent's status, which
`OnlyFailedOrdersKeepFunds` reads. The poll reads an order and applies the answer later: by `PollInv`
nobody but the snapshot touches the order in between, and what the snapshot missed the late answer
does not revive.

*Funding.* `FundingInv` has three layers. What a handler holds: `DepositInv`, `CheckInv` and
`WithdrawInv` say for each place of a handler what it has read and which key is already in
the ledger, and `ChainInv` that a job of the chain exists only when what it relies on does;
`StartedMeansFunded` follows. What the ledger holds: by `KeysInv` a credit belongs to a
transfer that was made, any other command has one key per asset, and a compensation
has its debit, of the same amount; `FundsInv` says that each bucket is the sum of its keys.
So `LedgerNeverInflated` holds through every fault. The amounts are bounded by `UnitsInv`:
without a bound a payment saved over another could ask for an amount outside the set that
`Conflict` looks for, and a second key would be possible. What
happens when no answer is lost: a transfer is taken in once (`IntakeInv`), one that was
credited is not sent back (`CreditedInv`), no payment state counts more than was saved
(`PaidInv`), and an order is refused only as long as no withdrawal was queued (`PhaseInv`).
Hence refund and withdrawal exclude each other, a debit the funds must cover is always covered, and
`OutflowInv` accounts for what left. `DebitInv` adds that without faults nothing is
compensated and a debit is followed by its transfer.

*Withdrawals.* `PaidInv` puts a paid withdrawal out of reach of every later run of its job;
`KeysInv` and `FundsInv` account for the operation of `pauseAndWithdraw` at each of its steps.

*Rewards.* `SharesFit` says that a reward's allocations are those computed from one set of
shares; `Alone` and `CallFits` that a call of `createAllocations` has the reward to
itself and leaves it with all of them; `CreditInv` that what is credited is what was
allocated; `AmountInv` that every copy of a row has the amount it was observed with. That the
parts add up is arithmetic: `RatioSum` bounds the sum of the ratios by one and half a unit of
the last decimal for each user, `PartsSum` the sum of the products rounded towards zero, and
`ComputedSum` gives a positive remainder to the first user.

*EVM.* `LockInv` describes the allocator's queue, `NonceInv` says that a nonce read under the
lock is above all of the wallet's rows until its own row is created. `ReceiptInv` follows a
receipt from the chain through the call that holds it to the row, and `Deep` that no
reorganisation reaches it any more.

### Hypotheses

The assumptions on the constants are named in the modules that declare them, and TLC
evaluates them in every run of the module: bounds are natural numbers, sets of ids are
finite, `None` is no value of another kind, a transaction needs a data source, a
reversal names an entry of its own bucket, shares are positive. Seven theorems have a
further hypothesis:

* `GasIsPositive`: `debitGas` has one caller, `settleGasIfPresent`
  (`evm-execution/amm-swap-settlement.service.ts:112`), whose `formatRawAmount` throws for
  amounts that are not positive. A `gas_debit` of a negative amount is recorded under
  another sign than the one compared on replay, and would break `SuccessMeansRecorded`;
* no rebuild (`RebuildBuckets = {}`): `rebuildOrderBalance` takes no lock and saves a zero row,
  and has no production caller. With it `ImplementsAtomicLedger` and
  `EntryAndBalanceTogether` are false;
* transactions: `MoneyConserved` is false on SQLite: the reversal of a fee whose row was not
  saved is cut off at zero;
* `FeesReversedOnce`: a command that reverses a fee has its amount, and all commands that reverse
  one fee have one key. `reverse()` has one caller, the correction of estimated fees
  (`reconciliation/reconciliation.service.ts:609`): it passes the absolute amount of the entry
  and the key `estimated-fee-reversal:<entry id>`. Without it `MoneyConserved` is false.
* `OnlyPolled`, a premise of the formulas themselves: exchanges without `watchOrders` (the tier `rest_only` of
  `user-stream/user-stream-capability.service.ts:32`) while nobody cancels the order and nothing
  fails. TLC shows `NeverOverSettled` false as soon as a stream settles beside a dispatch
  (`settle_race`). A cancel releases by the quantity it saw before it was sent, and a crash loads
  a row that may lag behind the exchange, so neither is covered. Passes, ticks, settlements, writes
  and releases interleave freely, and the exchange fills, cancels, expires or closes the order at any time.
* `Steady`: the strategy is not stopped, the process does not die, a request that timed out has
  landed or never will, and no create is acknowledged as cancelled: the instance `place_steady`
  checks, for any number of intents, slots, funds and retries. Attempts, time-outs, errors, doubts,
  polls, snapshots and the exchange's fills and rejections interleave freely. TLC shows
  `LiveOrderReserved` false without any one of the four (without the last with three intents), which are the
  divergences listed under *Placement* in section 3. A stop or a late landing also breaks
  `OneOrderPerSlot`, a crash or a cancelled create `OnlyFailedOrdersKeepFunds`.

### Only model-checked

Every safety and action property of the passing runs is stated by a theorem, some under the hypotheses
above. What only TLC checks:

* All liveness (`LockDrains`, `FillsReachLedger`, `IntentsResolve`, `InDoubtResolves`,
  `PaidOrderDecided`, `WithdrawalsSettle`, `ConfirmedMovesOn`, `ExecutionsGetMined`,
  `AppliedIsAnnounced`): fairness and
  ENABLED are out of the prover's reach.
* `ReleaseOnlyUnfilled` for an order that only a lossless stream settles, the other half of
  `settle_live`.

## 5. Plan

Done: the ledger with its refinement, order tracking and fill settlement, placement,
funding, withdrawals, rewards, EVM execution, and the proofs above. None of the
modules uses a RECURSIVE operator. Next, in this order:

1. `LedgerReconciliation` (`reconciliation/`): fee corrections, which read
   estimated fees, actual fees and reversals at three times and reverse under a key
   per entry, and the pauses its reports lead to.
2. `TickCoordinator` and the session registry: start, stop and rerun of a session
   against its running cycle.
3. `stop_mm`, liquidity positions and child executions, the share ledger.

## 6. Not modelled

Most of the repository's lines, and why:

* the frontend, the admin interface and the controllers behind them: requests,
  views and reports over the state of the parts above;
* quote planning, the strategy controllers and the dual-account planner: numeric
  decisions over decimal market data; what they emit, intents, is where
  `OrderPlacement` begins;
* market data, auth, health, metrics: no state that money depends on;
* Web3 and campaign clients: calls of external services;
* the exchange, Mixin, Bull and the chain are environment, modelled by what the code
  relies on, with the faults it can meet.

Within the modelled parts: balance events, client-id routing and orphaned-fill
records of the user stream; the sweep of exchange-side orders at shutdown;
recovery of dangling locks; market and dual-account intents; in-flight limits
across strategies and exchanges; sessions and their watchers; `stop_mm`; liquidity
positions, child executions and wallet balance reconciliation of the EVM part; the
share ledger. Prices are constant, so the residue a buy filled below its limit
leaves locked is not seen.
