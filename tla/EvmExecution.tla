---------------------------- MODULE EvmExecution ----------------------------
(***************************************************************************)
(* Swaps of one EVM wallet: EvmDexConnector reserves the funds, takes a nonce *)
(* from NonceAllocatorService, broadcasts and records the transaction;       *)
(* EvmReceiptConfirmerService follows the receipt, AmmSwapSettlementService   *)
(* books a confirmed swap, EvmExecutionReconciliationRunner looks for what is *)
(* not booked. Every mark* reads the row, waits and saves all of it. The     *)
(* callers of the last three are not in the repository: they are called at   *)
(* any time, in parallel where a setup says so.                              *)
(*                                                                           *)
(* A swap takes one unit of its order's token and Gas + 1 units of gas are   *)
(* reserved for the Gas it costs; the sponsor of all gas is one bucket.      *)
(***************************************************************************)
EXTENDS Integers, Sequences, FiniteSets, FiniteSetsExt

CONSTANTS
  Swaps,          \* intents
  Orders,         \* their ledger orders
  Callers,        \* parallel calls of the services
  Confirmations,  \* requiredConfirmations
  StuckBlocks,    \* stuckPendingBlocks
  Gas,            \* what a transaction costs
  Setups,         \* bounds of a behaviour: the order of each swap that runs, the callers,
                  \* the wallet's transactions so far, blocks, reorganisations, faults
  None

ASSUME EvmAssumption ==
  /\ {Confirmations, StuckBlocks, Gas} \subseteq Nat \ {0}
  /\ \A p \in Setups : /\ DOMAIN p.order \subseteq Swaps /\ \A s \in DOMAIN p.order : p.order[s] \in Orders
                       /\ p.callers \subseteq Callers /\ {p.count, p.blocks, p.reorgs, p.faults} \subseteq Nat

VARIABLES
  setup,      \* the bounds; fixed
  sub,        \* submitAction of each swap: where it is, the nonce it holds
  locks,      \* the allocator's queue for the wallet
  row,        \* EvmExecution rows
  sent,       \* transactions the chain's nodes know
  block,      \* the block each is in, 0 if in none
  ok,         \* whether it succeeded there
  height,     \* the chain's head
  call,       \* what each caller holds
  locked,     \* reserved token units of each order
  gasLocked,  \* reserved gas of the sponsor
  booked,     \* ledger keys used: <<swap, leg>>
  released,   \* amounts of the two release keys of each swap, 0 if unused
  reorgs,     \* bound
  seen,       \* history: faults, and the races the properties name
  faults      \* bound

chain == <<sent, block, ok, height, reorgs>>
ledger == <<locked, gasLocked, booked, released>>
past == <<seen, faults>>
vars == <<setup, sub, locks, row, sent, block, ok, height, call, locked, gasLocked, booked, released,
          reorgs, seen, faults>>

Running == DOMAIN setup.order

Init ==
  /\ setup \in Setups
  /\ sub = [s \in Swaps |-> [pc |-> "idle", nonce |-> 0]] /\ locks = <<>>
  /\ row = [s \in Swaps |-> None]
  /\ sent = {} /\ block = [s \in Swaps |-> 0] /\ ok = [s \in Swaps |-> TRUE] /\ height = 1
  /\ call = [c \in Callers |-> None]
  /\ locked = [o \in Orders |-> 0] /\ gasLocked = 0 /\ booked = {}
  /\ released = [s \in Swaps |-> [token |-> 0, gas |-> 0]]
  /\ reorgs = 0 /\ seen = {} /\ faults = 0

Fault(kind) == faults < setup.faults /\ faults' = faults + 1 /\ seen' = seen \cup {kind}

Status(s) == IF row[s] = None THEN None ELSE row[s].status

-----------------------------------------------------------------------------
(* The chain                                                                 *)

Mined == {s \in Swaps : block[s] > 0}

NextOnChain == setup.count + Cardinality(Mined)

\* The count of transactions with the pending ones: those that follow without a gap.
PendingCount ==
  LET nonces == {row[s].nonce : s \in sent}
  IN  setup.count + Max({n \in 0..Cardinality(sent) : \A i \in 0..n - 1 : setup.count + i \in nonces})

\* Bound: a block is left for each of some swaps after the next one.
Spare(swaps) == height + Cardinality(swaps) < setup.blocks

Mine(s) ==
  /\ s \in sent /\ block[s] = 0 /\ row[s].nonce = NextOnChain /\ height < setup.blocks
  /\ height' = height + 1 /\ block' = [block EXCEPT ![s] = height']
  /\ \E b \in BOOLEAN : ok' = [ok EXCEPT ![s] = b]
  /\ UNCHANGED <<setup, sub, locks, row, sent, call, ledger, reorgs, past>>

MineEmpty ==
  /\ Spare(Running \ Mined) /\ height' = height + 1
  /\ UNCHANGED <<setup, sub, locks, row, sent, block, ok, call, ledger, reorgs, past>>

\* Fewer blocks than are waited for are replaced by one more. "overtaken": a
\* confirmer has read a receipt in one of them and not the height yet.
Reorg(depth) ==
  /\ reorgs < setup.reorgs /\ Spare(Running) /\ depth < height /\ height' = height + 1 /\ reorgs' = reorgs + 1
  /\ block' = [s \in Swaps |-> IF block[s] > height - depth THEN 0 ELSE block[s]]
  /\ seen' = IF \E c \in Callers : /\ call[c] # None /\ call[c].pc = "height"
                                   /\ call[c].receipt # None /\ call[c].receipt.block > height - depth
             THEN seen \cup {"overtaken"} ELSE seen
  /\ UNCHANGED <<setup, sub, locks, row, sent, ok, call, ledger, faults>>

-----------------------------------------------------------------------------
(* EvmDexConnector.submitAction, NonceAllocatorService.preAllocate            *)

Goes(s, p) == sub' = [sub EXCEPT ![s].pc = p]

\* Either reservation may be refused; what was reserved before stays reserved.
Reserve(s) ==
  /\ s \in Running /\ sub[s].pc = "idle"
  /\ \/ Goes(s, "gas") /\ locked' = [locked EXCEPT ![setup.order[s]] = @ + 1]
     \/ Goes(s, "dead") /\ UNCHANGED locked
  /\ UNCHANGED <<setup, locks, row, chain, call, gasLocked, booked, released, past>>

ReserveGas(s) ==
  /\ sub[s].pc = "gas"
  /\ \/ Goes(s, "queue") /\ gasLocked' = gasLocked + Gas + 1 /\ locks' = Append(locks, s)
     \/ Goes(s, "dead") /\ UNCHANGED <<gasLocked, locks>>
  /\ UNCHANGED <<setup, row, chain, call, locked, booked, released, past>>

Nonces == {row[s].nonce : s \in {t \in Swaps : row[t] # None}}

\* Mutant: the head of the queue is not waited for.
MayAllocateNow(s) == sub[s].pc = "queue"

MayAllocate(s) == sub[s].pc = "queue" /\ Head(locks) = s

\* Mutant: the pending count is taken for the last nonce used.
NextNonceSkips == Max({PendingCount} \cup Nonces) + 1

\* allocateNonce: the largest of the rows' nonces and the one before the pending
\* count, plus one. Number(null) is 0, so a wallet without rows counts as at 0.
NextNonce == Max({0, PendingCount - 1} \cup Nonces) + 1

AllocateRead(s) ==
  /\ MayAllocate(s) /\ sub' = [sub EXCEPT ![s] = [pc |-> "create", nonce |-> NextNonce]]
  /\ UNCHANGED <<setup, locks, row, chain, call, ledger, past>>

\* createCreated; the index on the nonce refuses one that is taken. The lock goes on.
CreateRow(s) ==
  /\ sub[s].pc = "create" /\ locks' = Tail(locks)
  /\ \/ /\ sub[s].nonce \notin Nonces /\ Goes(s, "send")
        /\ row' = [row EXCEPT ![s] = [status |-> "created", nonce |-> sub[s].nonce, tx |-> FALSE,
                                      first |-> 0, hash |-> None]]
     \/ sub[s].nonce \in Nonces /\ Goes(s, "taken") /\ UNCHANGED row
  /\ UNCHANGED <<setup, chain, call, ledger, past>>

\* Mutant: the broadcast is not awaited, its failure goes unnoticed.
BroadcastUnawaited(s) ==
  /\ sub[s].pc = "send" /\ Goes(s, "mark") /\ UNCHANGED past
  /\ sent' = sent \cup {s} \/ UNCHANGED sent
  /\ UNCHANGED <<setup, locks, row, block, ok, height, reorgs, call, ledger>>

\* The broadcast; an error leaves the row and the reservations as they are.
Broadcast(s) ==
  /\ sub[s].pc = "send"
  /\ \/ sent' = sent \cup {s} /\ Goes(s, "mark") /\ UNCHANGED past
     \/ Fault("lost") /\ sent' = sent \cup {s} /\ Goes(s, "dead")
     \/ Fault("reject") /\ Goes(s, "dead") /\ UNCHANGED sent
  /\ UNCHANGED <<setup, locks, row, block, ok, height, reorgs, call, ledger>>

\* markSubmitted; nobody else writes a created row. When it fails the row stays
\* created, although the transaction is out.
MarkSubmitted(s) ==
  /\ sub[s].pc = "mark"
  /\ \/ /\ Goes(s, "done") /\ UNCHANGED past
        /\ row' = [row EXCEPT ![s].status = "submitted", ![s].tx = TRUE]
     \/ Fault("db") /\ Goes(s, "dead") /\ UNCHANGED row
  /\ UNCHANGED <<setup, locks, chain, call, ledger>>

Submit(s) ==
  Reserve(s) \/ ReserveGas(s) \/ AllocateRead(s) \/ CreateRow(s) \/ Broadcast(s) \/ MarkSubmitted(s)

-----------------------------------------------------------------------------
(* Calls, and the mark* methods they end in                                   *)

Idle(c) == c \in setup.callers /\ call[c] = None

At(c, p) == call[c] # None /\ call[c].pc = p

Ends(c) == call' = [call EXCEPT ![c] = None]

\* What getTransactionReceipt answers.
Receipt(s) == IF block[s] = 0 THEN None ELSE [block |-> block[s], ok |-> ok[s]]

\* The row a mark* method saves: the one it read, changed.
Changed(t) ==
  CASE t.mark = "pending" -> [t.row EXCEPT !.first = IF @ = 0 THEN t.height ELSE @]
    [] t.mark = "confirmed" \/ t.mark = "reverted"
         -> [t.row EXCEPT !.status = "confirmed", !.hash = t.receipt]
    [] t.mark = "manual_review" -> [t.row EXCEPT !.status = "manual_review"]

MarkRead(c) ==
  /\ At(c, "load") /\ call' = [call EXCEPT ![c].pc = "save", ![c].row = row[call[c].id]]
  /\ UNCHANGED <<setup, sub, locks, row, chain, ledger, past>>

IsStuck(t) == t.height - (IF t.first = 0 THEN t.height ELSE t.first) >= StuckBlocks

\* markReverted saves the row as confirmed before it saves it as reverted; a
\* recorded observation goes on to the stuck check.
MarkSave(c) ==
  /\ At(c, "save")
  /\ LET t == call[c]
     IN  /\ row' = [row EXCEPT ![t.id] = Changed(t)]
         /\ call' = [call EXCEPT ![c] =
               CASE t.mark = "reverted" -> [t EXCEPT !.pc = "again", !.row = Changed(t)]
                 [] t.mark = "pending" /\ IsStuck(t)
                      -> [t EXCEPT !.pc = "load", !.mark = "manual_review", !.row = None, !.first = 0,
                                    !.height = 0]
                 [] OTHER -> None]
  /\ UNCHANGED <<setup, sub, locks, chain, ledger, past>>

MarkAgain(c) ==
  /\ At(c, "again") /\ Ends(c)
  /\ row' = [row EXCEPT ![call[c].id] = [call[c].row EXCEPT !.status = "reverted"]]
  /\ UNCHANGED <<setup, sub, locks, chain, ledger, past>>

\* A call and what it still needs of the row it has read.
Begins(c, s, p) ==
  call' = [call EXCEPT ![c] = [pc |-> p, id |-> s, row |-> IF p = "monitor" THEN row[s] ELSE None,
                               first |-> IF p = "receipt" THEN row[s].first ELSE 0,
                               receipt |-> None, height |-> 0, mark |-> "pending"]]

ToReview(c) == call' = [call EXCEPT ![c].pc = "load", ![c].mark = "manual_review", ![c].row = None]

-----------------------------------------------------------------------------
(* confirmExecution, monitorConfirmedExecution, reconcileExecution            *)

AwaitsReceipt(s) == Status(s) = "submitted" /\ row[s].tx

ConfirmRead(c, s) ==
  /\ Idle(c) /\ AwaitsReceipt(s) /\ Begins(c, s, "receipt")
  /\ UNCHANGED <<setup, sub, locks, row, chain, ledger, past>>

ConfirmReceipt(c) ==
  /\ At(c, "receipt") /\ call' = [call EXCEPT ![c].pc = "height", ![c].receipt = Receipt(call[c].id)]
  /\ UNCHANGED <<setup, sub, locks, row, chain, ledger, past>>

\* Mutant: one confirmation too few.
EnoughBlocksShort(receipt) == height - receipt.block + 2 >= Confirmations

EnoughBlocks(receipt) == height - receipt.block + 1 >= Confirmations

ConfirmHeight(c) ==
  /\ At(c, "height")
  /\ LET t == [call[c] EXCEPT !.height = height, !.pc = "load"]
     IN  call' = [call EXCEPT ![c] =
           IF t.receipt = None THEN t
           ELSE IF ~EnoughBlocks(t.receipt) THEN None
           ELSE [t EXCEPT !.mark = IF t.receipt.ok THEN "confirmed" ELSE "reverted", !.first = 0,
                          !.height = 0]]
  /\ UNCHANGED <<setup, sub, locks, row, chain, ledger, past>>

\* The reads of one call: the row, the receipt; its hash against the row's.
MonitorRead(c, s) ==
  /\ Idle(c) /\ Status(s) = "confirmed" /\ row[s].hash # None /\ Begins(c, s, "monitor")
  /\ UNCHANGED <<setup, sub, locks, row, chain, ledger, past>>

MonitorReceipt(c) ==
  /\ At(c, "monitor")
  /\ IF Receipt(call[c].id) = call[c].row.hash THEN Ends(c)
     ELSE ToReview(c)
  /\ UNCHANGED <<setup, sub, locks, row, chain, ledger, past>>

ReconcileRead(c, s) ==
  /\ Idle(c) /\ Status(s) = "confirmed" /\ Begins(c, s, "entries")
  /\ UNCHANGED <<setup, sub, locks, row, chain, ledger, past>>

\* The entries of the execution; a missing leg is left to manual review.
ReconcileEntries(c) ==
  /\ At(c, "entries")
  /\ IF \A leg \in {"debit", "credit", "gas"} : <<call[c].id, leg>> \in booked THEN Ends(c)
     ELSE ToReview(c)
  /\ UNCHANGED <<setup, sub, locks, row, chain, ledger, past>>

-----------------------------------------------------------------------------
(* settleConfirmedSwap; an error of the ledger ends the call                   *)

\* "halfReverted": the row says confirmed, its receipt that the swap reverted.
SettleRead(c, s) ==
  /\ Idle(c) /\ Status(s) = "confirmed" /\ Begins(c, s, "debit")
  /\ seen' = (IF row[s].hash.ok THEN seen ELSE seen \cup {"halfReverted"}) /\ UNCHANGED faults
  /\ UNCHANGED <<setup, sub, locks, row, chain, ledger>>

Steps(c, p) == call' = [call EXCEPT ![c].pc = p]

Covered(o) == locked[o] >= 1

\* Paid from the reservation, once per execution.
SettleDebit(c) ==
  /\ At(c, "debit")
  /\ LET s == call[c].id
         o == setup.order[s]
     IN  \/ <<s, "debit">> \in booked /\ Steps(c, "releaseRead") /\ UNCHANGED <<locked, booked>>
         \/ /\ <<s, "debit">> \notin booked /\ Covered(o) /\ Steps(c, "releaseRead")
            /\ locked' = [locked EXCEPT ![o] = @ - 1] /\ booked' = booked \cup {<<s, "debit">>}
         \/ <<s, "debit">> \notin booked /\ ~Covered(o) /\ Ends(c) /\ UNCHANGED <<locked, booked>>
  /\ UNCHANGED <<setup, sub, locks, row, chain, gasLocked, released, past>>

\* releaseRemainingDirectReservation: everything locked in the bucket, whoever
\* reserved it; nothing to do when nothing is.
SettleReleaseRead(c) ==
  /\ At(c, "releaseRead")
  /\ LET n == locked[setup.order[call[c].id]]
     IN  call' = [call EXCEPT ![c].pc = IF n = 0 THEN "credit" ELSE "release", ![c].height = n]
  /\ UNCHANGED <<setup, sub, locks, row, chain, ledger, past>>

\* The key is the intent's: another amount under it is a conflict.
SettleRelease(c) ==
  /\ At(c, "release")
  /\ LET t == call[c]
         o == setup.order[t.id]
         was == released[t.id].token
     IN  \/ was = t.height /\ Steps(c, "credit") /\ UNCHANGED <<locked, released>>
         \/ /\ was = 0 /\ locked[o] >= t.height /\ Steps(c, "credit")
            /\ locked' = [locked EXCEPT ![o] = @ - t.height]
            /\ released' = [released EXCEPT ![t.id].token = t.height]
         \/ /\ was # t.height /\ (was = 0 => locked[o] < t.height) /\ Ends(c)
            /\ UNCHANGED <<locked, released>>
  /\ UNCHANGED <<setup, sub, locks, row, chain, gasLocked, booked, past>>

SettleCredit(c) ==
  /\ At(c, "credit") /\ Steps(c, "gas") /\ booked' = booked \cup {<<call[c].id, "credit">>}
  /\ UNCHANGED <<setup, sub, locks, row, chain, locked, gasLocked, released, past>>

GasBooked(s) == <<s, "gas">> \in booked

\* settleGasIfPresent: the same debit again is a conflict (its sign differs).
SettleGas(c) ==
  /\ At(c, "gas")
  /\ LET s == call[c].id
     IN  \/ /\ ~GasBooked(s) /\ gasLocked >= Gas /\ Steps(c, "gasReleaseRead")
            /\ gasLocked' = gasLocked - Gas /\ booked' = booked \cup {<<s, "gas">>}
         \/ (GasBooked(s) \/ gasLocked < Gas) /\ Ends(c) /\ UNCHANGED <<gasLocked, booked>>
  /\ UNCHANGED <<setup, sub, locks, row, chain, locked, released, past>>

SettleGasReleaseRead(c) ==
  /\ At(c, "gasReleaseRead")
  /\ call' = [call EXCEPT ![c] = IF gasLocked = 0 THEN None
                                 ELSE [@ EXCEPT !.pc = "gasRelease", !.height = gasLocked]]
  /\ UNCHANGED <<setup, sub, locks, row, chain, ledger, past>>

SettleGasRelease(c) ==
  /\ At(c, "gasRelease") /\ Ends(c)
  /\ LET t == call[c]
     IN  \/ /\ released[t.id].gas = 0 /\ gasLocked >= t.height /\ gasLocked' = gasLocked - t.height
            /\ released' = [released EXCEPT ![t.id].gas = t.height]
         \/ (released[t.id].gas # 0 \/ gasLocked < t.height) /\ UNCHANGED <<gasLocked, released>>
  /\ UNCHANGED <<setup, sub, locks, row, chain, locked, booked, past>>

-----------------------------------------------------------------------------
\* The process dies: callers, submissions and the allocator's queue are gone.
Crash ==
  /\ Fault("crash") /\ call' = [c \in Callers |-> None] /\ locks' = <<>>
  /\ sub' = [s \in Swaps |-> IF sub[s].pc \in {"idle", "done"} THEN sub[s] ELSE [sub[s] EXCEPT !.pc = "dead"]]
  /\ UNCHANGED <<setup, row, chain, ledger>>

Mark(c) == MarkRead(c) \/ MarkSave(c) \/ MarkAgain(c)

Settle(c) == \/ SettleDebit(c) \/ SettleReleaseRead(c) \/ SettleRelease(c) \/ SettleCredit(c)
             \/ SettleGas(c) \/ SettleGasReleaseRead(c) \/ SettleGasRelease(c)

Next ==
  \/ \E s \in Swaps : Submit(s) \/ Mine(s)
  \/ MineEmpty \/ \E d \in 1..Confirmations - 1 : Reorg(d)
  \/ \E c \in Callers, s \in Swaps :
       ConfirmRead(c, s) \/ MonitorRead(c, s) \/ ReconcileRead(c, s) \/ SettleRead(c, s)
  \/ \E c \in Callers :
       ConfirmReceipt(c) \/ ConfirmHeight(c) \/ MonitorReceipt(c) \/ ReconcileEntries(c) \/ Mark(c) \/ Settle(c)
  \/ Crash

Spec == Init /\ [][Next]_vars

\* Submissions that have begun end, and the chain takes the next transaction.
FairSpec == Spec /\ \A s \in Swaps : WF_vars(Submit(s)) /\ WF_vars(Mine(s))

-----------------------------------------------------------------------------
SubSteps == {"idle", "gas", "queue", "create", "taken", "send", "mark", "done", "dead"}
RowStatus == {"created", "submitted", "confirmed", "reverted", "manual_review"}
CallSteps == {"load", "save", "again", "receipt", "height", "monitor", "entries", "debit", "releaseRead",
              "release", "credit", "gas", "gasReleaseRead", "gasRelease"}
Marks == {"pending", "confirmed", "reverted", "manual_review"}
Kinds == {"lost", "reject", "db", "crash", "overtaken", "halfReverted"}
Subs == [pc : SubSteps, nonce : Nat]
Receipts == [block : Nat, ok : BOOLEAN]
Rows == [status : RowStatus, nonce : Nat, tx : BOOLEAN, first : Nat, hash : Receipts \cup {None}]
Calls == [pc : CallSteps, id : Swaps, row : Rows \cup {None}, first : Nat,
          receipt : Receipts \cup {None}, height : Nat, mark : Marks]

ASSUME NoRowAssumption == None \notin Rows /\ None \notin RowStatus

\* The types of the variables.
TypeOK ==
  /\ setup \in Setups /\ sub \in [Swaps -> Subs] /\ locks \in Seq(Swaps)
  /\ row \in [Swaps -> Rows \cup {None}] /\ sent \subseteq Swaps
  /\ block \in [Swaps -> Nat] /\ ok \in [Swaps -> BOOLEAN] /\ height \in Nat
  /\ call \in [Callers -> Calls \cup {None}]
  /\ locked \in [Orders -> Nat] /\ gasLocked \in Nat
  /\ booked \subseteq Swaps \X {"debit", "credit", "gas"}
  /\ released \in [Swaps -> [token : Nat, gas : Nat]]
  /\ reorgs \in Nat /\ seen \subseteq Kinds /\ faults \in Nat

\* No allocation finds its nonce taken, however submissions of the wallet overlap
\* and whatever a crash cut off (preAllocate's lock and the rows' maximum).
NonceNeverContended == \A s \in Swaps : sub[s].pc # "taken"

\* The nonces of a wallet follow one another from the chain's count on, whatever is
\* refused, lost or cut off: no transaction waits for a nonce that was never handed
\* out (preAllocates max(on-chain pending nonce, local max + 1)). It may wait for one
\* whose broadcast was refused. A wallet that has never sent starts at 1 and is
\* excepted.
NoncesContiguous ==
  setup.count > 0 => Nonces = setup.count..setup.count + Cardinality(Nonces) - 1

\* A swap that was booked is in the chain and succeeded, although its confirmation
\* rests on reads at three times and shallow reorganisations move transactions.
\* Excepted: a reorganisation between the receipt's and the height's read, and a
\* settlement between the two saves of markReverted.
SettledOnlyIfMined ==
  seen \cap {"overtaken", "halfReverted"} = {} =>
    \A s \in Swaps : <<s, "debit">> \in booked => block[s] > 0 /\ ok[s]

\* As long as no broadcast of the wallet is refused and no crash happens, every
\* execution that has its row gets into the chain, also when the answer to the
\* broadcast or the update to submitted is lost (submitAction awaits the broadcast).
\* One refusal or crash leaves a nonce that nothing sends again, and excuses all.
ExecutionsGetMined ==
  \A s \in Swaps : row[s] # None ~> (block[s] > 0 \/ seen \cap {"reject", "crash"} # {})
=============================================================================
