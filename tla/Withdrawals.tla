----------------------------- MODULE Withdrawals -----------------------------
(***************************************************************************)
(* Money leaving through Mixin: WithdrawalService initialises and queues a   *)
(* withdrawal, WithdrawalProcessor claims it, pays and debits it (or leaves  *)
(* the debit to a reconcile job), WithdrawalConfirmationWorker follows it    *)
(* on the chain; PauseWithdrawOrchestratorService stops a strategy and       *)
(* withdraws the funds of its order. All of them pay from one wallet.        *)
(*                                                                           *)
(* Every withdrawal is one unit. Handlers are cut at the awaits between which*)
(* another one writes the same row.                                          *)
(***************************************************************************)
EXTENDS Integers, FiniteSets

CONSTANTS
  Ids,           \* withdrawals
  Wallet,        \* units in the Mixin wallet
  MaxAttempts,   \* attempts of process_withdrawal, and the retry count that fails it
  Setups,        \* bounds of a behaviour: the withdrawals asked for, the calls of
                 \* pauseAndWithdraw (all with one operation id), the faults
  None

ASSUME WithdrawalAssumption ==
  /\ None \notin Ids /\ Wallet \in Nat /\ MaxAttempts \in Nat \ {0}
  /\ Setups \subseteq [asked : SUBSET Ids, calls : Nat, faults : Nat]

VARIABLES
  setup,      \* the bounds, fixed
  row,        \* the Withdrawal rows
  initPc,     \* where initializeWithdrawal of each is
  job,        \* process_withdrawal jobs
  pc,         \* where the handler of each is
  recon,      \* reconcile_withdrawal_ledger_debit jobs
  worker,     \* what the confirmation worker has read
  debited,    \* withdrawals whose debit the ledger holds
  wallet,     \* unspent units
  paid,       \* how often Mixin took each withdrawal
  chain,      \* the chain's view of each withdrawal's latest transaction
  op,         \* pauseAndWithdraw: where it is, ledger keys used, calls made, paid
  bucket,     \* the order's bucket, what was deposited, whether an order is live
  seen,       \* history: faults, and "overwrite" for a status written over a later one
  faults      \* bound

flow == <<setup, row, initPc, job, pc, recon, worker, debited, paid, chain>>
pause == <<op, bucket>>
vars == <<setup, row, initPc, job, pc, recon, worker, debited, wallet, paid, chain, op, bucket, seen, faults>>

Init ==
  /\ setup \in Setups
  /\ row = [w \in Ids |-> [status |-> "none", tx |-> FALSE, retries |-> 0]]
  /\ initPc = [w \in Ids |-> "idle"] /\ pc = [w \in Ids |-> "idle"]
  /\ job = [w \in Ids |-> [status |-> "absent", tries |-> 0]]
  /\ recon = [w \in Ids |-> "absent"] /\ worker = None
  /\ debited = {} /\ wallet = Wallet
  /\ paid = [w \in Ids |-> 0] /\ chain = [w \in Ids |-> "none"]
  /\ op = [pc |-> "idle", keys |-> {}, calls |-> 0, paid |-> FALSE]
  /\ \E n \in {1, 2}, b \in BOOLEAN :
       /\ bucket = [available |-> 1, locked |-> n, live |-> b, deposited |-> n + 1]
       /\ setup.calls = 0 => n = 1 /\ ~b
  /\ seen = {} /\ faults = 0

Fault(kind) ==
  /\ faults < setup.faults
  /\ faults' = faults + 1 /\ seen' = seen \cup {kind}

NoFault == UNCHANGED <<seen, faults>>

Status(w) == row[w].status

-----------------------------------------------------------------------------
(* initializeWithdrawal, queueWithdrawal                                     *)

InitializeWithdrawal(w) ==
  /\ w \in setup.asked /\ Status(w) = "none" /\ row' = [row EXCEPT ![w].status = "pending"]
  /\ initPc' = [initPc EXCEPT ![w] = "add"]
  /\ UNCHANGED <<setup, job, pc, recon, worker, debited, wallet, paid, chain, pause, seen, faults>>

\* The job is queued; an error is logged and the withdrawal stays pending.
QueueAdd(w) ==
  /\ initPc[w] = "add"
  /\ \/ /\ job' = [job EXCEPT ![w].status = "waiting"]
        /\ initPc' = [initPc EXCEPT ![w] = "mark"] /\ NoFault
     \/ Fault("db") /\ initPc' = [initPc EXCEPT ![w] = "idle"] /\ UNCHANGED job
  /\ UNCHANGED <<setup, row, pc, recon, worker, debited, wallet, paid, chain, pause>>

\* Then its status becomes queued, whatever the handler has written by then.
QueueMark(w) ==
  /\ initPc[w] = "mark" /\ initPc' = [initPc EXCEPT ![w] = "idle"]
  /\ row' = [row EXCEPT ![w].status = "queued"]
  /\ seen' = (IF Status(w) = "pending" THEN seen ELSE seen \cup {"overwrite"}) /\ UNCHANGED faults
  /\ UNCHANGED <<setup, job, pc, recon, worker, debited, wallet, paid, chain, pause>>

-----------------------------------------------------------------------------
(* process_withdrawal                                                        *)

Goto(w, p) == pc' = [pc EXCEPT ![w] = p]

\* The handler returns: the job is removed.
Returns(w) == Goto(w, "idle") /\ job' = [job EXCEPT ![w].status = "absent"]

\* Mutant: only a withdrawal that was sent is left alone.
ClaimableUnlessSent(w) == Status(w) \in {"pending", "queued", "processing"}

\* The status check and the conditional update to processing.
Claimable(w) == Status(w) \in {"pending", "queued"}

Claim(w) ==
  /\ job[w].status = "waiting" /\ job' = [job EXCEPT ![w].status = IF Claimable(w) THEN "active" ELSE "absent"]
  /\ row' = (IF Claimable(w) THEN [row EXCEPT ![w].status = "processing"] ELSE row)
  /\ Goto(w, IF Claimable(w) THEN "balance" ELSE "idle")
  /\ UNCHANGED <<setup, initPc, recon, worker, debited, wallet, paid, chain, pause, seen, faults>>

\* checkMixinBalanceEnough
CheckBalance(w) ==
  /\ pc[w] = "balance"
  /\ \/ wallet > 0 /\ Goto(w, "send") /\ UNCHANGED <<row, job>>
     \/ wallet = 0 /\ row' = [row EXCEPT ![w].status = "failed"] /\ Returns(w)
  /\ UNCHANGED <<setup, initPc, recon, worker, debited, wallet, paid, chain, pause, seen, faults>>

\* executeWithdrawal without a request key: every call is a payment of its own.
Pays(w) ==
  /\ wallet > 0 /\ wallet' = wallet - 1
  /\ paid' = [paid EXCEPT ![w] = @ + 1] /\ chain' = [chain EXCEPT ![w] = "pending"]

\* It may fail, fail after Mixin took it, or return no request.
Send(w) ==
  /\ pc[w] = "send"
  /\ \/ Pays(w) /\ Goto(w, "mark") /\ UNCHANGED <<row, job>> /\ NoFault
     \/ wallet = 0 /\ Goto(w, "error") /\ UNCHANGED <<row, job, wallet, paid, chain>> /\ NoFault
     \/ Fault("reject") /\ Goto(w, "error") /\ UNCHANGED <<row, job, wallet, paid, chain>>
     \/ Fault("lost") /\ Pays(w) /\ Goto(w, "error") /\ UNCHANGED <<row, job>>
     \/ /\ Fault("reject") /\ row' = [row EXCEPT ![w].status = "failed"] /\ Returns(w)
        /\ UNCHANGED <<wallet, paid, chain>>
  /\ UNCHANGED <<setup, initPc, recon, worker, debited, pause>>

\* Mutant: the transaction id is not stored.
MarkSentBare(w) ==
  /\ pc[w] = "mark" /\ row' = [row EXCEPT ![w].status = "sent"] /\ Goto(w, "debit") /\ NoFault
  /\ UNCHANGED <<setup, initPc, job, recon, worker, debited, wallet, paid, chain, pause>>

MarkSent(w) ==
  /\ pc[w] = "mark"
  /\ \/ /\ row' = [row EXCEPT ![w].status = "sent", ![w].tx = TRUE]
        /\ Goto(w, "debit") /\ NoFault
     \/ Fault("db") /\ Goto(w, "error") /\ UNCHANGED row
  /\ UNCHANGED <<setup, initPc, job, recon, worker, debited, wallet, paid, chain, pause>>

\* Mutant: a debit that fails makes the withdrawal fail.
DebitFails(w) ==
  /\ pc[w] = "debit" /\ Returns(w)
  /\ \/ debited' = debited \cup {w} /\ NoFault /\ UNCHANGED row
     \/ Fault("ledger") /\ row' = [row EXCEPT ![w].status = "failed"] /\ UNCHANGED debited
  /\ UNCHANGED <<setup, initPc, recon, worker, wallet, paid, chain, pause>>

\* debitWithdrawal after the payment; its failure is left to the reconcile job.
Debit(w) ==
  /\ pc[w] = "debit"
  /\ \/ debited' = debited \cup {w} /\ Returns(w) /\ NoFault
     \/ Fault("ledger") /\ Goto(w, "note") /\ UNCHANGED <<debited, job>>
  /\ UNCHANGED <<setup, row, initPc, recon, worker, wallet, paid, chain, pause>>

NoteDebitPending(w) ==
  /\ pc[w] = "note"
  /\ \/ /\ row' = [row EXCEPT ![w].status = "sent"] /\ recon' = [recon EXCEPT ![w] = "waiting"]
        /\ Returns(w) /\ NoFault
     \/ Fault("db") /\ Goto(w, "error") /\ UNCHANGED <<row, recon, job>>
  /\ UNCHANGED <<setup, initPc, worker, debited, wallet, paid, chain, pause>>

\* The catch: back to queued, or failed at the last retry; the job is tried again.
HandleError(w) ==
  /\ pc[w] = "error" /\ Goto(w, "idle")
  /\ row' = [row EXCEPT ![w].retries = @ + 1,
                        ![w].status = IF row[w].retries + 1 >= MaxAttempts THEN "failed" ELSE "queued"]
  /\ job' = [job EXCEPT ![w].tries = @ + 1,
                        ![w].status = IF job[w].tries + 1 < MaxAttempts THEN "waiting" ELSE "failed"]
  /\ UNCHANGED <<setup, initPc, recon, worker, debited, wallet, paid, chain, pause, seen, faults>>

\* reconcile_withdrawal_ledger_debit: only a withdrawal that is still sent.
ReconcileDebit(w) ==
  /\ recon[w] = "waiting"
  /\ \/ Status(w) # "sent" /\ recon' = [recon EXCEPT ![w] = "absent"] /\ UNCHANGED debited
     \/ Status(w) = "sent" /\ debited' = debited \cup {w} /\ recon' = [recon EXCEPT ![w] = "write"]
  /\ UNCHANGED <<setup, row, initPc, job, pc, worker, wallet, paid, chain, pause, seen, faults>>

ReconcileWrite(w) ==
  /\ recon[w] = "write" /\ recon' = [recon EXCEPT ![w] = "absent"]
  /\ row' = [row EXCEPT ![w].status = "sent"]
  /\ UNCHANGED <<setup, initPc, job, pc, worker, debited, wallet, paid, chain, pause, seen, faults>>

-----------------------------------------------------------------------------
(* check_withdrawal_confirmations                                            *)

\* getPendingWithdrawals and checkWithdrawalStatus: one at a time, if it has a
\* transaction.
WorkerRead(w) ==
  /\ worker = None /\ Status(w) \in {"processing", "sent", "confirmed"} /\ row[w].tx
  /\ worker' = [id |-> w, status |-> Status(w)]
  /\ UNCHANGED <<setup, row, initPc, job, pc, recon, debited, wallet, paid, chain, pause, seen, faults>>

\* Completed once the chain has confirmed it, confirmed if it was sent.
WorkerWrite ==
  /\ worker # None /\ worker' = None
  /\ LET w == worker.id
     IN  \/ chain[w] = "confirmed" /\ row' = [row EXCEPT ![w].status = "completed"]
         \/ /\ chain[w] = "pending"
            /\ row' = IF worker.status = "sent" THEN [row EXCEPT ![w].status = "confirmed"] ELSE row
  /\ UNCHANGED <<setup, initPc, job, pc, recon, debited, wallet, paid, chain, pause, seen, faults>>

ChainConfirms(w) ==
  /\ chain[w] = "pending" /\ chain' = [chain EXCEPT ![w] = "confirmed"]
  /\ UNCHANGED <<setup, row, initPc, job, pc, recon, worker, debited, wallet, paid, pause, seen, faults>>

-----------------------------------------------------------------------------
(* pauseAndWithdraw of one unit                                              *)

OpAt(p) == op.pc = p

OpGoto(p) == op' = [op EXCEPT !.pc = p]

\* The strategy is stopped.
OpCall ==
  /\ OpAt("idle") /\ op.calls < setup.calls /\ op' = [op EXCEPT !.pc = "drain", !.calls = @ + 1]
  /\ UNCHANGED <<flow, wallet, bucket, seen, faults>>

\* cancelUntilDrained cancels the live order until the tracker shows none, or gives up.
OpDrain ==
  /\ OpAt("drain")
  /\ \/ ~bucket.live /\ OpGoto("unlock")
     \/ bucket.live /\ OpGoto("idle")
  /\ UNCHANGED <<flow, wallet, bucket, seen, faults>>

\* The tracker sees the order cancelled and then releases its reservation.
OrderCloses ==
  /\ \/ bucket.live /\ op.calls > 0 /\ bucket' = [bucket EXCEPT !.live = FALSE]
     \/ /\ ~bucket.live /\ bucket.locked > 0 /\ op.calls > 0
        /\ bucket' = [bucket EXCEPT !.locked = @ - 1, !.available = @ + 1]
  /\ UNCHANGED <<flow, wallet, op, seen, faults>>

\* unlockFunds and debitWithdrawal of the operation: a repeated key or a missing
\* balance ends it.
OpUnlock ==
  /\ OpAt("unlock")
  /\ \/ /\ "unlock" \notin op.keys /\ bucket.locked > 0
        /\ bucket' = [bucket EXCEPT !.locked = @ - 1, !.available = @ + 1]
        /\ op' = [op EXCEPT !.pc = "debit", !.keys = @ \cup {"unlock"}]
     \/ ("unlock" \in op.keys \/ bucket.locked = 0) /\ OpGoto("idle") /\ UNCHANGED bucket
  /\ UNCHANGED <<flow, wallet, seen, faults>>

\* The user's locked balance must be gone before the debit.
OpDebit ==
  /\ OpAt("debit")
  /\ \/ /\ bucket.locked = 0 /\ "debit" \notin op.keys
        /\ bucket' = [bucket EXCEPT !.available = @ - 1]
        /\ op' = [op EXCEPT !.pc = "pending", !.keys = @ \cup {"debit"}]
     \/ (bucket.locked > 0 \/ "debit" \in op.keys) /\ OpGoto("idle") /\ UNCHANGED bucket
  /\ UNCHANGED <<flow, wallet, seen, faults>>

\* The pending event, the payment under the operation's request key, the completed
\* event: whatever throws, the debit is rolled back.
OpPending ==
  /\ OpAt("pending")
  /\ \/ OpGoto("execute") /\ NoFault
     \/ Fault("db") /\ OpGoto("rollback")
  /\ UNCHANGED <<flow, wallet, bucket>>

OpExecute ==
  /\ OpAt("execute")
  /\ \/ wallet > 0 /\ wallet' = wallet - 1 /\ op' = [op EXCEPT !.pc = "completed", !.paid = TRUE] /\ NoFault
     \/ wallet = 0 /\ OpGoto("rollback") /\ UNCHANGED wallet /\ NoFault
     \/ Fault("reject") /\ OpGoto("rollback") /\ UNCHANGED wallet
     \/ Fault("lost") /\ wallet > 0 /\ wallet' = wallet - 1 /\ op' = [op EXCEPT !.pc = "rollback", !.paid = TRUE]
  /\ UNCHANGED <<flow, bucket>>

OpComplete ==
  /\ OpAt("completed")
  /\ \/ OpGoto("idle") /\ NoFault
     \/ Fault("db") /\ OpGoto("rollback")
  /\ UNCHANGED <<flow, wallet, bucket>>

\* Mutant: the failure is recorded and the debit left.
OpRollbackForgets ==
  /\ OpAt("rollback") /\ OpGoto("idle")
  /\ UNCHANGED <<flow, wallet, bucket, seen, faults>>

OpRollback ==
  /\ OpAt("rollback") /\ op' = [op EXCEPT !.pc = "idle", !.keys = @ \cup {"rollback"}]
  /\ bucket' = IF "rollback" \in op.keys THEN bucket ELSE [bucket EXCEPT !.available = @ + 1]
  /\ UNCHANGED <<flow, wallet, seen, faults>>

-----------------------------------------------------------------------------
\* The process dies. Jobs that were active are stalled and run again; nobody calls
\* initializeWithdrawal or pauseAndWithdraw on.
Crash ==
  /\ Fault("crash") /\ worker' = None
  /\ initPc' = [w \in Ids |-> "idle"] /\ pc' = [w \in Ids |-> "idle"]
  /\ job' = [w \in Ids |-> IF job[w].status = "active" THEN [job[w] EXCEPT !.status = "waiting"] ELSE job[w]]
  /\ recon' = [w \in Ids |-> IF recon[w] = "write" THEN "waiting" ELSE recon[w]]
  /\ OpGoto("idle")
  /\ UNCHANGED <<setup, row, debited, wallet, paid, chain, bucket>>

Queueing(w) == QueueAdd(w) \/ QueueMark(w)

Process(w) == \/ Claim(w) \/ CheckBalance(w) \/ Send(w) \/ MarkSent(w) \/ Debit(w)
              \/ NoteDebitPending(w) \/ HandleError(w)

Reconcile(w) == ReconcileDebit(w) \/ ReconcileWrite(w)

PauseAndWithdraw == \/ OpCall \/ OpDrain \/ OpUnlock \/ OpDebit \/ OpPending \/ OpExecute
                    \/ OpComplete \/ OpRollback

Next ==
  \/ \E w \in Ids : \/ InitializeWithdrawal(w) \/ Queueing(w) \/ Process(w) \/ Reconcile(w)
                    \/ WorkerRead(w) \/ ChainConfirms(w)
  \/ WorkerWrite \/ PauseAndWithdraw \/ OrderCloses \/ Crash

Spec == Init /\ [][Next]_vars

\* Queued jobs run, the worker comes back to every withdrawal, chains confirm.
FairSpec ==
  /\ Spec /\ WF_vars(WorkerWrite)
  /\ \A w \in Ids : /\ WF_vars(Queueing(w)) /\ WF_vars(Process(w)) /\ WF_vars(Reconcile(w))
                    /\ SF_vars(WorkerRead(w)) /\ WF_vars(ChainConfirms(w))

-----------------------------------------------------------------------------
Statuses == {"none", "pending", "queued", "processing", "sent", "confirmed", "completed", "failed"}
JobStatuses == {"absent", "waiting", "active", "failed"}
HandlerSteps == {"idle", "balance", "send", "mark", "debit", "note", "error"}
OpSteps == {"idle", "drain", "unlock", "debit", "pending", "execute", "completed", "rollback"}
OpKeys == {"unlock", "debit", "rollback"}
Kinds == {"db", "lost", "reject", "ledger", "crash", "overwrite"}
Rows == [status : Statuses, tx : BOOLEAN, retries : Nat]
Jobs == [status : JobStatuses, tries : Nat]
Ops == [pc : OpSteps, keys : SUBSET OpKeys, calls : Nat, paid : BOOLEAN]
Buckets == [available : Int, locked : Nat, live : BOOLEAN, deposited : Nat]

\* The types of the variables.
TypeOK ==
  /\ setup \in Setups /\ row \in [Ids -> Rows] /\ initPc \in [Ids -> {"idle", "add", "mark"}]
  /\ job \in [Ids -> Jobs] /\ pc \in [Ids -> HandlerSteps]
  /\ recon \in [Ids -> {"absent", "waiting", "write"}]
  /\ worker \in [id : Ids, status : Statuses] \cup {None}
  /\ debited \subseteq Ids /\ wallet \in 0..Wallet
  /\ paid \in [Ids -> Nat] /\ chain \in [Ids -> {"none", "pending", "confirmed"}]
  /\ op \in Ops /\ bucket \in Buckets /\ seen \subseteq Kinds /\ faults \in Nat

\* Nothing was lost between a payment and the record of it.
PaymentsRecorded == seen \cap {"lost", "db"} = {} /\ ~({"overwrite", "crash"} \subseteq seen)

\* A withdrawal is paid at most once although executeWithdrawal has no request key:
\* the processing status keeps a retried or stalled job from paying again. Excepted
\* are an answer or a status write that is lost after the payment, and a crash
\* after queueWithdrawal wrote its status over the handler's.
PaidAtMostOnce == PaymentsRecorded => \A w \in Ids : paid[w] <= 1

\* A withdrawal that ends as failed was not paid, and one that is completed was,
\* with the same exceptions (handleWithdrawal, the worker).
OutcomeTellsPayment ==
  \A w \in Ids : /\ (Status(w) = "failed" /\ PaymentsRecorded) => paid[w] = 0
                 /\ Status(w) = "completed" => paid[w] > 0

\* The order's funds are neither lost nor doubled by pauseAndWithdraw, whatever it
\* is refused and however often it is called: what left the bucket was paid out.
\* A lost answer, a failed event after the payment and a crash are excepted.
FundsConserved ==
  (OpAt("idle") /\ seen \cap {"lost", "db", "crash"} = {}) =>
    bucket.available + bucket.locked + (IF op.paid THEN 1 ELSE 0) = bucket.deposited

\* Every withdrawal ends as completed or failed, unless a crash, a failed write or
\* an overwritten status comes in between (queue, processor and worker together).
WithdrawalsSettle ==
  \A w \in Ids : Status(w) = "pending" ~>
    (Status(w) \in {"completed", "failed"} \/ seen \cap {"crash", "db", "overwrite"} # {})
=============================================================================
