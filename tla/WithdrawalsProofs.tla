-------------------------- MODULE WithdrawalsProofs --------------------------
(***************************************************************************)
(* Theorems about Withdrawals, for every set of withdrawals, every wallet,  *)
(* every number of attempts, calls of pauseAndWithdraw and faults.          *)
(***************************************************************************)
EXTENDS Withdrawals, TLAPS

-----------------------------------------------------------------------------
(* The inductive invariant. *)

\* The handler of a withdrawal runs exactly while its job is active, and then the
\* row is neither new nor failed: only the handler itself writes failed, and it
\* returns with it.
HandlerInv(w) ==
  /\ pc[w] # "idle" <=> job[w].status = "active"
  /\ pc[w] # "idle" => Status(w) \notin {"none", "pending", "failed"}
  /\ pc[w] # "idle" /\ "overwrite" \notin seen => ~Claimable(w)

\* Before queueWithdrawal has added the job, nothing else knows the withdrawal.
FreshInv(w) ==
  /\ initPc[w] = "add" => Status(w) = "pending" /\ job[w].status = "absent"
  /\ Status(w) = "none" => initPc[w] = "idle" /\ job[w].status = "absent"
  /\ Status(w) \in {"none", "pending"} => paid[w] = 0 /\ ~row[w].tx /\ recon[w] = "absent"
  /\ chain[w] = "none" <=> paid[w] = 0

\* The confirmation worker holds a withdrawal that has a transaction.
WorkerInv == worker # None => row[worker.id].tx

\* A withdrawal that was paid is out of reach of every later run of its job: the
\* handler is past the payment, and a job that waits will find a status it does
\* not claim, which queueWithdrawal has no step left to overwrite.
PaidInv(w) ==
  /\ paid[w] <= 1
  /\ paid[w] > 0 =>
       /\ pc[w] \notin {"balance", "send", "error"} /\ Status(w) # "failed"
       /\ job[w].status = "waiting" => ~Claimable(w) /\ initPc[w] # "mark"
       /\ "overwrite" \notin seen => ~Claimable(w)

CompletedInv(w) == Status(w) = "completed" => paid[w] > 0

\* The keys of pauseAndWithdraw: the debit goes first, and the operation is at or
\* past its debit only once.
KeysInv ==
  /\ OpAt("debit") => "unlock" \in op.keys
  /\ op.pc \in {"pending", "execute", "completed", "rollback"} =>
       "debit" \in op.keys /\ "rollback" \notin op.keys
  /\ op.pc \in {"pending", "execute"} => ~op.paid
  /\ OpAt("completed") => op.paid
  /\ op.paid \/ "rollback" \in op.keys => "debit" \in op.keys

\* What pauseAndWithdraw has taken from the bucket and not yet paid or given back.
Outstanding == IF op.pc \in {"pending", "execute", "rollback"} THEN 1 ELSE 0

\* At every step what is in the bucket, outstanding or paid is what was deposited.
FundsInv ==
  seen \cap {"lost", "db", "crash"} = {} =>
    /\ OpAt("rollback") => ~op.paid
    /\ bucket.available + bucket.locked + (IF op.paid THEN 1 ELSE 0) + Outstanding = bucket.deposited

FlowInv ==
  /\ WorkerInv
  /\ \A w \in Ids : HandlerInv(w) /\ FreshInv(w) /\ CompletedInv(w)
  /\ PaymentsRecorded => \A w \in Ids : PaidInv(w)

WithdrawalInv == TypeOK /\ FlowInv /\ KeysInv /\ FundsInv

-----------------------------------------------------------------------------
(* The types. *)

\* The writes of a Withdrawal row keep it one.
LEMMA RowWrites ==
  ASSUME NEW f \in [Ids -> Rows], NEW w \in Ids,
         NEW s \in {"pending", "queued", "processing", "sent", "confirmed", "completed", "failed"}
  PROVE  /\ [f EXCEPT ![w].status = s] \in [Ids -> Rows]
         /\ [f EXCEPT ![w].status = s, ![w].tx = TRUE] \in [Ids -> Rows]
         /\ [f EXCEPT ![w].retries = @ + 1, ![w].status = s] \in [Ids -> Rows]
<1>1. f[w].retries + 1 \in Nat /\ s \in Statuses
  BY DEF Rows, Statuses
<1> QED BY <1>1 DEF Rows

\* The writes of a job keep it one.
LEMMA JobWrites ==
  ASSUME NEW f \in [Ids -> Jobs], NEW w \in Ids, NEW s \in {"absent", "waiting", "active", "failed"}
  PROVE  /\ [f EXCEPT ![w].status = s] \in [Ids -> Jobs]
         /\ [f EXCEPT ![w].tries = @ + 1, ![w].status = s] \in [Ids -> Jobs]
<1>1. f[w].tries + 1 \in Nat /\ s \in JobStatuses
  BY DEF Jobs, JobStatuses
<1> QED BY <1>1 DEF Jobs

\* The steps of pauseAndWithdraw keep its record one.
LEMMA OpWrites ==
  ASSUME NEW o \in Ops, NEW p \in OpSteps, NEW k \in OpKeys
  PROVE  /\ [o EXCEPT !.pc = p] \in Ops /\ [o EXCEPT !.pc = p, !.calls = o.calls + 1] \in Ops
         /\ [o EXCEPT !.pc = p, !.keys = o.keys \cup {k}] \in Ops
         /\ [o EXCEPT !.pc = p, !.paid = TRUE] \in Ops
<1>1. o.calls + 1 \in Nat /\ o.keys \cup {k} \in SUBSET OpKeys
  BY DEF Ops
<1> QED BY <1>1 DEF Ops

\* The writes of the bucket keep it one.
LEMMA BucketWrites ==
  ASSUME NEW b \in Buckets
  PROVE  /\ [b EXCEPT !.live = FALSE] \in Buckets
         /\ [b EXCEPT !.available = b.available - 1] \in Buckets
         /\ [b EXCEPT !.available = b.available + 1] \in Buckets
         /\ b.locked > 0 => [b EXCEPT !.locked = b.locked - 1, !.available = b.available + 1] \in Buckets
<1>1. b.available \in Int /\ b.locked \in Nat
  BY DEF Buckets
<1>2. b.available - 1 \in Int /\ b.available + 1 \in Int /\ (b.locked > 0 => b.locked - 1 \in Nat)
  BY <1>1
<1> QED BY <1>2 DEF Buckets

\* Every step keeps the types of the variables.
LEMMA TypeStep == TypeOK /\ [Next]_vars => TypeOK'
<1> SUFFICES ASSUME TypeOK, [Next]_vars PROVE TypeOK'
  OBVIOUS
<1>0. row \in [Ids -> Rows] /\ job \in [Ids -> Jobs]
  BY DEF TypeOK
<1>1. ASSUME NEW w \in Ids, InitializeWithdrawal(w) PROVE TypeOK'
  <2>1. row' \in [Ids -> Rows]
    BY <1>1, RowWrites DEF TypeOK, InitializeWithdrawal
  <2>2. initPc' \in [Ids -> {"idle", "add", "mark"}]
    BY <1>1 DEF TypeOK, InitializeWithdrawal
  <2> QED BY <1>1, <2>1, <2>2 DEF TypeOK, InitializeWithdrawal, flow, pause
<1>2. ASSUME NEW w \in Ids, QueueAdd(w) PROVE TypeOK'
  <2>1. job' \in [Ids -> Jobs]
    <3>1. \/ job' = job
          \/ job' = [job EXCEPT ![w].status = "waiting"]
      BY <1>2 DEF QueueAdd
    <3> QED BY <1>0, <1>2, <3>1 DEF Jobs, JobStatuses
  <2>2. initPc' \in [Ids -> {"idle", "add", "mark"}]
    BY <1>2 DEF TypeOK, QueueAdd, Fault, NoFault
  <2>3. seen' \subseteq Kinds
    BY <1>2 DEF TypeOK, QueueAdd, Fault, NoFault, Kinds
  <2> QED BY <1>2, <2>1, <2>2, <2>3 DEF TypeOK, QueueAdd, Fault, NoFault, flow, pause
<1>3. ASSUME NEW w \in Ids, QueueMark(w) PROVE TypeOK'
  <2>1. row' \in [Ids -> Rows]
    BY <1>3, RowWrites DEF TypeOK, QueueMark, Status
  <2>2. seen' \subseteq Kinds
    BY <1>3 DEF TypeOK, QueueMark, Status, Kinds
  <2>3. initPc' \in [Ids -> {"idle", "add", "mark"}]
    BY <1>3 DEF TypeOK, QueueMark, Status
  <2> QED BY <1>3, <2>1, <2>2, <2>3 DEF TypeOK, QueueMark, Status, flow, pause
<1>4. ASSUME NEW w \in Ids, Claim(w) PROVE TypeOK'
  <2>1. row' \in [Ids -> Rows]
    BY <1>4, RowWrites DEF TypeOK, Claim, Claimable, Status, Goto
  <2>2. job' \in [Ids -> Jobs]
    BY <1>4, JobWrites DEF TypeOK, Claim, Claimable, Status, Goto
  <2>3. pc' \in [Ids -> HandlerSteps]
    BY <1>4 DEF TypeOK, Claim, Claimable, Status, Goto, HandlerSteps
  <2> QED BY <1>4, <2>1, <2>2, <2>3 DEF TypeOK, Claim, Claimable, Status, Goto, flow, pause
<1>5. ASSUME NEW w \in Ids, CheckBalance(w) PROVE TypeOK'
  <2>1. row' \in [Ids -> Rows]
    <3>1. \/ row' = row
          \/ row' = [row EXCEPT ![w].status = "failed"]
      BY <1>5 DEF CheckBalance
    <3> QED BY <1>0, <1>5, <3>1 DEF Rows, Statuses
  <2>2. job' \in [Ids -> Jobs]
    <3>1. \/ job' = job
          \/ job' = [job EXCEPT ![w].status = "absent"]
      BY <1>5 DEF CheckBalance, Goto, Returns
    <3> QED BY <1>0, <1>5, <3>1 DEF Jobs, JobStatuses
  <2>3. pc' \in [Ids -> HandlerSteps]
    BY <1>5 DEF TypeOK, CheckBalance, Goto, Returns, HandlerSteps
  <2> QED BY <1>5, <2>1, <2>2, <2>3 DEF TypeOK, CheckBalance, Goto, Returns, flow, pause
<1>6. ASSUME NEW w \in Ids, Send(w) PROVE TypeOK'
  <2>1. row' \in [Ids -> Rows]
    <3>1. \/ row' = row
          \/ row' = [row EXCEPT ![w].status = "failed"]
      BY <1>6 DEF Send
    <3> QED BY <1>0, <1>6, <3>1 DEF Rows, Statuses
  <2>2. job' \in [Ids -> Jobs]
    <3>1. \/ job' = job
          \/ job' = [job EXCEPT ![w].status = "absent"]
      BY <1>6 DEF Send, Goto, Returns, Pays, Fault, NoFault
    <3> QED BY <1>0, <1>6, <3>1 DEF Jobs, JobStatuses
  <2>3. pc' \in [Ids -> HandlerSteps]
    BY <1>6 DEF TypeOK, Send, Goto, Returns, Pays, Fault, NoFault, HandlerSteps
  <2>4. wallet' \in 0..Wallet
    BY <1>6, WithdrawalAssumption DEF TypeOK, Send, Goto, Returns, Pays, Fault, NoFault
  <2>5. paid' \in [Ids -> Nat]
    BY <1>6 DEF TypeOK, Send, Goto, Returns, Pays, Fault, NoFault
  <2>6. chain' \in [Ids -> {"none", "pending", "confirmed"}]
    BY <1>6 DEF TypeOK, Send, Goto, Returns, Pays, Fault, NoFault
  <2>7. seen' \subseteq Kinds
    BY <1>6 DEF TypeOK, Send, Goto, Returns, Pays, Fault, NoFault, Kinds
  <2> QED BY <1>6, <2>1, <2>2, <2>3, <2>4, <2>5, <2>6, <2>7 DEF TypeOK, Send, Goto, Returns, Pays, Fault, NoFault, flow, pause
<1>7. ASSUME NEW w \in Ids, MarkSent(w) PROVE TypeOK'
  <2>1. row' \in [Ids -> Rows]
    <3>1. \/ row' = row
          \/ row' = [row EXCEPT ![w].status = "sent", ![w].tx = TRUE]
      BY <1>7 DEF MarkSent
    <3> QED BY <1>0, <1>7, <3>1 DEF Rows, Statuses
  <2>2. pc' \in [Ids -> HandlerSteps]
    BY <1>7 DEF TypeOK, MarkSent, Goto, Fault, NoFault, HandlerSteps
  <2>3. seen' \subseteq Kinds
    BY <1>7 DEF TypeOK, MarkSent, Goto, Fault, NoFault, Kinds
  <2> QED BY <1>7, <2>1, <2>2, <2>3 DEF TypeOK, MarkSent, Goto, Fault, NoFault, flow, pause
<1>8. ASSUME NEW w \in Ids, Debit(w) PROVE TypeOK'
  <2>1. job' \in [Ids -> Jobs]
    <3>1. \/ job' = job
          \/ job' = [job EXCEPT ![w].status = "absent"]
      BY <1>8 DEF Debit, Goto, Returns, Fault, NoFault
    <3> QED BY <1>0, <1>8, <3>1 DEF Jobs, JobStatuses
  <2>2. pc' \in [Ids -> HandlerSteps]
    BY <1>8 DEF TypeOK, Debit, Goto, Returns, Fault, NoFault, HandlerSteps
  <2>3. seen' \subseteq Kinds
    BY <1>8 DEF TypeOK, Debit, Goto, Returns, Fault, NoFault, Kinds
  <2> QED BY <1>8, <2>1, <2>2, <2>3 DEF TypeOK, Debit, Goto, Returns, Fault, NoFault, flow, pause
<1>9. ASSUME NEW w \in Ids, NoteDebitPending(w) PROVE TypeOK'
  <2>1. row' \in [Ids -> Rows]
    <3>1. \/ row' = row
          \/ row' = [row EXCEPT ![w].status = "sent"]
      BY <1>9 DEF NoteDebitPending
    <3> QED BY <1>0, <1>9, <3>1 DEF Rows, Statuses
  <2>2. job' \in [Ids -> Jobs]
    <3>1. \/ job' = job
          \/ job' = [job EXCEPT ![w].status = "absent"]
      BY <1>9 DEF NoteDebitPending, Goto, Returns, Fault, NoFault
    <3> QED BY <1>0, <1>9, <3>1 DEF Jobs, JobStatuses
  <2>3. pc' \in [Ids -> HandlerSteps]
    BY <1>9 DEF TypeOK, NoteDebitPending, Goto, Returns, Fault, NoFault, HandlerSteps
  <2>4. recon' \in [Ids -> {"absent", "waiting", "write"}]
    BY <1>9 DEF TypeOK, NoteDebitPending, Goto, Returns, Fault, NoFault
  <2>5. seen' \subseteq Kinds
    BY <1>9 DEF TypeOK, NoteDebitPending, Goto, Returns, Fault, NoFault, Kinds
  <2> QED BY <1>9, <2>1, <2>2, <2>3, <2>4, <2>5 DEF TypeOK, NoteDebitPending, Goto, Returns, Fault, NoFault, flow, pause
<1>10. ASSUME NEW w \in Ids, HandleError(w) PROVE TypeOK'
  <2>1. row' \in [Ids -> Rows]
    BY <1>10, RowWrites DEF TypeOK, HandleError, Goto
  <2>2. job' \in [Ids -> Jobs]
    BY <1>10, JobWrites DEF TypeOK, HandleError, Goto
  <2>3. pc' \in [Ids -> HandlerSteps]
    BY <1>10 DEF TypeOK, HandleError, Goto, HandlerSteps
  <2> QED BY <1>10, <2>1, <2>2, <2>3 DEF TypeOK, HandleError, Goto, flow, pause
<1>11. ASSUME NEW w \in Ids, ReconcileDebit(w) PROVE TypeOK'
  BY <1>11 DEF TypeOK, ReconcileDebit, flow, pause, Status
<1>12. ASSUME NEW w \in Ids, ReconcileWrite(w) PROVE TypeOK'
  BY <1>12, RowWrites DEF TypeOK, ReconcileWrite, flow, pause
<1>13. ASSUME NEW w \in Ids, WorkerRead(w) PROVE TypeOK'
  <2>1. worker' \in [id : Ids, status : Statuses] \cup {None}
    BY <1>13 DEF TypeOK, WorkerRead, Status, Rows
  <2> QED BY <1>13, <2>1 DEF TypeOK, WorkerRead, Status, flow, pause
<1>14. ASSUME NEW w \in Ids, ChainConfirms(w) PROVE TypeOK'
  BY <1>14 DEF TypeOK, ChainConfirms, flow, pause
<1>15. CASE WorkerWrite
  <2>1. row' \in [Ids -> Rows]
    <3>1. \/ row' = row
          \/ \E w \in Ids, s \in {"completed", "confirmed"} : row' = [row EXCEPT ![w].status = s]
      BY <1>15 DEF WorkerWrite, TypeOK
    <3> QED BY <1>0, <1>15, <3>1 DEF Rows, Statuses
  <2>2. worker' \in [id : Ids, status : Statuses] \cup {None}
    BY <1>15 DEF TypeOK, WorkerWrite, Rows
  <2> QED BY <1>15, <2>1, <2>2 DEF TypeOK, WorkerWrite, flow, pause
<1>16. CASE OpCall
  <2>1. op' \in Ops
    BY <1>16, OpWrites DEF TypeOK, OpCall, OpSteps, OpKeys
  <2> QED BY <1>16, <2>1 DEF TypeOK, OpCall, flow, pause
<1>17. CASE OpDrain
  <2>1. op' \in Ops
    BY <1>17, OpWrites DEF TypeOK, OpDrain, OpGoto, OpSteps, OpKeys
  <2> QED BY <1>17, <2>1 DEF TypeOK, OpDrain, OpGoto, flow, pause
<1>18. CASE OpUnlock
  <2>1. op' \in Ops
    BY <1>18, OpWrites DEF TypeOK, OpUnlock, OpGoto, OpSteps, OpKeys
  <2>2. bucket' \in Buckets
    <3>1. \/ bucket' = bucket
          \/ bucket.locked > 0 /\ bucket' = [bucket EXCEPT !.locked = @ - 1, !.available = @ + 1]
      BY <1>18 DEF OpUnlock
    <3> QED BY <1>18, <3>1, BucketWrites DEF TypeOK
  <2> QED BY <1>18, <2>1, <2>2 DEF TypeOK, OpUnlock, OpGoto, flow, pause
<1>19. CASE OpDebit
  <2>1. op' \in Ops
    BY <1>19, OpWrites DEF TypeOK, OpDebit, OpGoto, OpSteps, OpKeys
  <2>2. bucket' \in Buckets
    BY <1>19, BucketWrites DEF TypeOK, OpDebit, OpGoto
  <2> QED BY <1>19, <2>1, <2>2 DEF TypeOK, OpDebit, OpGoto, flow, pause
<1>20. CASE OpPending
  <2>1. op' \in Ops
    BY <1>20, OpWrites DEF TypeOK, OpPending, OpGoto, Fault, NoFault, OpSteps, OpKeys
  <2>2. seen' \subseteq Kinds
    BY <1>20 DEF TypeOK, OpPending, OpGoto, Fault, NoFault, Kinds
  <2> QED BY <1>20, <2>1, <2>2 DEF TypeOK, OpPending, OpGoto, Fault, NoFault, flow, pause
<1>21. CASE OpExecute
  <2>1. op' \in Ops
    BY <1>21, OpWrites DEF TypeOK, OpExecute, OpGoto, Fault, NoFault, OpSteps, OpKeys
  <2>2. wallet' \in 0..Wallet
    BY <1>21, WithdrawalAssumption DEF TypeOK, OpExecute, OpGoto, Fault, NoFault
  <2>3. seen' \subseteq Kinds
    BY <1>21 DEF TypeOK, OpExecute, OpGoto, Fault, NoFault, Kinds
  <2> QED BY <1>21, <2>1, <2>2, <2>3 DEF TypeOK, OpExecute, OpGoto, Fault, NoFault, flow, pause
<1>22. CASE OpComplete
  <2>1. op' \in Ops
    BY <1>22, OpWrites DEF TypeOK, OpComplete, OpGoto, Fault, NoFault, OpSteps, OpKeys
  <2>2. seen' \subseteq Kinds
    BY <1>22 DEF TypeOK, OpComplete, OpGoto, Fault, NoFault, Kinds
  <2> QED BY <1>22, <2>1, <2>2 DEF TypeOK, OpComplete, OpGoto, Fault, NoFault, flow, pause
<1>23. CASE OpRollback
  <2>1. op' \in Ops
    BY <1>23, OpWrites DEF TypeOK, OpRollback, OpSteps, OpKeys
  <2>2. bucket' \in Buckets
    BY <1>23, BucketWrites DEF TypeOK, OpRollback
  <2> QED BY <1>23, <2>1, <2>2 DEF TypeOK, OpRollback, flow, pause
<1>24. CASE OrderCloses
  <2>1. bucket' \in Buckets
    <3>1. \/ bucket' = [bucket EXCEPT !.live = FALSE]
          \/ bucket.locked > 0 /\ bucket' = [bucket EXCEPT !.locked = @ - 1, !.available = @ + 1]
      BY <1>24 DEF OrderCloses
    <3> QED BY <1>24, <3>1, BucketWrites DEF TypeOK
  <2> QED BY <1>24, <2>1 DEF TypeOK, OrderCloses, flow, pause
<1>25. CASE Crash
  <2>1. job' \in [Ids -> Jobs]
    <3>1. \A w \in Ids : [job[w] EXCEPT !.status = "waiting"] \in Jobs
      BY <1>0 DEF Jobs, JobStatuses
    <3> QED BY <1>0, <1>25, <3>1 DEF Crash
  <2>2. pc' \in [Ids -> HandlerSteps]
    BY <1>25 DEF TypeOK, Crash, Fault, OpGoto, HandlerSteps
  <2>3. initPc' \in [Ids -> {"idle", "add", "mark"}]
    BY <1>25 DEF TypeOK, Crash, Fault, OpGoto
  <2>4. recon' \in [Ids -> {"absent", "waiting", "write"}]
    BY <1>25 DEF TypeOK, Crash, Fault, OpGoto
  <2>5. op' \in Ops
    BY <1>25, OpWrites DEF TypeOK, Crash, Fault, OpGoto, OpSteps, OpKeys
  <2>6. seen' \subseteq Kinds
    BY <1>25 DEF TypeOK, Crash, Fault, OpGoto, Kinds
  <2> QED BY <1>25, <2>1, <2>2, <2>3, <2>4, <2>5, <2>6 DEF TypeOK, Crash, Fault, OpGoto, flow, pause
<1>26. CASE UNCHANGED vars
  BY <1>26 DEF TypeOK, flow, pause, vars
<1> QED BY <1>1, <1>2, <1>3, <1>4, <1>5, <1>6, <1>7, <1>8, <1>9, <1>10, <1>11, <1>12, <1>13, <1>14, <1>15, <1>16, <1>17, <1>18, <1>19, <1>20, <1>21, <1>22, <1>23, <1>24, <1>25, <1>26 DEF Next, Queueing, Process, Reconcile, PauseAndWithdraw

-----------------------------------------------------------------------------
(* The handlers. *)

\* What the steps of a withdrawal need of the types.
FlowTypes ==
  /\ row \in [Ids -> Rows] /\ job \in [Ids -> Jobs] /\ pc \in [Ids -> HandlerSteps]
  /\ initPc \in [Ids -> {"idle", "add", "mark"}] /\ recon \in [Ids -> {"absent", "waiting", "write"}]
  /\ paid \in [Ids -> Nat] /\ chain \in [Ids -> {"none", "pending", "confirmed"}]
  /\ worker # None => worker.id \in Ids

\* History only grows: what is recorded now was recorded before.
LEMMA RecordedBefore == seen \subseteq seen' /\ PaymentsRecorded' => PaymentsRecorded
BY DEF PaymentsRecorded

\* The parts of FlowInv that hold whatever was lost, by the steps of a withdrawal.
LEMMA HandlerStep ==
  ASSUME FlowTypes, FlowInv, [Next]_vars
  PROVE  WorkerInv' /\ \A v \in Ids : HandlerInv(v)' /\ FreshInv(v)' /\ CompletedInv(v)'
<1> USE DEF FlowTypes, Rows, Jobs, FlowInv, WorkerInv, HandlerInv, FreshInv, CompletedInv, Status, Claimable
<1>1. ASSUME NEW w \in Ids, InitializeWithdrawal(w)
      PROVE  WorkerInv' /\ \A v \in Ids : HandlerInv(v)' /\ FreshInv(v)' /\ CompletedInv(v)'
  BY <1>1 DEF InitializeWithdrawal
<1>2. ASSUME NEW w \in Ids, QueueAdd(w)
      PROVE  WorkerInv' /\ \A v \in Ids : HandlerInv(v)' /\ FreshInv(v)' /\ CompletedInv(v)'
  BY <1>2 DEF QueueAdd, Fault, NoFault
<1>3. ASSUME NEW w \in Ids, QueueMark(w)
      PROVE  WorkerInv' /\ \A v \in Ids : HandlerInv(v)' /\ FreshInv(v)' /\ CompletedInv(v)'
  BY <1>3 DEF QueueMark, Status
<1>4. ASSUME NEW w \in Ids, Claim(w)
      PROVE  WorkerInv' /\ \A v \in Ids : HandlerInv(v)' /\ FreshInv(v)' /\ CompletedInv(v)'
  BY <1>4 DEF Claim, Claimable, Status, Goto
<1>5. ASSUME NEW w \in Ids, CheckBalance(w)
      PROVE  WorkerInv' /\ \A v \in Ids : HandlerInv(v)' /\ FreshInv(v)' /\ CompletedInv(v)'
  <2>0. pc[w] = "balance" /\ UNCHANGED <<initPc, recon, worker, paid, chain, seen>>
    BY <1>5 DEF CheckBalance
  <2>1. CASE wallet > 0 /\ Goto(w, "send") /\ UNCHANGED <<row, job>>
    BY <1>5, <2>0, <2>1 DEF Goto
  <2>2. CASE row' = [row EXCEPT ![w].status = "failed"] /\ Returns(w)
    BY <1>5, <2>0, <2>2 DEF Goto, Returns
  <2> QED BY <1>5, <2>1, <2>2 DEF CheckBalance
<1>6. ASSUME NEW w \in Ids, Send(w)
      PROVE  WorkerInv' /\ \A v \in Ids : HandlerInv(v)' /\ FreshInv(v)' /\ CompletedInv(v)'
  <2>0. pc[w] = "send" /\ seen \subseteq seen' /\ UNCHANGED <<initPc, recon, worker>>
    BY <1>6 DEF Send, Fault, NoFault
  <2>1. CASE Pays(w) /\ Goto(w, "mark") /\ UNCHANGED <<row, job>>
    BY <1>6, <2>0, <2>1 DEF Goto, Pays
  <2>2. CASE Goto(w, "error") /\ UNCHANGED <<row, job, paid, chain>>
    BY <1>6, <2>0, <2>2 DEF Goto
  <2>3. CASE "lost" \in seen' /\ Pays(w) /\ Goto(w, "error") /\ UNCHANGED <<row, job>>
    BY <1>6, <2>0, <2>3 DEF Goto, Pays
  <2>4. CASE row' = [row EXCEPT ![w].status = "failed"] /\ Returns(w) /\ UNCHANGED <<paid, chain>>
    BY <1>6, <2>0, <2>4 DEF Goto, Returns
  <2> QED BY <1>6, <2>1, <2>2, <2>3, <2>4 DEF Send, Fault
<1>7. ASSUME NEW w \in Ids, MarkSent(w)
      PROVE  WorkerInv' /\ \A v \in Ids : HandlerInv(v)' /\ FreshInv(v)' /\ CompletedInv(v)'
  <2>0. pc[w] = "mark" /\ seen \subseteq seen' /\ UNCHANGED <<initPc, job, recon, worker, paid, chain>>
    BY <1>7 DEF MarkSent, Fault, NoFault
  <2>1. CASE row' = [row EXCEPT ![w].status = "sent", ![w].tx = TRUE] /\ Goto(w, "debit")
    BY <1>7, <2>0, <2>1 DEF Goto
  <2>2. CASE "db" \in seen' /\ Goto(w, "error") /\ UNCHANGED row
    BY <1>7, <2>0, <2>2 DEF Goto
  <2> QED BY <1>7, <2>1, <2>2 DEF MarkSent, Fault
<1>8. ASSUME NEW w \in Ids, Debit(w)
      PROVE  WorkerInv' /\ \A v \in Ids : HandlerInv(v)' /\ FreshInv(v)' /\ CompletedInv(v)'
  BY <1>8 DEF Debit, Goto, Returns, Fault, NoFault
<1>9. ASSUME NEW w \in Ids, NoteDebitPending(w)
      PROVE  WorkerInv' /\ \A v \in Ids : HandlerInv(v)' /\ FreshInv(v)' /\ CompletedInv(v)'
  <2>0. pc[w] = "note" /\ seen \subseteq seen' /\ UNCHANGED <<initPc, worker, paid, chain>>
    BY <1>9 DEF NoteDebitPending, Fault, NoFault
  <2>1. CASE row' = [row EXCEPT ![w].status = "sent"] /\ recon' = [recon EXCEPT ![w] = "waiting"] /\ Returns(w)
    BY <1>9, <2>0, <2>1 DEF Goto, Returns
  <2>2. CASE "db" \in seen' /\ Goto(w, "error") /\ UNCHANGED <<row, recon, job>>
    BY <1>9, <2>0, <2>2 DEF Goto
  <2> QED BY <1>9, <2>1, <2>2 DEF NoteDebitPending, Fault
<1>10. ASSUME NEW w \in Ids, HandleError(w)
      PROVE  WorkerInv' /\ \A v \in Ids : HandlerInv(v)' /\ FreshInv(v)' /\ CompletedInv(v)'
  BY <1>10 DEF HandleError, Goto
<1>11. ASSUME NEW w \in Ids, ReconcileDebit(w)
      PROVE  WorkerInv' /\ \A v \in Ids : HandlerInv(v)' /\ FreshInv(v)' /\ CompletedInv(v)'
  BY <1>11 DEF ReconcileDebit
<1>12. ASSUME NEW w \in Ids, ReconcileWrite(w)
      PROVE  WorkerInv' /\ \A v \in Ids : HandlerInv(v)' /\ FreshInv(v)' /\ CompletedInv(v)'
  BY <1>12 DEF ReconcileWrite
<1>13. ASSUME NEW w \in Ids, WorkerRead(w)
      PROVE  WorkerInv' /\ \A v \in Ids : HandlerInv(v)' /\ FreshInv(v)' /\ CompletedInv(v)'
  BY <1>13 DEF WorkerRead
<1>14. ASSUME NEW w \in Ids, ChainConfirms(w)
      PROVE  WorkerInv' /\ \A v \in Ids : HandlerInv(v)' /\ FreshInv(v)' /\ CompletedInv(v)'
  BY <1>14 DEF ChainConfirms
<1>15. CASE WorkerWrite
  <2> DEFINE w == worker.id
  <2>1. /\ w \in Ids /\ row[w].tx /\ UNCHANGED <<initPc, job, pc, recon, paid, chain, seen>>
        /\ worker' = None
    BY <1>15, RecordedBefore DEF WorkerWrite
  <2>2. CASE chain[w] = "confirmed" /\ row' = [row EXCEPT ![w].status = "completed"]
    BY <1>15, <2>1, <2>2
  <2>3. CASE row' = [row EXCEPT ![w].status = "confirmed"]
    BY <1>15, <2>1, <2>3
  <2>4. CASE row' = row
    BY <1>15, <2>1, <2>4
  <2> QED BY <1>15, <2>2, <2>3, <2>4 DEF WorkerWrite
<1>16. CASE Crash
  BY <1>16 DEF Crash, Fault, OpGoto
<1>17. CASE UNCHANGED flow /\ seen \subseteq seen'
  BY <1>17 DEF flow
<1>18. ASSUME PauseAndWithdraw \/ OrderCloses \/ UNCHANGED vars
      PROVE  UNCHANGED flow /\ seen \subseteq seen'
  BY <1>18 DEF PauseAndWithdraw, OpCall, OpDrain, OpUnlock, OpDebit, OpPending, OpExecute,
                  OpComplete, OpRollback, OrderCloses, Fault, NoFault, vars, flow
<1> QED BY <1>1, <1>2, <1>3, <1>4, <1>5, <1>6, <1>7, <1>8, <1>9, <1>10, <1>11, <1>12, <1>13, <1>14, <1>15, <1>16, <1>17, <1>18 DEF Next, Queueing, Process, Reconcile

\* A withdrawal is paid once, by the steps of a withdrawal: the payment is made from
\* the send step, which only an unpaid withdrawal reaches.
LEMMA PaidStep ==
  ASSUME FlowTypes, FlowInv, [Next]_vars, PaymentsRecorded'
  PROVE  \A v \in Ids : PaidInv(v)'
<1>0. /\ seen \subseteq seen' => PaymentsRecorded
      /\ {"lost", "db"} \cap seen' = {} /\ ~({"overwrite", "crash"} \subseteq seen')
      /\ seen \subseteq seen' => \A v \in Ids : PaidInv(v)
      /\ \A v \in Ids : HandlerInv(v) /\ FreshInv(v)
      /\ WorkerInv
  BY RecordedBefore DEF PaymentsRecorded, FlowInv
<1> USE <1>0 DEF FlowTypes, Rows, Jobs, WorkerInv, PaidInv, HandlerInv, FreshInv, Status, Claimable
<1>1. ASSUME NEW w \in Ids, InitializeWithdrawal(w)
      PROVE  \A v \in Ids : PaidInv(v)'
  BY <1>1 DEF InitializeWithdrawal
<1>2. ASSUME NEW w \in Ids, QueueAdd(w)
      PROVE  \A v \in Ids : PaidInv(v)'
  BY <1>2, SMTT(30) DEF QueueAdd, Fault, NoFault
<1>3. ASSUME NEW w \in Ids, QueueMark(w)
      PROVE  \A v \in Ids : PaidInv(v)'
  BY <1>3 DEF QueueMark, Status
<1>4. ASSUME NEW w \in Ids, Claim(w)
      PROVE  \A v \in Ids : PaidInv(v)'
  BY <1>4 DEF Claim, Claimable, Status, Goto
<1>5. ASSUME NEW w \in Ids, CheckBalance(w)
      PROVE  \A v \in Ids : PaidInv(v)'
  <2>0. pc[w] = "balance" /\ UNCHANGED <<initPc, recon, worker, paid, chain, seen>>
    BY <1>5 DEF CheckBalance
  <2>1. CASE wallet > 0 /\ Goto(w, "send") /\ UNCHANGED <<row, job>>
    BY <1>5, <2>0, <2>1 DEF Goto
  <2>2. CASE row' = [row EXCEPT ![w].status = "failed"] /\ Returns(w)
    BY <1>5, <2>0, <2>2 DEF Goto, Returns
  <2> QED BY <1>5, <2>1, <2>2 DEF CheckBalance
<1>6. ASSUME NEW w \in Ids, Send(w)
      PROVE  \A v \in Ids : PaidInv(v)'
  <2>0. pc[w] = "send" /\ seen \subseteq seen' /\ UNCHANGED <<initPc, recon, worker>>
    BY <1>6 DEF Send, Fault, NoFault
  <2>1. CASE Pays(w) /\ Goto(w, "mark") /\ UNCHANGED <<row, job>>
    BY <1>6, <2>0, <2>1 DEF Goto, Pays
  <2>2. CASE Goto(w, "error") /\ UNCHANGED <<row, job, paid, chain>>
    BY <1>6, <2>0, <2>2 DEF Goto
  <2>3. CASE "lost" \in seen' /\ Pays(w) /\ Goto(w, "error") /\ UNCHANGED <<row, job>>
    BY <1>6, <2>0, <2>3 DEF Goto, Pays
  <2>4. CASE row' = [row EXCEPT ![w].status = "failed"] /\ Returns(w) /\ UNCHANGED <<paid, chain>>
    BY <1>6, <2>0, <2>4 DEF Goto, Returns
  <2> QED BY <1>6, <2>1, <2>2, <2>3, <2>4 DEF Send, Fault
<1>7. ASSUME NEW w \in Ids, MarkSent(w)
      PROVE  \A v \in Ids : PaidInv(v)'
  <2>0. pc[w] = "mark" /\ seen \subseteq seen' /\ UNCHANGED <<initPc, job, recon, worker, paid, chain>>
    BY <1>7 DEF MarkSent, Fault, NoFault
  <2>1. CASE row' = [row EXCEPT ![w].status = "sent", ![w].tx = TRUE] /\ Goto(w, "debit")
    BY <1>7, <2>0, <2>1 DEF Goto
  <2>2. CASE "db" \in seen' /\ Goto(w, "error") /\ UNCHANGED row
    BY <1>7, <2>0, <2>2 DEF Goto
  <2> QED BY <1>7, <2>1, <2>2 DEF MarkSent, Fault
<1>8. ASSUME NEW w \in Ids, Debit(w)
      PROVE  \A v \in Ids : PaidInv(v)'
  BY <1>8 DEF Debit, Goto, Returns, Fault, NoFault
<1>9. ASSUME NEW w \in Ids, NoteDebitPending(w)
      PROVE  \A v \in Ids : PaidInv(v)'
  <2>0. pc[w] = "note" /\ seen \subseteq seen' /\ UNCHANGED <<initPc, worker, paid, chain>>
    BY <1>9 DEF NoteDebitPending, Fault, NoFault
  <2>1. CASE row' = [row EXCEPT ![w].status = "sent"] /\ recon' = [recon EXCEPT ![w] = "waiting"] /\ Returns(w)
    BY <1>9, <2>0, <2>1 DEF Goto, Returns
  <2>2. CASE "db" \in seen' /\ Goto(w, "error") /\ UNCHANGED <<row, recon, job>>
    BY <1>9, <2>0, <2>2 DEF Goto
  <2> QED BY <1>9, <2>1, <2>2 DEF NoteDebitPending, Fault
<1>10. ASSUME NEW w \in Ids, HandleError(w)
      PROVE  \A v \in Ids : PaidInv(v)'
  BY <1>10 DEF HandleError, Goto
<1>11. ASSUME NEW w \in Ids, ReconcileDebit(w)
      PROVE  \A v \in Ids : PaidInv(v)'
  BY <1>11 DEF ReconcileDebit
<1>12. ASSUME NEW w \in Ids, ReconcileWrite(w)
      PROVE  \A v \in Ids : PaidInv(v)'
  BY <1>12 DEF ReconcileWrite
<1>13. ASSUME NEW w \in Ids, WorkerRead(w)
      PROVE  \A v \in Ids : PaidInv(v)'
  BY <1>13 DEF WorkerRead
<1>14. ASSUME NEW w \in Ids, ChainConfirms(w)
      PROVE  \A v \in Ids : PaidInv(v)'
  BY <1>14 DEF ChainConfirms
<1>15. CASE WorkerWrite
  <2> DEFINE w == worker.id
  <2>1. /\ w \in Ids /\ row[w].tx /\ UNCHANGED <<initPc, job, pc, recon, paid, chain, seen>>
        /\ worker' = None
    BY <1>15, RecordedBefore DEF WorkerWrite
  <2>2. CASE chain[w] = "confirmed" /\ row' = [row EXCEPT ![w].status = "completed"]
    BY <1>15, <2>1, <2>2
  <2>3. CASE row' = [row EXCEPT ![w].status = "confirmed"]
    BY <1>15, <2>1, <2>3
  <2>4. CASE row' = row
    BY <1>15, <2>1, <2>4
  <2> QED BY <1>15, <2>2, <2>3, <2>4 DEF WorkerWrite
<1>16. CASE Crash
  BY <1>16 DEF Crash, Fault, OpGoto
<1>17. CASE UNCHANGED flow /\ seen \subseteq seen'
  BY <1>17 DEF flow
<1>18. ASSUME PauseAndWithdraw \/ OrderCloses \/ UNCHANGED vars
      PROVE  UNCHANGED flow /\ seen \subseteq seen'
  BY <1>18 DEF PauseAndWithdraw, OpCall, OpDrain, OpUnlock, OpDebit, OpPending, OpExecute,
                  OpComplete, OpRollback, OrderCloses, Fault, NoFault, vars, flow
<1> QED BY <1>1, <1>2, <1>3, <1>4, <1>5, <1>6, <1>7, <1>8, <1>9, <1>10, <1>11, <1>12, <1>13, <1>14, <1>15, <1>16, <1>17, <1>18 DEF Next, Queueing, Process, Reconcile

-----------------------------------------------------------------------------
(* pauseAndWithdraw. *)

\* The steps of pauseAndWithdraw, and the order that closes beside them, keep the
\* keys in order and the funds accounted for.
LEMMA FundsStep ==
  ASSUME op \in Ops, bucket \in Buckets, KeysInv, FundsInv, [Next]_vars
  PROVE  KeysInv' /\ FundsInv'
<1> USE DEF Ops, Buckets, KeysInv, FundsInv, Outstanding, OpAt
<1>1. CASE OpCall
  BY <1>1 DEF OpCall
<1>2. CASE OpDrain
  BY <1>2 DEF OpDrain, OpGoto
<1>0. bucket.available \in Int /\ bucket.locked \in Nat /\ bucket.deposited \in Nat
  OBVIOUS
<1>3. CASE OpUnlock
  <2>1. CASE /\ bucket' = [bucket EXCEPT !.locked = @ - 1, !.available = @ + 1]
             /\ op' = [op EXCEPT !.pc = "debit", !.keys = @ \cup {"unlock"}]
    <3>1. KeysInv'
      BY <1>3, <2>1 DEF OpUnlock
    <3> QED BY <1>0, <1>3, <2>1, <3>1 DEF OpUnlock
  <2>2. CASE OpGoto("idle") /\ UNCHANGED bucket
    BY <1>3, <2>2 DEF OpUnlock, OpGoto
  <2> QED BY <1>3, <2>1, <2>2 DEF OpUnlock
<1>4. CASE OpDebit
  <2>1. CASE /\ "debit" \notin op.keys
             /\ bucket' = [bucket EXCEPT !.available = @ - 1]
             /\ op' = [op EXCEPT !.pc = "pending", !.keys = @ \cup {"debit"}]
    <3>1. KeysInv' /\ ~op.paid
      BY <1>4, <2>1 DEF OpDebit
    <3> QED BY <1>0, <1>4, <2>1, <3>1 DEF OpDebit
  <2>2. CASE OpGoto("idle") /\ UNCHANGED bucket
    BY <1>4, <2>2 DEF OpDebit, OpGoto
  <2> QED BY <1>4, <2>1, <2>2 DEF OpDebit
<1>5. CASE OpPending
  BY <1>5 DEF OpPending, OpGoto, Fault, NoFault
<1>6. CASE OpExecute
  <2>0. OpAt("execute") /\ bucket' = bucket /\ seen \subseteq seen'
    BY <1>6 DEF OpExecute, Fault, NoFault
  <2>1. CASE op' = [op EXCEPT !.pc = "completed", !.paid = TRUE]
    BY <1>0, <2>0, <2>1
  <2>2. CASE OpGoto("rollback")
    BY <1>0, <2>0, <2>2 DEF OpGoto
  <2>3. CASE "lost" \in seen' /\ op' = [op EXCEPT !.pc = "rollback", !.paid = TRUE]
    BY <1>0, <2>0, <2>3
  <2> QED BY <1>6, <2>1, <2>2, <2>3 DEF OpExecute, Fault
<1>7. CASE OpComplete
  BY <1>7 DEF OpComplete, OpGoto, Fault, NoFault
<1>8. CASE OpRollback
  BY <1>8 DEF OpRollback
<1>9. CASE OrderCloses
  <2>1. CASE bucket' = [bucket EXCEPT !.live = FALSE]
    BY <1>9, <2>1 DEF OrderCloses
  <2>2. CASE bucket' = [bucket EXCEPT !.locked = @ - 1, !.available = @ + 1]
    BY <1>0, <1>9, <2>2 DEF OrderCloses
  <2> QED BY <1>9, <2>1, <2>2 DEF OrderCloses
<1>10. CASE Crash
  BY <1>10 DEF Crash, Fault, OpGoto
<1>11. ASSUME NEW w \in Ids,
              \/ InitializeWithdrawal(w) \/ Queueing(w) \/ Process(w) \/ Reconcile(w)
              \/ WorkerRead(w) \/ ChainConfirms(w)
       PROVE  UNCHANGED pause /\ seen \subseteq seen'
  BY <1>11 DEF InitializeWithdrawal, Queueing, QueueAdd, QueueMark, Process, Claim, CheckBalance,
               Send, MarkSent, Debit, NoteDebitPending, HandleError, Reconcile, ReconcileDebit,
               ReconcileWrite, WorkerRead, ChainConfirms, Fault, NoFault, pause
<1>12. ASSUME WorkerWrite \/ UNCHANGED vars PROVE UNCHANGED pause /\ seen \subseteq seen'
  BY <1>12 DEF WorkerWrite, pause, vars
<1>13. CASE UNCHANGED pause /\ seen \subseteq seen'
  BY <1>13 DEF pause
<1> QED BY <1>1, <1>2, <1>3, <1>4, <1>5, <1>6, <1>7, <1>8, <1>9, <1>10, <1>11, <1>12, <1>13
        DEF Next, PauseAndWithdraw

-----------------------------------------------------------------------------
(* The theorems. *)

\* No withdrawal has begun and no call was made: the invariant holds.
LEMMA InitInv == Init => WithdrawalInv
<1> SUFFICES ASSUME Init PROVE WithdrawalInv
  OBVIOUS
<1> USE WithdrawalAssumption DEF Init
<1>1. TypeOK
  <2>1. row \in [Ids -> Rows] /\ job \in [Ids -> Jobs]
    BY DEF Rows, Statuses, Jobs, JobStatuses
  <2>2. op \in Ops /\ bucket \in Buckets
    BY DEF Ops, OpSteps, OpKeys, Buckets
  <2> QED BY <2>1, <2>2 DEF TypeOK, HandlerSteps
<1>2. FlowInv
  BY DEF FlowInv, WorkerInv, HandlerInv, FreshInv, CompletedInv, PaidInv, Status
<1>3. KeysInv /\ FundsInv
  BY DEF KeysInv, FundsInv, Outstanding, OpAt
<1> QED BY <1>1, <1>2, <1>3 DEF WithdrawalInv

\* Every step of a handler, a job, the worker or a call keeps the invariant.
LEMMA InvStep == WithdrawalInv /\ [Next]_vars => WithdrawalInv'
<1> SUFFICES ASSUME WithdrawalInv, [Next]_vars PROVE WithdrawalInv'
  OBVIOUS
<1>1. TypeOK'
  BY TypeStep DEF WithdrawalInv
<1>2. FlowTypes
  BY WithdrawalAssumption DEF WithdrawalInv, TypeOK, FlowTypes
<1>3. FlowInv'
  BY <1>2, HandlerStep, PaidStep DEF WithdrawalInv, FlowInv
<1>4. KeysInv' /\ FundsInv'
  BY FundsStep DEF WithdrawalInv, TypeOK
<1> QED BY <1>1, <1>3, <1>4 DEF WithdrawalInv

\* Every state reached by initialising, queueing, processing, reconciling and
\* confirming withdrawals and by pauseAndWithdraw satisfies the invariant.
LEMMA Invariance == Spec => []WithdrawalInv
BY InitInv, InvStep, PTL DEF Spec

\* The variables keep their types in every reachable state.
THEOREM TypeCorrect == Spec => []TypeOK
<1>1. WithdrawalInv => TypeOK
  BY DEF WithdrawalInv
<1> QED BY <1>1, Invariance, PTL

\* executeWithdrawal is called without a request key, and still no withdrawal is
\* paid twice, for every number of attempts, retries and faults, as long as no
\* answer or status write after the payment was lost.
THEOREM PaymentsUnique == Spec => []PaidAtMostOnce
<1>1. WithdrawalInv => PaidAtMostOnce
  BY DEF WithdrawalInv, FlowInv, PaidAtMostOnce, PaidInv
<1> QED BY <1>1, Invariance, PTL

\* The final status tells whether Mixin paid: failed rows were not, completed were.
THEOREM OutcomesTruthful == Spec => []OutcomeTellsPayment
<1>1. WithdrawalInv => OutcomeTellsPayment
  BY DEF WithdrawalInv, TypeOK, FlowInv, OutcomeTellsPayment, PaidInv, CompletedInv
<1> QED BY <1>1, Invariance, PTL

\* pauseAndWithdraw neither loses nor doubles the funds of its order, for any number
\* of calls with the same operation id and any refusal on the way.
THEOREM PauseConservesFunds == Spec => []FundsConserved
<1>1. WithdrawalInv => FundsConserved
  BY DEF WithdrawalInv, TypeOK, Buckets, Ops, FundsInv, FundsConserved, Outstanding, OpAt
<1> QED BY <1>1, Invariance, PTL
=============================================================================
