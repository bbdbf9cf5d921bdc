------------------------- MODULE OrderFundingProofs -------------------------
(***************************************************************************)
(* Theorems about OrderFunding, for every order: any transfers, any fee, any *)
(* number of faults and attempts.                                            *)
(***************************************************************************)
EXTENDS OrderFunding, NatSets

-----------------------------------------------------------------------------
(* The types, with the counts still unbounded. *)

NatPayment == [paid : [Currencies -> Nat], complete : BOOLEAN]

Key == [what : Commands, snapshot : Nat, asset : Currencies, amount : Nat]

Ledgers == [funds : [Currencies -> Int], keys : SUBSET Key]

Held == [pc : Places, read : NatPayment \cup {None}, role : Assets \cup {None}, debited : BOOLEAN]

Job == [status : {"absent", "waiting", "active", "done", "failed"}, tries : 0..MaxAttempts]

JobTypes == jobs \in [Jobs -> Job] /\ task \in [Jobs -> Held]

Types ==
  /\ setup \in Setups /\ overdue \in BOOLEAN /\ timedOut \in BOOLEAN
  /\ made \in Nat /\ made <= Cardinality(Transfers)
  /\ cursor \in Nat /\ cursor <= made /\ fetched \subseteq 1..cursor
  /\ intent \in {"pending", "in_progress", "completed", "expired"}
  /\ payment \in NatPayment \cup {None} /\ order \in OrderStates \cup {None}
  /\ ledger \in Ledgers /\ JobTypes
  /\ sent \in [Roles -> Nat] /\ arrival \in [Roles -> {"none", "sent", "confirmed"}]
  /\ returned \in [Currencies -> Nat] /\ bounced \in [Transfers -> Nat]
  /\ strategy \in {"idle", "running"}
  /\ seen \subseteq Kinds \cup {"stale"} /\ faults \in Nat /\ faults <= setup.maxFaults

Active(j) == jobs[j].status = "active"

\* A job that may still run has attempts left.
Lasting(js) == \A j \in Jobs : js[j].status \in {"waiting", "active"} => js[j].tries < MaxAttempts

TriesInv == Lasting(jobs)

Has(what, s, a, n) == LedgerKey(what, s, a, n) \in ledger.keys

Credited(s) == Has("credit", s, Deposits[s], 1)

\* What the handler of an active job holds at each of its places.
DepositInv ==
  \A s \in Transfers :
    LET j == <<"deposit", s>>
    IN  Active(j) =>
          /\ task[j].pc \in {"credit", "save", "queue", "refund"}
          /\ task[j].pc \in {"save", "queue"} => Deposits[s] \in Assets /\ Credited(s)

CheckInv ==
  Active(check) =>
    /\ task[check].pc \in {"refuse", "refund", "transfer", "accept", "save", "queue"}
    /\ task[check].read \in NatPayment /\ payment # None
    /\ task[check].pc = "transfer" =>
         /\ task[check].role \in Assets /\ task[check].read.paid[task[check].role] > 0
         /\ task[check].debited => Has("refund", 0, task[check].role, task[check].read.paid[task[check].role])

WithdrawInv ==
  Active(withdraw) =>
    /\ task[withdraw].pc \in {"debit", "send", "queue", "fail"}
    /\ task[withdraw].pc \in {"debit", "send"} =>
         task[withdraw].read \in NatPayment /\ task[withdraw].role \in Roles
    /\ task[withdraw].pc = "send" =>
         Has("withdraw", 0, task[withdraw].role, task[withdraw].read.paid[task[withdraw].role])

\* A job of the chain is queued only when what it relies on is there.
ChainInv ==
  /\ Active(start) => task[start].pc = "launch"
  /\ jobs[withdraw].status # "absent" => payment # None
  /\ \A r \in Roles : sent[r] > 0 => Has("withdraw", 0, r, sent[r])
  /\ \A r \in Roles : arrival[r] # "none" => sent[r] > 0
  /\ (\E kind \in {"confirm", "join", "start"} : jobs[<<kind, 0>>].status # "absent")
       => WithdrawalsConfirmed
  /\ strategy # "idle" => WithdrawalsConfirmed

-----------------------------------------------------------------------------
(* The ledger and its keys. *)

BookedIn(ks, what, a) ==
  IF \E n \in Nat : LedgerKey(what, 0, a, n) \in ks
  THEN CHOOSE n \in Nat : LedgerKey(what, 0, a, n) \in ks ELSE 0

Booked(what, a) == BookedIn(ledger.keys, what, a)

Compensates(k, d) ==
  \/ k.what = "refund-compensation" /\ d.what = "refund"
  \/ k.what = "withdraw-compensation" /\ d.what = "withdraw"

\* A credit is of one unit of a transfer that was made; any other key is of an asset of the order,
\* one per command and asset, and what is compensated was debited.
KeysInv ==
  /\ \A k \in ledger.keys : k.what = "credit" =>
       k.snapshot \in 1..made /\ k.asset = Deposits[k.snapshot] /\ k.amount = 1
  /\ \A k \in ledger.keys : k.what # "credit" => k.snapshot = 0 /\ k.asset \in Assets /\ k.amount > 0
  /\ \A k, l \in ledger.keys : k.what # "credit" /\ k.what = l.what /\ k.asset = l.asset => k = l
  /\ \A k \in ledger.keys : k.what \in {"refund-compensation", "withdraw-compensation"} =>
       \E d \in ledger.keys : Compensates(k, d) /\ d.asset = k.asset /\ d.amount = k.amount
  /\ \A k \in ledger.keys : k.what \in {"withdraw", "withdraw-compensation"} =>
       k.asset \in Roles /\ jobs[withdraw].status # "absent"

\* What a bucket holds is what its keys say.
FundsInv ==
  \A a \in Currencies :
    ledger.funds[a] = Credits(a) - Booked("refund", a) + Booked("refund-compensation", a)
                        - Booked("withdraw", a) + Booked("withdraw-compensation", a)

\* A transfer is queued after it was made.
MadeInv ==
  \A s \in Transfers :
    /\ jobs[<<"intake", s>>].status # "absent" => s <= cursor
    /\ jobs[<<"deposit", s>>].status # "absent" => s <= made
    /\ bounced[s] > 0 => s <= made

-----------------------------------------------------------------------------
(* How much can be counted. *)

\* Transfers whose deposit job has saved the payment, or ended otherwise.
Saved == {s \in Transfers : jobs[<<"deposit", s>>].status = "done" \/ At(<<"deposit", s>>, "queue")}

Bound == Cardinality(Saved) + Cardinality(Transfers) * faults

\* No state of the payment, also none a handler still holds, counts more transfers of an asset.
UnitsInv ==
  /\ payment # None => \A a \in Currencies : payment.paid[a] <= Bound
  /\ \A j \in Jobs : task[j].read # None => \A a \in Currencies : task[j].read.paid[a] <= Bound
  /\ \A k \in ledger.keys : k.amount \in Units

-----------------------------------------------------------------------------
(* Behaviours in which no answer is lost and no handler run over. *)

Calm == seen \subseteq {"reject", "slow", "pair"}

\* A transfer is taken in once.
IntakeInv ==
  Calm => \A s \in Transfers :
    /\ s > cursor \/ s \in fetched => jobs[<<"intake", s>>].status = "absent"
    /\ s > cursor \/ s \in fetched \/ jobs[<<"intake", s>>].status # "absent" =>
         jobs[<<"deposit", s>>].status = "absent" /\ bounced[s] = 0
    /\ bounced[s] <= 1
    /\ bounced[s] > 0 => jobs[<<"deposit", s>>].status \in {"absent", "done"}

\* A transfer of the order's assets that was credited is not sent back, and goes on to be saved.
CreditedInv ==
  Calm => \A s \in Transfers : Deposits[s] \in Assets /\ Credited(s) =>
    /\ bounced[s] = 0
    /\ \/ At(<<"deposit", s>>, "save") \/ At(<<"deposit", s>>, "queue")
       \/ jobs[<<"deposit", s>>].status = "done"

SavedOf(a) == {s \in Saved : Deposits[s] = a /\ Credited(s)}

\* No state of the payment counts more than was saved.
PaidInv ==
  Calm => \A a \in Assets :
    /\ payment # None => payment.paid[a] <= Cardinality(SavedOf(a))
    /\ \A j \in Jobs : task[j].read # None => task[j].read.paid[a] <= Cardinality(SavedOf(a))

Complete(p) == p # None /\ HasAssets(p) /\ HasFee(p)

\* An order is refused only as long as it has not been accepted.
PhaseInv ==
  Calm =>
    /\ jobs[withdraw].status # "absent" => Complete(payment)
    /\ Active(check) /\ task[check].pc \in {"accept", "save", "queue"} =>
         Complete(payment) /\ Complete(task[check].read)
    /\ Active(check) /\ task[check].pc \in {"refuse", "refund", "transfer"} =>
         jobs[withdraw].status = "absent"

\* What was transferred back or withdrawn had its debit.
OutflowInv ==
  Calm =>
    /\ returned["other"] = 0
    /\ \A a \in Assets :
         /\ Booked("refund", a) - Booked("refund-compensation", a) + Booked("withdraw", a) <= Credits(a)
         /\ returned[a] <= Booked("refund", a) - Booked("refund-compensation", a)
         /\ At(check, "transfer") /\ task[check].role = a =>
              /\ task[check].debited /\ returned[a] = 0
              /\ Booked("refund-compensation", a) = 0

Compensations == {"refund-compensation", "withdraw-compensation"}

\* Without faults every debit was followed by its transfer, or will be next.
DebitInv ==
  seen = {} =>
    /\ \A k \in ledger.keys : k.what \notin Compensations
    /\ \A a \in Assets :
         (At(check, "transfer") /\ task[check].role = a) \/ returned[a] = Booked("refund", a)
    /\ \A r \in Roles :
         (At(withdraw, "send") /\ task[withdraw].role = r) \/ sent[r] = Booked("withdraw", r)

FundingInv ==
  /\ Types /\ TriesInv /\ DepositInv /\ CheckInv /\ WithdrawInv /\ ChainInv
  /\ KeysInv /\ FundsInv /\ MadeInv /\ UnitsInv
  /\ IntakeInv /\ CreditedInv /\ PaidInv /\ PhaseInv /\ OutflowInv /\ DebitInv

-----------------------------------------------------------------------------
(* Jobs, transfers and keys. *)

\* The transfers are numbered, and finitely many.
LEMMA TransferFacts ==
  ASSUME setup \in Setups
  PROVE  /\ IsFiniteSet(Transfers) /\ Cardinality(Transfers) \in Nat
         /\ Transfers = 1..Cardinality(Transfers)
         /\ \A s \in Transfers : Deposits[s] \in Currencies
         /\ setup.requiredFee \in Nat /\ setup.maxFaults \in Nat /\ setup.faults \subseteq Kinds
<1>1. IsFiniteSet(Transfers) /\ Transfers = 1..Cardinality(Transfers)
  BY FundingAssumption DEF Transfers, Deposits
<1>2. Cardinality(Transfers) \in Nat
  BY <1>1, FS_CardinalityType
<1> QED BY <1>1, <1>2, FundingAssumption DEF Transfers, Deposits

\* The jobs there are.
LEMMA JobFacts ==
  /\ check \in Jobs /\ withdraw \in Jobs /\ start \in Jobs
  /\ <<"monitor", 0>> \in Jobs /\ <<"confirm", 0>> \in Jobs /\ <<"join", 0>> \in Jobs
  /\ \A s \in Transfers : <<"intake", s>> \in Jobs /\ <<"deposit", s>> \in Jobs
BY DEF Jobs, check, withdraw, start

\* What queueing a job does to the queues.
LEMMA AddedFacts ==
  ASSUME NEW js \in [Jobs -> Job], NEW j \in Jobs
  PROVE  /\ Added(js, j) \in [Jobs -> Job]
         /\ \A i \in Jobs : i # j => Added(js, j)[i] = js[i]
         /\ js[j].status # "absent" => Added(js, j) = js
         /\ js[j].status = "absent" => Added(js, j)[j] = [status |-> "waiting", tries |-> 0]
BY FundingAssumption DEF Added, Job

\* What ending a job does to the queues.
LEMMA FinishedFacts ==
  ASSUME NEW js \in [Jobs -> Job], NEW j \in Jobs
  PROVE  /\ Finished(js, j) \in [Jobs -> Job]
         /\ \A i \in Jobs : i # j => Finished(js, j)[i] = js[i]
         /\ Finished(js, j)[j] = [status |-> IF Removed(j) THEN "absent" ELSE "done", tries |-> 0]
BY FundingAssumption DEF Finished, Job

\* A job that has ended does not run any more.
LEMMA FinishedStatus ==
  ASSUME NEW js \in [Jobs -> Job], NEW j \in Jobs
  PROVE  /\ Finished(js, j)[j].status \in {"absent", "done"}
         /\ ~Removed(j) => Finished(js, j)[j].status = "done"
<1>1. Finished(js, j)[j].status = IF Removed(j) THEN "absent" ELSE "done"
  BY DEF Finished
<1> QED BY <1>1

\* What a throwing handler does to the queues.
LEMMA ThrownFacts ==
  ASSUME NEW js \in [Jobs -> Job], NEW j \in Jobs, js[j].tries < MaxAttempts
  PROVE  /\ Thrown(js, j) \in [Jobs -> Job]
         /\ \A i \in Jobs : i # j => Thrown(js, j)[i] = js[i]
         /\ Thrown(js, j)[j].tries = js[j].tries + 1
         /\ Thrown(js, j)[j].status = IF js[j].tries + 1 < MaxAttempts THEN "waiting"
                                      ELSE IF j[1] = "check" THEN "absent" ELSE "failed"
<1>1. js[j] \in Job /\ js[j].tries + 1 \in 0..MaxAttempts
  BY FundingAssumption DEF Job
<1> DEFINE st == IF js[j].tries + 1 < MaxAttempts THEN "waiting"
                 ELSE IF j[1] = "check" THEN "absent" ELSE "failed"
<1>2. st \in {"waiting", "absent", "failed"}
  OBVIOUS
<1>3. Thrown(js, j) = [js EXCEPT ![j] = [status |-> st, tries |-> js[j].tries + 1]]
  <2>1. Thrown(js, j) = [js EXCEPT ![j].tries = @ + 1, ![j].status = st]
    BY DEF Thrown
  <2> HIDE DEF st
  <2>2. [js EXCEPT ![j].tries = @ + 1, ![j].status = st]
          = [js EXCEPT ![j] = [[js[j] EXCEPT !.tries = @ + 1] EXCEPT !.status = st]]
    BY <1>1
  <2>3. [[js[j] EXCEPT !.tries = @ + 1] EXCEPT !.status = st] = [status |-> st, tries |-> js[j].tries + 1]
    <3>1. [js[j] EXCEPT !.tries = @ + 1] = [status |-> js[j].status, tries |-> js[j].tries + 1]
      BY DEF Job
    <3>2. \A a, b : [[status |-> a, tries |-> b] EXCEPT !.status = st] = [status |-> st, tries |-> b]
      OBVIOUS
    <3> DEFINE old == [js[j] EXCEPT !.tries = @ + 1]
    <3>3. old = [status |-> js[j].status, tries |-> js[j].tries + 1]
      BY <3>1
    <3> HIDE DEF old
    <3>4. [old EXCEPT !.status = st] = [status |-> st, tries |-> js[j].tries + 1]
      BY <3>2, <3>3
    <3> QED BY <3>4 DEF old
  <2> QED BY <2>1, <2>2, <2>3
<1> HIDE DEF st
<1>4. [status |-> st, tries |-> js[j].tries + 1] \in Job
  BY <1>1, <1>2 DEF Job
<1>5. Thrown(js, j)[j].status = st
  BY <1>3
<1>6. st = IF js[j].tries + 1 < MaxAttempts THEN "waiting"
           ELSE IF j[1] = "check" THEN "absent" ELSE "failed"
  BY DEF st
<1>7. Thrown(js, j)[j].tries = js[j].tries + 1 /\ Thrown(js, j) \in [Jobs -> Job]
      /\ \A i \in Jobs : i # j => Thrown(js, j)[i] = js[i]
  BY <1>3, <1>4
<1> QED BY <1>5, <1>6, <1>7

\* A key is named by its parts.
LEMMA KeyFacts ==
  /\ \A w, s, a, n, w2, s2, a2, n2 : LedgerKey(w, s, a, n) = LedgerKey(w2, s2, a2, n2) <=>
       w = w2 /\ s = s2 /\ a = a2 /\ n = n2
  /\ \A k \in Key : k = LedgerKey(k.what, k.snapshot, k.asset, k.amount)
  /\ \A w \in Commands, s \in Nat, a \in Currencies, n \in Nat : LedgerKey(w, s, a, n) \in Key
BY DEF LedgerKey, Key

\* One key per command and asset.
Single(ks) == \A k, l \in ks : k.what # "credit" /\ k.what = l.what /\ k.asset = l.asset => k = l

\* The amount booked for a command is that of its key, or none.
LEMMA BookedFacts ==
  ASSUME NEW ks \in SUBSET Key, Single(ks), NEW w \in Commands \ {"credit"}, NEW a \in Currencies
  PROVE  /\ BookedIn(ks, w, a) \in Nat
         /\ \A n \in Nat : LedgerKey(w, 0, a, n) \in ks => BookedIn(ks, w, a) = n
         /\ BookedIn(ks, w, a) # 0 => LedgerKey(w, 0, a, BookedIn(ks, w, a)) \in ks
<1>1. ASSUME NEW n \in Nat, LedgerKey(w, 0, a, n) \in ks,
             NEW m \in Nat, LedgerKey(w, 0, a, m) \in ks
      PROVE  m = n
  BY <1>1 DEF Single, LedgerKey
<1>2. CASE \E n \in Nat : LedgerKey(w, 0, a, n) \in ks
  BY <1>1, <1>2 DEF BookedIn
<1>3. CASE ~ \E n \in Nat : LedgerKey(w, 0, a, n) \in ks
  BY <1>3 DEF BookedIn
<1> QED BY <1>2, <1>3

\* A new key books its amount and leaves what the others booked.
LEMMA BookedAdded ==
  ASSUME NEW ks \in SUBSET Key, Single(ks), NEW w \in Commands, NEW s \in Nat,
         NEW a \in Currencies, NEW n \in Nat,
         w = "credit" \/ (s = 0 /\ \A m \in Nat : LedgerKey(w, 0, a, m) \notin ks),
         NEW v \in Commands \ {"credit"}, NEW b \in Currencies
  PROVE  BookedIn(ks \cup {LedgerKey(w, s, a, n)}, v, b) =
           IF v = w /\ b = a THEN n ELSE BookedIn(ks, v, b)
<1> DEFINE ls == ks \cup {LedgerKey(w, s, a, n)}
<1>1. CASE v = w /\ b = a
  <2>1. \A m \in Nat : LedgerKey(v, 0, b, m) \in ls <=> m = n
    BY <1>1, KeyFacts
  <2> QED BY <1>1, <2>1 DEF BookedIn
<1>2. CASE ~(v = w /\ b = a)
  <2>1. \A m \in Nat : LedgerKey(v, 0, b, m) \in ls <=> LedgerKey(v, 0, b, m) \in ks
    BY <1>2, KeyFacts
  <2>2. (CHOOSE m \in Nat : LedgerKey(v, 0, b, m) \in ls) = (CHOOSE m \in Nat : LedgerKey(v, 0, b, m) \in ks)
    BY <2>1
  <2> QED BY <1>2, <2>1, <2>2 DEF BookedIn
<1> QED BY <1>1, <1>2
-----------------------------------------------------------------------------
(* The types are kept. *)

Same == setup' = setup /\ Transfers' = Transfers /\ Deposits' = Deposits /\ Jobs' = Jobs

\* The transfers and the jobs are those of the setup.
LEMMA SetupSame ==
  ASSUME [Next]_vars
  PROVE  Same
<1>1. setup' = setup
  BY DEF Next, DepositJob, CheckJob, WithdrawJob, StartJob, vars, clock,
     UserPays, TimePasses, PollFetch, PollQueue, Intake, DepositRead, DepositCredit, DepositSave, DepositQueue, DepositRefund,
     CheckRead, CheckRefuse, CheckRefundDebit, CheckRefundTransfer, CheckAccept, CheckSave, CheckQueue, WithdrawRead, WithdrawDebit, WithdrawSend, WithdrawQueue, WithdrawFail,
     WithdrawalMoves, Monitor, Confirm, Join, StartMark, StartLaunch, HandlerThrows, Crash
<1> QED BY <1>1 DEF Same, Transfers, Deposits, Jobs

\* Starting a job gives it its handler.
LEMMA StartsFacts ==
  ASSUME JobTypes, NEW j \in Jobs, NEW t \in Held, Starts(j, t)
  PROVE  /\ jobs' \in [Jobs -> Job] /\ task' \in [Jobs -> Held]
         /\ jobs[j].status = "waiting" /\ jobs'[j] = [status |-> "active", tries |-> jobs[j].tries]
         /\ task'[j] = t
         /\ \A i \in Jobs : i # j => jobs'[i] = jobs[i] /\ task'[i] = task[i]
BY DEF JobTypes, Starts, Job

\* Where a handler goes next.
LEMMA GotoFacts ==
  ASSUME JobTypes, NEW j \in Jobs, NEW pc \in Places, Goto(j, pc)
  PROVE  /\ jobs' = jobs /\ task' \in [Jobs -> Held]
         /\ task'[j].pc = pc /\ task'[j].read = task[j].read
         /\ task'[j].role = task[j].role /\ task'[j].debited = task[j].debited
         /\ \A i \in Jobs : i # j => task'[i] = task[i]
BY DEF JobTypes, Goto, Held

\* What a handler leaves behind.
LEMMA EndsFacts ==
  ASSUME JobTypes, NEW j \in Jobs, NEW js \in [Jobs -> Job], Ends(j, js)
  PROVE  /\ jobs' = js /\ task' \in [Jobs -> Held] /\ task'[j] = Idle
         /\ \A i \in Jobs : i # j => task'[i] = task[i]
<1>1. Idle \in Held
  BY DEF Idle, Held, Places
<1> QED BY <1>1 DEF JobTypes, Ends
\* The queues and what the handlers hold keep their types.
LEMMA JobTypesKept ==
  ASSUME Types, TriesInv, CheckInv, Next
  PROVE  JobTypes'
<1>0. Same
  BY SetupSame
<1> SUFFICES jobs' \in [Jobs -> Job] /\ task' \in [Jobs -> Held]
  BY <1>0 DEF JobTypes, Same
<1> USE DEF Types
<1>1. CASE UserPays
  BY <1>1 DEF UserPays, JobTypes, clock, rows, mixin, intake
<1>2. CASE TimePasses
  BY <1>2 DEF TimePasses, JobTypes, clock, rows, mixin, intake
<1>3. CASE PollFetch
  BY <1>3 DEF PollFetch, JobTypes, clock, rows, mixin, intake
<1>4. CASE PollQueue
  <2>1. \A s \in Transfers : Added(jobs, <<"intake", s>>)[<<"intake", s>>] \in Job
    <3>1. ASSUME NEW s \in Transfers PROVE Added(jobs, <<"intake", s>>) \in [Jobs -> Job]
      BY JobFacts, AddedFacts DEF JobTypes
    <3> QED BY <3>1, JobFacts
  <2>2. \A j \in Jobs : j[1] = "intake" => j = <<"intake", j[2]>> /\ j[2] \in Transfers
    BY DEF Jobs
  <2>3. \A j \in Jobs : jobs[j] \in Job
    BY DEF JobTypes
  <2> QED BY <1>4, <2>1, <2>2, <2>3 DEF PollQueue, JobTypes
<1>5. ASSUME NEW s \in Transfers, Intake(s) PROVE jobs' \in [Jobs -> Job] /\ task' \in [Jobs -> Held]
  <2>1. Finished(jobs, <<"intake", s>>) \in [Jobs -> Job]
    BY <1>5, JobFacts, FinishedFacts DEF JobTypes
  <2>2. Added(Finished(jobs, <<"intake", s>>), <<"deposit", s>>) \in [Jobs -> Job]
    BY <1>5, <2>1, JobFacts, AddedFacts
  <2> QED BY <1>5, <2>1, <2>2 DEF Intake, JobTypes
<1>6. ASSUME NEW s \in Transfers, DepositRead(s) PROVE jobs' \in [Jobs -> Job] /\ task' \in [Jobs -> Held]
  <2>1. [Idle EXCEPT !.pc = "credit", !.read = payment] \in Held
    BY NoneAssumption DEF Idle, Held, Places, Types, Assets, Roles
  <2>2. [Idle EXCEPT !.pc = "refund"] \in Held
    BY NoneAssumption DEF Idle, Held, Places, Types, Assets, Roles
  <2>3. \E t \in Held : Starts(<<"deposit", s>>, t)
    BY <1>6, <2>1, <2>2 DEF DepositRead
  <2> QED BY <2>3, JobFacts, StartsFacts
<1>7. ASSUME NEW s \in Transfers, DepositCredit(s) PROVE jobs' \in [Jobs -> Job] /\ task' \in [Jobs -> Held]
  <2>1. \E pc \in Places : Goto(<<"deposit", s>>, pc)
    BY <1>7 DEF DepositCredit, Places
  <2> QED BY <1>7, <2>1, JobFacts, GotoFacts DEF JobTypes
<1>8. ASSUME NEW s \in Transfers, DepositSave(s) PROVE jobs' \in [Jobs -> Job] /\ task' \in [Jobs -> Held]
  <2>1. \E pc \in Places : Goto(<<"deposit", s>>, pc)
    BY <1>8 DEF DepositSave, Places
  <2> QED BY <1>8, <2>1, JobFacts, GotoFacts DEF JobTypes
<1>9. ASSUME NEW s \in Transfers, DepositQueue(s) PROVE jobs' \in [Jobs -> Job] /\ task' \in [Jobs -> Held]
  <2>1. Finished(jobs, <<"deposit", s>>) \in [Jobs -> Job]
    BY <1>9, JobFacts, FinishedFacts DEF JobTypes
  <2>2. Added(Finished(jobs, <<"deposit", s>>), <<"check", 0>>) \in [Jobs -> Job]
    BY <2>1, JobFacts, AddedFacts DEF check
  <2> QED BY <1>9, <2>2, JobFacts, EndsFacts DEF DepositQueue, JobTypes, check
<1>10. ASSUME NEW s \in Transfers, DepositRefund(s) PROVE jobs' \in [Jobs -> Job] /\ task' \in [Jobs -> Held]
  <2>1. Finished(jobs, <<"deposit", s>>) \in [Jobs -> Job]
    BY <1>10, JobFacts, FinishedFacts DEF JobTypes
  <2>2. jobs[<<"deposit", s>>].status = "active"
    BY <1>10 DEF DepositRefund, At
  <2>3. Thrown(jobs, <<"deposit", s>>) \in [Jobs -> Job]
    BY <2>2, JobFacts, ThrownFacts DEF JobTypes, TriesInv, Lasting, At, Active
  <2> QED BY ZenonT(30), <1>10, <2>1, <2>3, JobFacts, EndsFacts DEF DepositRefund, JobTypes
<1>11. CASE CheckRead
  <2>1. [Idle EXCEPT !.pc = "refuse", !.read = payment] \in Held
    BY NoneAssumption DEF Idle, Held, Places, Types, Assets, Roles
  <2>2. [Idle EXCEPT !.pc = "accept", !.read = payment] \in Held
    BY NoneAssumption DEF Idle, Held, Places, Types, Assets, Roles
  <2>3. \E t \in Held : Starts(check, t)
    BY <1>11, <2>1, <2>2 DEF CheckRead
  <2> QED BY <2>3, JobFacts, StartsFacts
<1>12. CASE CheckRefuse
  <2>1. \E pc \in Places : Goto(check, pc)
    BY <1>12 DEF CheckRefuse, Places
  <2> QED BY <1>12, <2>1, JobFacts, GotoFacts DEF JobTypes
<1>13. CASE CheckRefundDebit
  <2>1. task[check] \in Held /\ task[check].read \in NatPayment
    BY <1>13, JobFacts DEF CheckRefundDebit, At, CheckInv, Active, JobTypes
  <2>2. NextAsset \in Assets
    BY DEF NextAsset, Assets, Roles
  <2>3. [task EXCEPT ![check].read.paid[NextAsset] = 0] \in [Jobs -> Held]
    <3>1. [task[check].read.paid EXCEPT ![NextAsset] = 0] \in [Currencies -> Nat]
      BY <2>1 DEF NatPayment
    <3>2. [task[check].read EXCEPT !.paid[NextAsset] = 0] \in NatPayment
      BY <2>1, <3>1 DEF NatPayment
    <3>3. [task[check] EXCEPT !.read.paid[NextAsset] = 0] \in Held
      BY <2>1, <3>2 DEF Held
    <3> QED BY <3>3 DEF JobTypes
  <2>4. \A a \in Assets, d \in BOOLEAN :
          [task EXCEPT ![check].pc = "transfer", ![check].role = a, ![check].debited = d] \in [Jobs -> Held]
    BY <2>1, JobFacts DEF Held, Places, JobTypes
  <2>5. Finished(jobs, check) \in [Jobs -> Job]
    BY JobFacts, FinishedFacts DEF JobTypes
  <2>6. Thrown(jobs, check) \in [Jobs -> Job]
    BY <1>13, JobFacts, ThrownFacts DEF CheckRefundDebit, At, JobTypes, TriesInv, Lasting
  <2>7. \A a, n : Covers(a, n) \in BOOLEAN
    BY DEF Covers
  <2>8. CASE Ends(check, Finished(jobs, check))
    BY <2>5, <2>8, JobFacts, EndsFacts
  <2>9. CASE Ends(check, Thrown(jobs, check))
    BY <2>6, <2>9, JobFacts, EndsFacts
  <2>10. CASE UNCHANGED jobs /\ task' = [task EXCEPT ![check].read.paid[NextAsset] = 0]
    BY <2>3, <2>10 DEF JobTypes
  <2>11. CASE UNCHANGED jobs /\ \E d \in BOOLEAN :
                task' = [task EXCEPT ![check].pc = "transfer", ![check].role = NextAsset, ![check].debited = d]
    <3>1. PICK d \in BOOLEAN :
            task' = [task EXCEPT ![check].pc = "transfer", ![check].role = NextAsset, ![check].debited = d]
      BY <2>11
    <3>2. task' \in [Jobs -> Held]
      BY <2>2, <2>4, <3>1
    <3> QED BY <2>11, <3>2 DEF JobTypes
  <2> DEFINE d == Covers(NextAsset, task[check].read.paid[NextAsset])
  <2>12. \/ Ends(check, Finished(jobs, check)) \/ Ends(check, Thrown(jobs, check))
         \/ UNCHANGED jobs /\ task' = [task EXCEPT ![check].read.paid[NextAsset] = 0]
         \/ UNCHANGED jobs /\ task' = [task EXCEPT ![check].pc = "transfer", ![check].role = NextAsset,
                                                   ![check].debited = d]
    BY <1>13 DEF CheckRefundDebit
  <2> QED BY <2>7, <2>8, <2>9, <2>10, <2>11, <2>12
<1>14. CASE CheckRefundTransfer
  <2>1. task[check] \in Held /\ task[check].read \in NatPayment
    BY <1>14, JobFacts DEF CheckRefundTransfer, At, CheckInv, Active, JobTypes
  <2>2. [task EXCEPT ![check].pc = "refund", ![check].read.paid[task[check].role] = 0] \in [Jobs -> Held]
    <3>1. [task[check].read.paid EXCEPT ![task[check].role] = 0] \in [Currencies -> Nat]
      BY <2>1 DEF NatPayment
    <3>2. [task[check].read EXCEPT !.paid[task[check].role] = 0] \in NatPayment
      BY <2>1, <3>1 DEF NatPayment
    <3>3. [task[check] EXCEPT !.pc = "refund", !.read.paid[task[check].role] = 0] \in Held
      BY <2>1, <3>2 DEF Held, Places
    <3> QED BY <3>3 DEF JobTypes
  <2>3. Thrown(jobs, check) \in [Jobs -> Job]
    BY <1>14, JobFacts, ThrownFacts DEF CheckRefundTransfer, At, JobTypes, TriesInv, Lasting
  <2> QED BY <1>14, <2>2, <2>3, JobFacts, EndsFacts DEF CheckRefundTransfer, JobTypes
<1>15. CASE CheckAccept
  <2>1. \E pc \in Places : Goto(check, pc)
    BY <1>15 DEF CheckAccept, Places
  <2> QED BY <1>15, <2>1, JobFacts, GotoFacts DEF JobTypes
<1>16. CASE CheckSave
  <2>1. \E pc \in Places : Goto(check, pc)
    BY <1>16 DEF CheckSave, Places
  <2> QED BY <1>16, <2>1, JobFacts, GotoFacts DEF JobTypes
<1>17. CASE CheckQueue
  <2>1. Finished(jobs, check) \in [Jobs -> Job]
    BY <1>17, JobFacts, FinishedFacts DEF JobTypes
  <2>2. Added(Finished(jobs, check), <<"withdraw", 0>>) \in [Jobs -> Job]
    BY <2>1, JobFacts, AddedFacts DEF withdraw
  <2> QED BY <1>17, <2>2, JobFacts, EndsFacts DEF CheckQueue, JobTypes, withdraw
<1>18. CASE WithdrawRead
  <2>1. [Idle EXCEPT !.pc = "debit", !.read = payment, !.role = "base"] \in Held
    BY NoneAssumption DEF Idle, Held, Places, Types, Assets, Roles
  <2>2. [Idle EXCEPT !.pc = "fail"] \in Held
    BY NoneAssumption DEF Idle, Held, Places, Types, Assets, Roles
  <2>3. \E t \in Held : Starts(withdraw, t)
    BY <1>18, <2>1, <2>2 DEF WithdrawRead
  <2> QED BY <2>3, JobFacts, StartsFacts
<1>19. CASE WithdrawDebit
  <2>1. task[withdraw] \in Held
    BY JobFacts DEF JobTypes
  <2>2. \A pc \in Places, d \in BOOLEAN :
          [task EXCEPT ![withdraw].pc = pc, ![withdraw].debited = d] \in [Jobs -> Held]
    BY <2>1, JobFacts DEF Held, JobTypes
  <2>3. \A pc \in Places : [task EXCEPT ![withdraw].pc = pc] \in [Jobs -> Held]
    BY <2>1, JobFacts DEF Held, JobTypes
  <2>4. "send" \in Places /\ "fail" \in Places
    BY DEF Places
  <2> QED BY <1>19, <2>2, <2>3, <2>4 DEF WithdrawDebit, JobTypes
<1>20. CASE WithdrawSend
  <2>1. task[withdraw] \in Held
    BY JobFacts DEF JobTypes
  <2>2. \A pc \in Places, r \in Roles :
          [task EXCEPT ![withdraw].pc = pc, ![withdraw].role = r] \in [Jobs -> Held]
    BY <2>1, JobFacts DEF Held, JobTypes, Assets
  <2>3. \A pc \in Places : [task EXCEPT ![withdraw].pc = pc] \in [Jobs -> Held]
    BY <2>1, JobFacts DEF Held, JobTypes
  <2>4. "debit" \in Places /\ "queue" \in Places /\ "fail" \in Places /\ "quote" \in Roles
    BY DEF Places, Roles
  <2> QED BY <1>20, <2>2, <2>3, <2>4 DEF WithdrawSend, JobTypes
<1>21. CASE WithdrawQueue
  <2>1. Finished(jobs, withdraw) \in [Jobs -> Job]
    BY <1>21, JobFacts, FinishedFacts DEF JobTypes
  <2>2. Added(Finished(jobs, withdraw), <<"monitor", 0>>) \in [Jobs -> Job]
    BY <2>1, JobFacts, AddedFacts
  <2> QED BY <1>21, <2>2, JobFacts, EndsFacts DEF WithdrawQueue, JobTypes
<1>22. CASE WithdrawFail
  <2>2. jobs[withdraw].status = "active"
    BY <1>22 DEF WithdrawFail, At
  <2>3. Thrown(jobs, withdraw) \in [Jobs -> Job]
    BY <2>2, JobFacts, ThrownFacts DEF JobTypes, TriesInv, Lasting, At, Active
  <2> QED BY <1>22, <2>3, JobFacts, EndsFacts DEF WithdrawFail, JobTypes
<1>23. CASE WithdrawalMoves
  BY <1>23 DEF WithdrawalMoves, JobTypes, clock, rows, mixin, intake
<1>24. CASE Monitor
  <2>1. Finished(jobs, <<"monitor", 0>>) \in [Jobs -> Job]
    BY JobFacts, FinishedFacts DEF JobTypes
  <2>2. Added(Finished(jobs, <<"monitor", 0>>), <<"confirm", 0>>) \in [Jobs -> Job]
    BY <2>1, JobFacts, AddedFacts DEF start
  <2>3. [jobs EXCEPT ![<<"monitor", 0>>].status = "failed"] \in [Jobs -> Job]
    BY DEF JobTypes, Job
  <2> QED BY <1>24, <2>1, <2>2, <2>3 DEF Monitor, JobTypes
<1>25. CASE Confirm
  <2>1. Finished(jobs, <<"confirm", 0>>) \in [Jobs -> Job]
    BY JobFacts, FinishedFacts DEF JobTypes
  <2>2. Added(Finished(jobs, <<"confirm", 0>>), <<"join", 0>>) \in [Jobs -> Job]
    BY <2>1, JobFacts, AddedFacts DEF start
  <2>3. [jobs EXCEPT ![<<"confirm", 0>>].status = "failed"] \in [Jobs -> Job]
    BY DEF JobTypes, Job
  <2> QED BY <1>25, <2>1, <2>2, <2>3 DEF Confirm, JobTypes
<1>26. CASE Join
  <2>1. Finished(jobs, <<"join", 0>>) \in [Jobs -> Job]
    BY JobFacts, FinishedFacts DEF JobTypes
  <2>2. Added(Finished(jobs, <<"join", 0>>), <<"start", 0>>) \in [Jobs -> Job]
    BY <2>1, JobFacts, AddedFacts DEF start
  <2>3. [jobs EXCEPT ![<<"join", 0>>].status = "failed"] \in [Jobs -> Job]
    BY DEF JobTypes, Job
  <2> QED BY <1>26, <2>1, <2>2, <2>3 DEF Join, JobTypes
<1>27. CASE StartMark
  <2>1. [Idle EXCEPT !.pc = "launch"] \in Held
    BY NoneAssumption DEF Idle, Held, Places, Types, Assets, Roles
  <2>2. \E t \in Held : Starts(start, t)
    BY <1>27, <2>1 DEF StartMark
  <2> QED BY <2>2, JobFacts, StartsFacts
<1>28. CASE StartLaunch
  <2>1. Finished(jobs, start) \in [Jobs -> Job]
    BY <1>28, JobFacts, FinishedFacts DEF JobTypes
  <2>2. jobs[start].status = "active"
    BY <1>28 DEF StartLaunch, At
  <2>3. Thrown(jobs, start) \in [Jobs -> Job]
    BY <2>2, JobFacts, ThrownFacts DEF JobTypes, TriesInv, Lasting, At, Active
  <2> QED BY <1>28, <2>1, <2>3, JobFacts, EndsFacts DEF StartLaunch, JobTypes
<1>29. CASE HandlerThrows
  <2>1. PICK j \in Jobs : jobs[j].status = "active" /\ Ends(j, Thrown(jobs, j))
    BY <1>29 DEF HandlerThrows
  <2>2. Thrown(jobs, j) \in [Jobs -> Job]
    BY <2>1, ThrownFacts DEF JobTypes, TriesInv, Lasting
  <2> QED BY <2>1, <2>2, EndsFacts DEF JobTypes
<1>30. CASE Crash
  <2>1. Idle \in Held
    BY DEF Idle, Held, Places
  <2>2. \A j \in Jobs : [jobs[j] EXCEPT !.status = "waiting"] \in Job
    BY DEF JobTypes, Job
  <2> QED BY <1>30, <2>1, <2>2 DEF Crash, JobTypes
<1> QED BY <1>1, <1>2, <1>3, <1>4, <1>5, <1>6, <1>7, <1>8, <1>9, <1>10, <1>11, <1>12, <1>13, <1>14, <1>15, <1>16, <1>17, <1>18, <1>19, <1>20, <1>21, <1>22, <1>23, <1>24, <1>25, <1>26, <1>27, <1>28, <1>29, <1>30 DEF Next, DepositJob, CheckJob, WithdrawJob, StartJob
\* A fault is one of the setup's, and one more of at most maxFaults.
LEMMA FaultFacts ==
  ASSUME Types, Next
  PROVE  /\ seen \subseteq seen' /\ seen' \subseteq Kinds \cup {"stale"}
         /\ faults' \in {faults, faults + 1} /\ faults' <= setup.maxFaults
         /\ strategy' \in {"idle", "running"} /\ overdue' \in BOOLEAN /\ timedOut' \in BOOLEAN
<1> DEFINE Kept == /\ seen \subseteq seen' /\ seen' \subseteq Kinds \cup {"stale"}
                   /\ faults' \in {faults, faults + 1} /\ faults' <= setup.maxFaults
           Others == /\ strategy' \in {"idle", "running"}
                     /\ overdue' \in BOOLEAN /\ timedOut' \in BOOLEAN
<1>0. faults \in Nat /\ setup.maxFaults \in Nat /\ faults <= setup.maxFaults
      /\ setup.faults \subseteq Kinds /\ seen \subseteq Kinds \cup {"stale"}
  BY TransferFacts DEF Types
<1>1. ASSUME NEW kind, Fault(kind) PROVE Kept
  BY <1>0, <1>1 DEF Fault
<1>2. ASSUME NoFault \/ UNCHANGED <<seen, faults>> PROVE Kept
  BY <1>0, <1>2 DEF NoFault
<1>3. ASSUME NEW j, Overwrites(j) PROVE Kept
  BY <1>0, <1>3 DEF Overwrites
<1>4. (\E kind : Fault(kind)) \/ NoFault \/ UNCHANGED <<seen, faults>> \/ \E j : Overwrites(j)
  BY DEF Next, DepositJob, CheckJob, WithdrawJob, StartJob,
     UserPays, TimePasses, PollFetch, PollQueue, Intake, DepositRead, DepositCredit, DepositSave, DepositQueue, DepositRefund,
     CheckRead, CheckRefuse, CheckRefundDebit, CheckRefundTransfer, CheckAccept, CheckSave, CheckQueue, WithdrawRead, WithdrawDebit, WithdrawSend, WithdrawQueue, WithdrawFail,
     WithdrawalMoves, Monitor, Confirm, Join, StartMark, StartLaunch, HandlerThrows, Crash
<1>5. Others
  BY ZenonT(30) DEF Types, Next, DepositJob, CheckJob, WithdrawJob, StartJob, clock,
     UserPays, TimePasses, PollFetch, PollQueue, Intake, DepositRead, DepositCredit, DepositSave, DepositQueue, DepositRefund,
     CheckRead, CheckRefuse, CheckRefundDebit, CheckRefundTransfer, CheckAccept, CheckSave, CheckQueue, WithdrawRead, WithdrawDebit, WithdrawSend, WithdrawQueue, WithdrawFail,
     WithdrawalMoves, Monitor, Confirm, Join, StartMark, StartLaunch, HandlerThrows, Crash
<1> QED BY <1>1, <1>2, <1>3, <1>4, <1>5

\* The poll never fetches what was not made.
LEMMA PollFacts ==
  ASSUME Types, Next
  PROVE  /\ made' \in Nat /\ made <= made' /\ made' <= Cardinality(Transfers)
         /\ cursor' \in Nat /\ cursor <= cursor' /\ cursor' <= made' /\ fetched' \subseteq 1..cursor'
<1>0. Cardinality(Transfers) \in Nat
  BY TransferFacts DEF Types
<1>1. CASE UserPays
  BY <1>0, <1>1 DEF UserPays, Types
<1>2. CASE PollFetch
  BY <1>2 DEF PollFetch, Types
<1>3. CASE PollQueue
  BY <1>3 DEF PollQueue, Types
<1>4. CASE Crash
  BY <1>4 DEF Crash, Types
<1>5. CASE UNCHANGED intake
  BY <1>5 DEF intake, Types
<1>6. UNCHANGED intake \/ UserPays \/ PollFetch \/ PollQueue \/ Crash
  BY DEF Next, DepositJob, CheckJob, WithdrawJob, StartJob,
     TimePasses, Intake, DepositRead, DepositCredit, DepositSave, DepositQueue, DepositRefund,
     CheckRead, CheckRefuse, CheckRefundDebit, CheckRefundTransfer, CheckAccept, CheckSave, CheckQueue, WithdrawRead, WithdrawDebit, WithdrawSend, WithdrawQueue, WithdrawFail,
     WithdrawalMoves, Monitor, Confirm, Join, StartMark, StartLaunch, HandlerThrows
<1> QED BY <1>1, <1>2, <1>3, <1>4, <1>5, <1>6
\* What a command does to the order's buckets.
LEMMA LedgerFacts ==
  ASSUME ledger \in Ledgers, NEW w \in Commands, NEW s \in Nat, NEW a \in Currencies, NEW n \in Nat
  PROVE  /\ Credit(w, s, a, n) \in Ledgers /\ Debit(w, a, n) \in Ledgers
         /\ ledger.keys \subseteq Credit(w, s, a, n).keys /\ ledger.keys \subseteq Debit(w, a, n).keys
         /\ LedgerKey(w, s, a, n) \in Credit(w, s, a, n).keys /\ LedgerKey(w, 0, a, n) \in Debit(w, a, n).keys
         /\ Credit(w, s, a, n).keys = ledger.keys \cup {LedgerKey(w, s, a, n)}
         /\ Debit(w, a, n).keys = ledger.keys \cup {LedgerKey(w, 0, a, n)}
         /\ Debit(w, a, n).funds = [ledger.funds EXCEPT ![a] = @ - n]
         /\ LedgerKey(w, s, a, n) \notin ledger.keys =>
              Credit(w, s, a, n).funds = [ledger.funds EXCEPT ![a] = @ + n]
         /\ LedgerKey(w, s, a, n) \in ledger.keys => Credit(w, s, a, n) = ledger
<1>1. LedgerKey(w, s, a, n) \in Key /\ LedgerKey(w, 0, a, n) \in Key
  BY KeyFacts
<1> QED BY <1>1 DEF Ledgers, Credit, Debit

CreditStep ==
  \E s \in Transfers : /\ DepositCredit(s) /\ At(<<"deposit", s>>, "credit")
                       /\ ledger' = Credit("credit", s, Deposits[s], 1)

RefundStep ==
  /\ CheckRefundDebit /\ At(check, "refund")
  /\ LET a == NextAsset
         n == task[check].read.paid[NextAsset]
     IN  /\ a \in Assets /\ n \in Nat \ {0}
         /\ ~Replay("refund", a, n) /\ ~Conflict("refund", a, n) /\ Covers(a, n)
         /\ ledger' = Debit("refund", a, n)

RefundUndone ==
  /\ CheckRefundTransfer /\ At(check, "transfer") /\ \E kind \in {"reject", "lost"} : Fault(kind)
  /\ LET a == task[check].role
         n == task[check].read.paid[task[check].role]
     IN  /\ a \in Assets /\ n \in Nat \ {0} /\ Has("refund", 0, a, n)
         /\ ledger' = Credit("refund-compensation", 0, a, n)

WithdrawStep ==
  /\ WithdrawDebit /\ At(withdraw, "debit")
  /\ LET r == task[withdraw].role
         n == task[withdraw].read.paid[task[withdraw].role]
     IN  /\ r \in Roles /\ n \in Nat \ {0}
         /\ ~Replay("withdraw", r, n) /\ ~Conflict("withdraw", r, n) /\ Covers(r, n)
         /\ ledger' = Debit("withdraw", r, n)

WithdrawUndone ==
  /\ WithdrawSend /\ At(withdraw, "send") /\ \E kind \in {"reject", "lost"} : Fault(kind)
  /\ LET r == task[withdraw].role
         n == task[withdraw].read.paid[task[withdraw].role]
     IN  /\ r \in Roles /\ n \in Nat \ {0} /\ Has("withdraw", 0, r, n)
         /\ ledger' = Credit("withdraw-compensation", 0, r, n)

\* Who writes to the ledger, and what.
LEMMA LedgerSteps ==
  ASSUME Types, CheckInv, WithdrawInv, KeysInv, Next
  PROVE  \/ UNCHANGED ledger \/ CreditStep \/ RefundStep \/ RefundUndone
         \/ WithdrawStep \/ WithdrawUndone
<1>1. ASSUME NEW s \in Transfers, DepositCredit(s) PROVE CreditStep
  BY <1>1 DEF DepositCredit, CreditStep
<1>2. CASE CheckRefundDebit
  <2>1. CASE UNCHANGED ledger
    BY <2>1
  <2>2. CASE ledger' # ledger
    <3>1. ToRefund # {} /\ At(check, "refund") /\ task[check].read \in NatPayment
      BY <1>2, <2>2 DEF CheckRefundDebit, At, CheckInv, Active
    <3>2. NextAsset \in ToRefund
      BY <3>1 DEF NextAsset, ToRefund, Assets, Roles
    <3>3. NextAsset \in Assets /\ task[check].read.paid[NextAsset] \in Nat \ {0}
      BY <3>1, <3>2 DEF ToRefund, NatPayment, Currencies
    <3> QED BY <1>2, <2>2, <3>1, <3>3 DEF CheckRefundDebit, RefundStep
  <2> QED BY <2>1, <2>2
<1>3. CASE CheckRefundTransfer
  <2>1. CASE UNCHANGED ledger
    BY <2>1
  <2>2. CASE ledger' # ledger
    <3>1. At(check, "transfer") /\ task[check].debited /\ \E kind \in {"reject", "lost"} : Fault(kind)
      BY <1>3, <2>2 DEF CheckRefundTransfer
    <3>2. /\ task[check].role \in Assets /\ task[check].read.paid[task[check].role] \in Nat \ {0}
          /\ Has("refund", 0, task[check].role, task[check].read.paid[task[check].role])
      BY <3>1 DEF At, CheckInv, Active, NatPayment, Currencies
    <3> QED BY <1>3, <2>2, <3>1, <3>2 DEF CheckRefundTransfer, RefundUndone
  <2> QED BY <2>1, <2>2
<1>4. CASE WithdrawDebit
  <2>1. CASE UNCHANGED ledger
    BY <2>1
  <2>2. CASE ledger' # ledger
    <3>1. At(withdraw, "debit") /\ task[withdraw].role \in Roles /\ task[withdraw].read \in NatPayment
      BY <1>4 DEF WithdrawDebit, At, WithdrawInv, Active
    <3>2. task[withdraw].read.paid[task[withdraw].role] \in Nat
      BY <3>1 DEF NatPayment, Currencies, Assets
    <3> QED BY <1>4, <2>2, <3>1, <3>2 DEF WithdrawDebit, WithdrawStep
  <2> QED BY <2>1, <2>2
<1>5. CASE WithdrawSend
  <2>1. CASE UNCHANGED ledger
    BY <2>1
  <2>2. CASE ledger' # ledger
    <3>1. At(withdraw, "send") /\ \E kind \in {"reject", "lost"} : Fault(kind)
      BY <1>5, <2>2 DEF WithdrawSend
    <3>2. /\ task[withdraw].role \in Roles /\ task[withdraw].read.paid[task[withdraw].role] \in Nat
          /\ Has("withdraw", 0, task[withdraw].role, task[withdraw].read.paid[task[withdraw].role])
      BY <3>1 DEF At, WithdrawInv, Active, NatPayment, Currencies, Assets
    <3>3. task[withdraw].read.paid[task[withdraw].role] > 0
      BY <3>2 DEF Has, KeysInv, LedgerKey
    <3>4. ledger' = Credit("withdraw-compensation", 0, task[withdraw].role,
                           task[withdraw].read.paid[task[withdraw].role])
      BY <1>5, <2>2 DEF WithdrawSend
    <3> QED BY <1>5, <3>1, <3>2, <3>3, <3>4 DEF WithdrawUndone
  <2> QED BY <2>1, <2>2
<1>6. \/ UNCHANGED ledger \/ (\E s \in Transfers : DepositCredit(s))
      \/ CheckRefundDebit \/ CheckRefundTransfer \/ WithdrawDebit \/ WithdrawSend
  BY DEF Next, DepositJob, CheckJob, WithdrawJob, StartJob, rows, mixin,
     UserPays, TimePasses, PollFetch, PollQueue, Intake, DepositRead, DepositSave, DepositQueue, DepositRefund,
     CheckRead, CheckRefuse, CheckAccept, CheckSave, CheckQueue, WithdrawRead, WithdrawQueue, WithdrawFail,
     WithdrawalMoves, Monitor, Confirm, Join, StartMark, StartLaunch, HandlerThrows, Crash
<1> QED BY <1>1, <1>2, <1>3, <1>4, <1>5, <1>6

\* The tables keep their types, and no key is forgotten.
LEMMA LedgerTypesKept ==
  ASSUME Types, CheckInv, WithdrawInv, KeysInv, Next
  PROVE  ledger' \in Ledgers /\ ledger.keys \subseteq ledger'.keys
<1>0. /\ ledger \in Ledgers /\ 0 \in Nat /\ Assets \subseteq Currencies /\ Roles \subseteq Assets
      /\ {"credit", "refund", "refund-compensation", "withdraw", "withdraw-compensation"} \subseteq Commands
  BY DEF Types, Currencies, Assets, Commands
<1>1. CASE CreditStep
  <2>1. PICK s \in Transfers : ledger' = Credit("credit", s, Deposits[s], 1)
    BY <1>1 DEF CreditStep
  <2>2. s \in Nat /\ Deposits[s] \in Currencies
    BY TransferFacts DEF Types
  <2>3. Credit("credit", s, Deposits[s], 1) \in Ledgers
    BY <1>0, <2>2, LedgerFacts
  <2>4. ledger.keys \subseteq Credit("credit", s, Deposits[s], 1).keys
    BY <1>0, <2>2, LedgerFacts
  <2> QED BY <2>1, <2>3, <2>4
<1>2. CASE RefundStep
  BY <1>0, <1>2, LedgerFacts DEF RefundStep
<1>3. CASE RefundUndone
  BY <1>0, <1>3, LedgerFacts DEF RefundUndone
<1>4. CASE WithdrawStep
  BY <1>0, <1>4, LedgerFacts DEF WithdrawStep
<1>5. CASE WithdrawUndone
  BY <1>0, <1>5, LedgerFacts DEF WithdrawUndone
<1> QED BY <1>0, <1>1, <1>2, <1>3, <1>4, <1>5, LedgerSteps
\* The order, its intent and its payment keep their types; a payment state, once saved, stays.
LEMMA RowTypesKept ==
  ASSUME Types, DepositInv, CheckInv, Next
  PROVE  /\ intent' \in {"pending", "in_progress", "completed", "expired"}
         /\ order' \in OrderStates \cup {None}
         /\ payment' \in NatPayment \cup {None} /\ (payment # None => payment' # None)
<1>1. intent' \in {"pending", "in_progress", "completed", "expired"}
  BY ZenonT(30) DEF Next, DepositJob, CheckJob, WithdrawJob, StartJob, rows, Types,
     UserPays, TimePasses, PollFetch, PollQueue, Intake, DepositRead, DepositCredit, DepositSave, DepositQueue, DepositRefund,
     CheckRead, CheckRefuse, CheckRefundDebit, CheckRefundTransfer, CheckAccept, CheckSave, CheckQueue, WithdrawRead, WithdrawDebit, WithdrawSend, WithdrawQueue, WithdrawFail,
     WithdrawalMoves, Monitor, Confirm, Join, StartMark, StartLaunch, HandlerThrows, Crash
<1>2. \A st \in OrderStates : SetOrder(st) => order' \in OrderStates \cup {None}
  BY DEF SetOrder
<1>3. order' \in OrderStates \cup {None}
  <2>1. \/ UNCHANGED order \/ order' = "payment_complete"
        \/ \E st \in {"payment_complete", "withdrawing", "deposit_confirming", "deposit_confirmed",
                       "created", "running", "failed"} : SetOrder(st)
    BY DEF Next, DepositJob, CheckJob, WithdrawJob, StartJob, rows,
       UserPays, TimePasses, PollFetch, PollQueue, Intake, DepositRead, DepositCredit, DepositSave, DepositQueue, DepositRefund,
       CheckRead, CheckRefuse, CheckRefundDebit, CheckRefundTransfer, CheckAccept, CheckSave, CheckQueue, WithdrawRead, WithdrawDebit, WithdrawSend, WithdrawQueue, WithdrawFail,
       WithdrawalMoves, Monitor, Confirm, Join, StartMark, StartLaunch, HandlerThrows, Crash
  <2> QED BY <1>2, <2>1 DEF OrderStates, Types
<1>4. ASSUME NEW s \in Transfers, DepositSave(s)
      PROVE  payment' \in NatPayment
  <2> DEFINE j == <<"deposit", s>>
             old == IF task[j].read = None THEN Fresh ELSE task[j].read
  <2>1. task[j] \in Held /\ Deposits[s] \in Currencies
    BY JobFacts, TransferFacts DEF Types, JobTypes
  <2>2. old \in NatPayment
    BY <2>1 DEF Held, Fresh, NoUnits, NatPayment
  <2>3. payment' = [old EXCEPT !.paid[Deposits[s]] = @ + 1]
    BY <1>4 DEF DepositSave
  <2> HIDE DEF old
  <2>4. [old.paid EXCEPT ![Deposits[s]] = @ + 1] \in [Currencies -> Nat]
    BY <2>1, <2>2 DEF NatPayment
  <2> QED BY <2>2, <2>3, <2>4 DEF NatPayment
<1>5. ASSUME CheckSave
      PROVE  payment' \in NatPayment
  BY <1>5 DEF CheckSave, At, CheckInv, Active, NatPayment
<1>6. UNCHANGED payment \/ (\E s \in Transfers : DepositSave(s)) \/ CheckSave
  BY DEF Next, DepositJob, CheckJob, WithdrawJob, StartJob, rows,
     UserPays, TimePasses, PollFetch, PollQueue, Intake, DepositRead, DepositCredit, DepositQueue, DepositRefund,
     CheckRead, CheckRefuse, CheckRefundDebit, CheckRefundTransfer, CheckAccept, CheckQueue, WithdrawRead, WithdrawDebit, WithdrawSend, WithdrawQueue, WithdrawFail,
     WithdrawalMoves, Monitor, Confirm, Join, StartMark, StartLaunch, HandlerThrows, Crash
<1> QED BY <1>1, <1>3, <1>4, <1>5, <1>6, NoneAssumption DEF Types, NatPayment

\* What Mixin moved keeps its types; a withdrawal that went out is not taken back.
LEMMA MixinTypesKept ==
  ASSUME Types, CheckInv, WithdrawInv, Next
  PROVE  /\ sent' \in [Roles -> Nat] /\ arrival' \in [Roles -> {"none", "sent", "confirmed"}]
         /\ returned' \in [Currencies -> Nat] /\ bounced' \in [Transfers -> Nat]
<1>1. bounced' \in [Transfers -> Nat]
  <2>1. UNCHANGED bounced \/ \E s \in Transfers : Bounces(s)
    BY DEF Next, DepositJob, CheckJob, WithdrawJob, StartJob, mixin,
       UserPays, TimePasses, PollFetch, PollQueue, Intake, DepositRead, DepositCredit, DepositSave, DepositQueue, DepositRefund,
       CheckRead, CheckRefuse, CheckRefundDebit, CheckRefundTransfer, CheckAccept, CheckSave, CheckQueue, WithdrawRead, WithdrawDebit, WithdrawSend, WithdrawQueue, WithdrawFail,
       WithdrawalMoves, Monitor, Confirm, Join, StartMark, StartLaunch, HandlerThrows, Crash
  <2> QED BY <2>1 DEF Types, Bounces
<1>2. CASE CheckRefundTransfer
  <2>1. task[check].role \in Assets /\ task[check].read \in NatPayment
    BY <1>2 DEF CheckRefundTransfer, At, CheckInv, Active
  <2>2. task[check].role \in Currencies /\ task[check].read.paid[task[check].role] \in Nat
    BY <2>1 DEF NatPayment, Currencies
  <2> QED BY <1>1, <1>2, <2>2 DEF CheckRefundTransfer, Types
<1>3. CASE WithdrawSend
  <2>1. task[withdraw].role \in Roles /\ task[withdraw].read \in NatPayment
    BY <1>3 DEF WithdrawSend, At, WithdrawInv, Active
  <2>2. task[withdraw].read.paid[task[withdraw].role] \in Nat
    BY <2>1 DEF NatPayment, Currencies, Assets
  <2>3. ASSUME Withdrawn(task[withdraw].role, task[withdraw].read.paid[task[withdraw].role])
        PROVE  sent' \in [Roles -> Nat] /\ arrival' \in [Roles -> {"none", "sent", "confirmed"}]
    BY <2>1, <2>2, <2>3 DEF Withdrawn, Types
  <2> QED BY <1>1, <1>3, <2>3 DEF WithdrawSend, Types
<1>4. CASE WithdrawalMoves
  BY <1>1, <1>4 DEF WithdrawalMoves, Types
<1>5. UNCHANGED <<sent, arrival, returned>> \/ CheckRefundTransfer \/ WithdrawSend \/ WithdrawalMoves
  BY DEF Next, DepositJob, CheckJob, WithdrawJob, StartJob, mixin,
     UserPays, TimePasses, PollFetch, PollQueue, Intake, DepositRead, DepositCredit, DepositSave, DepositQueue, DepositRefund,
     CheckRead, CheckRefuse, CheckRefundDebit, CheckAccept, CheckSave, CheckQueue, WithdrawRead, WithdrawDebit, WithdrawQueue, WithdrawFail,
     Monitor, Confirm, Join, StartMark, StartLaunch, HandlerThrows, Crash
<1> QED BY <1>1, <1>2, <1>3, <1>4, <1>5 DEF Types

\* Every step keeps the types.
LEMMA TypesKept ==
  ASSUME Types, TriesInv, DepositInv, CheckInv, WithdrawInv, KeysInv, Next
  PROVE  Types'
<1>1. setup' \in Setups /\ Same
  BY SetupSame DEF Same, Types
<1> QED BY <1>1, JobTypesKept, FaultFacts, PollFacts, LedgerTypesKept, RowTypesKept, MixinTypesKept
    DEF Types, Same
-----------------------------------------------------------------------------
(* What the steps do to the jobs. *)

Untouched(j) == jobs'[j] = jobs[j] /\ task'[j] = task[j]

Touched(j) ==
  \/ j[1] = "intake" /\ PollQueue
  \/ \E s \in Transfers : j = <<"intake", s>> /\ Intake(s)
  \/ \E s \in Transfers : j = <<"deposit", s>> /\ DepositJob(s)
  \/ j = check /\ (CheckJob \/ \E s \in Transfers : DepositQueue(s))
  \/ j = withdraw /\ (WithdrawJob \/ CheckQueue)
  \/ j = <<"monitor", 0>> /\ (WithdrawQueue \/ Monitor)
  \/ j = <<"confirm", 0>> /\ (Monitor \/ Confirm)
  \/ j = <<"join", 0>> /\ (Confirm \/ Join)
  \/ j = start /\ (Join \/ StartJob)
  \/ HandlerThrows \/ Crash

\* A step touches its own job and the one it queues.
LEMMA JobFrame ==
  ASSUME Types, TriesInv, CheckInv, Next
  PROVE  \A j \in Jobs : Untouched(j) \/ Touched(j)
<1> USE DEF Types
<1>1. CASE UserPays
  BY <1>1 DEF UserPays, Untouched
<1>2. CASE TimePasses
  BY <1>2 DEF TimePasses, Untouched
<1>3. CASE PollFetch
  BY <1>3 DEF PollFetch, Untouched
<1>4. CASE PollQueue
  BY <1>4 DEF PollQueue, Untouched, Touched, JobTypes
<1>5. ASSUME NEW s \in Transfers, Intake(s) PROVE \A j \in Jobs : Untouched(j) \/ Touched(j)
  <2>1. Finished(jobs, <<"intake", s>>) \in [Jobs -> Job] /\ \A i \in Jobs : i # <<"intake", s>> => Finished(jobs, <<"intake", s>>)[i] = jobs[i]
    BY JobFacts, FinishedFacts DEF JobTypes
  <2>2. \A i \in Jobs : i # <<"deposit", s>> => Added(Finished(jobs, <<"intake", s>>), <<"deposit", s>>)[i] = Finished(jobs, <<"intake", s>>)[i]
    BY ZenonT(30), <2>1, JobFacts, AddedFacts
  <2> QED BY <1>5, <2>1, <2>2, JobFacts DEF Intake, Ends, Untouched, Touched, JobTypes, DepositJob
<1>6. ASSUME NEW s \in Transfers, DepositRead(s) PROVE \A j \in Jobs : Untouched(j) \/ Touched(j)
  BY <1>6, JobFacts DEF DepositRead, Starts, Untouched, Touched, JobTypes, DepositJob
<1>7. ASSUME NEW s \in Transfers, DepositCredit(s) PROVE \A j \in Jobs : Untouched(j) \/ Touched(j)
  BY <1>7, JobFacts DEF DepositCredit, Goto, Untouched, Touched, JobTypes, DepositJob
<1>8. ASSUME NEW s \in Transfers, DepositSave(s) PROVE \A j \in Jobs : Untouched(j) \/ Touched(j)
  BY <1>8, JobFacts DEF DepositSave, Goto, Untouched, Touched, JobTypes, DepositJob
<1>9. ASSUME NEW s \in Transfers, DepositQueue(s) PROVE \A j \in Jobs : Untouched(j) \/ Touched(j)
  <2>1. Finished(jobs, <<"deposit", s>>) \in [Jobs -> Job] /\ \A i \in Jobs : i # <<"deposit", s>> => Finished(jobs, <<"deposit", s>>)[i] = jobs[i]
    BY JobFacts, FinishedFacts DEF JobTypes
  <2>2. \A i \in Jobs : i # <<"check", 0>> => Added(Finished(jobs, <<"deposit", s>>), <<"check", 0>>)[i] = Finished(jobs, <<"deposit", s>>)[i]
    BY <2>1, JobFacts, AddedFacts DEF check
  <2> QED BY <1>9, <2>1, <2>2, JobFacts DEF DepositQueue, Ends, Untouched, Touched, JobTypes, DepositJob, check
<1>10. ASSUME NEW s \in Transfers, DepositRefund(s) PROVE \A j \in Jobs : Untouched(j) \/ Touched(j)
  <2>1. \A i \in Jobs : i # <<"deposit", s>> => Finished(jobs, <<"deposit", s>>)[i] = jobs[i]
    BY JobFacts, FinishedFacts DEF JobTypes
  <2>2. jobs[<<"deposit", s>>].status = "active" => \A i \in Jobs : i # <<"deposit", s>> => Thrown(jobs, <<"deposit", s>>)[i] = jobs[i]
    BY JobFacts, ThrownFacts DEF JobTypes, TriesInv, Lasting
  <2> QED BY <1>10, <2>1, <2>2, JobFacts DEF DepositRefund, At, Ends, Untouched, Touched, JobTypes, DepositJob
<1>11. CASE CheckRead
  BY <1>11, JobFacts DEF CheckRead, Starts, Untouched, Touched, JobTypes, CheckJob
<1>12. CASE CheckRefuse
  BY <1>12, JobFacts DEF CheckRefuse, Goto, Untouched, Touched, JobTypes, CheckJob
<1>13. CASE CheckRefundDebit
  <2>1. \A i \in Jobs : i # check => Finished(jobs, check)[i] = jobs[i]
    BY JobFacts, FinishedFacts DEF JobTypes
  <2>2. jobs[check].status = "active" => \A i \in Jobs : i # check => Thrown(jobs, check)[i] = jobs[i]
    BY JobFacts, ThrownFacts DEF JobTypes, TriesInv, Lasting
  <2> QED BY <1>13, <2>1, <2>2, JobFacts DEF CheckRefundDebit, At, Ends, Untouched, Touched, JobTypes, CheckJob
<1>14. CASE CheckRefundTransfer
  <2>2. jobs[check].status = "active" => \A i \in Jobs : i # check => Thrown(jobs, check)[i] = jobs[i]
    BY JobFacts, ThrownFacts DEF JobTypes, TriesInv, Lasting
  <2> QED BY <1>14, <2>2, JobFacts DEF CheckRefundTransfer, At, Ends, Untouched, Touched, JobTypes, CheckJob
<1>15. CASE CheckAccept
  BY <1>15, JobFacts DEF CheckAccept, Goto, Untouched, Touched, JobTypes, CheckJob
<1>16. CASE CheckSave
  BY <1>16, JobFacts DEF CheckSave, Goto, Untouched, Touched, JobTypes, CheckJob
<1>17. CASE CheckQueue
  <2>1. Finished(jobs, check) \in [Jobs -> Job] /\ \A i \in Jobs : i # check => Finished(jobs, check)[i] = jobs[i]
    BY JobFacts, FinishedFacts DEF JobTypes
  <2>2. \A i \in Jobs : i # <<"withdraw", 0>> => Added(Finished(jobs, check), <<"withdraw", 0>>)[i] = Finished(jobs, check)[i]
    BY <2>1, JobFacts, AddedFacts DEF withdraw
  <2> QED BY <1>17, <2>1, <2>2, JobFacts DEF CheckQueue, Ends, Untouched, Touched, JobTypes, CheckJob, withdraw
<1>18. CASE WithdrawRead
  BY <1>18, JobFacts DEF WithdrawRead, Starts, Untouched, Touched, JobTypes, WithdrawJob
<1>19. CASE WithdrawDebit
  BY <1>19, JobFacts DEF WithdrawDebit, Untouched, Touched, JobTypes, WithdrawJob
<1>20. CASE WithdrawSend
  BY <1>20, JobFacts DEF WithdrawSend, Untouched, Touched, JobTypes, WithdrawJob
<1>21. CASE WithdrawQueue
  <2>1. Finished(jobs, withdraw) \in [Jobs -> Job] /\ \A i \in Jobs : i # withdraw => Finished(jobs, withdraw)[i] = jobs[i]
    BY JobFacts, FinishedFacts DEF JobTypes
  <2>2. \A i \in Jobs : i # <<"monitor", 0>> => Added(Finished(jobs, withdraw), <<"monitor", 0>>)[i] = Finished(jobs, withdraw)[i]
    BY <2>1, JobFacts, AddedFacts
  <2> QED BY <1>21, <2>1, <2>2, JobFacts DEF WithdrawQueue, Ends, Untouched, Touched, JobTypes, WithdrawJob
<1>22. CASE WithdrawFail
  <2>2. jobs[withdraw].status = "active" => \A i \in Jobs : i # withdraw => Thrown(jobs, withdraw)[i] = jobs[i]
    BY JobFacts, ThrownFacts DEF JobTypes, TriesInv, Lasting
  <2> QED BY <1>22, <2>2, JobFacts DEF WithdrawFail, At, Ends, Untouched, Touched, JobTypes, WithdrawJob
<1>23. CASE WithdrawalMoves
  BY <1>23 DEF WithdrawalMoves, Untouched
<1>24. CASE Monitor
  <2>1. Finished(jobs, <<"monitor", 0>>) \in [Jobs -> Job] /\ \A i \in Jobs : i # <<"monitor", 0>> => Finished(jobs, <<"monitor", 0>>)[i] = jobs[i]
    BY JobFacts, FinishedFacts DEF JobTypes
  <2>2. \A i \in Jobs : i # <<"confirm", 0>> => Added(Finished(jobs, <<"monitor", 0>>), <<"confirm", 0>>)[i] = Finished(jobs, <<"monitor", 0>>)[i]
    BY <2>1, JobFacts, AddedFacts
  <2> QED BY <1>24, <2>1, <2>2, JobFacts DEF Monitor, Ends, Untouched, Touched, JobTypes
<1>25. CASE Confirm
  <2>1. Finished(jobs, <<"confirm", 0>>) \in [Jobs -> Job] /\ \A i \in Jobs : i # <<"confirm", 0>> => Finished(jobs, <<"confirm", 0>>)[i] = jobs[i]
    BY JobFacts, FinishedFacts DEF JobTypes
  <2>2. \A i \in Jobs : i # <<"join", 0>> => Added(Finished(jobs, <<"confirm", 0>>), <<"join", 0>>)[i] = Finished(jobs, <<"confirm", 0>>)[i]
    BY <2>1, JobFacts, AddedFacts
  <2> QED BY <1>25, <2>1, <2>2, JobFacts DEF Confirm, Ends, Untouched, Touched, JobTypes
<1>26. CASE Join
  <2>1. Finished(jobs, <<"join", 0>>) \in [Jobs -> Job] /\ \A i \in Jobs : i # <<"join", 0>> => Finished(jobs, <<"join", 0>>)[i] = jobs[i]
    BY JobFacts, FinishedFacts DEF JobTypes
  <2>2. \A i \in Jobs : i # <<"start", 0>> => Added(Finished(jobs, <<"join", 0>>), <<"start", 0>>)[i] = Finished(jobs, <<"join", 0>>)[i]
    BY <2>1, JobFacts, AddedFacts DEF start
  <2> QED BY <1>26, <2>1, <2>2, JobFacts DEF Join, Ends, Untouched, Touched, JobTypes, start
<1>27. CASE StartMark
  BY <1>27, JobFacts DEF StartMark, Starts, Untouched, Touched, JobTypes, StartJob
<1>28. CASE StartLaunch
  <2>1. \A i \in Jobs : i # start => Finished(jobs, start)[i] = jobs[i]
    BY JobFacts, FinishedFacts DEF JobTypes
  <2>2. jobs[start].status = "active" => \A i \in Jobs : i # start => Thrown(jobs, start)[i] = jobs[i]
    BY JobFacts, ThrownFacts DEF JobTypes, TriesInv, Lasting
  <2> QED BY <1>28, <2>1, <2>2, JobFacts DEF StartLaunch, At, Ends, Untouched, Touched, JobTypes, StartJob
<1>29. CASE HandlerThrows
  BY <1>29 DEF Touched
<1>30. CASE Crash
  BY <1>30 DEF Touched
<1> QED BY <1>1, <1>2, <1>3, <1>4, <1>5, <1>6, <1>7, <1>8, <1>9, <1>10, <1>11, <1>12, <1>13, <1>14, <1>15, <1>16, <1>17, <1>18, <1>19, <1>20, <1>21, <1>22, <1>23, <1>24, <1>25, <1>26, <1>27, <1>28, <1>29, <1>30 DEF Next, DepositJob, CheckJob, WithdrawJob, StartJob
\* Attempts are counted: a job whose attempts are used up is not run again.
LEMMA TriesKept ==
  ASSUME Types, TriesInv, Next
  PROVE  TriesInv'
<1>0. Same /\ jobs \in [Jobs -> Job] /\ Lasting(jobs)
  BY SetupSame DEF Types, JobTypes, TriesInv
<1> SUFFICES Lasting(jobs')
  BY <1>0 DEF TriesInv, Lasting, Same
<1>a. ASSUME NEW js \in [Jobs -> Job], Lasting(js), NEW j \in Jobs
      PROVE  Added(js, j) \in [Jobs -> Job] /\ Lasting(Added(js, j))
  <2>1. ASSUME NEW i \in Jobs, i # j PROVE Added(js, j)[i] = js[i]
    BY <2>1, AddedFacts
  <2>2. Added(js, j)[j] = js[j] \/ Added(js, j)[j].tries < MaxAttempts
    BY AddedFacts, FundingAssumption
  <2>3. Lasting(Added(js, j))
    BY <1>a, <2>1, <2>2 DEF Lasting
  <2> QED BY <2>3, AddedFacts
<1>f. ASSUME NEW j \in Jobs
      PROVE  Finished(jobs, j) \in [Jobs -> Job] /\ Lasting(Finished(jobs, j))
  <2>1. Finished(jobs, j)[j].status \in {"absent", "done"} /\ \A i \in Jobs : i # j => Finished(jobs, j)[i] = jobs[i]
    BY <1>0, FinishedFacts, FinishedStatus
  <2> QED BY <1>0, <2>1, FinishedFacts DEF Lasting
<1>t. ASSUME NEW j \in Jobs, jobs[j].status = "active"
      PROVE  Lasting(Thrown(jobs, j))
  BY <1>0, <1>t, ThrownFacts DEF Lasting, Job
<1>s. ASSUME NEW j \in Jobs, NEW t, Starts(j, t) PROVE Lasting(jobs')
  BY <1>0, <1>s DEF Starts, Lasting, Job
<1>n. ASSUME NEW j \in Jobs PROVE Lasting([jobs EXCEPT ![j].status = "failed"])
  BY <1>0, <1>n DEF Lasting, Job
<1>1. CASE PollQueue
  <2>1. ASSUME NEW j \in Jobs PROVE Lasting(Added(jobs, j))
    BY <1>0, <1>a
  <2>2. \A j \in Jobs : jobs'[j] = Added(jobs, j)[j] \/ jobs'[j] = jobs[j]
    BY <1>1 DEF PollQueue
  <2> QED BY <1>0, <2>1, <2>2 DEF Lasting
<1>2. ASSUME NEW s \in Transfers, DepositJob(s) PROVE Lasting(jobs')
  <2>1. CASE Intake(s)
    BY <1>a, <1>f, <2>1, JobFacts DEF Intake
  <2>2. CASE DepositRead(s)
    BY <1>s, <2>2, JobFacts DEF DepositRead
  <2>3. CASE DepositCredit(s) \/ DepositSave(s)
    BY <1>0, <2>3 DEF DepositCredit, DepositSave, Goto
  <2>4. CASE DepositQueue(s)
    BY <1>a, <1>f, <2>4, JobFacts DEF DepositQueue, Ends, check
  <2>5. CASE DepositRefund(s)
    BY <1>f, <1>t, <2>5, JobFacts DEF DepositRefund, Ends, At
  <2> QED BY <1>2, <2>1, <2>2, <2>3, <2>4, <2>5 DEF DepositJob
<1>3. CASE CheckJob
  <2>1. CASE CheckRead
    BY <1>s, <2>1, JobFacts DEF CheckRead
  <2>2. CASE CheckRefuse \/ CheckAccept \/ CheckSave
    BY <1>0, <2>2 DEF CheckRefuse, CheckAccept, CheckSave, Goto
  <2>3. CASE CheckRefundDebit
    BY <1>0, <1>f, <1>t, <2>3, JobFacts DEF CheckRefundDebit, Ends, At
  <2>4. CASE CheckRefundTransfer
    BY <1>0, <1>t, <2>4, JobFacts DEF CheckRefundTransfer, Ends, At
  <2>5. CASE CheckQueue
    BY <1>a, <1>f, <2>5, JobFacts DEF CheckQueue, Ends, withdraw
  <2> QED BY <1>3, <2>1, <2>2, <2>3, <2>4, <2>5 DEF CheckJob
<1>4. CASE WithdrawJob
  <2>1. CASE WithdrawRead
    BY <1>s, <2>1, JobFacts DEF WithdrawRead
  <2>2. CASE WithdrawDebit \/ WithdrawSend
    BY <1>0, <2>2 DEF WithdrawDebit, WithdrawSend
  <2>3. CASE WithdrawQueue
    BY <1>a, <1>f, <2>3, JobFacts DEF WithdrawQueue, Ends
  <2>4. CASE WithdrawFail
    BY <1>t, <2>4, JobFacts DEF WithdrawFail, Ends, At
  <2> QED BY <1>4, <2>1, <2>2, <2>3, <2>4 DEF WithdrawJob
<1>5. CASE Monitor \/ Confirm \/ Join
  BY <1>a, <1>f, <1>n, <1>5, JobFacts DEF Monitor, Confirm, Join, start
<1>6. CASE StartJob
  BY <1>s, <1>f, <1>t, <1>6, JobFacts DEF StartJob, StartMark, StartLaunch, Ends, At
<1>7. CASE HandlerThrows
  BY <1>t, <1>7 DEF HandlerThrows, Ends
<1>8. CASE Crash
  BY <1>0, <1>8 DEF Crash, Lasting, Job
<1>9. CASE UserPays \/ TimePasses \/ PollFetch \/ WithdrawalMoves
  BY <1>0, <1>9 DEF UserPays, TimePasses, PollFetch, WithdrawalMoves
<1> QED BY <1>1, <1>2, <1>3, <1>4, <1>5, <1>6, <1>7, <1>8, <1>9 DEF Next
\* The same, job by job.
LEMMA JobMoves ==
  ASSUME Types, TriesInv, CheckInv, Next
  PROVE  /\ \A s \in Transfers : \/ Untouched(<<"intake", s>>)
                                 \/ PollQueue \/ Intake(s) \/ HandlerThrows \/ Crash
         /\ \A s \in Transfers : \/ Untouched(<<"deposit", s>>)
                                 \/ DepositJob(s) \/ HandlerThrows \/ Crash
         /\ \/ Untouched(check) \/ CheckJob \/ (\E s \in Transfers : DepositQueue(s))
            \/ HandlerThrows \/ Crash
         /\ Untouched(withdraw) \/ WithdrawJob \/ CheckQueue \/ HandlerThrows \/ Crash
         /\ Untouched(<<"confirm", 0>>) \/ Monitor \/ Confirm \/ HandlerThrows \/ Crash
         /\ Untouched(<<"join", 0>>) \/ Confirm \/ Join \/ HandlerThrows \/ Crash
         /\ Untouched(start) \/ Join \/ StartJob \/ HandlerThrows \/ Crash
<1>1. \A j \in Jobs : Untouched(j) \/ Touched(j)
  BY JobFrame
<1>2. ASSUME NEW s \in Transfers
      PROVE  \/ Untouched(<<"intake", s>>) \/ PollQueue \/ Intake(s) \/ HandlerThrows \/ Crash
  BY <1>1, JobFacts DEF Touched, check, withdraw, start
<1>3. ASSUME NEW s \in Transfers
      PROVE  \/ Untouched(<<"deposit", s>>) \/ DepositJob(s) \/ HandlerThrows \/ Crash
  BY <1>1, JobFacts DEF Touched, check, withdraw, start
<1>4. \/ Untouched(check) \/ CheckJob \/ (\E s \in Transfers : DepositQueue(s)) \/ HandlerThrows \/ Crash
  BY <1>1, JobFacts DEF Touched, check, withdraw, start
<1>5. Untouched(withdraw) \/ WithdrawJob \/ CheckQueue \/ HandlerThrows \/ Crash
  BY <1>1, JobFacts DEF Touched, check, withdraw, start
<1>6. Untouched(<<"confirm", 0>>) \/ Monitor \/ Confirm \/ HandlerThrows \/ Crash
  BY <1>1, JobFacts DEF Touched, check, withdraw, start
<1>7. Untouched(<<"join", 0>>) \/ Confirm \/ Join \/ HandlerThrows \/ Crash
  BY <1>1, JobFacts DEF Touched, check, withdraw, start
<1>8. Untouched(start) \/ Join \/ StartJob \/ HandlerThrows \/ Crash
  BY <1>1, JobFacts DEF Touched, check, withdraw, start
<1> QED BY <1>2, <1>3, <1>4, <1>5, <1>6, <1>7, <1>8

\* A handler that throws or dies leaves its job to be run again, or given up.
LEMMA FaultMoves ==
  ASSUME Types, TriesInv
  PROVE  /\ HandlerThrows => \A j \in Jobs :
              \/ Untouched(j)
              \/ /\ j[1] \in {"deposit", "check"} /\ Active(j) /\ task'[j] = Idle
                 /\ jobs'[j].status \in {"waiting", "absent", "failed"}
                 /\ jobs'[j].status = "absent" => j[1] = "check"
         /\ Crash => \A j \in Jobs :
              /\ task'[j] = Idle
              /\ jobs'[j].status = IF Active(j) THEN "waiting" ELSE jobs[j].status
<1>1. ASSUME HandlerThrows
      PROVE  \A j \in Jobs :
              \/ Untouched(j)
              \/ /\ j[1] \in {"deposit", "check"} /\ Active(j) /\ task'[j] = Idle
                 /\ jobs'[j].status \in {"waiting", "absent", "failed"}
                 /\ jobs'[j].status = "absent" => j[1] = "check"
  <2>1. PICK i \in Jobs : /\ i[1] \in {"deposit", "check"} /\ jobs[i].status = "active"
                         /\ Ends(i, Thrown(jobs, i))
    BY <1>1 DEF HandlerThrows
  <2>2. /\ \A j \in Jobs : j # i => Thrown(jobs, i)[j] = jobs[j]
        /\ Thrown(jobs, i)[i].status \in {"waiting", "absent", "failed"}
        /\ Thrown(jobs, i)[i].status = "absent" => i[1] = "check"
    BY <2>1, ThrownFacts DEF Types, JobTypes, TriesInv, Lasting
  <2> QED BY <2>1, <2>2 DEF Ends, Untouched, Active, Types, JobTypes
<1>2. ASSUME Crash
      PROVE  \A j \in Jobs :
              /\ task'[j] = Idle
              /\ jobs'[j].status = IF Active(j) THEN "waiting" ELSE jobs[j].status
  BY <1>2 DEF Crash, Active, Types, JobTypes, Job
<1> QED BY <1>1, <1>2

\* What a deposit's handler holds stays what it needs.
LEMMA DepositKept ==
  ASSUME Types, TriesInv, DepositInv, CheckInv, WithdrawInv, KeysInv, Next
  PROVE  DepositInv'
<1>0. Same /\ ledger.keys \subseteq ledger'.keys
  BY SetupSame, LedgerTypesKept
<1> SUFFICES ASSUME NEW s \in Transfers, jobs'[<<"deposit", s>>].status = "active"
             PROVE  /\ task'[<<"deposit", s>>].pc \in {"credit", "save", "queue", "refund"}
                    /\ task'[<<"deposit", s>>].pc \in {"save", "queue"} =>
                         Deposits[s] \in Assets /\ Credited(s)'
  BY <1>0 DEF DepositInv, Active, Same
<1>1. Credited(s) => Credited(s)'
  BY <1>0 DEF Credited, Has, Same
<1> DEFINE j == <<"deposit", s>>
<1>j. j \in Jobs /\ jobs \in [Jobs -> Job] /\ task \in [Jobs -> Held] /\ JobTypes
  BY JobFacts DEF Types, JobTypes
<1> HIDE DEF j
<1> SUFFICES /\ task'[j].pc \in {"credit", "save", "queue", "refund"}
             /\ task'[j].pc \in {"save", "queue"} => Deposits[s] \in Assets /\ Credited(s)'
  BY DEF j
<1>a. jobs'[j].status = "active"
  BY DEF j
<1>2. CASE Untouched(j)
  BY <1>1, <1>2, <1>a DEF Untouched, DepositInv, Active, j
<1>3. CASE Intake(s)
  <2>1. Finished(jobs, <<"intake", s>>) \in [Jobs -> Job] /\ Finished(jobs, <<"intake", s>>)[j] = jobs[j]
    BY ZenonT(30), <1>j, JobFacts, FinishedFacts DEF j
  <2>2. jobs'[j] = jobs[j] \/ jobs'[j].status = "waiting"
    <3>1. \/ jobs' = Finished(jobs, <<"intake", s>>) \/ jobs' = Added(Finished(jobs, <<"intake", s>>), j)
      BY <1>3 DEF Intake, j
    <3>2. Added(Finished(jobs, <<"intake", s>>), j)[j] \in
            {Finished(jobs, <<"intake", s>>)[j], [status |-> "waiting", tries |-> 0]}
      BY <1>j, <2>1, AddedFacts
    <3> QED BY <2>1, <3>1, <3>2
  <2>3. task' = task
    BY <1>3 DEF Intake
  <2> QED BY <1>1, <1>a, <2>2, <2>3 DEF DepositInv, Active, j
<1>4. CASE DepositRead(s)
  BY <1>4, <1>j DEF DepositRead, Starts, Idle, j
<1>5. CASE DepositCredit(s)
  <2>1. Credited(s)' /\ task'[j].pc = IF Deposits[s] \in Assets THEN "save" ELSE "refund"
    <3>1. s \in Nat /\ Deposits[s] \in Currencies /\ ledger \in Ledgers
      BY TransferFacts DEF Types
    <3>2. LedgerKey("credit", s, Deposits[s], 1) \in ledger'.keys
      <4>1. "credit" \in Commands /\ 1 \in Nat
        BY DEF Commands
      <4>2. LedgerKey("credit", s, Deposits[s], 1) \in Credit("credit", s, Deposits[s], 1).keys
        BY <3>1, <4>1, LedgerFacts
      <4> QED BY <1>5, <4>2 DEF DepositCredit
    <3>3. task'[j].pc = IF Deposits[s] \in Assets THEN "save" ELSE "refund"
      BY <1>5, <1>j DEF DepositCredit, Goto, Held, j
    <3> QED BY <1>0, <3>2, <3>3 DEF Credited, Has, Same
  <2> QED BY <2>1
<1>6. CASE DepositSave(s)
  <2>1. At(j, "save") /\ task'[j].pc = "queue"
    BY <1>6, <1>j DEF DepositSave, Goto, Held, j
  <2> QED BY <1>1, <2>1 DEF At, DepositInv, Active, j
<1>7. CASE DepositQueue(s)
  <2>1. Finished(jobs, j) \in [Jobs -> Job] /\ Finished(jobs, j)[j].status = "done"
    BY <1>j, FinishedFacts, FinishedStatus DEF Removed, j
  <2>2. Added(Finished(jobs, j), <<"check", 0>>)[j] = Finished(jobs, j)[j]
    BY ZenonT(30), <1>j, <2>1, JobFacts, AddedFacts DEF check, j
  <2> QED BY <1>7, <1>a, <2>1, <2>2 DEF DepositQueue, Ends, j
<1>8. CASE DepositRefund(s)
  <2>1. Finished(jobs, j)[j].status # "active"
    BY <1>j, FinishedStatus
  <2>2. jobs[j].status = "active" => Thrown(jobs, j)[j].status # "active"
    BY <1>j, ThrownFacts DEF TriesInv, Lasting
  <2> QED BY <1>8, <1>a, <2>1, <2>2 DEF DepositRefund, At, Ends, j
<1>9. CASE HandlerThrows \/ Crash
  <2>1. Untouched(j) \/ jobs'[j].status # "active"
    BY <1>9, <1>j, FaultMoves DEF Active
  <2> QED BY <1>2, <1>a, <2>1
<1> QED BY <1>2, <1>3, <1>4, <1>5, <1>6, <1>7, <1>8, <1>9, JobMoves DEF DepositJob, j
\* A payment state with an asset struck off counts no more of it.
LEMMA StruckFacts ==
  ASSUME NEW r \in NatPayment, NEW a \in Currencies
  PROVE  /\ [r EXCEPT !.paid[a] = 0] \in NatPayment
         /\ [r EXCEPT !.paid[a] = 0].paid[a] = 0
         /\ \A b \in Currencies : b # a => [r EXCEPT !.paid[a] = 0].paid[b] = r.paid[b]
<1>1. [r.paid EXCEPT ![a] = 0] \in [Currencies -> Nat]
  BY DEF NatPayment
<1> QED BY <1>1 DEF NatPayment

\* The next asset to refund has something to refund.
LEMMA NextAssetFacts ==
  ASSUME CheckInv, At(check, "refund"), ToRefund # {}
  PROVE  /\ NextAsset \in Assets /\ NextAsset \in Currencies
         /\ task[check].read \in NatPayment /\ task[check].read.paid[NextAsset] \in Nat \ {0}
<1>1. task[check].read \in NatPayment
  BY DEF CheckInv, At, Active
<1>2. NextAsset \in ToRefund
  BY DEF NextAsset, ToRefund, Assets, Roles
<1> QED BY <1>1, <1>2 DEF ToRefund, NatPayment, Currencies

\* What the check's handler holds stays what it needs.
LEMMA CheckKept ==
  ASSUME Types, TriesInv, DepositInv, CheckInv, WithdrawInv, KeysInv, Next
  PROVE  CheckInv'
<1>0. /\ ledger.keys \subseteq ledger'.keys /\ (payment # None => payment' # None)
  BY LedgerTypesKept, RowTypesKept
<1>j. check \in Jobs /\ jobs \in [Jobs -> Job] /\ task \in [Jobs -> Held] /\ JobTypes
  BY JobFacts DEF Types, JobTypes
<1>p. payment \in NatPayment \cup {None} /\ ledger \in Ledgers
  BY DEF Types
<1> SUFFICES ASSUME jobs'[check].status = "active"
             PROVE  /\ task'[check].pc \in {"refuse", "refund", "transfer", "accept", "save", "queue"}
                    /\ task'[check].read \in NatPayment /\ payment' # None
                    /\ task'[check].pc = "transfer" =>
                         /\ task'[check].role \in Assets
                         /\ task'[check].read.paid[task'[check].role] > 0
                         /\ task'[check].debited =>
                              LedgerKey("refund", 0, task'[check].role, task'[check].read.paid[task'[check].role])
                                \in ledger'.keys
  BY DEF CheckInv, Active, Has
<1>1. CASE Untouched(check)
  BY <1>0, <1>1 DEF Untouched, CheckInv, Active, Has
<1>2. ASSUME NEW s \in Transfers, DepositQueue(s) PROVE Untouched(check)
  <2>1. Finished(jobs, <<"deposit", s>>) \in [Jobs -> Job] /\ Finished(jobs, <<"deposit", s>>)[check] = jobs[check]
    BY ZenonT(30), <1>j, JobFacts, FinishedFacts DEF check
  <2>2. Added(Finished(jobs, <<"deposit", s>>), check)[check] \in {jobs[check], [status |-> "waiting", tries |-> 0]}
    BY <1>j, <2>1, AddedFacts
  <2>3. jobs'[check] = jobs[check]
    BY <1>2, <2>2 DEF DepositQueue, Ends, check
  <2> QED BY <1>2, <1>j, <2>3, JobFacts DEF DepositQueue, Ends, Untouched, check
<1>3. CASE CheckRead
  BY <1>0, <1>3, <1>j, <1>p DEF CheckRead, Starts, Idle
<1>4. CASE CheckRefuse \/ CheckAccept \/ CheckSave
  <2>1. At(check, task[check].pc) /\ task[check].read \in NatPayment /\ payment # None
    BY <1>4 DEF CheckRefuse, CheckAccept, CheckSave, At, CheckInv, Active
  <2>2. task'[check].pc \in {"refund", "save", "queue"} /\ task'[check].read = task[check].read
    BY <1>4, <1>j, GotoFacts DEF CheckRefuse, CheckAccept, CheckSave, Places
  <2> QED BY <1>0, <2>1, <2>2
<1>5. CASE CheckRefundDebit
  <2>1. Finished(jobs, check)[check].status # "active"
    BY <1>j, FinishedStatus
  <2>2. Thrown(jobs, check)[check].status # "active"
    BY <1>5, <1>j, ThrownFacts DEF CheckRefundDebit, At, TriesInv, Lasting
  <2> DEFINE a == NextAsset
             n == task[check].read.paid[NextAsset]
  <2>3. At(check, "refund") /\ ToRefund # {}
    BY <1>5, <2>1 DEF CheckRefundDebit, Ends
  <2>4. a \in Assets /\ a \in Currencies /\ task[check].read \in NatPayment /\ n \in Nat \ {0} /\ payment # None
    BY <2>3, NextAssetFacts DEF CheckInv, At, Active
  <2>5. \/ task' = [task EXCEPT ![check].read.paid[a] = 0]
        \/ /\ task' = [task EXCEPT ![check].pc = "transfer", ![check].role = a, ![check].debited = Covers(a, n)]
           /\ ledger' = IF Covers(a, n) THEN Debit("refund", a, n) ELSE ledger
    BY <1>5, <2>2, <2>3 DEF CheckRefundDebit, Ends
  <2>6. CASE task' = [task EXCEPT ![check].read.paid[a] = 0]
    <3>1. task'[check].pc = "refund" /\ task'[check].read = [task[check].read EXCEPT !.paid[a] = 0]
      BY <1>j, <2>3, <2>6 DEF At, Held
    <3> QED BY <1>0, <2>4, <3>1, StruckFacts
  <2>7. CASE /\ task' = [task EXCEPT ![check].pc = "transfer", ![check].role = a, ![check].debited = Covers(a, n)]
             /\ ledger' = IF Covers(a, n) THEN Debit("refund", a, n) ELSE ledger
    <3>1. /\ task'[check].pc = "transfer" /\ task'[check].role = a /\ task'[check].debited = Covers(a, n)
          /\ task'[check].read = task[check].read
      BY <1>j, <2>7 DEF Held
    <3>2. Covers(a, n) => LedgerKey("refund", 0, a, n) \in ledger'.keys
      <4>1. "refund" \in Commands /\ 0 \in Nat
        BY DEF Commands
      <4>2. LedgerKey("refund", 0, a, n) \in Debit("refund", a, n).keys
        BY <1>p, <2>4, <4>1, LedgerFacts
      <4> QED BY <2>7, <4>2
    <3> QED BY <1>0, <2>4, <3>1, <3>2
  <2> QED BY <2>5, <2>6, <2>7
<1>6. CASE CheckRefundTransfer
  <2>1. At(check, "transfer") /\ task[check].role \in Assets /\ task[check].read \in NatPayment /\ payment # None
    BY <1>6 DEF CheckRefundTransfer, At, CheckInv, Active
  <2>2. Thrown(jobs, check)[check].status # "active"
    BY <1>j, <2>1, ThrownFacts DEF At, TriesInv, Lasting
  <2>3. task' = [task EXCEPT ![check].pc = "refund", ![check].read.paid[task[check].role] = 0]
    BY <1>6, <2>2 DEF CheckRefundTransfer, Ends
  <2>4. task'[check].pc = "refund" /\ task'[check].read = [task[check].read EXCEPT !.paid[task[check].role] = 0]
    BY <1>j, <2>3 DEF Held
  <2> QED BY <1>0, <2>1, <2>4, StruckFacts DEF Currencies
<1>7. CASE CheckQueue
  <2>1. Finished(jobs, check) \in [Jobs -> Job] /\ Finished(jobs, check)[check].status # "active"
    BY <1>j, FinishedFacts, FinishedStatus
  <2>2. Added(Finished(jobs, check), <<"withdraw", 0>>)[check] = Finished(jobs, check)[check]
    BY <2>1, <1>j, JobFacts, AddedFacts DEF check, withdraw
  <2> QED BY <1>7, <2>1, <2>2 DEF CheckQueue, Ends
<1>8. CASE HandlerThrows \/ Crash
  BY <1>1, <1>8, <1>j, FaultMoves DEF Active
<1> QED BY <1>1, <1>2, <1>3, <1>4, <1>5, <1>6, <1>7, <1>8, JobMoves DEF CheckJob
\* What the withdrawal's handler holds stays what it needs.
LEMMA WithdrawKept ==
  ASSUME Types, TriesInv, CheckInv, WithdrawInv, ChainInv, KeysInv, Next
  PROVE  WithdrawInv'
<1>0. ledger.keys \subseteq ledger'.keys
  BY LedgerTypesKept
<1>j. withdraw \in Jobs /\ jobs \in [Jobs -> Job] /\ task \in [Jobs -> Held] /\ JobTypes
  BY JobFacts DEF Types, JobTypes
<1>p. payment \in NatPayment \cup {None} /\ ledger \in Ledgers
  BY DEF Types
<1> SUFFICES ASSUME jobs'[withdraw].status = "active"
             PROVE  /\ task'[withdraw].pc \in {"debit", "send", "queue", "fail"}
                    /\ task'[withdraw].pc \in {"debit", "send"} =>
                         task'[withdraw].read \in NatPayment /\ task'[withdraw].role \in Roles
                    /\ task'[withdraw].pc = "send" =>
                         LedgerKey("withdraw", 0, task'[withdraw].role,
                                   task'[withdraw].read.paid[task'[withdraw].role]) \in ledger'.keys
  BY DEF WithdrawInv, Active, Has
<1>1. CASE Untouched(withdraw)
  BY <1>0, <1>1 DEF Untouched, WithdrawInv, Active, Has
<1>2. CASE WithdrawRead
  <2>1. payment # None
    BY <1>2 DEF WithdrawRead, Starts, ChainInv
  <2> QED BY <1>2, <1>j, <1>p, <2>1 DEF WithdrawRead, Starts, Idle, Roles
<1>3. CASE WithdrawDebit
  <2> DEFINE r == task[withdraw].role
             n == task[withdraw].read.paid[r]
  <2>1. At(withdraw, "debit") /\ r \in Roles /\ r \in Currencies /\ task[withdraw].read \in NatPayment
    BY <1>3 DEF WithdrawDebit, At, WithdrawInv, Active, Currencies, Assets
  <2>2. n \in Nat
    BY <2>1 DEF NatPayment
  <2>3. CASE task' = [task EXCEPT ![withdraw].pc = "fail"]
    BY <1>j, <2>3 DEF Held
  <2>4. ASSUME NEW d \in BOOLEAN, task' = [task EXCEPT ![withdraw].pc = "send", ![withdraw].debited = d],
               LedgerKey("withdraw", 0, r, n) \in ledger'.keys
        PROVE  /\ task'[withdraw].pc = "send" /\ task'[withdraw].read = task[withdraw].read
               /\ task'[withdraw].role = r /\ LedgerKey("withdraw", 0, r, n) \in ledger'.keys
    BY <1>j, <2>4 DEF Held
  <2>5. LedgerKey("withdraw", 0, r, n) \in Debit("withdraw", r, n).keys
    <3>1. "withdraw" \in Commands /\ 0 \in Nat
      BY DEF Commands
    <3> QED BY <1>p, <2>1, <2>2, <3>1, LedgerFacts
  <2>6. \/ task' = [task EXCEPT ![withdraw].pc = "fail"]
        \/ /\ task' = [task EXCEPT ![withdraw].pc = "send", ![withdraw].debited = FALSE]
           /\ Replay("withdraw", r, n) /\ ledger' = ledger
        \/ /\ task' = [task EXCEPT ![withdraw].pc = "send", ![withdraw].debited = TRUE]
           /\ ledger' = Debit("withdraw", r, n)
    BY <1>3 DEF WithdrawDebit
  <2> QED BY <2>1, <2>3, <2>4, <2>5, <2>6 DEF Replay
<1>4. CASE WithdrawSend
  <2>1. At(withdraw, "send") /\ task[withdraw].read \in NatPayment
    BY <1>4 DEF WithdrawSend, At, WithdrawInv, Active
  <2>2. \/ task' = [task EXCEPT ![withdraw].pc = "fail"]
        \/ \E pc \in {"debit", "queue"} : task' = [task EXCEPT ![withdraw].pc = pc, ![withdraw].role = "quote"]
    BY <1>4 DEF WithdrawSend
  <2>3. CASE task' = [task EXCEPT ![withdraw].pc = "fail"]
    BY <1>j, <2>3 DEF Held
  <2>4. ASSUME NEW pc \in {"debit", "queue"},
               task' = [task EXCEPT ![withdraw].pc = pc, ![withdraw].role = "quote"]
        PROVE  task'[withdraw].pc = pc /\ task'[withdraw].role = "quote"
               /\ task'[withdraw].read = task[withdraw].read
    BY <1>j, <2>4 DEF Held
  <2> QED BY <2>1, <2>2, <2>3, <2>4 DEF Roles
<1>5. CASE WithdrawQueue
  <2>1. Finished(jobs, withdraw) \in [Jobs -> Job] /\ Finished(jobs, withdraw)[withdraw].status # "active"
    BY <1>j, FinishedFacts, FinishedStatus
  <2>2. Added(Finished(jobs, withdraw), <<"monitor", 0>>)[withdraw] = Finished(jobs, withdraw)[withdraw]
    <3>1. <<"monitor", 0>> \in Jobs /\ withdraw # <<"monitor", 0>>
      BY JobFacts DEF withdraw
    <3> QED BY <2>1, <1>j, <3>1, AddedFacts
  <2> QED BY <1>5, <2>1, <2>2 DEF WithdrawQueue, Ends
<1>6. CASE WithdrawFail
  <2>1. Thrown(jobs, withdraw)[withdraw].status # "active"
    BY <1>6, <1>j, ThrownFacts DEF WithdrawFail, At, TriesInv, Lasting
  <2> QED BY <1>6, <2>1 DEF WithdrawFail, Ends
<1>7. CASE CheckQueue
  <2>1. Finished(jobs, check) \in [Jobs -> Job] /\ Finished(jobs, check)[withdraw] = jobs[withdraw]
    BY ZenonT(30), <1>j, JobFacts, FinishedFacts DEF check, withdraw
  <2>2. Added(Finished(jobs, check), withdraw)[withdraw] \in {jobs[withdraw], [status |-> "waiting", tries |-> 0]}
    BY <1>j, <2>1, AddedFacts
  <2>3. jobs'[withdraw] = jobs[withdraw]
    BY <1>7, <2>2 DEF CheckQueue, Ends, withdraw
  <2>4. Untouched(withdraw)
    BY <1>7, <1>j, <2>3, JobFacts DEF CheckQueue, Ends, Untouched, check, withdraw
  <2> QED BY <1>1, <2>4
<1>8. CASE HandlerThrows \/ Crash
  BY <1>1, <1>8, <1>j, FaultMoves DEF Active
<1> QED BY <1>1, <1>2, <1>3, <1>4, <1>5, <1>6, <1>7, <1>8, JobMoves DEF WithdrawJob

\* A withdrawal that was confirmed stays so, and its units stay sent.
LEMMA ArrivalKept ==
  ASSUME Types, WithdrawInv, KeysInv, ChainInv, Next
  PROVE  /\ WithdrawalsConfirmed => WithdrawalsConfirmed'
         /\ \A r \in Roles : arrival'[r] # "none" => sent'[r] > 0
         /\ \A r \in Roles : sent'[r] = sent[r] \/ LedgerKey("withdraw", 0, r, sent'[r]) \in ledger.keys
<1>0. sent \in [Roles -> Nat] /\ arrival \in [Roles -> {"none", "sent", "confirmed"}]
      /\ \A r \in Roles : arrival[r] # "none" => sent[r] > 0
  BY DEF Types, ChainInv
<1>1. CASE UNCHANGED <<sent, arrival>>
  BY <1>0, <1>1 DEF WithdrawalsConfirmed, Confirmed
<1>2. CASE WithdrawSend
  <2> DEFINE r == task[withdraw].role
             n == task[withdraw].read.paid[r]
  <2>1. r \in Roles /\ task[withdraw].read \in NatPayment /\ LedgerKey("withdraw", 0, r, n) \in ledger.keys
    BY <1>2 DEF WithdrawSend, At, WithdrawInv, Active, Has
  <2>2. n \in Nat /\ n > 0
    BY <2>1 DEF KeysInv, LedgerKey, NatPayment, Currencies, Assets
  <2>3. UNCHANGED <<sent, arrival>> \/ Withdrawn(r, n)
    BY <1>2 DEF WithdrawSend
  <2> QED BY <1>0, <1>1, <2>1, <2>2, <2>3 DEF Withdrawn, WithdrawalsConfirmed, Confirmed
<1>3. CASE WithdrawalMoves
  BY <1>0, <1>3 DEF WithdrawalMoves, WithdrawalsConfirmed, Confirmed
<1> QED BY <1>1, <1>2, <1>3 DEF Next, DepositJob, CheckJob, WithdrawJob, StartJob, mixin,
     UserPays, TimePasses, PollFetch, PollQueue, Intake, DepositRead, DepositCredit, DepositSave, DepositQueue, DepositRefund,
     CheckRead, CheckRefuse, CheckRefundDebit, CheckRefundTransfer, CheckAccept, CheckSave, CheckQueue, WithdrawRead, WithdrawDebit, WithdrawQueue, WithdrawFail,
     Monitor, Confirm, Join, StartMark, StartLaunch, HandlerThrows, Crash

\* The jobs of the chain are queued one by the other.
LEMMA ChainKept ==
  ASSUME Types, TriesInv, DepositInv, CheckInv, WithdrawInv, ChainInv, KeysInv, Next
  PROVE  ChainInv'
<1>j. jobs \in [Jobs -> Job] /\ task \in [Jobs -> Held] /\ JobTypes
  BY DEF Types, JobTypes
<1>s. start \in Jobs /\ withdraw \in Jobs /\ <<"confirm", 0>> \in Jobs /\ <<"join", 0>> \in Jobs
      /\ <<"monitor", 0>> \in Jobs /\ check \in Jobs
      /\ start # <<"join", 0>> /\ start # <<"confirm", 0>> /\ withdraw # check /\ start # withdraw
      /\ <<"join", 0>> # <<"confirm", 0>> /\ <<"monitor", 0>> # <<"confirm", 0>>
  BY JobFacts DEF start, withdraw, check
<1>1. jobs'[start].status = "active" => task'[start].pc = "launch"
  <2>1. CASE Untouched(start)
    BY <2>1 DEF Untouched, ChainInv, Active
  <2>2. CASE Join
    <3>1. \/ jobs' = Added(Finished(jobs, <<"join", 0>>), start)
          \/ jobs' = [jobs EXCEPT ![<<"join", 0>>].status = "failed"]
      BY <2>2 DEF Join, start
    <3>2. /\ Finished(jobs, <<"join", 0>>) \in [Jobs -> Job]
          /\ Finished(jobs, <<"join", 0>>)[start] = jobs[start]
      BY ZenonT(30), <1>j, <1>s, FinishedFacts
    <3>3. jobs'[start] \in {jobs[start], [status |-> "waiting", tries |-> 0]}
      <4>1. Added(Finished(jobs, <<"join", 0>>), start)[start] \in {jobs[start], [status |-> "waiting", tries |-> 0]}
        BY <1>s, <3>2, AddedFacts
      <4>2. [jobs EXCEPT ![<<"join", 0>>].status = "failed"][start] = jobs[start]
        BY <1>j, <1>s
      <4> QED BY <3>1, <4>1, <4>2
    <3> QED BY <2>2, <3>3 DEF Join, ChainInv, Active
  <2>3. CASE StartMark
    BY <1>j, <1>s, <2>3 DEF StartMark, Starts, Idle
  <2>4. CASE StartLaunch
    <3>1. Finished(jobs, start)[start].status # "active" /\ Thrown(jobs, start)[start].status # "active"
      BY <1>j, <1>s, <2>4, FinishedStatus, ThrownFacts DEF StartLaunch, At, TriesInv, Lasting
    <3> QED BY <2>4, <3>1 DEF StartLaunch, Ends
  <2>5. CASE HandlerThrows \/ Crash
    BY <1>j, <1>s, <2>1, <2>5, FaultMoves DEF Active
  <2> QED BY <2>1, <2>2, <2>3, <2>4, <2>5, JobMoves DEF StartJob
<1>2. jobs'[withdraw].status # "absent" => payment' # None
  <2>1. payment # None => payment' # None
    BY RowTypesKept
  <2>2. CASE CheckQueue
    BY <2>1, <2>2 DEF CheckQueue, At, CheckInv, Active
  <2>3. CASE jobs[withdraw].status # "absent"
    BY <2>1, <2>3 DEF ChainInv
  <2>4. CASE Untouched(withdraw)
    BY <2>3, <2>4 DEF Untouched
  <2>5. CASE WithdrawJob
    BY <2>3, <2>5 DEF WithdrawJob, WithdrawRead, WithdrawDebit, WithdrawSend, WithdrawQueue, WithdrawFail,
       Starts, At
  <2>6. CASE HandlerThrows \/ Crash
    BY <1>j, <1>s, <2>3, <2>4, <2>6, FaultMoves DEF Active
  <2> QED BY <2>2, <2>4, <2>5, <2>6, JobMoves
<1>3. \A r \in Roles : sent'[r] > 0 => LedgerKey("withdraw", 0, r, sent'[r]) \in ledger'.keys
  BY ArrivalKept, LedgerTypesKept DEF ChainInv, Has
<1>4. ASSUME NEW kind \in {"confirm", "join", "start"}, jobs'[<<kind, 0>>].status # "absent"
      PROVE  WithdrawalsConfirmed'
  <2>1. CASE \E k \in {"confirm", "join", "start"} : jobs[<<k, 0>>].status # "absent"
    BY <2>1, ArrivalKept DEF ChainInv
  <2>2. CASE Monitor
    <3>1. CASE WithdrawalsConfirmed
      BY <3>1, ArrivalKept
    <3>2. CASE ~WithdrawalsConfirmed
      <4>1. /\ \A i \in Jobs : i # <<"monitor", 0>> => Finished(jobs, <<"monitor", 0>>)[i] = jobs[i]
            /\ \A i \in Jobs : i # <<"monitor", 0>> =>
                 [jobs EXCEPT ![<<"monitor", 0>>].status = "failed"][i] = jobs[i]
        BY <1>j, <1>s, FinishedFacts
      <4>2. \/ jobs' = Finished(jobs, <<"monitor", 0>>)
            \/ jobs' = [jobs EXCEPT ![<<"monitor", 0>>].status = "failed"]
        BY <2>2, <3>2 DEF Monitor
      <4>3. jobs'[<<kind, 0>>] = jobs[<<kind, 0>>]
        BY <1>s, <4>1, <4>2 DEF start
      <4> QED BY <1>4, <2>1, <4>3
    <3> QED BY <3>1, <3>2
  <2>3. CASE Confirm \/ Join \/ StartJob
    <3>1. \E k \in {"confirm", "join", "start"} : jobs[<<k, 0>>].status # "absent"
      BY <2>3 DEF Confirm, Join, StartJob, StartMark, StartLaunch, Waiting, Starts, At, start
    <3> QED BY <2>1, <3>1
  <2>4. CASE Untouched(<<kind, 0>>)
    BY <1>4, <2>1, <2>4 DEF Untouched
  <2>5. CASE HandlerThrows \/ Crash
    <3>1. <<kind, 0>> \in Jobs
      BY <1>s DEF start
    <3>2. jobs[<<kind, 0>>].status # "absent"
      BY <1>4, <1>j, <2>5, <3>1, FaultMoves DEF Active, Untouched
    <3> QED BY <2>1, <3>2
  <2> QED BY <2>2, <2>3, <2>4, <2>5, JobMoves DEF start
<1>5. strategy' # "idle" => WithdrawalsConfirmed'
  <2>1. CASE UNCHANGED strategy
    BY <2>1, ArrivalKept DEF ChainInv
  <2>2. CASE StartLaunch
    BY <2>2, ArrivalKept DEF StartLaunch, At, ChainInv, start
  <2> QED BY <2>1, <2>2 DEF Next, DepositJob, CheckJob, WithdrawJob, StartJob,
     UserPays, TimePasses, PollFetch, PollQueue, Intake, DepositRead, DepositCredit, DepositSave, DepositQueue, DepositRefund,
     CheckRead, CheckRefuse, CheckRefundDebit, CheckRefundTransfer, CheckAccept, CheckSave, CheckQueue, WithdrawRead, WithdrawDebit, WithdrawSend, WithdrawQueue, WithdrawFail,
     WithdrawalMoves, Monitor, Confirm, Join, StartMark, HandlerThrows, Crash
<1> QED BY <1>1, <1>2, <1>3, <1>4, <1>5, ArrivalKept DEF ChainInv, Active, Has
-----------------------------------------------------------------------------
(* The ledger. *)

\* A withdrawal that was queued is not forgotten.
LEMMA WithdrawStays ==
  ASSUME Types, TriesInv, CheckInv, Next, jobs[withdraw].status # "absent"
  PROVE  jobs'[withdraw].status # "absent"
<1>j. withdraw \in Jobs /\ jobs \in [Jobs -> Job] /\ JobTypes /\ withdraw[1] = "withdraw"
  BY JobFacts DEF Types, JobTypes, withdraw
<1>1. CASE Untouched(withdraw)
  BY <1>1 DEF Untouched
<1>2. CASE WithdrawRead
  <2>1. jobs' = [jobs EXCEPT ![withdraw].status = "active"]
    BY <1>2 DEF WithdrawRead, Starts
  <2>2. jobs'[withdraw].status = "active"
    BY <1>j, <2>1 DEF Job
  <2> QED BY <2>2
<1>3. CASE WithdrawDebit \/ WithdrawSend
  BY <1>3 DEF WithdrawDebit, WithdrawSend
<1>4. CASE WithdrawQueue
  <2>1. Finished(jobs, withdraw) \in [Jobs -> Job] /\ Finished(jobs, withdraw)[withdraw].status = "done"
    BY <1>j, FinishedFacts, FinishedStatus DEF Removed
  <2>2. Added(Finished(jobs, withdraw), <<"monitor", 0>>)[withdraw] = Finished(jobs, withdraw)[withdraw]
    <3>1. <<"monitor", 0>> \in Jobs /\ withdraw # <<"monitor", 0>>
      BY JobFacts DEF withdraw
    <3> QED BY <2>1, <1>j, <3>1, AddedFacts
  <2> QED BY <1>4, <2>1, <2>2 DEF WithdrawQueue, Ends
<1>5. CASE WithdrawFail
  <2>1. Thrown(jobs, withdraw)[withdraw].status # "absent"
    BY <1>5, <1>j, ThrownFacts DEF WithdrawFail, At, TriesInv, Lasting
  <2> QED BY <1>5, <2>1 DEF WithdrawFail, Ends
<1>6. CASE CheckQueue
  <2>1. Finished(jobs, check) \in [Jobs -> Job] /\ Finished(jobs, check)[withdraw] = jobs[withdraw]
    BY ZenonT(30), <1>j, JobFacts, FinishedFacts DEF check, withdraw
  <2>2. Added(Finished(jobs, check), withdraw) = Finished(jobs, check)
    BY <1>j, <2>1, AddedFacts
  <2> QED BY <1>6, <2>1, <2>2 DEF CheckQueue, Ends, withdraw
<1>7. CASE HandlerThrows \/ Crash
  BY <1>1, <1>7, <1>j, FaultMoves DEF Active
<1> QED BY <1>1, <1>2, <1>3, <1>4, <1>5, <1>6, <1>7, JobMoves DEF WithdrawJob

\* What is queued or sent back was made.
LEMMA MadeKept ==
  ASSUME Types, TriesInv, CheckInv, MadeInv, Next
  PROVE  MadeInv'
<1>0. /\ Same /\ made \in Nat /\ made' \in Nat /\ made <= made' /\ cursor \in Nat /\ cursor' \in Nat
      /\ cursor <= made /\ cursor <= cursor' /\ fetched \subseteq 1..cursor /\ JobTypes
      /\ Transfers \subseteq Nat /\ bounced \in [Transfers -> Nat]
  BY SetupSame, PollFacts, TransferFacts DEF Types
<1> SUFFICES ASSUME NEW s \in Transfers
             PROVE  /\ jobs'[<<"intake", s>>].status # "absent" => s <= cursor'
                    /\ jobs'[<<"deposit", s>>].status # "absent" => s <= made'
                    /\ bounced'[s] > 0 => s <= made'
  BY <1>0 DEF MadeInv, Same
<1>s. s \in Nat /\ <<"intake", s>> \in Jobs /\ <<"deposit", s>> \in Jobs
  BY <1>0, JobFacts
<1>1. CASE jobs[<<"intake", s>>].status # "absent"
  <2>1. s <= cursor
    BY <1>1 DEF MadeInv
  <2> QED BY <1>0, <1>s, <2>1
<1>2. CASE jobs[<<"deposit", s>>].status # "absent"
  <2>1. s <= made
    BY <1>2 DEF MadeInv
  <2>2. jobs'[<<"intake", s>>].status # "absent" => s <= cursor'
    <3>1. CASE Untouched(<<"intake", s>>)
      BY <1>1, <3>1 DEF Untouched
    <3>2. CASE PollQueue
      <4>1. s \in fetched \/ jobs'[<<"intake", s>>] = jobs[<<"intake", s>>]
        BY <1>s, <3>2 DEF PollQueue
      <4> QED BY <1>0, <1>1, <1>s, <4>1
    <3>3. CASE Intake(s)
      BY <1>1, <3>3 DEF Intake
    <3>4. CASE HandlerThrows \/ Crash
      BY <1>0, <1>1, <1>s, <3>4, FaultMoves DEF Untouched, Active
    <3> QED BY <3>1, <3>2, <3>3, <3>4, JobMoves
  <2> QED BY <1>0, <1>s, <2>1, <2>2
<1>3. CASE jobs[<<"intake", s>>].status = "absent" /\ jobs[<<"deposit", s>>].status = "absent"
  <2>1. jobs'[<<"intake", s>>].status # "absent" => s <= cursor'
    <3>1. CASE Untouched(<<"intake", s>>)
      BY <1>3, <3>1 DEF Untouched
    <3>2. CASE PollQueue
      <4>1. s \in fetched \/ jobs'[<<"intake", s>>] = jobs[<<"intake", s>>]
        BY <1>s, <3>2 DEF PollQueue
      <4> QED BY <1>0, <1>3, <1>s, <4>1
    <3>3. CASE Intake(s)
      BY <1>3, <3>3 DEF Intake
    <3>4. CASE HandlerThrows \/ Crash
      BY <1>0, <1>3, <1>s, <3>4, FaultMoves DEF Untouched, Active
    <3> QED BY <3>1, <3>2, <3>3, <3>4, JobMoves
  <2>2. ~DepositJob(s)
    BY <1>3 DEF DepositJob, Intake, DepositRead, DepositCredit, DepositSave, DepositQueue, DepositRefund, Starts, At
  <2>3. jobs'[<<"deposit", s>>].status = "absent"
    <3>1. CASE Untouched(<<"deposit", s>>)
      BY <1>3, <3>1 DEF Untouched
    <3>2. CASE HandlerThrows \/ Crash
      BY <1>0, <1>3, <1>s, <3>2, FaultMoves DEF Untouched, Active
    <3> QED BY <2>2, <3>1, <3>2, JobMoves
  <2>4. bounced'[s] > 0 => s <= made'
    <3>1. UNCHANGED bounced \/ \E t \in Transfers : Bounces(t) /\ DepositJob(t)
      BY DEF Next, DepositJob, CheckJob, WithdrawJob, StartJob, mixin,
         UserPays, TimePasses, PollFetch, PollQueue, Intake, DepositRead, DepositCredit, DepositSave, DepositQueue, DepositRefund,
         CheckRead, CheckRefuse, CheckRefundDebit, CheckRefundTransfer, CheckAccept, CheckSave, CheckQueue, WithdrawRead, WithdrawDebit, WithdrawSend, WithdrawQueue, WithdrawFail,
         WithdrawalMoves, Monitor, Confirm, Join, StartMark, StartLaunch, HandlerThrows, Crash
    <3>2. bounced'[s] = bounced[s]
      BY <1>0, <2>2, <3>1 DEF Bounces
    <3> QED BY <1>0, <1>s, <3>2 DEF MadeInv
  <2> QED BY <2>1, <2>3, <2>4
<1> QED BY <1>1, <1>2, <1>3

\* The transfers of an asset that were credited.
CreditedOf(a) == {s \in Transfers : Deposits[s] = a /\ Credited(s)}

\* There is one credit for each of them.
LEMMA CreditsCounted ==
  ASSUME Types, KeysInv, NEW a \in Currencies
  PROVE  /\ IsFiniteSet(CreditedOf(a)) /\ Credits(a) = Cardinality(CreditedOf(a)) /\ Credits(a) \in Nat
         /\ CreditedOf(a) \subseteq {s \in 1..made : Deposits[s] = a}
         /\ IsFiniteSet({k \in ledger.keys : k.what = "credit" /\ k.asset = a})
<1> DEFINE C == {k \in ledger.keys : k.what = "credit" /\ k.asset = a}
           f == [s \in CreditedOf(a) |-> LedgerKey("credit", s, a, 1)]
<1>0. /\ IsFiniteSet(Transfers) /\ Transfers = 1..Cardinality(Transfers) /\ Cardinality(Transfers) \in Nat
      /\ ledger.keys \subseteq Key /\ made \in Nat /\ made <= Cardinality(Transfers)
  BY TransferFacts DEF Types, Ledgers
<1>1. IsFiniteSet(CreditedOf(a))
  BY <1>0, FS_Subset DEF CreditedOf
<1>2. ASSUME NEW s \in CreditedOf(a)
      PROVE  LedgerKey("credit", s, a, 1) \in C /\ s \in 1..made /\ Deposits[s] = a
  <2>1. LedgerKey("credit", s, a, 1) \in ledger.keys
    BY DEF CreditedOf, Credited, Has
  <2>2. /\ LedgerKey("credit", s, a, 1).what = "credit" /\ LedgerKey("credit", s, a, 1).asset = a
        /\ LedgerKey("credit", s, a, 1).snapshot = s
    BY DEF LedgerKey
  <2>3. s \in 1..made
    BY <2>1, <2>2 DEF KeysInv
  <2> QED BY <2>1, <2>2, <2>3 DEF CreditedOf
<1>3. ASSUME NEW k \in C
      PROVE  k.snapshot \in CreditedOf(a) /\ k = LedgerKey("credit", k.snapshot, a, 1)
  <2>1. k \in ledger.keys /\ k \in Key /\ k.what = "credit" /\ k.asset = a
    BY <1>0
  <2>2. k.snapshot \in 1..made /\ k.asset = Deposits[k.snapshot] /\ k.amount = 1
    BY <2>1 DEF KeysInv
  <2>3. k = LedgerKey("credit", k.snapshot, a, 1)
    BY <2>1, <2>2, KeyFacts
  <2>4. k.snapshot \in Transfers
    BY <1>0, <2>2
  <2>5. LedgerKey("credit", k.snapshot, Deposits[k.snapshot], 1) \in ledger.keys
    BY <2>1, <2>2, <2>3
  <2> QED BY <2>1, <2>2, <2>3, <2>4, <2>5 DEF CreditedOf, Credited, Has
<1>4. f \in Bijection(CreditedOf(a), C)
  <2>1. f \in [CreditedOf(a) -> C]
    BY <1>2
  <2>2. \A s, t \in CreditedOf(a) : f[s] = f[t] => s = t
    BY KeyFacts
  <2>3. \A k \in C : \E s \in CreditedOf(a) : f[s] = k
    BY <1>3
  <2> QED BY <2>1, <2>2, <2>3 DEF Bijection, Injection, Surjection, IsInjective
<1>5. ExistsBijection(CreditedOf(a), C)
  BY <1>4 DEF ExistsBijection
<1>6. IsFiniteSet(C) /\ Cardinality(C) = Cardinality(CreditedOf(a)) /\ Cardinality(CreditedOf(a)) \in Nat
  BY <1>1, <1>5, FS_Bijection, FS_CardinalityType
<1> QED BY <1>1, <1>2, <1>6 DEF Credits

\* The bound of the counts is one.
LEMMA BoundFacts ==
  ASSUME Types
  PROVE  /\ IsFiniteSet(Saved) /\ Saved \subseteq Transfers /\ Cardinality(Saved) \in Nat
         /\ Cardinality(Saved) <= Cardinality(Transfers) /\ Bound \in Nat
         /\ \A n \in Nat : n <= Bound => n \in Units
<1>1. /\ IsFiniteSet(Transfers) /\ Cardinality(Transfers) \in Nat /\ setup.maxFaults \in Nat
      /\ faults \in Nat /\ faults <= setup.maxFaults /\ Saved \subseteq Transfers
  BY TransferFacts DEF Types, Saved
<1>2. IsFiniteSet(Saved) /\ Cardinality(Saved) \in Nat /\ Cardinality(Saved) <= Cardinality(Transfers)
  BY <1>1, FS_Subset, FS_CardinalityType
<1> DEFINE N == Cardinality(Transfers)
<1>3. ASSUME NEW n \in Nat, NEW x \in Nat, NEW y \in Nat, x <= y
      PROVE  n * x \in Nat /\ n * x + n <= n * (y + 1)
  <2>1. n * (y + 1) = n * x + n * (y - x) + n
    BY <1>3, Distributes
  <2>2. n * (y - x) \in Nat /\ n * x \in Nat
    <3>1. \A a, b \in Nat : a * b \in Nat
      OBVIOUS
    <3>2. y - x \in Nat
      BY <1>3
    <3> QED BY <3>1, <3>2
  <2> HIDE DEF N
  <2> QED BY <2>1, <2>2
<1>4. N * faults \in Nat /\ N * faults + N <= N * (setup.maxFaults + 1)
  BY <1>1, <1>3
<1> QED BY <1>1, <1>2, <1>4 DEF Bound, Units

\* A step adds the key of a command, by the handler the command is of.
Adds(w, s, a, n) ==
  /\ LedgerKey(w, s, a, n) \notin ledger.keys
  /\ ledger'.keys = ledger.keys \cup {LedgerKey(w, s, a, n)}
  /\ ledger'.funds = [ledger.funds EXCEPT ![a] = IF w \in {"refund", "withdraw"} THEN @ - n ELSE @ + n]
  /\ w = "credit" => /\ s \in Transfers /\ a = Deposits[s] /\ n = 1
                      /\ DepositCredit(s) /\ At(<<"deposit", s>>, "credit")
  /\ w # "credit" => s = 0 /\ a \in Assets /\ n > 0 /\ \A m \in Nat : ~Has(w, 0, a, m)
  /\ w = "refund" => RefundStep /\ a = NextAsset /\ n = task[check].read.paid[NextAsset]
  /\ w = "refund-compensation" => RefundUndone /\ a = task[check].role /\ Has("refund", 0, a, n)
  /\ w = "withdraw" => WithdrawStep /\ a = task[withdraw].role /\ n = task[withdraw].read.paid[a]
  /\ w = "withdraw-compensation" => WithdrawUndone /\ a = task[withdraw].role /\ Has("withdraw", 0, a, n)

\* An amount that no command of the order has yet is in nobody's way.
LEMMA KeyFree ==
  ASSUME Types, UnitsInv, NEW w \in Commands, NEW a \in Currencies, NEW n \in Nat,
         ~Replay(w, a, n), ~Conflict(w, a, n)
  PROVE  \A m \in Nat : ~Has(w, 0, a, m)
<1> SUFFICES ASSUME NEW m \in Nat, Has(w, 0, a, m) PROVE FALSE
  OBVIOUS
<1>1. m \in Units
  BY DEF Has, UnitsInv, LedgerKey
<1>2. m # n
  BY DEF Has, Replay
<1> QED BY <1>1, <1>2 DEF Has, Conflict, Replay

\* What is not compensated with this amount is not compensated at all.
LEMMA CompensationFree ==
  ASSUME Types, KeysInv, NEW c \in Commands, NEW w \in Commands,
         <<c, w>> \in {<<"refund-compensation", "refund">>, <<"withdraw-compensation", "withdraw">>},
         NEW a \in Currencies, NEW n \in Nat, Has(w, 0, a, n), ~Has(c, 0, a, n)
  PROVE  \A m \in Nat : ~Has(c, 0, a, m)
<1> SUFFICES ASSUME NEW m \in Nat, Has(c, 0, a, m) PROVE FALSE
  OBVIOUS
<1> DEFINE k == LedgerKey(c, 0, a, m)
<1>1. k \in ledger.keys /\ k.what = c /\ k.asset = a /\ k.amount = m
  BY DEF Has, LedgerKey
<1>2. PICK d \in ledger.keys : Compensates(k, d) /\ d.asset = a /\ d.amount = m
  BY <1>1 DEF KeysInv
<1>3. d.what = w /\ w # "credit"
  BY <1>1, <1>2 DEF Compensates
<1> DEFINE e == LedgerKey(w, 0, a, n)
<1>4. e \in ledger.keys /\ e.what = w /\ e.asset = a /\ e.amount = n
  BY DEF Has, LedgerKey
<1>5. d = e
  BY <1>2, <1>3, <1>4 DEF KeysInv
<1> QED BY <1>2, <1>4, <1>5

\* A step adds at most one key, of which there was none.
LEMMA KeyAdded ==
  ASSUME Types, CheckInv, WithdrawInv, KeysInv, UnitsInv, Next
  PROVE  \/ UNCHANGED ledger
         \/ \E w \in Commands, s \in Nat, a \in Currencies, n \in Nat : Adds(w, s, a, n)
<1>0. /\ ledger \in Ledgers /\ 0 \in Nat /\ 1 \in Nat /\ Assets \subseteq Currencies /\ Roles \subseteq Assets
      /\ "credit" \in Commands /\ "refund" \in Commands /\ "refund-compensation" \in Commands
      /\ "withdraw" \in Commands /\ "withdraw-compensation" \in Commands
  BY DEF Types, Currencies, Assets, Commands
<1> SUFFICES ASSUME ledger' # ledger
             PROVE  \E w \in Commands, s \in Nat, a \in Currencies, n \in Nat : Adds(w, s, a, n)
  OBVIOUS
<1>1. CASE CreditStep
  <2>1. PICK s \in Transfers : /\ DepositCredit(s) /\ At(<<"deposit", s>>, "credit")
                               /\ ledger' = Credit("credit", s, Deposits[s], 1)
    BY <1>1 DEF CreditStep
  <2>2. s \in Nat /\ Deposits[s] \in Currencies
    BY TransferFacts DEF Types
  <2>3. LedgerKey("credit", s, Deposits[s], 1) \notin ledger.keys
    BY <2>1 DEF Credit
  <2>4. /\ ledger'.keys = ledger.keys \cup {LedgerKey("credit", s, Deposits[s], 1)}
        /\ ledger'.funds = [ledger.funds EXCEPT ![Deposits[s]] = @ + 1]
    BY <2>1, <2>3 DEF Credit
  <2>5. Adds("credit", s, Deposits[s], 1)
    BY <2>1, <2>3, <2>4 DEF Adds
  <2> QED BY <1>0, <2>2, <2>5
<1>2. CASE RefundStep
  <2> DEFINE a == NextAsset
             n == task[check].read.paid[NextAsset]
  <2>1. a \in Assets /\ n \in Nat \ {0} /\ ~Replay("refund", a, n) /\ ~Conflict("refund", a, n)
        /\ ledger' = Debit("refund", a, n)
    BY <1>2 DEF RefundStep
  <2>2. \A m \in Nat : ~Has("refund", 0, a, m)
    BY <1>0, <2>1, KeyFree
  <2>3. /\ ledger'.keys = ledger.keys \cup {LedgerKey("refund", 0, a, n)}
        /\ ledger'.funds = [ledger.funds EXCEPT ![a] = @ - n]
    BY <2>1 DEF Debit
  <2>4. Adds("refund", 0, a, n)
    BY <1>2, <2>1, <2>2, <2>3 DEF Adds, Has
  <2> QED BY <1>0, <2>1, <2>4
<1>3. CASE RefundUndone
  <2> DEFINE a == task[check].role
             n == task[check].read.paid[a]
  <2>1. a \in Assets /\ n \in Nat \ {0} /\ Has("refund", 0, a, n)
        /\ ledger' = Credit("refund-compensation", 0, a, n)
    BY <1>3 DEF RefundUndone
  <2>2. ~Has("refund-compensation", 0, a, n)
    BY <2>1 DEF Credit, Has
  <2>3. \A m \in Nat : ~Has("refund-compensation", 0, a, m)
    BY <1>0, <2>1, <2>2, CompensationFree
  <2>4. /\ ledger'.keys = ledger.keys \cup {LedgerKey("refund-compensation", 0, a, n)}
        /\ ledger'.funds = [ledger.funds EXCEPT ![a] = @ + n]
    BY <2>1, <2>2 DEF Credit, Has
  <2>5. Adds("refund-compensation", 0, a, n)
    <3>1. a = task[check].role
      OBVIOUS
    <3> HIDE DEF a, n
    <3>2. /\ LedgerKey("refund-compensation", 0, a, n) \notin ledger.keys
          /\ a \in Assets /\ n > 0 /\ Has("refund", 0, a, n)
      BY <2>1, <2>2 DEF Has, Assets
    <3> QED BY <1>3, <2>3, <2>4, <3>1, <3>2 DEF Adds
  <2> QED BY <1>0, <2>1, <2>5
<1>4. CASE WithdrawStep
  <2> DEFINE a == task[withdraw].role
             n == task[withdraw].read.paid[a]
  <2>1. a \in Roles /\ n \in Nat \ {0} /\ ~Replay("withdraw", a, n) /\ ~Conflict("withdraw", a, n)
        /\ ledger' = Debit("withdraw", a, n)
    BY <1>4 DEF WithdrawStep
  <2>2. \A m \in Nat : ~Has("withdraw", 0, a, m)
    BY <1>0, <2>1, KeyFree
  <2>3. /\ ledger'.keys = ledger.keys \cup {LedgerKey("withdraw", 0, a, n)}
        /\ ledger'.funds = [ledger.funds EXCEPT ![a] = @ - n]
    BY <2>1 DEF Debit
  <2>4. Adds("withdraw", 0, a, n)
    <3>1. a = task[withdraw].role /\ n = task[withdraw].read.paid[a]
      OBVIOUS
    <3> HIDE DEF a, n
    <3>2. LedgerKey("withdraw", 0, a, n) \notin ledger.keys /\ a \in Assets /\ n > 0
      BY <2>1, <2>2 DEF Has, Assets
    <3> QED BY <1>4, <2>2, <2>3, <3>1, <3>2 DEF Adds
  <2> QED BY <1>0, <2>1, <2>4
<1>5. CASE WithdrawUndone
  <2> DEFINE a == task[withdraw].role
             n == task[withdraw].read.paid[a]
  <2>1. a \in Roles /\ n \in Nat \ {0} /\ Has("withdraw", 0, a, n)
        /\ ledger' = Credit("withdraw-compensation", 0, a, n)
    BY <1>5 DEF WithdrawUndone
  <2>2. ~Has("withdraw-compensation", 0, a, n)
    BY <2>1 DEF Credit, Has
  <2>3. \A m \in Nat : ~Has("withdraw-compensation", 0, a, m)
    BY <1>0, <2>1, <2>2, CompensationFree
  <2>4. /\ ledger'.keys = ledger.keys \cup {LedgerKey("withdraw-compensation", 0, a, n)}
        /\ ledger'.funds = [ledger.funds EXCEPT ![a] = @ + n]
    BY <2>1, <2>2 DEF Credit, Has
  <2>5. Adds("withdraw-compensation", 0, a, n)
    <3>1. a = task[withdraw].role
      OBVIOUS
    <3> HIDE DEF a, n
    <3>2. /\ LedgerKey("withdraw-compensation", 0, a, n) \notin ledger.keys
          /\ a \in Assets /\ n > 0 /\ Has("withdraw", 0, a, n)
      BY <2>1, <2>2 DEF Has, Assets
    <3> QED BY <1>5, <2>3, <2>4, <3>1, <3>2 DEF Adds
  <2> QED BY <1>0, <2>1, <2>5
<1> QED BY <1>1, <1>2, <1>3, <1>4, <1>5, LedgerSteps

\* The keys stay what they stand for.
LEMMA KeysKept ==
  ASSUME Types, TriesInv, CheckInv, WithdrawInv, KeysInv, MadeInv, UnitsInv, Next
  PROVE  KeysInv'
<1>0. /\ Same /\ Transfers \subseteq Nat /\ \A s \in Transfers : s >= 1
      /\ made \in Nat /\ made' \in Nat /\ made <= made' /\ ledger.keys \subseteq Key
  BY SetupSame, PollFacts, TransferFacts DEF Types, Ledgers
<1>1. CASE UNCHANGED ledger
  <2>1. \A k \in ledger.keys : k.what = "credit" =>
          k.snapshot \in 1..made' /\ k.asset = Deposits[k.snapshot] /\ k.amount = 1
    BY <1>0 DEF KeysInv
  <2>2. \A k \in ledger.keys : k.what \in {"withdraw", "withdraw-compensation"} =>
          k.asset \in Roles /\ jobs'[withdraw].status # "absent"
    BY WithdrawStays DEF KeysInv
  <2> QED BY <1>0, <1>1, <2>1, <2>2 DEF KeysInv, Same
<1>2. ASSUME NEW w \in Commands, NEW s \in Nat, NEW a \in Currencies, NEW n \in Nat, Adds(w, s, a, n)
      PROVE  KeysInv'
  <2> DEFINE e == LedgerKey(w, s, a, n)
  <2>1. ledger'.keys = ledger.keys \cup {e}
    BY <1>2 DEF Adds
  <2>2. e.what = w /\ e.snapshot = s /\ e.asset = a /\ e.amount = n
    BY DEF LedgerKey
  <2> HIDE DEF e
  <2>3. \A k \in ledger'.keys : k.what = "credit" =>
          k.snapshot \in 1..made' /\ k.asset = Deposits[k.snapshot] /\ k.amount = 1
    <3>1. \A k \in ledger.keys : k.what = "credit" =>
            k.snapshot \in 1..made' /\ k.asset = Deposits[k.snapshot] /\ k.amount = 1
      BY <1>0 DEF KeysInv
    <3>2. w = "credit" => s \in 1..made' /\ a = Deposits[s] /\ n = 1
      <4>1. w = "credit" => s \in Transfers /\ jobs[<<"deposit", s>>].status = "active"
        BY <1>2 DEF Adds, At
      <4>2. w = "credit" => s <= made
        BY <4>1 DEF MadeInv
      <4> QED BY <1>0, <1>2, <4>1, <4>2 DEF Adds
    <3> QED BY <2>1, <2>2, <3>1, <3>2
  <2>4. \A k \in ledger'.keys : k.what # "credit" => k.snapshot = 0 /\ k.asset \in Assets /\ k.amount > 0
    <3>1. w # "credit" => s = 0 /\ a \in Assets /\ n > 0
      BY <1>2 DEF Adds
    <3> QED BY <2>1, <2>2, <3>1 DEF KeysInv
  <2>5. \A k, l \in ledger'.keys : k.what # "credit" /\ k.what = l.what /\ k.asset = l.asset => k = l
    <3>1. ASSUME NEW k \in ledger.keys, w # "credit" PROVE ~(k.what = w /\ k.asset = a)
      <4>1. k = LedgerKey(k.what, k.snapshot, k.asset, k.amount) /\ k.amount \in Nat
        BY <1>0, KeyFacts DEF Key
      <4>2. k.what = w => k.snapshot = 0
        BY <3>1 DEF KeysInv
      <4>3. ~Has(w, 0, a, k.amount)
        BY <1>2, <3>1, <4>1 DEF Adds
      <4> QED BY <4>1, <4>2, <4>3 DEF Has
    <3> QED BY <2>1, <2>2, <3>1 DEF KeysInv
  <2>6. \A k \in ledger'.keys : k.what \in {"refund-compensation", "withdraw-compensation"} =>
          \E d \in ledger'.keys : Compensates(k, d) /\ d.asset = k.asset /\ d.amount = k.amount
    <3>1. CASE w \notin {"refund-compensation", "withdraw-compensation"}
      BY <2>1, <2>2, <3>1 DEF KeysInv
    <3>2. ASSUME NEW d \in Commands, Has(d, 0, a, n),
                 <<w, d>> \in {<<"refund-compensation", "refund">>, <<"withdraw-compensation", "withdraw">>}
          PROVE  \E l \in ledger'.keys : Compensates(e, l) /\ l.asset = a /\ l.amount = n
      <4> DEFINE l == LedgerKey(d, 0, a, n)
      <4>1. l \in ledger'.keys /\ l.what = d /\ l.asset = a /\ l.amount = n
        BY <2>1, <3>2 DEF Has, LedgerKey
      <4>2. Compensates(e, l)
        BY <2>2, <3>2, <4>1 DEF Compensates
      <4> QED BY <4>1, <4>2
    <3>3. CASE w \in {"refund-compensation", "withdraw-compensation"}
      <4>1. \E d \in Commands : /\ Has(d, 0, a, n)
               /\ <<w, d>> \in {<<"refund-compensation", "refund">>, <<"withdraw-compensation", "withdraw">>}
        <5>1. "refund" \in Commands /\ "withdraw" \in Commands
          BY DEF Commands
        <5> QED BY <1>2, <3>3, <5>1 DEF Adds
      <4>2. \E l \in ledger'.keys : Compensates(e, l) /\ l.asset = a /\ l.amount = n
        BY <3>2, <4>1
      <4> QED BY <2>1, <2>2, <4>2 DEF KeysInv
    <3> QED BY <3>1, <3>3
  <2>7. \A k \in ledger'.keys : k.what \in {"withdraw", "withdraw-compensation"} =>
          k.asset \in Roles /\ jobs'[withdraw].status # "absent"
    <3>1. w \in {"withdraw", "withdraw-compensation"} => a \in Roles /\ jobs[withdraw].status # "absent"
      BY <1>2 DEF Adds, WithdrawStep, WithdrawUndone, At
    <3> QED BY <2>1, <2>2, <3>1, WithdrawStays DEF KeysInv
  <2> QED BY <1>0, <2>3, <2>4, <2>5, <2>6, <2>7 DEF KeysInv, Same
<1> QED BY <1>1, <1>2, KeyAdded

\* What is booked is a number.
LEMMA BookedTypes ==
  ASSUME Types, KeysInv, NEW a \in Currencies
  PROVE  /\ Booked("refund", a) \in Nat /\ Booked("refund-compensation", a) \in Nat
         /\ Booked("withdraw", a) \in Nat /\ Booked("withdraw-compensation", a) \in Nat
         /\ \A w \in Commands \ {"credit"} :
              /\ \A n \in Nat : Has(w, 0, a, n) => Booked(w, a) = n
              /\ Booked(w, a) \in Nat
              /\ Booked(w, a) # 0 => Has(w, 0, a, Booked(w, a))
<1>1. ledger.keys \in SUBSET Key /\ Single(ledger.keys)
  BY DEF Types, Ledgers, Single, KeysInv
<1>2. ASSUME NEW w \in Commands \ {"credit"}
      PROVE  /\ \A n \in Nat : Has(w, 0, a, n) => Booked(w, a) = n
             /\ Booked(w, a) \in Nat
             /\ Booked(w, a) # 0 => Has(w, 0, a, Booked(w, a))
  BY <1>1, BookedFacts DEF Booked, Has
<1> QED BY <1>2 DEF Commands

\* What an added key does to the sums of a bucket.
LEMMA Counted ==
  ASSUME Types, KeysInv, KeysInv', Next, NEW w \in Commands, NEW s \in Nat, NEW a \in Currencies, NEW n \in Nat,
         Adds(w, s, a, n), NEW b \in Currencies
  PROVE  /\ Credits(b)' = Credits(b) + IF w = "credit" /\ a = b THEN 1 ELSE 0
         /\ \A v \in Commands \ {"credit"} :
              Booked(v, b)' = IF v = w /\ b = a THEN n ELSE Booked(v, b)
         /\ w # "credit" => Booked(w, a) = 0
<1>0. /\ Same /\ ledger.keys \in SUBSET Key /\ Single(ledger.keys)
      /\ ledger'.keys = ledger.keys \cup {LedgerKey(w, s, a, n)}
  BY SetupSame DEF Types, Ledgers, Single, KeysInv, Adds
<1>1. ASSUME NEW v \in Commands \ {"credit"}
      PROVE  Booked(v, b)' = IF v = w /\ b = a THEN n ELSE Booked(v, b)
  <2>1. BookedIn(ledger.keys \cup {LedgerKey(w, s, a, n)}, v, b)
          = IF v = w /\ b = a THEN n ELSE BookedIn(ledger.keys, v, b)
    <3>1. w = "credit" \/ (s = 0 /\ \A m \in Nat : LedgerKey(w, 0, a, m) \notin ledger.keys)
      BY DEF Adds, Has
    <3> QED BY <1>0, <3>1, BookedAdded
  <2>2. Booked(v, b)' = BookedIn(ledger'.keys, v, b)
    BY DEF Booked, BookedIn
  <2> QED BY <1>0, <2>1, <2>2 DEF Booked
<1>2. w # "credit" => Booked(w, a) = 0
  BY DEF Booked, BookedIn, Adds, Has
<1>3. Credits(b)' = Credits(b) + IF w = "credit" /\ a = b THEN 1 ELSE 0
  <2> DEFINE C == {k \in ledger.keys : k.what = "credit" /\ k.asset = b}
             D == {k \in ledger'.keys : k.what = "credit" /\ k.asset = b}
             e == LedgerKey(w, s, a, n)
  <2>1. IsFiniteSet(C) /\ Cardinality(C) \in Nat
    BY CreditsCounted, FS_CardinalityType
  <2>2. e.what = w /\ e.asset = a /\ e \notin ledger.keys
    BY DEF LedgerKey, Adds
  <2>3. D = IF w = "credit" /\ a = b THEN C \cup {e} ELSE C
    <3> HIDE DEF e
    <3>1. ledger'.keys = ledger.keys \cup {e}
      BY <1>0 DEF e
    <3> QED BY <2>2, <3>1
  <2>4. Cardinality(C \cup {e}) = Cardinality(C) + 1
    BY <2>1, <2>2, FS_AddElement
  <2>5. Credits(b)' = Cardinality(D) /\ Credits(b) = Cardinality(C)
    BY DEF Credits
  <2> HIDE DEF C, D, e
  <2>6. CASE w = "credit" /\ a = b
    BY <2>1, <2>3, <2>4, <2>5, <2>6
  <2>7. CASE ~(w = "credit" /\ a = b)
    BY <2>1, <2>3, <2>5, <2>7
  <2> QED BY <2>6, <2>7
<1> QED BY <1>1, <1>2, <1>3

\* What a bucket holds stays what its keys say.
LEMMA FundsKept ==
  ASSUME Types, TriesInv, CheckInv, WithdrawInv, KeysInv, MadeInv, FundsInv, UnitsInv, Next
  PROVE  FundsInv'
<1>1. KeysInv'
  BY KeysKept
<1>2. CASE UNCHANGED ledger
  BY <1>2 DEF FundsInv, Credits, Booked, BookedIn
<1>3. ASSUME NEW w \in Commands, NEW s \in Nat, NEW a \in Currencies, NEW n \in Nat, Adds(w, s, a, n),
             NEW b \in Currencies
      PROVE  ledger'.funds[b] = Credits(b)' - Booked("refund", b)' + Booked("refund-compensation", b)'
                                  - Booked("withdraw", b)' + Booked("withdraw-compensation", b)'
  <2>1. /\ Credits(b)' = Credits(b) + IF w = "credit" /\ a = b THEN 1 ELSE 0
        /\ \A v \in Commands \ {"credit"} :
              Booked(v, b)' = IF v = w /\ b = a THEN n ELSE Booked(v, b)
        /\ w # "credit" => Booked(w, a) = 0
    BY <1>1, <1>3, Counted
  <2>2. /\ Booked("refund", b) \in Nat /\ Booked("refund-compensation", b) \in Nat
        /\ Booked("withdraw", b) \in Nat /\ Booked("withdraw-compensation", b) \in Nat
        /\ Credits(b) \in Nat
    BY BookedTypes, CreditsCounted
  <2>3. ledger'.funds[b] = IF b # a THEN ledger.funds[b]
                           ELSE IF w \in {"refund", "withdraw"} THEN ledger.funds[b] - n ELSE ledger.funds[b] + n
    BY <1>3 DEF Adds, Types, Ledgers
  <2>4. ledger.funds[b] \in Int
    BY DEF Types, Ledgers
  <2>5. w = "credit" => n = 1
    BY <1>3 DEF Adds
  <2>6. /\ Booked("refund", b)' = IF "refund" = w /\ b = a THEN n ELSE Booked("refund", b)
        /\ Booked("refund-compensation", b)' =
             IF "refund-compensation" = w /\ b = a THEN n ELSE Booked("refund-compensation", b)
        /\ Booked("withdraw", b)' = IF "withdraw" = w /\ b = a THEN n ELSE Booked("withdraw", b)
        /\ Booked("withdraw-compensation", b)' =
             IF "withdraw-compensation" = w /\ b = a THEN n ELSE Booked("withdraw-compensation", b)
    BY <2>1 DEF Commands
  <2>7. ledger.funds[b] = Credits(b) - Booked("refund", b) + Booked("refund-compensation", b)
                            - Booked("withdraw", b) + Booked("withdraw-compensation", b)
    BY DEF FundsInv
  <2>8. CASE b # a
    BY <2>1, <2>2, <2>3, <2>6, <2>7, <2>8
  <2>9. CASE b = a
    <3>1. w \in {"credit", "refund", "refund-compensation", "withdraw", "withdraw-compensation"}
      BY DEF Commands
    <3> QED BY <2>1, <2>2, <2>3, <2>4, <2>5, <2>6, <2>7, <2>9, <3>1
  <2> QED BY <2>8, <2>9
<1> QED BY <1>2, <1>3, KeyAdded DEF FundsInv
-----------------------------------------------------------------------------
(* The counts. *)

\* A handler holds the payment state it read, or what is left of it to refund.
LEMMA ReadMoves ==
  ASSUME Types, CheckInv, Next
  PROVE  \A j \in Jobs :
           \/ task'[j].read \in {None, payment, task[j].read}
           \/ /\ j = check /\ task[check].read \in NatPayment
              /\ \E a \in Assets : task'[check].read = [task[check].read EXCEPT !.paid[a] = 0]
<1>j. task \in [Jobs -> Held] /\ JobTypes /\ check \in Jobs /\ withdraw \in Jobs
  BY JobFacts DEF Types, JobTypes
<1> SUFFICES ASSUME NEW i \in Jobs
             PROVE  \/ task'[i].read \in {None, payment, task[i].read}
                    \/ /\ i = check /\ task[check].read \in NatPayment
                       /\ \E a \in Assets : task'[check].read = [task[check].read EXCEPT !.paid[a] = 0]
  OBVIOUS
<1> DEFINE Plain == task'[i].read \in {None, payment, task[i].read}
<1>1. ASSUME NEW j \in Jobs, NEW js, Ends(j, js) PROVE Plain
  BY <1>1, <1>j DEF Ends, Idle
<1>2. ASSUME NEW j \in Jobs, NEW pc, Goto(j, pc) PROVE Plain
  BY <1>2, <1>j DEF Goto, Held
<1>3. ASSUME NEW j \in Jobs, NEW t, t.read \in {None, payment}, Starts(j, t) PROVE Plain
  BY <1>3, <1>j DEF Starts
<1>4. CASE UNCHANGED task
  BY <1>4
<1>5. CASE \E s \in Transfers : DepositJob(s)
  <2>1. PICK s \in Transfers : DepositJob(s)
    BY <1>5
  <2>2. CASE DepositRead(s)
    <3>1. [Idle EXCEPT !.pc = "credit", !.read = payment].read = payment /\ [Idle EXCEPT !.pc = "refund"].read = None
      BY DEF Idle
    <3> DEFINE j == <<"deposit", s>>
               t1 == [Idle EXCEPT !.pc = "credit", !.read = payment]
               t2 == [Idle EXCEPT !.pc = "refund"]
    <3>2. j \in Jobs /\ t1.read = payment /\ t2.read = None
      BY <3>1, JobFacts
    <3>3. Starts(j, t1) \/ Starts(j, t2)
      BY <2>2 DEF DepositRead
    <3> HIDE DEF j, t1, t2
    <3> QED BY <1>3, <3>2, <3>3
  <2> QED BY <1>1, <1>2, <1>4, <2>1, <2>2, JobFacts DEF DepositJob, Intake, DepositCredit, DepositSave, DepositQueue, DepositRefund
<1>6. CASE CheckJob
  <2>1. CASE CheckRead
    <3>1. [Idle EXCEPT !.pc = "refuse", !.read = payment].read = payment
          /\ [Idle EXCEPT !.pc = "accept", !.read = payment].read = payment
      BY DEF Idle
    <3> DEFINE t1 == [Idle EXCEPT !.pc = "refuse", !.read = payment]
               t2 == [Idle EXCEPT !.pc = "accept", !.read = payment]
    <3>2. Starts(check, t1) \/ Starts(check, t2)
      BY <2>1 DEF CheckRead
    <3>3. t1.read = payment /\ t2.read = payment
      BY <3>1
    <3> HIDE DEF t1, t2
    <3> QED BY <1>3, <1>j, <3>2, <3>3
  <2>2. CASE CheckRefuse \/ CheckAccept \/ CheckSave \/ CheckQueue
    BY <1>1, <1>2, <1>j, <2>2 DEF CheckRefuse, CheckAccept, CheckSave, CheckQueue
  <2>3. CASE CheckRefundDebit
    <3>1. task[check].read \in NatPayment /\ NextAsset \in Assets
      BY <2>3 DEF CheckRefundDebit, At, CheckInv, Active, NextAsset, Assets, Roles
    <3> DEFINE d == Covers(NextAsset, task[check].read.paid[NextAsset])
    <3>2. \/ \E js : Ends(check, js)
          \/ task' = [task EXCEPT ![check].read.paid[NextAsset] = 0]
          \/ task' = [task EXCEPT ![check].pc = "transfer", ![check].role = NextAsset, ![check].debited = d]
      BY <2>3 DEF CheckRefundDebit
    <3>3. CASE task' = [task EXCEPT ![check].read.paid[NextAsset] = 0]
      BY <1>j, <3>1, <3>3 DEF Held
    <3> HIDE DEF d
    <3>4. CASE task' = [task EXCEPT ![check].pc = "transfer", ![check].role = NextAsset, ![check].debited = d]
      BY <1>j, <3>4 DEF Held
    <3> QED BY <1>1, <1>j, <3>2, <3>3, <3>4
  <2>4. CASE CheckRefundTransfer
    <3>1. task[check].read \in NatPayment /\ task[check].role \in Assets
      BY <2>4 DEF CheckRefundTransfer, At, CheckInv, Active
    <3>2. \/ \E js : Ends(check, js)
          \/ task' = [task EXCEPT ![check].pc = "refund", ![check].read.paid[task[check].role] = 0]
      BY <2>4 DEF CheckRefundTransfer
    <3>3. CASE task' = [task EXCEPT ![check].pc = "refund", ![check].read.paid[task[check].role] = 0]
      BY <1>j, <3>1, <3>3 DEF Held
    <3> QED BY <1>1, <1>j, <3>2, <3>3
  <2> QED BY <1>6, <2>1, <2>2, <2>3, <2>4 DEF CheckJob
<1>7. CASE WithdrawJob
  <2>1. CASE WithdrawRead
    <3>1. [Idle EXCEPT !.pc = "debit", !.read = payment, !.role = "base"].read = payment
          /\ [Idle EXCEPT !.pc = "fail"].read = None
      BY DEF Idle
    <3> DEFINE t1 == [Idle EXCEPT !.pc = "debit", !.read = payment, !.role = "base"]
               t2 == [Idle EXCEPT !.pc = "fail"]
    <3>2. Starts(withdraw, t1) \/ Starts(withdraw, t2)
      BY <2>1 DEF WithdrawRead
    <3>3. t1.read = payment /\ t2.read = None
      BY <3>1
    <3> HIDE DEF t1, t2
    <3> QED BY <1>3, <1>j, <3>2, <3>3
  <2>2. CASE WithdrawDebit
    <3>1. \E pc \in {"send", "fail"}, d \in {TRUE, FALSE, task[withdraw].debited} :
             \/ task' = [task EXCEPT ![withdraw].pc = pc, ![withdraw].debited = d]
             \/ task' = [task EXCEPT ![withdraw].pc = pc]
      BY <2>2 DEF WithdrawDebit
    <3> QED BY <1>j, <3>1 DEF Held
  <2>3. CASE WithdrawSend
    <3>1. \E pc \in {"debit", "queue", "fail"} :
             \/ task' = [task EXCEPT ![withdraw].pc = pc, ![withdraw].role = "quote"]
             \/ task' = [task EXCEPT ![withdraw].pc = pc]
      BY <2>3 DEF WithdrawSend
    <3> QED BY <1>j, <3>1 DEF Held
  <2>4. CASE WithdrawQueue \/ WithdrawFail
    BY <1>1, <1>j, <2>4 DEF WithdrawQueue, WithdrawFail
  <2> QED BY <1>7, <2>1, <2>2, <2>3, <2>4 DEF WithdrawJob
<1>8. CASE StartJob
  <2>1. [Idle EXCEPT !.pc = "launch"].read = None
    BY DEF Idle
  <2> DEFINE t1 == [Idle EXCEPT !.pc = "launch"]
  <2>2. Starts(start, t1) \/ \E js : Ends(start, js)
    BY <1>8 DEF StartJob, StartMark, StartLaunch
  <2>3. t1.read = None
    BY <2>1
  <2> HIDE DEF t1
  <2> QED BY <1>1, <1>3, <2>2, <2>3, JobFacts
<1>9. CASE HandlerThrows
  BY <1>1, <1>9 DEF HandlerThrows
<1>10. CASE Crash
  BY <1>10 DEF Crash, Idle
<1> QED BY <1>4, <1>5, <1>6, <1>7, <1>8, <1>9, <1>10 DEF Next, UserPays, TimePasses, PollFetch, PollQueue,
        WithdrawalMoves, Monitor, Confirm, Join

\* A deposit that was saved stays so, unless its handler is run over.
LEMMA SavedStays ==
  ASSUME Types, TriesInv, CheckInv, Next, NEW s \in Saved
  PROVE  s \in Saved' \/ HandlerThrows \/ Crash
<1>0. Same /\ s \in Transfers
  BY SetupSame DEF Saved
<1> DEFINE j == <<"deposit", s>>
<1>j. j \in Jobs /\ jobs \in [Jobs -> Job] /\ task \in [Jobs -> Held] /\ JobTypes
  BY <1>0, JobFacts DEF Types, JobTypes
<1>a. jobs[j].status = "done" \/ (jobs[j].status = "active" /\ task[j].pc = "queue")
  BY DEF Saved, At
<1> HIDE DEF j
<1> SUFFICES ASSUME ~HandlerThrows, ~Crash
             PROVE  jobs'[j].status = "done" \/ (jobs'[j].status = "active" /\ task'[j].pc = "queue")
  BY <1>0 DEF Saved, Same, At, j
<1>1. CASE Untouched(j)
  BY <1>1, <1>a DEF Untouched
<1>2. CASE Intake(s)
  <2>1. Finished(jobs, <<"intake", s>>) \in [Jobs -> Job] /\ Finished(jobs, <<"intake", s>>)[j] = jobs[j]
    BY ZenonT(30), <1>0, <1>j, JobFacts, FinishedFacts DEF j
  <2>2. Added(Finished(jobs, <<"intake", s>>), j) = Finished(jobs, <<"intake", s>>)
    BY <1>a, <1>j, <2>1, AddedFacts
  <2> QED BY <1>2, <1>a, <2>1, <2>2 DEF Intake, j
<1>3. CASE DepositQueue(s)
  <2>1. Finished(jobs, j) \in [Jobs -> Job] /\ Finished(jobs, j)[j].status = "done"
    BY <1>j, FinishedFacts, FinishedStatus DEF Removed, j
  <2>2. Added(Finished(jobs, j), <<"check", 0>>)[j] = Finished(jobs, j)[j]
    BY ZenonT(30), <1>j, <2>1, JobFacts, AddedFacts DEF check, j
  <2> QED BY <1>3, <2>1, <2>2 DEF DepositQueue, Ends, j
<1>4. ~(DepositRead(s) \/ DepositCredit(s) \/ DepositSave(s) \/ DepositRefund(s))
  BY <1>a DEF DepositRead, DepositCredit, DepositSave, DepositRefund, Starts, At, j
<1> QED BY <1>0, <1>1, <1>2, <1>3, <1>4, JobMoves DEF DepositJob, j

\* The bound grows with every transfer that is saved.
LEMMA BoundGrows ==
  ASSUME Types, TriesInv, DepositInv, CheckInv, WithdrawInv, KeysInv, Next
  PROVE  /\ Bound \in Nat /\ Bound' \in Nat /\ Bound <= Bound'
         /\ \A s \in Transfers : DepositSave(s) => Bound + 1 <= Bound'
<1>0. /\ Same /\ IsFiniteSet(Transfers) /\ Cardinality(Transfers) \in Nat
      /\ faults \in Nat /\ faults' \in {faults, faults + 1}
  BY SetupSame, TransferFacts, FaultFacts DEF Types
<1>1. /\ IsFiniteSet(Saved) /\ Cardinality(Saved) \in Nat /\ Cardinality(Saved) <= Cardinality(Transfers)
      /\ Bound \in Nat
  BY BoundFacts
<1>2. IsFiniteSet(Saved') /\ Cardinality(Saved)' = Cardinality(Saved') /\ Cardinality(Saved') \in Nat
  <2>1. Saved' \subseteq Transfers
    BY <1>0 DEF Saved, Same
  <2> QED BY <1>0, <2>1, FS_Subset, FS_CardinalityType
<1> DEFINE N == Cardinality(Transfers)
<1>3. N * (faults + 1) = N * faults + N /\ N * faults \in Nat
  <2>1. \A a, b \in Nat : a * b \in Nat /\ a * (b + 1) = a * b + a
    BY Distributes
  <2> QED BY <1>0, <2>1
<1>4. Bound' = Cardinality(Saved') + N * faults' /\ Bound = Cardinality(Saved) + N * faults
  BY <1>0, <1>2 DEF Bound, Same
<1>5. CASE faults' = faults + 1
  <2>1. \A s \in Transfers : ~DepositSave(s)
    BY <1>0, <1>5 DEF DepositSave, Overwrites
  <2>2. Bound <= Bound' /\ Bound' \in Nat
    <3>1. Bound' = Cardinality(Saved') + N * faults + N
      <4> DEFINE d == N * (faults + 1)
                 c == Cardinality(Saved')
      <4>1. Bound' = c + d
        BY <1>4, <1>5
      <4>2. d = N * faults + N /\ N * faults \in Nat /\ c \in Nat
        BY <1>2, <1>3
      <4> HIDE DEF d, c
      <4>3. Bound' = c + N * faults + N
        BY <1>0, <4>1, <4>2
      <4> QED BY <4>3 DEF c
    <3> HIDE DEF N
    <3> QED BY <1>0, <1>1, <1>2, <1>3, <1>4, <3>1 DEF N
  <2> QED BY <1>1, <2>1, <2>2
<1>6. CASE faults' = faults
  <2>1. ~HandlerThrows /\ ~Crash
    BY <1>0, <1>6 DEF HandlerThrows, Crash, Fault
  <2>2. Saved \subseteq Saved'
    BY <2>1, SavedStays
  <2>3. Cardinality(Saved) <= Cardinality(Saved')
    BY <1>2, <2>2, FS_Subset
  <2>4. ASSUME NEW s \in Transfers, DepositSave(s)
        PROVE  Cardinality(Saved) + 1 <= Cardinality(Saved')
    <3> DEFINE j == <<"deposit", s>>
    <3>1. s \notin Saved
      BY <2>4 DEF DepositSave, At, Saved
    <3>2. s \in Saved'
      <4>1. j \in Jobs /\ jobs[j].status = "active"
        BY <2>4, JobFacts DEF DepositSave, At
      <4>2. jobs' = jobs /\ task'[j].pc = "queue"
        BY <2>4, <4>1, GotoFacts DEF DepositSave, Types, Places
      <4> QED BY <1>0, <4>1, <4>2 DEF Saved, At, Same
    <3>3. Cardinality(Saved \cup {s}) = Cardinality(Saved) + 1
      BY <1>1, <3>1, FS_AddElement
    <3>4. Cardinality(Saved \cup {s}) <= Cardinality(Saved')
      <4>1. Saved \cup {s} \subseteq Saved'
        BY <2>2, <3>2
      <4> QED BY <1>2, <4>1, FS_Subset
    <3> QED BY <3>3, <3>4
  <2> HIDE DEF N
  <2>5. Bound' = Cardinality(Saved') + N * faults
    BY <1>4, <1>6
  <2> QED BY <1>1, <1>2, <1>3, <1>4, <2>3, <2>4, <2>5
<1> QED BY <1>0, <1>5, <1>6

\* A payment state that is saved counts one transfer more than the one that was read, or what it did.
LEMMA PaymentMoves ==
  ASSUME Types, CheckInv, Next
  PROVE  \/ UNCHANGED payment
         \/ /\ CheckSave /\ At(check, "save") /\ task[check].read \in NatPayment
            /\ payment'.paid = task[check].read.paid
         \/ \E s \in Transfers :
              LET j == <<"deposit", s>>
                  old == IF task[j].read = None THEN NoUnits ELSE task[j].read.paid
              IN  /\ DepositSave(s) /\ j \in Jobs /\ Deposits[s] \in Currencies
                  /\ task[j].read \in NatPayment \cup {None} /\ old \in [Currencies -> Nat]
                  /\ payment'.paid = [old EXCEPT ![Deposits[s]] = @ + 1]
<1>1. CASE CheckSave
  <2>1. At(check, "save") /\ task[check].read \in NatPayment
    BY <1>1 DEF CheckSave, At, CheckInv, Active
  <2>2. payment'.paid = task[check].read.paid
    BY <1>1, <2>1 DEF CheckSave, NatPayment
  <2> QED BY <1>1, <2>1, <2>2
<1>2. ASSUME NEW s \in Transfers, DepositSave(s)
      PROVE  LET j == <<"deposit", s>>
                 old == IF task[j].read = None THEN NoUnits ELSE task[j].read.paid
             IN  /\ DepositSave(s) /\ j \in Jobs /\ Deposits[s] \in Currencies
                 /\ task[j].read \in NatPayment \cup {None} /\ old \in [Currencies -> Nat]
                 /\ payment'.paid = [old EXCEPT ![Deposits[s]] = @ + 1]
  <2> DEFINE j == <<"deposit", s>>
             old == IF task[j].read = None THEN NoUnits ELSE task[j].read.paid
             state == IF task[j].read = None THEN Fresh ELSE task[j].read
  <2>1. j \in Jobs /\ task[j].read \in NatPayment \cup {None} /\ Deposits[s] \in Currencies
    BY JobFacts, TransferFacts DEF Types, JobTypes, Held
  <2>2. state \in NatPayment /\ state.paid = old
    BY <2>1 DEF NatPayment, Fresh, NoUnits
  <2>3. payment' = [state EXCEPT !.paid[Deposits[s]] = @ + 1]
    BY <1>2 DEF DepositSave
  <2> HIDE DEF state
  <2>4. payment'.paid = [state.paid EXCEPT ![Deposits[s]] = @ + 1] /\ old \in [Currencies -> Nat]
    BY <2>2, <2>3 DEF NatPayment
  <2> QED BY <1>2, <2>1, <2>2, <2>4
<1>3. UNCHANGED payment \/ (\E s \in Transfers : DepositSave(s)) \/ CheckSave
  BY DEF Next, DepositJob, CheckJob, WithdrawJob, StartJob, rows,
     UserPays, TimePasses, PollFetch, PollQueue, Intake, DepositRead, DepositCredit, DepositQueue, DepositRefund,
     CheckRead, CheckRefuse, CheckRefundDebit, CheckRefundTransfer, CheckAccept, CheckQueue, WithdrawRead, WithdrawDebit, WithdrawSend, WithdrawQueue, WithdrawFail,
     WithdrawalMoves, Monitor, Confirm, Join, StartMark, StartLaunch, HandlerThrows, Crash
<1> QED BY <1>1, <1>2, <1>3

\* No payment state counts more transfers than were saved, or run again.
LEMMA UnitsKept ==
  ASSUME Types, TriesInv, DepositInv, CheckInv, WithdrawInv, KeysInv, UnitsInv, Next
  PROVE  UnitsInv'
<1>0. Same /\ Units' = Units /\ Bound \in Nat /\ Bound' \in Nat /\ Bound <= Bound'
  BY SetupSame, BoundGrows DEF Same, Units
<1>1. /\ payment \in NatPayment \cup {None} /\ \A j \in Jobs : task[j].read \in NatPayment \cup {None}
      /\ None \notin NatPayment
  BY NoneAssumption DEF Types, JobTypes, Held, NatPayment
<1>2. ASSUME payment' # None, NEW a \in Currencies PROVE payment'.paid[a] <= Bound'
  <2>1. CASE UNCHANGED payment
    <3>1. payment.paid[a] <= Bound /\ payment.paid[a] \in Nat
      BY <1>1, <1>2, <2>1 DEF UnitsInv, NatPayment
    <3> QED BY <1>0, <2>1, <3>1
  <2>2. CASE CheckSave /\ task[check].read \in NatPayment /\ payment'.paid = task[check].read.paid
    <3>1. task[check].read.paid[a] <= Bound /\ task[check].read.paid[a] \in Nat
      BY <1>1, <2>2, JobFacts DEF UnitsInv, NatPayment
    <3> QED BY <1>0, <2>2, <3>1
  <2>3. ASSUME NEW s \in Transfers, NEW old \in [Currencies -> Nat], DepositSave(s),
               old = IF task[<<"deposit", s>>].read = None THEN NoUnits ELSE task[<<"deposit", s>>].read.paid,
               payment'.paid = [old EXCEPT ![Deposits[s]] = @ + 1]
        PROVE  payment'.paid[a] <= Bound'
    <3>1. old[a] <= Bound
      <4>1. CASE task[<<"deposit", s>>].read = None
        BY <1>0, <2>3, <4>1 DEF NoUnits
      <4>2. CASE task[<<"deposit", s>>].read # None
        BY <1>2, <2>3, <4>2, JobFacts DEF UnitsInv
      <4> QED BY <4>1, <4>2
    <3>2. Bound + 1 <= Bound'
      BY <2>3, BoundGrows
    <3>3. payment'.paid[a] \in {old[a], old[a] + 1} /\ old[a] \in Nat
      BY <2>3
    <3> QED BY <1>0, <3>1, <3>2, <3>3
  <2> QED BY <2>1, <2>2, <2>3, PaymentMoves
<1>3. ASSUME NEW j \in Jobs, task'[j].read # None, NEW a \in Currencies PROVE task'[j].read.paid[a] <= Bound'
  <2>1. CASE task'[j].read \in {payment, task[j].read}
    <3>1. task'[j].read \in NatPayment /\ task'[j].read.paid[a] <= Bound
      BY <1>1, <1>3, <2>1 DEF UnitsInv
    <3>2. task'[j].read.paid[a] \in Nat
      BY <3>1 DEF NatPayment
    <3> QED BY <1>0, <3>1, <3>2
  <2>2. ASSUME task[check].read \in NatPayment, j = check, NEW b \in Assets,
               task'[check].read = [task[check].read EXCEPT !.paid[b] = 0]
        PROVE  task'[j].read.paid[a] <= Bound'
    <3>1. b \in Currencies /\ task[check].read.paid[a] <= Bound /\ task[check].read.paid[a] \in Nat
      BY <1>1, <2>2, JobFacts DEF UnitsInv, NatPayment, Currencies
    <3>2. task'[j].read.paid[a] \in {0, task[check].read.paid[a]}
      BY <2>2, <3>1, StruckFacts
    <3> QED BY <1>0, <3>1, <3>2
  <2> QED BY <1>3, <2>1, <2>2, ReadMoves
<1>4. ASSUME NEW k \in ledger'.keys PROVE k.amount \in Units
  <2>1. CASE k \in ledger.keys
    BY <2>1 DEF UnitsInv
  <2>2. ASSUME NEW w \in Commands, NEW s \in Nat, NEW a \in Currencies, NEW n \in Nat, Adds(w, s, a, n),
               k = LedgerKey(w, s, a, n)
        PROVE  n \in Units
    <3>1. CASE w = "credit"
      <4>1. n = 1 /\ Transfers # {}
        BY <2>2, <3>1 DEF Adds
      <4>2. Cardinality(Transfers) \in Nat \ {0} /\ setup.maxFaults \in Nat
        BY <4>1, TransferFacts DEF Types
      <4>3. \A x, y \in Nat : x * y \in Nat /\ x * (y + 1) = x * y + x
        BY Distributes
      <4> DEFINE N == Cardinality(Transfers)
      <4>4. N * setup.maxFaults \in Nat /\ N * (setup.maxFaults + 1) = N * setup.maxFaults + N
        BY <4>2, <4>3
      <4> QED BY <4>1, <4>2, <4>4 DEF Units
    <3>2. CASE w = "refund"
      <4>1. n = task[check].read.paid[a] /\ a \in Assets /\ At(check, "refund")
        BY <2>2, <3>2 DEF Adds, RefundStep
      <4>2. task[check].read \in NatPayment
        BY <4>1 DEF CheckInv, At, Active
      <4> QED BY <1>1, <4>1, <4>2, JobFacts, BoundFacts DEF UnitsInv
    <3>3. CASE w = "withdraw"
      <4>1. n = task[withdraw].read.paid[a] /\ a \in Currencies /\ At(withdraw, "debit")
        BY <2>2, <3>3 DEF Adds, WithdrawStep
      <4>2. task[withdraw].read \in NatPayment
        BY <4>1 DEF WithdrawInv, At, Active
      <4> QED BY <1>1, <4>1, <4>2, JobFacts, BoundFacts DEF UnitsInv
    <3>4. CASE w \in {"refund-compensation", "withdraw-compensation"}
      <4>1. \E v \in {"refund", "withdraw"} : Has(v, 0, a, n)
        BY <2>2, <3>4 DEF Adds
      <4> QED BY <4>1 DEF Has, LedgerKey, UnitsInv
    <3> QED BY <3>1, <3>2, <3>3, <3>4 DEF Commands
  <2>3. CASE k \notin ledger.keys
    <3>1. PICK w \in Commands, s \in Nat, a \in Currencies, n \in Nat : Adds(w, s, a, n)
      BY <2>3, KeyAdded
    <3>2. k = LedgerKey(w, s, a, n)
      BY <2>3, <3>1 DEF Adds
    <3>3. n \in Units
      BY <2>2, <3>1, <3>2
    <3> QED BY <3>2, <3>3 DEF LedgerKey
  <2> QED BY <2>1, <2>3
<1> QED BY <1>0, <1>2, <1>3, <1>4 DEF UnitsInv, Same
-----------------------------------------------------------------------------
(* Behaviours in which no answer is lost and no handler run over. *)

\* What such a step does not do.
LEMMA CalmFacts ==
  ASSUME Types, Next, Calm'
  PROVE  /\ Calm /\ ~HandlerThrows /\ ~Crash
         /\ \A kind : Fault(kind) => kind \in {"reject", "slow", "pair"} /\ kind \in seen'
         /\ \A j : Overwrites(j) => task[j].read = payment
<1>1. Calm
  BY FaultFacts DEF Calm
<1>2. \A kind : Fault(kind) => kind \in {"reject", "slow", "pair"} /\ kind \in seen'
  BY DEF Fault, Calm
<1>3. ~HandlerThrows /\ ~Crash
  BY <1>2 DEF HandlerThrows, Crash
<1>4. \A j : Overwrites(j) => task[j].read = payment
  BY DEF Overwrites, Calm
<1> QED BY <1>1, <1>2, <1>3, <1>4

\* A transfer is sent back by its own handlers.
LEMMA BounceMoves ==
  ASSUME Next
  PROVE  UNCHANGED bounced \/ \E s \in Transfers : Bounces(s) /\ (Intake(s) \/ DepositRefund(s)) /\ DepositJob(s)
BY DEF Next, DepositJob, CheckJob, WithdrawJob, StartJob, mixin,
   UserPays, TimePasses, PollFetch, PollQueue, Intake, DepositRead, DepositCredit, DepositSave, DepositQueue, DepositRefund,
   CheckRead, CheckRefuse, CheckRefundDebit, CheckRefundTransfer, CheckAccept, CheckSave, CheckQueue, WithdrawRead, WithdrawDebit, WithdrawSend, WithdrawQueue, WithdrawFail,
   WithdrawalMoves, Monitor, Confirm, Join, StartMark, StartLaunch, HandlerThrows, Crash

\* A deposit that is known is not queued again.
LEMMA DepositQueuedOnce ==
  ASSUME Types, TriesInv, Next, NEW s \in Transfers, Intake(s)
  PROVE  /\ jobs'[<<"intake", s>>].status = "absent"
         /\ jobs'[<<"deposit", s>>] = jobs[<<"deposit", s>>]
            \/ (jobs[<<"deposit", s>>].status = "absent" /\ jobs'[<<"deposit", s>>].status = "waiting"
                /\ UNCHANGED bounced)
<1> DEFINE i == <<"intake", s>>
           j == <<"deposit", s>>
<1>j. i \in Jobs /\ j \in Jobs /\ i # j /\ jobs \in [Jobs -> Job]
  BY JobFacts DEF Types, JobTypes
<1>1. /\ Finished(jobs, i) \in [Jobs -> Job] /\ Finished(jobs, i)[j] = jobs[j]
      /\ Finished(jobs, i)[i] = [status |-> "absent", tries |-> 0]
  BY <1>j, FinishedFacts DEF Removed
<1>2. /\ Added(Finished(jobs, i), j)[i] = Finished(jobs, i)[i]
      /\ jobs[j].status # "absent" => Added(Finished(jobs, i), j)[j] = jobs[j]
      /\ jobs[j].status = "absent" => Added(Finished(jobs, i), j)[j] = [status |-> "waiting", tries |-> 0]
  <2> DEFINE js == Finished(jobs, i)
  <2>1. js \in [Jobs -> Job] /\ js[j] = jobs[j]
    BY <1>1
  <2> HIDE DEF js, i, j
  <2>2. /\ Added(js, j)[i] = js[i]
        /\ js[j].status # "absent" => Added(js, j) = js
        /\ js[j].status = "absent" => Added(js, j)[j] = [status |-> "waiting", tries |-> 0]
    BY <1>j, <2>1, AddedFacts
  <2> QED BY <2>1, <2>2 DEF js
<1>3. \/ jobs' = Finished(jobs, i)
      \/ jobs' = Added(Finished(jobs, i), j) /\ UNCHANGED bounced
  BY DEF Intake
<1> QED BY <1>1, <1>2, <1>3

\* A transfer is taken in once, and sent back at most once before it is counted.
LEMMA IntakeKept ==
  ASSUME Types, TriesInv, DepositInv, CheckInv, MadeInv, IntakeInv, Next
  PROVE  IntakeInv'
<1> SUFFICES ASSUME Calm', NEW s \in Transfers
             PROVE  /\ s > cursor' \/ s \in fetched' => jobs'[<<"intake", s>>].status = "absent"
                    /\ s > cursor' \/ s \in fetched' \/ jobs'[<<"intake", s>>].status # "absent" =>
                         jobs'[<<"deposit", s>>].status = "absent" /\ bounced'[s] = 0
                    /\ bounced'[s] <= 1
                    /\ bounced'[s] > 0 => jobs'[<<"deposit", s>>].status \in {"absent", "done"}
  BY SetupSame DEF IntakeInv, Same
<1> DEFINE i == <<"intake", s>>
           j == <<"deposit", s>>
<1>c. Calm /\ ~HandlerThrows /\ ~Crash /\ ~Fault("reread") /\ ~Fault("lost")
  BY CalmFacts
<1>j. /\ i \in Jobs /\ j \in Jobs /\ i # j /\ jobs \in [Jobs -> Job] /\ task \in [Jobs -> Held]
      /\ s \in Nat /\ bounced \in [Transfers -> Nat] /\ cursor \in Nat /\ made \in Nat /\ cursor <= made
      /\ fetched \subseteq 1..cursor /\ JobTypes
  BY JobFacts, TransferFacts DEF Types, JobTypes
<1>i. /\ s > cursor \/ s \in fetched => jobs[i].status = "absent"
      /\ s > cursor \/ s \in fetched \/ jobs[i].status # "absent" =>
                         jobs[j].status = "absent" /\ bounced[s] = 0
      /\ bounced[s] <= 1
      /\ bounced[s] > 0 => jobs[j].status \in {"absent", "done"}
  BY <1>c DEF IntakeInv
<1> HIDE DEF i, j
<1> SUFFICES  /\ s > cursor' \/ s \in fetched' => jobs'[i].status = "absent"
              /\ s > cursor' \/ s \in fetched' \/ jobs'[i].status # "absent" =>
                   jobs'[j].status = "absent" /\ bounced'[s] = 0
              /\ bounced'[s] <= 1
              /\ bounced'[s] > 0 => jobs'[j].status \in {"absent", "done"}
  BY DEF i, j
<1>1. CASE PollFetch
  <2>1. cursor' = made /\ fetched' = (cursor + 1)..made /\ UNCHANGED <<jobs, bounced>>
    BY <1>1, <1>c DEF PollFetch, mixin
  <2> QED BY <1>i, <1>j, <2>1
<1>2. CASE PollQueue
  <2>1. cursor' = cursor /\ fetched' = {} /\ UNCHANGED bounced
    BY <1>2 DEF PollQueue, mixin
  <2>2. jobs'[j] = jobs[j] /\ (s \notin fetched => jobs'[i] = jobs[i])
    BY <1>2, <1>j DEF PollQueue, i, j
  <2> QED BY <1>i, <1>j, <2>1, <2>2
<1>3. CASE Intake(s)
  <2>1. jobs[i].status = "waiting" /\ UNCHANGED <<cursor, fetched>>
    BY <1>3 DEF Intake, intake, i
  <2>2. s <= cursor /\ s \notin fetched /\ jobs[j].status = "absent" /\ bounced[s] = 0
    BY <1>i, <1>j, <2>1
  <2>3. jobs'[i].status = "absent"
        /\ (jobs'[j].status = "absent" \/ (jobs'[j].status = "waiting" /\ UNCHANGED bounced))
    BY <1>3, <2>2, DepositQueuedOnce DEF i, j
  <2>4. bounced'[s] \in {bounced[s], bounced[s] + 1}
    BY <1>3, <1>j DEF Intake, Bounces
  <2> QED BY <1>j, <2>1, <2>2, <2>3, <2>4
<1>4. CASE DepositRead(s) \/ DepositCredit(s) \/ DepositSave(s) \/ DepositQueue(s) \/ DepositRefund(s)
  <2>1. UNCHANGED <<cursor, fetched>>
    BY <1>4 DEF DepositRead, DepositCredit, DepositSave, DepositQueue, DepositRefund, intake
  <2>2. jobs[j].status \in {"waiting", "active"}
    BY <1>4 DEF DepositRead, DepositCredit, DepositSave, DepositQueue, DepositRefund, Starts, At, j
  <2>3. s <= cursor /\ s \notin fetched /\ jobs[i].status = "absent" /\ bounced[s] = 0
    BY <1>i, <1>j, <2>2
  <2>4. jobs'[i] = jobs[i]
    <3>1. ~PollQueue /\ ~Intake(s)
      <4>1. ~PollQueue
        BY <2>1, <1>j DEF PollQueue
      <4> QED BY <2>3, <4>1 DEF Intake, i
    <3> QED BY <1>c, <3>1, JobMoves DEF Untouched, i
  <2>5. bounced'[s] = 0 \/ (bounced'[s] = 1 /\ jobs'[j].status = "done")
    <3>1. CASE DepositRefund(s)
      <4>1. \/ Bounces(s) /\ jobs' = Finished(jobs, j)
            \/ UNCHANGED bounced
        BY <1>c, <3>1 DEF DepositRefund, Ends, j
      <4>2. Finished(jobs, j)[j].status = "done"
        BY <1>j, FinishedStatus DEF Removed, j
      <4> QED BY <1>j, <2>3, <4>1, <4>2 DEF Bounces
    <3>2. CASE ~DepositRefund(s)
      BY <1>4, <2>3, <3>2 DEF DepositRead, DepositCredit, DepositSave, DepositQueue, mixin
    <3> QED BY <3>1, <3>2
  <2> QED BY <1>j, <2>1, <2>3, <2>4, <2>5
<1>5. CASE ~PollFetch /\ ~PollQueue /\ ~DepositJob(s)
  <2>1. jobs'[i] = jobs[i] /\ jobs'[j] = jobs[j]
    BY <1>c, <1>5, JobMoves DEF Untouched, i, j, DepositJob
  <2>2. UNCHANGED <<cursor, fetched>>
    BY <1>5, <1>c DEF Next, DepositJob, CheckJob, WithdrawJob, StartJob, intake,
       UserPays, TimePasses, Intake, DepositRead, DepositCredit, DepositSave, DepositQueue, DepositRefund,
       CheckRead, CheckRefuse, CheckRefundDebit, CheckRefundTransfer, CheckAccept, CheckSave, CheckQueue, WithdrawRead, WithdrawDebit, WithdrawSend, WithdrawQueue, WithdrawFail,
       WithdrawalMoves, Monitor, Confirm, Join, StartMark, StartLaunch
  <2>3. UNCHANGED bounced \/ \E t \in Transfers : Bounces(t) /\ DepositJob(t)
    BY BounceMoves
  <2>4. bounced'[s] = bounced[s]
    BY <1>5, <1>j, <2>3 DEF Bounces
  <2> QED BY <1>i, <2>1, <2>2, <2>4
<1> QED BY <1>1, <1>2, <1>3, <1>4, <1>5 DEF DepositJob

\* A transfer is credited by its own handler.
LEMMA CreditComes ==
  ASSUME Types, CheckInv, WithdrawInv, KeysInv, UnitsInv, Next, NEW s \in Transfers, Credited(s)'
  PROVE  Credited(s) \/ DepositCredit(s)
<1>0. Same
  BY SetupSame
<1>1. CASE UNCHANGED ledger
  BY <1>0, <1>1 DEF Credited, Has, Same
<1>2. ASSUME NEW w \in Commands, NEW t \in Nat, NEW a \in Currencies, NEW n \in Nat, Adds(w, t, a, n)
      PROVE  Credited(s) \/ DepositCredit(s)
  <2>1. LedgerKey("credit", s, Deposits[s], 1) \in ledger.keys \cup {LedgerKey(w, t, a, n)}
    BY <1>0, <1>2 DEF Adds, Credited, Has, Same
  <2>2. LedgerKey("credit", s, Deposits[s], 1) = LedgerKey(w, t, a, n) => w = "credit" /\ t = s
    BY KeyFacts
  <2> QED BY <1>2, <2>1, <2>2 DEF Adds, Credited, Has
<1> QED BY <1>1, <1>2, KeyAdded

\* A transfer of the order's assets that was credited is on its way to be saved, and not sent back.
LEMMA CreditedKept ==
  ASSUME Types, TriesInv, DepositInv, CheckInv, WithdrawInv, KeysInv, MadeInv, UnitsInv, IntakeInv, CreditedInv, Next
  PROVE  CreditedInv'
<1>0. Same
  BY SetupSame
<1> SUFFICES ASSUME Calm', NEW s \in Transfers, Deposits[s] \in Assets, Credited(s)'
             PROVE  /\ bounced'[s] = 0
                    /\ \/ At(<<"deposit", s>>, "save")' \/ At(<<"deposit", s>>, "queue")'
                       \/ jobs'[<<"deposit", s>>].status = "done"
  BY <1>0 DEF CreditedInv, Same
<1> DEFINE i == <<"intake", s>>
           j == <<"deposit", s>>
<1>c. Calm /\ ~HandlerThrows /\ ~Crash
  BY CalmFacts
<1>j. /\ i \in Jobs /\ j \in Jobs /\ i # j /\ jobs \in [Jobs -> Job] /\ task \in [Jobs -> Held]
      /\ bounced \in [Transfers -> Nat] /\ JobTypes /\ "save" \in Places /\ "queue" \in Places
  BY JobFacts DEF Types, JobTypes, Places
<1>i. /\ jobs[i].status # "absent" => jobs[j].status = "absent"
      /\ bounced[s] > 0 => jobs[j].status \in {"absent", "done"}
  BY <1>c DEF IntakeInv
<1> DEFINE Through(js, ts) == \/ js[j].status = "active" /\ ts[j].pc \in {"save", "queue"}
                              \/ js[j].status = "done"
<1>g. Through(jobs', task') <=> \/ At(j, "save")' \/ At(j, "queue")' \/ jobs'[j].status = "done"
  BY DEF At
<1>h. Credited(s) => bounced[s] = 0 /\ Through(jobs, task)
  BY <1>c DEF CreditedInv, At
<1> HIDE DEF i, j
<1> SUFFICES bounced'[s] = 0 /\ Through(jobs', task')
  BY <1>g DEF j
<1>1. CASE DepositCredit(s)
  <2>1. jobs[j].status = "active" /\ Goto(j, "save") /\ UNCHANGED bounced
    BY <1>1 DEF DepositCredit, At, mixin, j
  <2>2. bounced[s] = 0
    BY <1>i, <1>j, <2>1
  <2> QED BY <1>j, <2>1, <2>2, GotoFacts
<1>2. CASE Credited(s)
  <2>1. bounced'[s] = 0
    <3>1. ~Intake(s) /\ ~DepositRefund(s)
      BY <1>2, <1>h, <1>i DEF Intake, DepositRefund, At, i, j
    <3> QED BY <1>2, <1>h, <1>j, <3>1, BounceMoves DEF Bounces
  <2>2. CASE Untouched(j)
    BY <1>2, <1>h, <2>1, <2>2 DEF Untouched
  <2>3. CASE DepositSave(s)
    BY <1>j, <2>1, <2>3, GotoFacts DEF DepositSave, At, j
  <2>4. CASE DepositQueue(s)
    <3>1. Finished(jobs, j) \in [Jobs -> Job] /\ Finished(jobs, j)[j].status = "done"
      BY <1>j, FinishedFacts, FinishedStatus DEF Removed, j
    <3>2. Added(Finished(jobs, j), <<"check", 0>>)[j] = Finished(jobs, j)[j]
      BY ZenonT(30), <1>j, <3>1, JobFacts, AddedFacts DEF check, j
    <3> QED BY <2>1, <2>4, <3>1, <3>2 DEF DepositQueue, Ends, j
  <2>5. ~Intake(s) /\ ~DepositRead(s) /\ ~DepositCredit(s) /\ ~DepositRefund(s)
    BY <1>2, <1>h, <1>i DEF Intake, DepositRead, DepositCredit, DepositRefund, Starts, At, i, j
  <2> QED BY <1>c, <2>1, <2>2, <2>3, <2>4, <2>5, JobMoves DEF DepositJob, j
<1> QED BY <1>1, <1>2, CreditComes

\* What was saved was credited.
LEMMA SavedCounted ==
  ASSUME Types, KeysInv, NEW a \in Currencies
  PROVE  Cardinality(SavedOf(a)) <= Credits(a) /\ Cardinality(SavedOf(a)) \in Nat /\ Credits(a) \in Nat
<1>1. SavedOf(a) \subseteq CreditedOf(a)
  BY DEF SavedOf, Saved, CreditedOf
<1>2. IsFiniteSet(CreditedOf(a)) /\ Credits(a) = Cardinality(CreditedOf(a)) /\ Credits(a) \in Nat
  BY CreditsCounted
<1>3. IsFiniteSet(SavedOf(a)) /\ Cardinality(SavedOf(a)) <= Cardinality(CreditedOf(a))
  BY <1>1, <1>2, FS_Subset
<1> QED BY <1>2, <1>3, FS_CardinalityType

\* What was saved is counted, and nothing that was counted is forgotten.
LEMMA SavedGrows ==
  ASSUME Types, TriesInv, DepositInv, CheckInv, WithdrawInv, KeysInv, Next, Calm', NEW a \in Assets
  PROVE  /\ Cardinality(SavedOf(a)) \in Nat /\ Cardinality(SavedOf(a)') \in Nat
         /\ Cardinality(SavedOf(a)) <= Cardinality(SavedOf(a)')
         /\ \A s \in Transfers : DepositSave(s) /\ Deposits[s] = a =>
              Cardinality(SavedOf(a)) + 1 <= Cardinality(SavedOf(a)')
<1>0. /\ Same /\ IsFiniteSet(Transfers) /\ ~HandlerThrows /\ ~Crash /\ ledger.keys \subseteq ledger'.keys
  BY SetupSame, TransferFacts, CalmFacts, LedgerTypesKept DEF Types
<1>1. IsFiniteSet(SavedOf(a)) /\ Cardinality(SavedOf(a)) \in Nat
  <2>1. SavedOf(a) \subseteq Transfers
    BY DEF SavedOf, Saved
  <2> QED BY <1>0, <2>1, FS_Subset, FS_CardinalityType
<1>2. IsFiniteSet(SavedOf(a)') /\ Cardinality(SavedOf(a)') \in Nat
  <2>1. SavedOf(a)' \subseteq Transfers
    BY <1>0 DEF SavedOf, Saved, Same
  <2> QED BY <1>0, <2>1, FS_Subset, FS_CardinalityType
<1>3. SavedOf(a) \subseteq SavedOf(a)'
  <2>1. Saved \subseteq Saved'
    BY <1>0, SavedStays
  <2> QED BY <1>0, <2>1 DEF SavedOf, Credited, Has, Same
<1>4. Cardinality(SavedOf(a)) <= Cardinality(SavedOf(a)')
  BY <1>2, <1>3, FS_Subset
<1>5. ASSUME NEW s \in Transfers, DepositSave(s), Deposits[s] = a
      PROVE  Cardinality(SavedOf(a)) + 1 <= Cardinality(SavedOf(a)')
  <2> DEFINE j == <<"deposit", s>>
  <2>1. j \in Jobs /\ jobs[j].status = "active" /\ task[j].pc = "save"
    BY <1>5, JobFacts DEF DepositSave, At
  <2>2. s \notin SavedOf(a)
    BY <2>1 DEF SavedOf, Saved, At
  <2>3. s \in SavedOf(a)'
    <3>1. Credited(s)
      BY <2>1 DEF DepositInv, Active
    <3>2. jobs' = jobs /\ task'[j].pc = "queue"
      BY <1>5, <2>1, GotoFacts DEF DepositSave, Types, Places
    <3> QED BY <1>0, <1>5, <2>1, <3>1, <3>2 DEF SavedOf, Saved, At, Credited, Has, Same
  <2>4. Cardinality(SavedOf(a) \cup {s}) = Cardinality(SavedOf(a)) + 1
    BY <1>1, <2>2, FS_AddElement
  <2>5. SavedOf(a) \cup {s} \subseteq SavedOf(a)'
    BY <1>3, <2>3
  <2> QED BY <1>2, <2>4, <2>5, FS_Subset
<1> QED BY <1>1, <1>2, <1>4, <1>5

\* No payment state counts more of an asset than was credited and saved.
LEMMA PaidKept ==
  ASSUME Types, TriesInv, DepositInv, CheckInv, WithdrawInv, KeysInv, PaidInv, Next
  PROVE  PaidInv'
<1> SUFFICES ASSUME Calm', NEW a \in Assets
             PROVE  /\ payment' # None => payment'.paid[a] <= Cardinality(SavedOf(a)')
                    /\ \A j \in Jobs : task'[j].read # None => task'[j].read.paid[a] <= Cardinality(SavedOf(a)')
  BY SetupSame DEF PaidInv, Same
<1>0. /\ Cardinality(SavedOf(a)) \in Nat /\ Cardinality(SavedOf(a)') \in Nat
      /\ Cardinality(SavedOf(a)) <= Cardinality(SavedOf(a)')
      /\ \A s \in Transfers : DepositSave(s) /\ Deposits[s] = a =>
           Cardinality(SavedOf(a)) + 1 <= Cardinality(SavedOf(a)')
  BY SavedGrows
<1>1. /\ payment \in NatPayment \cup {None} /\ \A j \in Jobs : task[j].read \in NatPayment \cup {None}
      /\ None \notin NatPayment /\ a \in Currencies
  BY NoneAssumption DEF Types, JobTypes, Held, NatPayment, Currencies
<1>2. /\ payment # None => payment.paid[a] \in Nat /\ payment.paid[a] <= Cardinality(SavedOf(a))
      /\ \A j \in Jobs : task[j].read # None =>
           task[j].read.paid[a] \in Nat /\ task[j].read.paid[a] <= Cardinality(SavedOf(a))
  <2>1. Calm
    BY CalmFacts
  <2>2. \A p \in NatPayment : p.paid[a] \in Nat
    BY <1>1 DEF NatPayment
  <2> QED BY <1>1, <2>1, <2>2 DEF PaidInv
<1>3. ASSUME payment' # None PROVE payment'.paid[a] <= Cardinality(SavedOf(a)')
  <2>1. CASE UNCHANGED payment
    BY <1>0, <1>2, <1>3, <2>1
  <2>2. CASE task[check].read \in NatPayment /\ payment'.paid = task[check].read.paid
    <3>1. task[check].read.paid[a] \in Nat /\ task[check].read.paid[a] <= Cardinality(SavedOf(a))
      BY <1>1, <1>2, <2>2, JobFacts
    <3> QED BY <1>0, <2>2, <3>1
  <2>3. ASSUME NEW s \in Transfers, NEW old \in [Currencies -> Nat], DepositSave(s),
               old = IF task[<<"deposit", s>>].read = None THEN NoUnits ELSE task[<<"deposit", s>>].read.paid,
               payment'.paid = [old EXCEPT ![Deposits[s]] = @ + 1]
        PROVE  payment'.paid[a] <= Cardinality(SavedOf(a)')
    <3>1. old[a] <= Cardinality(SavedOf(a)) /\ old[a] \in Nat
      <4>1. CASE task[<<"deposit", s>>].read = None
        BY <1>0, <1>1, <2>3, <4>1 DEF NoUnits
      <4>2. CASE task[<<"deposit", s>>].read # None
        BY <1>2, <2>3, <4>2, JobFacts
      <4> QED BY <4>1, <4>2
    <3>2. payment'.paid[a] = IF Deposits[s] = a THEN old[a] + 1 ELSE old[a]
      BY <1>1, <2>3
    <3> QED BY <1>0, <2>3, <3>1, <3>2
  <2> QED BY <2>1, <2>2, <2>3, PaymentMoves
<1>4. ASSUME NEW j \in Jobs, task'[j].read # None PROVE task'[j].read.paid[a] <= Cardinality(SavedOf(a)')
  <2>1. CASE task'[j].read \in {payment, task[j].read}
    BY <1>0, <1>2, <1>4, <2>1
  <2>2. ASSUME task[check].read \in NatPayment, j = check, NEW b \in Assets,
               task'[check].read = [task[check].read EXCEPT !.paid[b] = 0]
        PROVE  task'[j].read.paid[a] <= Cardinality(SavedOf(a)')
    <3>1. b \in Currencies /\ task[check].read.paid[a] \in Nat
          /\ task[check].read.paid[a] <= Cardinality(SavedOf(a))
      BY <1>1, <1>2, <2>2, JobFacts DEF Currencies
    <3>2. task'[j].read.paid[a] \in {0, task[check].read.paid[a]}
      BY <1>1, <2>2, <3>1, StruckFacts
    <3> QED BY <1>0, <3>1, <3>2
  <2> QED BY <1>4, <2>1, <2>2, ReadMoves
<1> QED BY <1>3, <1>4

\* A payment that is complete stays so.
LEMMA PaymentGrows ==
  ASSUME Types, DepositInv, CheckInv, Next, Calm', Complete(payment)
  PROVE  Complete(payment)'
<1>1. payment \in NatPayment /\ payment' \in NatPayment /\ payment' # None /\ Same
  BY RowTypesKept, SetupSame DEF Complete, Types
<1>2. \A a \in Currencies : payment.paid[a] \in Nat /\ payment'.paid[a] \in Nat
  BY <1>1 DEF NatPayment
<1>3. \A a \in Currencies : payment.paid[a] <= payment'.paid[a]
  <2>1. CASE UNCHANGED payment
    BY <1>2, <2>1
  <2>2. CASE CheckSave /\ payment'.paid = task[check].read.paid
    <3>1. task[check].read = payment
      BY <2>2, CalmFacts DEF CheckSave
    <3> QED BY <1>2, <2>2, <3>1
  <2>3. ASSUME NEW s \in Transfers, DepositSave(s), Deposits[s] \in Currencies, NEW old \in [Currencies -> Nat],
               old = IF task[<<"deposit", s>>].read = None THEN NoUnits ELSE task[<<"deposit", s>>].read.paid,
               payment'.paid = [old EXCEPT ![Deposits[s]] = @ + 1]
        PROVE  \A a \in Currencies : payment.paid[a] <= payment'.paid[a]
    <3>1. task[<<"deposit", s>>].read = payment
      BY <2>3, CalmFacts DEF DepositSave
    <3>2. old = payment.paid
      BY <2>3, <3>1 DEF Complete
    <3> QED BY <1>2, <2>3, <3>2
  <2> QED BY <2>1, <2>2, <2>3, PaymentMoves
<1>4. \A r \in Roles : payment'.paid[r] > 0
  BY <1>2, <1>3 DEF Complete, HasAssets, Currencies, Assets
<1>5. payment'.paid["fee"] >= setup.requiredFee
  <2>1. "fee" \in Currencies /\ setup.requiredFee \in Nat
    BY TransferFacts DEF Currencies, Assets, Types
  <2> QED BY <1>2, <1>3, <2>1 DEF Complete, HasFee
<1> QED BY <1>1, <1>4, <1>5 DEF Complete, HasAssets, HasFee, Same

\* The withdrawal is queued by the check, at its end.
LEMMA WithdrawQueued ==
  ASSUME Types, TriesInv, CheckInv, Next, Calm', jobs[withdraw].status = "absent"
  PROVE  \/ jobs'[withdraw].status = "absent"
         \/ CheckQueue /\ At(check, "queue") /\ UNCHANGED payment /\ jobs'[check].status # "active"
<1>j. /\ check \in Jobs /\ withdraw \in Jobs /\ check # withdraw /\ jobs \in [Jobs -> Job]
      /\ ~HandlerThrows /\ ~Crash
  BY JobFacts, CalmFacts DEF Types, JobTypes, check, withdraw
<1>1. CASE CheckQueue
  <2>1. Finished(jobs, check) \in [Jobs -> Job] /\ Finished(jobs, check)[check].status # "active"
    BY <1>j, FinishedFacts, FinishedStatus
  <2>2. Added(Finished(jobs, check), <<"withdraw", 0>>)[check] = Finished(jobs, check)[check]
    BY <1>j, <2>1, AddedFacts DEF withdraw
  <2> QED BY <1>1, <2>1, <2>2 DEF CheckQueue, Ends
<1>2. CASE Untouched(withdraw)
  BY <1>2 DEF Untouched
<1>3. ~WithdrawJob
  BY DEF WithdrawJob, WithdrawRead, WithdrawDebit, WithdrawSend, WithdrawQueue, WithdrawFail, Starts, At
<1> QED BY <1>j, <1>1, <1>2, <1>3, JobMoves

\* How the check's handler comes to where it is.
LEMMA CheckMoves ==
  ASSUME Types, TriesInv, CheckInv, Next, Calm', jobs'[check].status = "active"
  PROVE  \/ Untouched(check)
         \/ /\ CheckRead /\ payment # None /\ UNCHANGED payment /\ task'[check].read = payment
            /\ \/ task'[check].pc = "refuse" /\ ~Complete(payment)
               \/ task'[check].pc = "accept" /\ Complete(payment)
         \/ /\ At(check, "refuse") /\ CheckRefuse /\ task'[check].pc = "refund"
         \/ /\ At(check, "refund") /\ CheckRefundDebit /\ task'[check].pc = "refund" /\ UNCHANGED ledger
         \/ /\ At(check, "refund") /\ CheckRefundDebit /\ task'[check].pc = "transfer"
            /\ LET a == NextAsset
                   n == task[check].read.paid[NextAsset]
               IN  /\ ToRefund # {} /\ task'[check].role = a /\ task'[check].debited = Covers(a, n)
                   /\ ~Replay("refund", a, n) /\ ~Conflict("refund", a, n)
                   /\ ledger' = IF Covers(a, n) THEN Debit("refund", a, n) ELSE ledger
         \/ /\ At(check, "transfer") /\ CheckRefundTransfer /\ task'[check].pc = "refund"
            /\ UNCHANGED ledger
            /\ returned' = [returned EXCEPT ![task[check].role] = @ + task[check].read.paid[task[check].role]]
         \/ /\ At(check, "accept") /\ CheckAccept /\ task'[check].pc = "save" /\ task'[check].read = task[check].read
         \/ /\ At(check, "save") /\ CheckSave /\ task'[check].pc = "queue" /\ task'[check].read = task[check].read
<1>j. /\ check \in Jobs /\ withdraw \in Jobs /\ check # withdraw /\ jobs \in [Jobs -> Job] /\ JobTypes
      /\ task \in [Jobs -> Held] /\ ~HandlerThrows /\ ~Crash
      /\ "refund" \in Places /\ "save" \in Places /\ "queue" \in Places
  BY JobFacts, CalmFacts DEF Types, JobTypes, check, withdraw, Places
<1>e. Finished(jobs, check)[check].status # "active"
      /\ (jobs[check].status = "active" => Thrown(jobs, check)[check].status # "active")
  BY <1>j, FinishedStatus, ThrownFacts DEF TriesInv, Lasting
<1>1. CASE CheckRead
  <2>1. /\ task'[check].read = payment /\ UNCHANGED payment /\ payment # None
        /\ \/ task'[check].pc = "refuse" /\ (~HasAssets(payment) \/ ~HasFee(payment))
           \/ task'[check].pc = "accept" /\ HasAssets(payment) /\ HasFee(payment)
    BY <1>1, <1>j DEF CheckRead, Starts, Idle, rows
  <2> QED BY <1>1, <2>1 DEF Complete
<1>2. CASE CheckRefuse
  BY <1>2, <1>j, GotoFacts DEF CheckRefuse
<1>3. CASE CheckRefundDebit
  <2> DEFINE a == NextAsset
             n == task[check].read.paid[NextAsset]
  <2>1. \/ task' = [task EXCEPT ![check].read.paid[a] = 0] /\ UNCHANGED ledger
        \/ /\ task' = [task EXCEPT ![check].pc = "transfer", ![check].role = a, ![check].debited = Covers(a, n)]
           /\ ToRefund # {} /\ ~Replay("refund", a, n) /\ ~Conflict("refund", a, n)
           /\ ledger' = IF Covers(a, n) THEN Debit("refund", a, n) ELSE ledger
    BY <1>3, <1>e DEF CheckRefundDebit, Ends, At
  <2>2. At(check, "refund")
    BY <1>3 DEF CheckRefundDebit
  <2>3. CASE task' = [task EXCEPT ![check].read.paid[a] = 0] /\ UNCHANGED ledger
    <3>1. task'[check].pc = task[check].pc
      BY <1>j, <2>3 DEF Held
    <3> QED BY <1>3, <2>2, <2>3, <3>1 DEF At
  <2>4. ASSUME task' = [task EXCEPT ![check].pc = "transfer", ![check].role = a, ![check].debited = Covers(a, n)]
        PROVE  task'[check].pc = "transfer" /\ task'[check].role = a /\ task'[check].debited = Covers(a, n)
    BY <1>j, <2>4 DEF Held
  <2> QED BY <1>3, <2>1, <2>2, <2>3, <2>4
<1>4. CASE CheckRefundTransfer
  <2>1. /\ task' = [task EXCEPT ![check].pc = "refund", ![check].read.paid[task[check].role] = 0]
        /\ UNCHANGED ledger
        /\ returned' = [returned EXCEPT ![task[check].role] = @ + task[check].read.paid[task[check].role]]
    BY <1>4, <1>e DEF CheckRefundTransfer, Ends, At
  <2>2. task'[check].pc = "refund"
    BY <1>j, <2>1 DEF Held
  <2> QED BY <1>4, <2>1, <2>2 DEF CheckRefundTransfer
<1>5. CASE CheckAccept
  BY <1>5, <1>j, GotoFacts DEF CheckAccept
<1>6. CASE CheckSave
  BY <1>6, <1>j, GotoFacts DEF CheckSave
<1>7. ~CheckQueue
  <2>1. Finished(jobs, check) \in [Jobs -> Job]
    BY <1>j, FinishedFacts
  <2>2. Added(Finished(jobs, check), <<"withdraw", 0>>)[check] = Finished(jobs, check)[check]
    BY <1>j, <2>1, AddedFacts DEF withdraw
  <2> QED BY <1>e, <2>2 DEF CheckQueue, Ends
<1>8. ASSUME NEW s \in Transfers, DepositQueue(s) PROVE Untouched(check)
  <2>1. Finished(jobs, <<"deposit", s>>) \in [Jobs -> Job] /\ Finished(jobs, <<"deposit", s>>)[check] = jobs[check]
    BY ZenonT(30), <1>j, JobFacts, FinishedFacts DEF check
  <2>2. Added(Finished(jobs, <<"deposit", s>>), check)[check] \in {jobs[check], [status |-> "waiting", tries |-> 0]}
    BY <1>j, <2>1, AddedFacts
  <2>3. jobs'[check] = jobs[check]
    BY <1>8, <2>2 DEF DepositQueue, Ends, check
  <2> QED BY <1>8, <1>j, <2>3, JobFacts DEF DepositQueue, Ends, Untouched, check
<1> QED BY <1>j, <1>1, <1>2, <1>3, <1>4, <1>5, <1>6, <1>7, <1>8, JobMoves DEF CheckJob

\* An order is refused only as long as it has not been accepted.
LEMMA PhaseKept ==
  ASSUME Types, TriesInv, DepositInv, CheckInv, PhaseInv, Next
  PROVE  PhaseInv'
<1> SUFFICES ASSUME Calm'
             PROVE  /\ jobs'[withdraw].status # "absent" => Complete(payment)'
                    /\ jobs'[check].status = "active" /\ task'[check].pc \in {"accept", "save", "queue"} =>
                         Complete(payment)' /\ Complete(task[check].read)'
                    /\ jobs'[check].status = "active" /\ task'[check].pc \in {"refuse", "refund", "transfer"} =>
                         jobs'[withdraw].status = "absent"
  BY DEF PhaseInv, Active
<1>0. Same /\ Calm /\ (Complete(payment) => Complete(payment)')
  BY SetupSame, CalmFacts, PaymentGrows
<1>1. ASSUME jobs'[withdraw].status # "absent" PROVE Complete(payment)'
  <2>1. CASE jobs[withdraw].status # "absent"
    BY <1>0, <2>1 DEF PhaseInv
  <2>2. CASE At(check, "queue")
    BY <1>0, <2>2 DEF PhaseInv, At, Active
  <2> QED BY <1>1, <2>1, <2>2, WithdrawQueued
<1>2. \A p, q : p = q /\ setup' = setup => (Complete(p) => q # None /\ HasAssets(q) /\ q.paid["fee"] >= setup'.requiredFee)
  BY DEF Complete, HasAssets, HasFee
<1>r. Complete(task[check].read)' <=> /\ task'[check].read # None /\ HasAssets(task'[check].read)
                                     /\ task'[check].read.paid["fee"] >= setup'.requiredFee
  BY DEF Complete, HasAssets, HasFee
<1>3. ASSUME jobs'[check].status = "active", task'[check].pc \in {"accept", "save", "queue"}
      PROVE  Complete(payment)' /\ Complete(task[check].read)'
  <2>1. CASE CheckRead /\ task'[check].read = payment /\ Complete(payment)
    BY <1>0, <1>2, <1>r, <2>1 DEF Same
  <2>2. CASE /\ jobs[check].status = "active" /\ task[check].pc \in {"accept", "save", "queue"}
             /\ task'[check].read = task[check].read
    <3>1. Complete(payment) /\ Complete(task[check].read)
      BY <1>0, <2>2 DEF PhaseInv, Active
    <3> QED BY <1>0, <1>2, <1>r, <2>2, <3>1 DEF Same
  <2>3. CASE Untouched(check)
    BY <1>3, <2>2, <2>3 DEF Untouched
  <2> QED BY <1>3, <2>1, <2>2, <2>3, CheckMoves DEF At
<1>4. ASSUME jobs'[check].status = "active", task'[check].pc \in {"refuse", "refund", "transfer"}
      PROVE  jobs'[withdraw].status = "absent"
  <2>1. CASE jobs[withdraw].status = "absent"
    BY <1>4, <2>1, WithdrawQueued
  <2>2. CASE jobs[withdraw].status # "absent"
    <3>1. Complete(payment)
      BY <1>0, <2>2 DEF PhaseInv
    <3>2. ~(jobs[check].status = "active" /\ task[check].pc \in {"refuse", "refund", "transfer"})
      BY <1>0, <2>2 DEF PhaseInv, Active
    <3> QED BY <1>4, <3>1, <3>2, CheckMoves DEF At, Untouched
  <2> QED BY <2>1, <2>2
<1> QED BY <1>1, <1>3, <1>4

\* What was compensated is what was debited, or nothing.
LEMMA CompensationFacts ==
  ASSUME Types, KeysInv, NEW a \in Currencies
  PROVE  /\ Booked("refund-compensation", a) \in {0, Booked("refund", a)}
         /\ Booked("withdraw-compensation", a) \in {0, Booked("withdraw", a)}
<1>1. ASSUME NEW c \in Commands \ {"credit"}, NEW w \in Commands \ {"credit"},
             <<c, w>> \in {<<"refund-compensation", "refund">>, <<"withdraw-compensation", "withdraw">>},
             Booked(c, a) # 0
      PROVE  Booked(c, a) = Booked(w, a)
  <2> DEFINE n == Booked(c, a)
             k == LedgerKey(c, 0, a, n)
  <2>1. n \in Nat /\ k \in ledger.keys
    BY <1>1, BookedTypes DEF Has
  <2>2. k.what = c /\ k.asset = a /\ k.amount = n
    BY DEF LedgerKey
  <2>3. PICK d \in ledger.keys : Compensates(k, d) /\ d.asset = a /\ d.amount = n
    BY <1>1, <2>1, <2>2 DEF KeysInv
  <2>4. d.what = w
    BY <1>1, <2>2, <2>3 DEF Compensates
  <2>5. d.snapshot = 0 /\ d \in Key
    BY <1>1, <2>4 DEF KeysInv, Types, Ledgers
  <2>6. d = LedgerKey(w, 0, a, n)
    BY <2>3, <2>4, <2>5, KeyFacts
  <2>7. Has(w, 0, a, n)
    BY <2>3, <2>6 DEF Has
  <2> QED BY <1>1, <2>1, <2>7, BookedTypes
<1>2. {"refund", "refund-compensation", "withdraw", "withdraw-compensation"} \subseteq Commands \ {"credit"}
  BY DEF Commands
<1>3. Booked("refund-compensation", a) # 0 => Booked("refund-compensation", a) = Booked("refund", a)
  BY <1>1, <1>2
<1>4. Booked("withdraw-compensation", a) # 0 => Booked("withdraw-compensation", a) = Booked("withdraw", a)
  BY <1>1, <1>2
<1> QED BY <1>3, <1>4

\* Before the withdrawal is queued nothing is withdrawn.
LEMMA NotWithdrawn ==
  ASSUME Types, KeysInv, jobs[withdraw].status = "absent", NEW a \in Currencies
  PROVE  Booked("withdraw", a) = 0 /\ Booked("withdraw-compensation", a) = 0
<1>1. ASSUME NEW w \in {"withdraw", "withdraw-compensation"}, Booked(w, a) # 0 PROVE FALSE
  <2>1. w \in Commands \ {"credit"}
    BY DEF Commands
  <2>2. Has(w, 0, a, Booked(w, a))
    BY <1>1, <2>1, BookedTypes
  <2>3. LedgerKey(w, 0, a, Booked(w, a)).what = w
    BY DEF LedgerKey
  <2> QED BY <2>2, <2>3 DEF Has, KeysInv
<1> QED BY <1>1

\* What was withdrawn was debited.
LEMMA SentBooked ==
  ASSUME Types, KeysInv, ChainInv, NEW r \in Roles
  PROVE  sent[r] \in {0, Booked("withdraw", r)} /\ r \in Assets /\ r \in Currencies
<1>1. r \in Currencies /\ r \in Assets /\ sent[r] \in Nat /\ "withdraw" \in Commands \ {"credit"}
  BY DEF Currencies, Assets, Commands, Types
<1>2. sent[r] > 0 => sent[r] = Booked("withdraw", r)
  BY <1>1, BookedTypes DEF ChainInv
<1> QED BY <1>1, <1>2

\* What a step does to the sums of a bucket.
LEMMA SumMoves ==
  ASSUME Types, TriesInv, CheckInv, WithdrawInv, KeysInv, MadeInv, UnitsInv, Next, NEW a \in Assets
  PROVE  \/ /\ Credits(a)' \in {Credits(a), Credits(a) + 1}
            /\ \A v \in Commands \ {"credit"} : Booked(v, a)' = Booked(v, a)
         \/ \E w \in Commands \ {"credit"}, n \in Nat \ {0} :
              /\ Adds(w, 0, a, n) /\ Booked(w, a) = 0 /\ Booked(w, a)' = n
              /\ Credits(a)' = Credits(a)
              /\ \A v \in Commands \ {"credit"} : v # w => Booked(v, a)' = Booked(v, a)
<1>0. a \in Currencies /\ KeysInv'
  BY KeysKept DEF Currencies
<1>1. CASE UNCHANGED ledger
  BY <1>1 DEF Credits, Booked, BookedIn
<1>2. ASSUME NEW w \in Commands, NEW s \in Nat, NEW b \in Currencies, NEW n \in Nat, Adds(w, s, b, n)
      PROVE  \/ /\ Credits(a)' \in {Credits(a), Credits(a) + 1}
                /\ \A v \in Commands \ {"credit"} : Booked(v, a)' = Booked(v, a)
             \/ /\ w # "credit" /\ n \in Nat \ {0}
                /\ Adds(w, 0, a, n) /\ Booked(w, a) = 0 /\ Booked(w, a)' = n
                /\ Credits(a)' = Credits(a)
                /\ \A v \in Commands \ {"credit"} : v # w => Booked(v, a)' = Booked(v, a)
  <2>1. /\ Credits(a)' = Credits(a) + IF w = "credit" /\ b = a THEN 1 ELSE 0
        /\ \A v \in Commands \ {"credit"} :
             Booked(v, a)' = IF v = w /\ a = b THEN n ELSE Booked(v, a)
        /\ w # "credit" => Booked(w, b) = 0
    BY <1>0, <1>2, Counted
  <2>2. w # "credit" => s = 0 /\ n > 0
    BY <1>2 DEF Adds
  <2>3. Credits(a) \in Nat
    BY <1>0, CreditsCounted
  <2>4. CASE w # "credit" /\ a = b
    BY <1>2, <2>1, <2>2, <2>3, <2>4
  <2>5. CASE ~(w # "credit" /\ a = b)
    BY <2>1, <2>3, <2>5
  <2> QED BY <2>4, <2>5
<1> QED BY <1>1, <1>2, KeyAdded

\* Money is moved back by the check alone.
LEMMA ReturnMoves ==
  ASSUME Next
  PROVE  UNCHANGED returned \/ CheckRefundTransfer
BY DEF Next, DepositJob, CheckJob, WithdrawJob, StartJob, mixin,
   UserPays, TimePasses, PollFetch, PollQueue, Intake, DepositRead, DepositCredit, DepositSave, DepositQueue, DepositRefund,
   CheckRead, CheckRefuse, CheckRefundDebit, CheckAccept, CheckSave, CheckQueue, WithdrawRead, WithdrawDebit, WithdrawSend, WithdrawQueue, WithdrawFail,
   WithdrawalMoves, Monitor, Confirm, Join, StartMark, StartLaunch, HandlerThrows, Crash

\* After its transfer the check is no longer at it.
LEMMA TransferEnds ==
  ASSUME Types, TriesInv, CheckInv, CheckRefundTransfer, jobs'[check].status = "active"
  PROVE  task'[check].pc = "refund"
<1>1. check \in Jobs /\ jobs \in [Jobs -> Job] /\ task \in [Jobs -> Held] /\ jobs[check].status = "active"
  BY JobFacts DEF Types, JobTypes, CheckRefundTransfer, At
<1>2. Thrown(jobs, check)[check].status # "active"
  BY <1>1, ThrownFacts DEF TriesInv, Lasting
<1>3. task' = [task EXCEPT ![check].pc = "refund", ![check].read.paid[task[check].role] = 0]
  BY <1>2 DEF CheckRefundTransfer, Ends
<1> QED BY <1>1, <1>3 DEF Held

\* What comes back is what was debited for it and not compensated, and what goes out was credited.
LEMMA OutflowKept ==
  ASSUME Types, TriesInv, DepositInv, CheckInv, WithdrawInv, ChainInv, KeysInv, FundsInv, MadeInv, UnitsInv,
         PaidInv, PhaseInv, OutflowInv, Next
  PROVE  OutflowInv'
<1> SUFFICES ASSUME Calm'
             PROVE  /\ returned'["other"] = 0
                    /\ \A a \in Assets :
                         /\ Booked("refund", a)' - Booked("refund-compensation", a)' + Booked("withdraw", a)'
                              <= Credits(a)'
                         /\ returned'[a] <= Booked("refund", a)' - Booked("refund-compensation", a)'
                         /\ jobs'[check].status = "active" /\ task'[check].pc = "transfer"
                              /\ task'[check].role = a =>
                              /\ task'[check].debited /\ returned'[a] = 0
                              /\ Booked("refund-compensation", a)' = 0
  BY DEF OutflowInv, At
<1>c. Calm /\ ~Fault("lost") /\ ~HandlerThrows /\ ~Crash
  BY CalmFacts
<1>r. returned \in [Currencies -> Nat] /\ "other" \in Currencies /\ "other" \notin Assets
      /\ Assets \subseteq Currencies
  BY DEF Types, Currencies, Assets, Roles
<1>1. ASSUME CheckRefundTransfer
      PROVE  LET b == task[check].role
                 n == task[check].read.paid[b]
             IN  /\ At(check, "transfer") /\ b \in Assets /\ n \in Nat \ {0} /\ Has("refund", 0, b, n)
                 /\ Booked("refund", b) = n /\ Booked("refund-compensation", b) = 0 /\ returned[b] = 0
                 /\ \/ UNCHANGED returned
                    \/ UNCHANGED ledger /\ returned' = [returned EXCEPT ![b] = @ + n]
  <2> DEFINE b == task[check].role
             n == task[check].read.paid[b]
  <2>1. At(check, "transfer")
    BY <1>1 DEF CheckRefundTransfer
  <2>2. b \in Assets /\ task[check].read \in NatPayment /\ n > 0 /\ (task[check].debited => Has("refund", 0, b, n))
    BY <2>1 DEF CheckInv, At, Active
  <2>3. task[check].debited /\ returned[b] = 0 /\ Booked("refund-compensation", b) = 0
    BY <1>c, <2>1, <2>2 DEF OutflowInv
  <2>4. n \in Nat \ {0} /\ "refund" \in Commands \ {"credit"}
    BY <1>r, <2>2 DEF NatPayment, Commands
  <2>5. Booked("refund", b) = n
    BY <1>r, <2>2, <2>3, <2>4, BookedTypes
  <2>6. \/ UNCHANGED returned
        \/ UNCHANGED ledger /\ returned' = [returned EXCEPT ![b] = @ + n]
    BY <1>1, <1>c DEF CheckRefundTransfer
  <2> QED BY <2>1, <2>2, <2>3, <2>4, <2>5, <2>6
<1>2. returned'["other"] = 0
  <2>1. returned["other"] = 0
    BY <1>c DEF OutflowInv
  <2> QED BY <1>1, <1>r, <2>1, ReturnMoves
<1>3. ASSUME NEW a \in Assets
      PROVE  /\ Booked("refund", a)' - Booked("refund-compensation", a)' + Booked("withdraw", a)' <= Credits(a)'
             /\ returned'[a] <= Booked("refund", a)' - Booked("refund-compensation", a)'
             /\ jobs'[check].status = "active" /\ task'[check].pc = "transfer" /\ task'[check].role = a =>
                  /\ task'[check].debited /\ returned'[a] = 0 /\ Booked("refund-compensation", a)' = 0
  <2> DEFINE Re == Booked("refund", a)
             ReC == Booked("refund-compensation", a)
             Wi == Booked("withdraw", a)
             WiC == Booked("withdraw-compensation", a)
  <2>0. /\ a \in Currencies /\ returned[a] \in Nat /\ returned'[a] \in Nat
        /\ "refund" \in Commands \ {"credit"} /\ "refund-compensation" \in Commands \ {"credit"}
        /\ "withdraw" \in Commands \ {"credit"} /\ "withdraw-compensation" \in Commands \ {"credit"}
    BY <1>r, MixinTypesKept DEF Commands
  <2>1. /\ Re \in Nat /\ ReC \in Nat /\ Wi \in Nat /\ WiC \in Nat /\ Credits(a) \in Nat
        /\ ReC \in {0, Re} /\ WiC \in {0, Wi}
    BY <2>0, BookedTypes, CompensationFacts, CreditsCounted
  <2>2. Re - ReC + Wi <= Credits(a) /\ returned[a] <= Re - ReC
    BY <1>c DEF OutflowInv
  <2>3. ledger.funds[a] = Credits(a) - Re + ReC - Wi + WiC
    BY <2>0 DEF FundsInv
  <2>4. At(check, "refund") => Wi = 0 /\ WiC = 0
    <3>1. At(check, "refund") => jobs[withdraw].status = "absent"
      BY <1>c DEF PhaseInv, At, Active
    <3> QED BY <2>0, <3>1, NotWithdrawn
  <2>5. /\ Re' - ReC' + Wi' <= Credits(a)'
        /\ returned'[a] <= Re' - ReC'
    <3>1. CASE UNCHANGED ledger
      <4>1. Re' = Re /\ ReC' = ReC /\ Wi' = Wi /\ Credits(a)' = Credits(a)
        BY <3>1 DEF Credits, Booked, BookedIn
      <4>2. returned'[a] <= Re - ReC
        BY <1>1, <1>r, <2>0, <2>1, <2>2, ReturnMoves
      <4> HIDE DEF Re, ReC, Wi
      <4> QED BY <2>2, <4>1, <4>2
    <3>2. CASE /\ Credits(a)' \in {Credits(a), Credits(a) + 1}
               /\ \A v \in Commands \ {"credit"} : Booked(v, a)' = Booked(v, a)
               /\ ledger' # ledger
      <4>1. Re' = Re /\ ReC' = ReC /\ Wi' = Wi
        BY <2>0, <3>2
      <4>2. returned' = returned \/ (CheckRefundTransfer /\ returned' = returned)
        BY <1>1, <3>2, ReturnMoves
      <4> HIDE DEF Re, ReC, Wi
      <4> QED BY <2>1, <2>2, <3>2, <4>1, <4>2
    <3>3. ASSUME NEW w \in Commands \ {"credit"}, NEW n \in Nat \ {0}, ledger' # ledger,
                 Adds(w, 0, a, n), Booked(w, a) = 0, Booked(w, a)' = n, Credits(a)' = Credits(a),
                 \A v \in Commands \ {"credit"} : v # w => Booked(v, a)' = Booked(v, a)
          PROVE  Re' - ReC' + Wi' <= Credits(a)' /\ returned'[a] <= Re' - ReC'
      <4>0. returned' = returned
        BY <1>1, <3>3, ReturnMoves
      <4>1. CASE w = "refund"
        <5>1. Re = 0 /\ Re' = n /\ ReC' = ReC /\ Wi' = Wi
          BY <2>0, <3>3, <4>1
        <5>2. At(check, "refund") /\ n = task[check].read.paid[a]
          BY <3>3, <4>1 DEF Adds, RefundStep
        <5>3. n <= Cardinality(SavedOf(a))
          <6>1. task[check].read \in NatPayment /\ None \notin NatPayment
            BY <5>2, NoneAssumption DEF CheckInv, At, Active, NatPayment
          <6> QED BY <1>c, <5>2, <6>1, JobFacts DEF PaidInv
        <5>4. Cardinality(SavedOf(a)) <= Credits(a) /\ Cardinality(SavedOf(a)) \in Nat
          BY <2>0, SavedCounted
        <5> HIDE DEF Re, ReC, Wi, WiC
        <5>5. Re' = n /\ ReC' = 0 /\ Wi' = 0 /\ Credits(a)' = Credits(a) /\ n \in Nat
          BY <2>1, <2>4, <3>3, <5>1, <5>2
        <5>6. n <= Credits(a) /\ Credits(a) \in Nat
          BY <2>1, <5>3, <5>4, <5>5
        <5>7. returned'[a] <= n
          <6>1. Re - ReC = 0
            BY <2>1, <5>1
          <6> QED BY <2>0, <2>2, <4>0, <5>5, <6>1
        <5> QED BY <5>5, <5>6, <5>7
      <4>2. CASE w = "refund-compensation"
        <5>1. ReC = 0 /\ ReC' = n /\ Re' = Re /\ Wi' = Wi
          BY <2>0, <3>3, <4>2
        <5>2. CheckRefundTransfer /\ task[check].role = a /\ Has("refund", 0, a, n)
          BY <3>3, <4>2 DEF Adds, RefundUndone
        <5>3. Re = n /\ returned[a] = 0
          BY <1>1, <2>0, <5>2, BookedTypes
        <5> HIDE DEF Re, ReC, Wi, WiC
        <5> QED BY <2>0, <2>1, <2>2, <3>3, <4>0, <5>1, <5>3
      <4>3. CASE w = "withdraw"
        <5>1. Wi = 0 /\ Wi' = n /\ Re' = Re /\ ReC' = ReC
          BY <2>0, <3>3, <4>3
        <5>2. ledger.funds[a] >= n
          BY <3>3, <4>3 DEF Adds, WithdrawStep, Covers
        <5> HIDE DEF Re, ReC, Wi, WiC
        <5> QED BY <2>0, <2>1, <2>2, <2>3, <3>3, <4>0, <5>1, <5>2
      <4>4. CASE w = "withdraw-compensation"
        <5>1. Wi' = Wi /\ Re' = Re /\ ReC' = ReC
          BY <2>0, <3>3, <4>4
        <5> HIDE DEF Re, ReC, Wi, WiC
        <5> QED BY <2>0, <2>1, <2>2, <3>3, <4>0, <5>1
      <4> QED BY <4>1, <4>2, <4>3, <4>4 DEF Commands
    <3> HIDE DEF Re, ReC, Wi, WiC
    <3> QED BY <3>1, <3>2, <3>3, SumMoves
  <2>6. ASSUME jobs'[check].status = "active", task'[check].pc = "transfer", task'[check].role = a
        PROVE  task'[check].debited /\ returned'[a] = 0 /\ ReC' = 0
    <3>1. ~CheckRefundTransfer
      BY <2>6, TransferEnds
    <3>2. returned' = returned
      BY <3>1, ReturnMoves
    <3>3. ReC' = ReC
      <4>1. ASSUME NEW w \in Commands \ {"credit"}, NEW n \in Nat \ {0}, Adds(w, 0, a, n),
                   \A v \in Commands \ {"credit"} : v # w => Booked(v, a)' = Booked(v, a)
            PROVE  ReC' = ReC
        <5>1. w # "refund-compensation"
          BY <3>1, <4>1 DEF Adds, RefundUndone
        <5> QED BY <2>0, <4>1, <5>1
      <4> HIDE DEF ReC
      <4>2. (\A v \in Commands \ {"credit"} : Booked(v, a)' = Booked(v, a)) => ReC' = ReC
        BY <2>0 DEF ReC
      <4> QED BY <4>1, <4>2, SumMoves
    <3>4. CASE Untouched(check)
      <4>1. At(check, "transfer") /\ task[check].role = a /\ task'[check].debited = task[check].debited
        BY <2>6, <3>4 DEF Untouched, At
      <4> QED BY <1>c, <3>2, <3>3, <4>1 DEF OutflowInv
    <3>5. CASE /\ At(check, "refund") /\ ToRefund # {} /\ a = NextAsset
               /\ task'[check].debited = Covers(a, task[check].read.paid[a])
               /\ ~Replay("refund", a, task[check].read.paid[a])
               /\ ~Conflict("refund", a, task[check].read.paid[a])
      <4> DEFINE n == task[check].read.paid[a]
      <4>1. n \in Nat \ {0} /\ task[check].read \in NatPayment
        BY <3>5, NextAssetFacts
      <4>2. \A m \in Nat : ~Has("refund", 0, a, m)
        BY <2>0, <3>5, <4>1, KeyFree
      <4>3. Re = 0
        BY <2>0, <2>1, <4>2, BookedTypes
      <4>4. Wi = 0 /\ WiC = 0
        BY <2>4, <3>5
      <4>5. n <= Credits(a)
        <5>1. n <= Cardinality(SavedOf(a))
          <6>1. None \notin NatPayment
            BY NoneAssumption DEF NatPayment
          <6> QED BY <1>c, <4>1, <6>1, JobFacts DEF PaidInv
        <5>2. Cardinality(SavedOf(a)) <= Credits(a) /\ Cardinality(SavedOf(a)) \in Nat
          BY <2>0, SavedCounted
        <5> QED BY <2>1, <4>1, <5>1, <5>2
      <4>6. Covers(a, n)
        <5> HIDE DEF Re, ReC, Wi, WiC
        <5> QED BY <2>1, <2>3, <4>1, <4>3, <4>4, <4>5 DEF Covers
      <4>7. returned[a] = 0 /\ ReC = 0
        <5> HIDE DEF Re, ReC, Wi, WiC
        <5> QED BY <2>0, <2>1, <2>2, <4>3
      <4> QED BY <3>2, <3>3, <3>5, <4>6, <4>7
    <3> QED BY <2>6, <3>1, <3>4, <3>5, CheckMoves
  <2> QED BY <2>5, <2>6
<1> QED BY <1>2, <1>3

\* A withdrawal at its transfer stays there until Mixin has answered.
LEMMA SendStays ==
  ASSUME Types, TriesInv, CheckInv, Next, Calm', At(withdraw, "send")
  PROVE  WithdrawSend \/ Untouched(withdraw)
<1>j. /\ check \in Jobs /\ withdraw \in Jobs /\ check # withdraw /\ jobs \in [Jobs -> Job]
      /\ task \in [Jobs -> Held] /\ ~HandlerThrows /\ ~Crash
  BY JobFacts, CalmFacts DEF Types, JobTypes, check, withdraw
<1>1. ~WithdrawRead /\ ~WithdrawDebit /\ ~WithdrawQueue /\ ~WithdrawFail
  BY DEF WithdrawRead, WithdrawDebit, WithdrawQueue, WithdrawFail, Starts, At
<1>2. CASE CheckQueue
  <2>1. Finished(jobs, check) \in [Jobs -> Job] /\ Finished(jobs, check)[withdraw] = jobs[withdraw]
    BY <1>j, FinishedFacts
  <2>2. Added(Finished(jobs, check), withdraw) = Finished(jobs, check)
    BY <1>j, <2>1, AddedFacts DEF At
  <2>3. jobs'[withdraw] = jobs[withdraw]
    BY <1>2, <2>1, <2>2 DEF CheckQueue, Ends, withdraw
  <2> QED BY <1>2, <1>j, <2>3 DEF CheckQueue, Ends, Untouched
<1> QED BY <1>j, <1>1, <1>2, JobMoves DEF WithdrawJob

\* A check at its transfer stays there until Mixin has answered.
LEMMA TransferStays ==
  ASSUME Types, TriesInv, CheckInv, Next, Calm', At(check, "transfer")
  PROVE  CheckRefundTransfer \/ Untouched(check)
<1>j. /\ check \in Jobs /\ jobs \in [Jobs -> Job] /\ task \in [Jobs -> Held] /\ ~HandlerThrows /\ ~Crash
  BY JobFacts, CalmFacts DEF Types, JobTypes
<1>1. /\ ~CheckRead /\ ~CheckRefuse /\ ~CheckRefundDebit /\ ~CheckAccept /\ ~CheckSave /\ ~CheckQueue
  BY DEF CheckRead, CheckRefuse, CheckRefundDebit, CheckAccept, CheckSave, CheckQueue, Starts, At
<1>2. ASSUME NEW s \in Transfers, DepositQueue(s) PROVE Untouched(check)
  <2> DEFINE j == <<"deposit", s>>
  <2>1. j \in Jobs /\ j # check
    BY JobFacts DEF check
  <2>2. Finished(jobs, j) \in [Jobs -> Job] /\ Finished(jobs, j)[check] = jobs[check]
    BY <1>j, <2>1, FinishedFacts
  <2>3. Added(Finished(jobs, j), check) = Finished(jobs, j)
    BY <1>j, <2>2, AddedFacts DEF At
  <2>4. jobs'[check] = jobs[check]
    BY <1>2, <2>2, <2>3 DEF DepositQueue, Ends, check
  <2> QED BY <1>2, <1>j, <2>1, <2>4 DEF DepositQueue, Ends, Untouched
<1> QED BY <1>j, <1>1, <1>2, JobMoves DEF CheckJob

\* Mixin moves a withdrawal for the handler that debited it.
LEMMA SentMoves ==
  ASSUME Next
  PROVE  UNCHANGED sent \/ WithdrawSend
BY DEF Next, DepositJob, CheckJob, WithdrawJob, StartJob, mixin,
   UserPays, TimePasses, PollFetch, PollQueue, Intake, DepositRead, DepositCredit, DepositSave, DepositQueue, DepositRefund,
   CheckRead, CheckRefuse, CheckRefundDebit, CheckRefundTransfer, CheckAccept, CheckSave, CheckQueue, WithdrawRead, WithdrawDebit, WithdrawQueue, WithdrawFail,
   WithdrawalMoves, Monitor, Confirm, Join, StartMark, StartLaunch, HandlerThrows, Crash

\* Without faults every debit is followed by its transfer.
LEMMA DebitKept ==
  ASSUME Types, TriesInv, DepositInv, CheckInv, WithdrawInv, ChainInv, KeysInv, FundsInv, MadeInv, UnitsInv,
         PaidInv, PhaseInv, OutflowInv, DebitInv, Next
  PROVE  DebitInv'
<1> SUFFICES ASSUME seen' = {}
             PROVE  /\ \A k \in ledger'.keys : k.what \notin Compensations
                    /\ \A a \in Assets :
                         (At(check, "transfer")' /\ task'[check].role = a) \/ returned'[a] = Booked("refund", a)'
                    /\ \A r \in Roles :
                         (At(withdraw, "send")' /\ task'[withdraw].role = r) \/ sent'[r] = Booked("withdraw", r)'
  BY DEF DebitInv
<1>c. seen = {} /\ Calm /\ Calm' /\ \A kind : ~Fault(kind)
  <2>1. seen = {} /\ \A kind : ~Fault(kind)
    BY FaultFacts DEF Fault
  <2> QED BY <2>1 DEF Calm
<1>j. /\ check \in Jobs /\ withdraw \in Jobs /\ jobs \in [Jobs -> Job] /\ task \in [Jobs -> Held]
      /\ Assets \subseteq Currencies /\ Roles \subseteq Assets
      /\ returned \in [Currencies -> Nat] /\ sent \in [Roles -> Nat]
      /\ "refund" \in Commands \ {"credit"} /\ "withdraw" \in Commands \ {"credit"}
  BY JobFacts DEF Types, JobTypes, Currencies, Assets, Commands
<1>1. \A k \in ledger'.keys : k.what \notin Compensations
  <2>1. CASE UNCHANGED ledger
    BY <1>c, <2>1 DEF DebitInv
  <2>2. ASSUME NEW w \in Commands, NEW s \in Nat, NEW a \in Currencies, NEW n \in Nat, Adds(w, s, a, n)
        PROVE  \A k \in ledger'.keys : k.what \notin Compensations
    <3>1. w \notin Compensations
      BY <1>c, <2>2 DEF Adds, RefundUndone, WithdrawUndone, Compensations
    <3>2. LedgerKey(w, s, a, n).what = w
      BY DEF LedgerKey
    <3> QED BY <1>c, <2>2, <3>1, <3>2 DEF Adds, DebitInv
  <2> QED BY <2>1, <2>2, KeyAdded
<1>2. ASSUME NEW a \in Assets
      PROVE  (At(check, "transfer")' /\ task'[check].role = a) \/ returned'[a] = Booked("refund", a)'
  <2>1. CASE CheckRefundTransfer /\ task[check].role = a
    <3> DEFINE n == task[check].read.paid[a]
    <3>1. UNCHANGED ledger /\ returned' = [returned EXCEPT ![a] = @ + n] /\ At(check, "transfer")
      BY <1>c, <2>1 DEF CheckRefundTransfer
    <3>2. returned[a] = 0 /\ task[check].debited
      BY <1>c, <2>1, <3>1 DEF OutflowInv
    <3>3. Has("refund", 0, a, n) /\ n \in Nat
      BY <1>j, <2>1, <3>1, <3>2 DEF CheckInv, At, Active, NatPayment
    <3>4. Booked("refund", a) = n
      BY <1>j, <3>3, BookedTypes
    <3>5. Booked("refund", a)' = Booked("refund", a)
      BY <3>1 DEF Booked
    <3>6. returned'[a] = n
      BY <1>j, <3>1, <3>2, <3>3
    <3> QED BY <3>4, <3>5, <3>6
  <2>2. CASE At(check, "transfer") /\ task[check].role = a /\ ~CheckRefundTransfer
    <3>1. Untouched(check)
      BY <1>c, <2>2, TransferStays
    <3> QED BY <2>2, <3>1 DEF Untouched, At
  <2>3. CASE ~(At(check, "transfer") /\ task[check].role = a)
    <3>1. returned[a] = Booked("refund", a)
      BY <1>c, <2>3 DEF DebitInv
    <3>2. returned'[a] = returned[a]
      <4>1. CASE CheckRefundTransfer
        <5>1. At(check, "transfer")
          BY <4>1 DEF CheckRefundTransfer
        <5>2. task[check].role # a /\ returned' = [returned EXCEPT ![task[check].role] = @ + task[check].read.paid[task[check].role]]
          BY <1>c, <2>3, <4>1, <5>1 DEF CheckRefundTransfer
        <5> QED BY <1>j, <5>2
      <4> QED BY <4>1, ReturnMoves
    <3>3. CASE Booked("refund", a)' = Booked("refund", a)
      BY <3>1, <3>2, <3>3
    <3>4. ASSUME NEW n \in Nat \ {0}, Adds("refund", 0, a, n)
          PROVE  At(check, "transfer")' /\ task'[check].role = a
      <4>1. CheckRefundDebit /\ a = NextAsset /\ ledger' # ledger /\ At(check, "refund")
        BY <3>4 DEF Adds, RefundStep
      <4> DEFINE d == Covers(NextAsset, task[check].read.paid[NextAsset])
      <4>2. /\ UNCHANGED jobs
            /\ task' = [task EXCEPT ![check].pc = "transfer", ![check].role = NextAsset, ![check].debited = d]
        BY <4>1 DEF CheckRefundDebit
      <4> HIDE DEF d
      <4> QED BY <1>j, <4>1, <4>2 DEF At, Held
    <3>5. ASSUME NEW w \in Commands \ {"credit"}, NEW n \in Nat \ {0}, Adds(w, 0, a, n),
                 \A v \in Commands \ {"credit"} : v # w => Booked(v, a)' = Booked(v, a)
          PROVE  \/ Booked("refund", a)' = Booked("refund", a)
                 \/ At(check, "transfer")' /\ task'[check].role = a
      BY <1>j, <3>4, <3>5
    <3>6. (\A v \in Commands \ {"credit"} : Booked(v, a)' = Booked(v, a)) => Booked("refund", a)' = Booked("refund", a)
      BY <1>j
    <3> QED BY <3>3, <3>5, <3>6, SumMoves
  <2> QED BY <2>1, <2>2, <2>3
<1>3. ASSUME NEW r \in Roles
      PROVE  (At(withdraw, "send")' /\ task'[withdraw].role = r) \/ sent'[r] = Booked("withdraw", r)'
  <2>1. CASE WithdrawSend /\ task[withdraw].role = r
    <3> DEFINE n == task[withdraw].read.paid[r]
    <3>1. UNCHANGED ledger /\ Withdrawn(r, n) /\ At(withdraw, "send")
      BY <1>c, <2>1 DEF WithdrawSend
    <3>2. Has("withdraw", 0, r, n) /\ n \in Nat
      BY <1>j, <2>1, <3>1 DEF WithdrawInv, At, Active, NatPayment
    <3>3. Booked("withdraw", r) = n
      BY <1>j, <3>2, BookedTypes
    <3>4. sent[r] \in {0, n}
      BY <3>3, SentBooked
    <3>5. Booked("withdraw", r)' = Booked("withdraw", r)
      BY <3>1 DEF Booked
    <3>6. sent'[r] = n
      BY <1>j, <3>1, <3>2, <3>4 DEF Withdrawn
    <3> QED BY <3>3, <3>5, <3>6
  <2>2. CASE At(withdraw, "send") /\ task[withdraw].role = r /\ ~WithdrawSend
    <3>1. Untouched(withdraw)
      BY <1>c, <2>2, SendStays
    <3> QED BY <2>2, <3>1 DEF Untouched, At
  <2>3. CASE ~(At(withdraw, "send") /\ task[withdraw].role = r)
    <3>1. sent[r] = Booked("withdraw", r)
      BY <1>c, <2>3 DEF DebitInv
    <3>2. sent'[r] = sent[r]
      <4>1. CASE WithdrawSend
        <5>1. At(withdraw, "send")
          BY <4>1 DEF WithdrawSend
        <5>2. task[withdraw].role # r /\ Withdrawn(task[withdraw].role, task[withdraw].read.paid[task[withdraw].role])
          BY <1>c, <2>3, <4>1, <5>1 DEF WithdrawSend
        <5> QED BY <1>j, <5>2 DEF Withdrawn
      <4> QED BY <4>1, SentMoves
    <3>3. CASE Booked("withdraw", r)' = Booked("withdraw", r)
      BY <3>1, <3>2, <3>3
    <3>4. ASSUME NEW n \in Nat \ {0}, Adds("withdraw", 0, r, n)
          PROVE  At(withdraw, "send")' /\ task'[withdraw].role = r
      <4>1. WithdrawDebit /\ task[withdraw].role = r /\ ledger' # ledger /\ At(withdraw, "debit")
        BY <3>4 DEF Adds, WithdrawStep
      <4>2. UNCHANGED jobs /\ task' = [task EXCEPT ![withdraw].pc = "send", ![withdraw].debited = TRUE]
        BY <4>1 DEF WithdrawDebit
      <4> QED BY <1>j, <4>1, <4>2 DEF At, Held
    <3>5. ASSUME NEW w \in Commands \ {"credit"}, NEW n \in Nat \ {0}, Adds(w, 0, r, n),
                 \A v \in Commands \ {"credit"} : v # w => Booked(v, r)' = Booked(v, r)
          PROVE  \/ Booked("withdraw", r)' = Booked("withdraw", r)
                 \/ At(withdraw, "send")' /\ task'[withdraw].role = r
      BY <1>j, <3>4, <3>5
    <3>6. (\A v \in Commands \ {"credit"} : Booked(v, r)' = Booked(v, r)) => Booked("withdraw", r)' = Booked("withdraw", r)
      BY <1>j
    <3>7. r \in Assets
      BY <1>j
    <3> QED BY <3>3, <3>5, <3>6, <3>7, SumMoves
  <2> QED BY <2>1, <2>2, <2>3
<1> QED BY <1>1, <1>2, <1>3
-----------------------------------------------------------------------------
(* The theorems. *)

\* It holds before anything was paid.
LEMMA FundingInit ==
  ASSUME Init
  PROVE  FundingInv
<1>0. /\ setup \in Setups /\ Transfers = 1..Cardinality(Transfers) /\ Cardinality(Transfers) \in Nat
      /\ setup.maxFaults \in Nat
  BY TransferFacts DEF Init
<1>1. /\ jobs \in [Jobs -> Job] /\ \A j \in Jobs : jobs[j].status = "absent" /\ task[j] = Idle
  BY FundingAssumption DEF Init, Job
<1>2. Idle \in Held /\ Idle.read = None
  BY DEF Idle, Held, Places
<1>3. NoUnits \in [Currencies -> Nat] /\ \A a \in Currencies : NoUnits[a] = 0
  BY DEF NoUnits
<1>4. ledger.funds = NoUnits /\ ledger.keys = {} /\ returned = NoUnits /\ payment = None /\ seen = {}
  BY DEF Init
<1>5. Types
  <2>1. JobTypes
    BY <1>1, <1>2 DEF Init, JobTypes
  <2>2. ledger \in Ledgers
    BY <1>3 DEF Init, Ledgers
  <2>3. /\ sent \in [Roles -> Nat] /\ arrival \in [Roles -> {"none", "sent", "confirmed"}]
        /\ returned \in [Currencies -> Nat] /\ bounced \in [Transfers -> Nat]
    BY <1>3, <1>4 DEF Init
  <2>4. /\ made = 0 /\ cursor = 0 /\ fetched = {} /\ overdue = FALSE /\ timedOut = FALSE
        /\ intent = "pending" /\ payment = None /\ order = None
        /\ strategy = "idle" /\ seen = {} /\ faults = 0
    BY DEF Init
  <2>5. made \in Nat /\ made <= Cardinality(Transfers) /\ cursor \in Nat /\ cursor <= made
        /\ faults \in Nat /\ faults <= setup.maxFaults
    BY <1>0, <2>4
  <2>6. fetched \subseteq 1..cursor /\ seen \subseteq Kinds \cup {"stale"}
        /\ intent \in {"pending", "in_progress", "completed", "expired"} /\ strategy \in {"idle", "running"}
        /\ payment \in NatPayment \cup {None} /\ order \in OrderStates \cup {None}
        /\ overdue \in BOOLEAN /\ timedOut \in BOOLEAN
    BY <2>4
  <2> QED BY <1>0, <2>1, <2>2, <2>3, <2>5, <2>6 DEF Types
<1>6. TriesInv /\ DepositInv /\ CheckInv /\ WithdrawInv
  BY <1>1, JobFacts DEF TriesInv, Lasting, DepositInv, CheckInv, WithdrawInv, Active
<1>7. ChainInv
  <2>1. \A kind \in {"confirm", "join", "start"} : jobs[<<kind, 0>>].status = "absent"
    BY <1>1, JobFacts DEF start
  <2> QED BY <1>1, <2>1, JobFacts DEF ChainInv, Active, Init
<1>8. KeysInv
  BY <1>4 DEF KeysInv
<1>9. \A w : \A a \in Currencies : Credits(a) = 0 /\ Booked(w, a) = 0
  BY <1>4, FS_EmptySet DEF Credits, Booked, BookedIn
<1>10. FundsInv
  BY <1>3, <1>4, <1>9 DEF FundsInv
<1>b. \A s \in Transfers :
       /\ jobs[<<"intake", s>>].status = "absent" /\ jobs[<<"deposit", s>>].status = "absent"
       /\ bounced[s] = 0 /\ bounced[s] <= 1 /\ ~(bounced[s] > 0)
  <2>1. \A s \in Transfers : bounced[s] = 0
    BY DEF Init
  <2>2. \A n : n = 0 => n <= 1 /\ ~(n > 0)
    OBVIOUS
  <2> QED BY <1>1, <2>1, <2>2, JobFacts
<1>11. MadeInv
  BY <1>b, Zenon DEF MadeInv
<1>12. UnitsInv
  BY <1>1, <1>2, <1>4 DEF UnitsInv
<1>13. IntakeInv
  BY <1>b, Zenon DEF IntakeInv
<1>14. CreditedInv
  BY <1>4 DEF CreditedInv, Credited, Has
<1>15. PaidInv
  BY <1>1, <1>2, <1>4 DEF PaidInv
<1>16. PhaseInv
  BY <1>1, JobFacts DEF PhaseInv, Active
<1>17. OutflowInv
  <2>1. Assets \subseteq Currencies /\ "other" \in Currencies
    BY DEF Currencies
  <2>2. ~At(check, "transfer")
    BY <1>1, JobFacts DEF At
  <2>3. \A a \in Assets : /\ Booked("refund", a) = 0 /\ Booked("refund-compensation", a) = 0
                          /\ Booked("withdraw", a) = 0 /\ Credits(a) = 0 /\ returned[a] = 0
    BY <1>3, <1>4, <1>9, <2>1
  <2> QED BY <1>3, <1>4, <2>1, <2>2, <2>3 DEF OutflowInv
<1>18. DebitInv
  <2>1. \A a \in Assets : returned[a] = 0 /\ Booked("refund", a) = 0
    BY <1>3, <1>4, <1>9 DEF Currencies
  <2>2. \A r \in Roles : sent[r] = 0 /\ Booked("withdraw", r) = 0
    BY <1>9 DEF Currencies, Assets, Init
  <2> QED BY <1>4, <2>1, <2>2 DEF DebitInv
<1> QED BY <1>5, <1>6, <1>7, <1>8, <1>10, <1>11, <1>12, <1>13, <1>14, <1>15, <1>16, <1>17, <1>18 DEF FundingInv

\* Nothing else happening changes nothing of it.
LEMMA FundingStutters ==
  ASSUME FundingInv, UNCHANGED vars
  PROVE  FundingInv'
<1> USE DEF vars, Transfers, Deposits, Jobs, At, Active, Has, Credited
<1>0. FundingInv
  OBVIOUS
<1>1. Types' /\ TriesInv'
  BY <1>0 DEF FundingInv, Types, JobTypes, TriesInv, Lasting
<1>2. DepositInv' /\ CheckInv' /\ WithdrawInv'
  BY <1>0 DEF FundingInv, DepositInv, CheckInv, WithdrawInv
<1>3. ChainInv' /\ KeysInv'
  BY <1>0 DEF FundingInv, ChainInv, WithdrawalsConfirmed, Confirmed, KeysInv
<1>4. FundsInv' /\ MadeInv'
  BY <1>0 DEF FundingInv, FundsInv, Credits, Booked, BookedIn, MadeInv
<1>5. UnitsInv'
  BY <1>0 DEF FundingInv, UnitsInv, Bound, Saved, Units
<1>6. IntakeInv' /\ CreditedInv'
  BY <1>0 DEF FundingInv, IntakeInv, CreditedInv, Calm
<1>7. PaidInv'
  BY <1>0 DEF FundingInv, PaidInv, Calm, SavedOf, Saved
<1>8. PhaseInv'
  BY <1>0 DEF FundingInv, PhaseInv, Calm, Complete, HasAssets, HasFee
<1>9. OutflowInv' /\ DebitInv'
  <2>1. (\A w, a : Booked(w, a)' = Booked(w, a)) /\ (\A a : Credits(a)' = Credits(a))
    BY DEF Credits, Booked, BookedIn
  <2> QED BY <1>0, <2>1 DEF FundingInv, OutflowInv, DebitInv, Calm
<1> QED BY <1>1, <1>2, <1>3, <1>4, <1>5, <1>6, <1>7, <1>8, <1>9 DEF FundingInv

\* Everything it says holds in every state of every behaviour.
THEOREM FundingInvariance == Spec => []FundingInv
<1>1. Init => FundingInv
  BY FundingInit
<1>2. FundingInv /\ [Next]_vars => FundingInv'
  <2>1. CASE UNCHANGED vars
    BY <2>1, FundingStutters
  <2>2. ASSUME FundingInv, Next PROVE FundingInv'
    <3> USE <2>2 DEF FundingInv
    <3>1. Types' /\ TriesInv' /\ DepositInv' /\ CheckInv' /\ WithdrawInv' /\ ChainInv'
      BY TypesKept, TriesKept, DepositKept, CheckKept, WithdrawKept, ChainKept
    <3>2. KeysInv' /\ FundsInv' /\ MadeInv' /\ UnitsInv'
      BY KeysKept, FundsKept, MadeKept, UnitsKept
    <3>3. IntakeInv' /\ CreditedInv' /\ PaidInv' /\ PhaseInv' /\ OutflowInv' /\ DebitInv'
      BY IntakeKept, CreditedKept, PaidKept, PhaseKept, OutflowKept, DebitKept
    <3> QED BY <3>1, <3>2, <3>3
  <2> QED BY <2>1, <2>2
<1> QED BY <1>1, <1>2, PTL DEF Spec

\* The sum of a count of zeros and ones is the number of its ones.
LEMMA OnesCounted ==
  ASSUME NEW S, IsFiniteSet(S), NEW f, \A x \in S : f[x] \in {0, 1}
  PROVE  SumFunctionOnSet(f, S) <= Cardinality({x \in S : f[x] > 0})
<1> DEFINE F == {T \in SUBSET S : SumFunctionOnSet(f, T) <= Cardinality({x \in T : f[x] > 0})}
<1>1. {} \in F
  <2>1. SumFunctionOnSet(f, {}) = 0
    BY FS_EmptySet, SumFacts
  <2>2. Cardinality({x \in {} : f[x] > 0}) = 0
    BY FS_EmptySet
  <2> QED BY <2>1, <2>2
<1>2. ASSUME NEW T \in F, NEW y \in S \ T
      PROVE  T \cup {y} \in F
  <2> DEFINE U == T \cup {y}
             P == {x \in T : f[x] > 0}
             Q == {x \in U : f[x] > 0}
  <2>1. IsFiniteSet(T) /\ IsFiniteSet(U) /\ IsFiniteSet(P) /\ U \in SUBSET S
    BY FS_Subset
  <2>2. SumFunctionOnSet(f, U) = f[y] + SumFunctionOnSet(f, T) /\ SumFunctionOnSet(f, T) \in Int
    <3>1. U \ {y} = T /\ y \in U
      OBVIOUS
    <3>2. (\A x \in U : f[x] \in Int) /\ (\A x \in T : f[x] \in Int)
      BY <2>1
    <3> HIDE DEF U
    <3>3. \A a \in U : SumFunctionOnSet(f, U) = f[a] + SumFunctionOnSet(f, U \ {a})
      BY <2>1, <3>2, SumFacts
    <3>4. SumFunctionOnSet(f, T) \in Int
      BY <2>1, <3>2, SumFacts
    <3> QED BY <3>1, <3>3, <3>4
  <2>3. Cardinality(Q) = Cardinality(P) + f[y]
    <3>1. CASE f[y] = 0
      <4>1. Q = P
        BY <3>1
      <4>2. Cardinality(P) \in Nat
        BY <2>1, FS_CardinalityType
      <4> QED BY <3>1, <4>1, <4>2
    <3>2. CASE f[y] = 1
      <4>1. Q = P \cup {y} /\ y \notin P
        BY <3>2
      <4> QED BY <2>1, <3>2, <4>1, FS_AddElement
    <3> QED BY <3>1, <3>2
  <2>4. SumFunctionOnSet(f, T) <= Cardinality(P)
    OBVIOUS
  <2>5. Cardinality(P) \in Nat /\ f[y] \in Int
    BY <2>1, FS_CardinalityType
  <2> HIDE DEF P, Q, F
  <2>6. SumFunctionOnSet(f, U) <= Cardinality(Q)
    BY <2>2, <2>3, <2>4, <2>5
  <2> QED BY <2>1, <2>6 DEF F, Q
<1>3. S \in F
  <2> HIDE DEF F
  <2>1. F \in SUBSET SUBSET S
    BY DEF F
  <2> QED BY <1>1, <1>2, <2>1, FiniteInduction
<1> QED BY <1>3

\* How many transfers of an asset were made.
LEMMA MadeOfFacts ==
  ASSUME Types, NEW a
  PROVE  IsFiniteSet({s \in 1..made : Deposits[s] = a}) /\ MadeOf(a) \in Nat
<1>1. IsFiniteSet(1..made)
  BY FS_Interval DEF Types
<1> QED BY <1>1, FS_Subset, FS_CardinalityType DEF MadeOf

\* What is credited was made.
LEMMA CreditsMade ==
  ASSUME Types, KeysInv, NEW a \in Currencies
  PROVE  Credits(a) <= MadeOf(a) /\ Credits(a) \in Nat /\ MadeOf(a) \in Nat
<1>1. /\ Credits(a) = Cardinality(CreditedOf(a)) /\ Credits(a) \in Nat
      /\ CreditedOf(a) \subseteq {s \in 1..made : Deposits[s] = a}
  BY CreditsCounted
<1>2. Cardinality(CreditedOf(a)) <= MadeOf(a)
  BY <1>1, MadeOfFacts, FS_Subset DEF MadeOf
<1> QED BY <1>1, <1>2, MadeOfFacts

\* The types, with the counts bounded by the transfers and the faults.
THEOREM TypeCorrect == Spec => []TypeOK
<1>1. FundingInv => TypeOK
  <2> SUFFICES ASSUME FundingInv PROVE TypeOK
    OBVIOUS
  <2>0. Types /\ KeysInv /\ UnitsInv /\ ChainInv
    BY DEF FundingInv
  <2>1. /\ Cardinality(Transfers) \in Nat /\ setup.maxFaults \in Nat /\ 0 \in Units /\ Units \subseteq Nat
        /\ \A n \in Nat : n <= Bound => n \in Units
    <3>1. Cardinality(Transfers) \in Nat /\ setup.maxFaults \in Nat
      BY <2>0, TransferFacts DEF Types
    <3>2. \A n \in Nat : n <= Bound => n \in Units
      BY <2>0, BoundFacts
    <3>3. Bound \in Nat
      BY <2>0, BoundFacts
    <3>4. 0 \in Units
      BY <3>2, <3>3
    <3> QED BY <3>1, <3>2, <3>4 DEF Units
  <2>2. None \notin NatPayment
    BY NoneAssumption DEF NatPayment
  <2>3. ASSUME NEW p \in NatPayment, \A a \in Currencies : p.paid[a] <= Bound
        PROVE  p \in Payment
    <3>1. \A a \in Currencies : p.paid[a] \in Units
      BY <2>1, <2>3 DEF NatPayment
    <3> QED BY <3>1 DEF NatPayment, Payment
  <2>4. payment \in Payment \cup {None}
    BY <2>0, <2>2, <2>3 DEF Types, UnitsInv
  <2>5. ASSUME NEW j \in Jobs
        PROVE  task[j] \in [pc : Places, read : Payment \cup {None}, role : Assets \cup {None}, debited : BOOLEAN]
    <3>1. task[j] \in Held
      BY <2>0 DEF Types, JobTypes
    <3>2. task[j].read \in Payment \cup {None}
      BY <2>0, <2>2, <2>3, <3>1 DEF Held, UnitsInv
    <3> QED BY <3>1, <3>2 DEF Held
  <2>6. ledger \in [funds : [Currencies -> Int],
                    keys : SUBSET [what : Commands, snapshot : Nat, asset : Currencies, amount : Units]]
    <3>1. ledger.keys \subseteq [what : Commands, snapshot : Nat, asset : Currencies, amount : Units]
      BY <2>0 DEF Types, Ledgers, Key, UnitsInv
    <3> QED BY <2>0, <3>1 DEF Types, Ledgers
  <2>7. ASSUME NEW r \in Roles PROVE sent[r] \in Units
    <3>1. CASE sent[r] = 0
      BY <2>1, <3>1
    <3>2. CASE sent[r] > 0
      <4>1. LedgerKey("withdraw", 0, r, sent[r]) \in ledger.keys
        BY <2>0, <3>2 DEF ChainInv, Has
      <4>2. LedgerKey("withdraw", 0, r, sent[r]).amount = sent[r]
        BY DEF LedgerKey
      <4> QED BY <2>0, <4>1, <4>2 DEF UnitsInv
    <3> QED BY <2>0, <3>1, <3>2 DEF Types
  <2>8. task \in [Jobs -> [pc : Places, read : Payment \cup {None}, role : Assets \cup {None}, debited : BOOLEAN]]
        /\ sent \in [Roles -> Units]
    BY <2>0, <2>5, <2>7 DEF Types, JobTypes
  <2> QED BY <2>0, <2>1, <2>4, <2>6, <2>8 DEF Types, JobTypes, Job, TypeOK
<1> QED BY <1>1, FundingInvariance, PTL

\* Whatever fails and is run again, a strategy runs only for an order whose base and
\* quote are on the exchange (monitor_mixin_withdrawal to start_mm).
THEOREM StartedOnlyFunded == Spec => []StartedMeansFunded
<1>1. FundingInv => StartedMeansFunded
  BY DEF FundingInv, StartedMeansFunded, ChainInv, WithdrawalsConfirmed, Confirmed, Types
<1> QED BY <1>1, FundingInvariance, PTL

\* Whatever fails and is run again, the ledger shows no more than was transferred
\* (the keys of creditDeposit and of the compensations).
THEOREM NeverInflated == Spec => []LedgerNeverInflated
<1>1. FundingInv => LedgerNeverInflated
  <2> SUFFICES ASSUME FundingInv, NEW a \in Currencies PROVE ledger.funds[a] <= MadeOf(a)
    BY DEF LedgerNeverInflated
  <2>0. Types /\ KeysInv /\ FundsInv
    BY DEF FundingInv
  <2>1. /\ Booked("refund", a) \in Nat /\ Booked("withdraw", a) \in Nat
        /\ Booked("refund-compensation", a) \in {0, Booked("refund", a)}
        /\ Booked("withdraw-compensation", a) \in {0, Booked("withdraw", a)}
    BY <2>0, BookedTypes, CompensationFacts
  <2>2. ledger.funds[a] = Credits(a) - Booked("refund", a) + Booked("refund-compensation", a)
                            - Booked("withdraw", a) + Booked("withdraw-compensation", a)
    BY <2>0 DEF FundsInv
  <2>3. Credits(a) <= MadeOf(a) /\ Credits(a) \in Nat /\ MadeOf(a) \in Nat
    BY <2>0, CreditsMade
  <2> QED BY <2>1, <2>2, <2>3
<1> QED BY <1>1, FundingInvariance, PTL

\* As long as no answer is lost and no handler run over, no more of an asset leaves
\* than came in, also when a late transfer races with a refund (executeRefundTransfer,
\* executeExchangeWithdrawal, handleSnapshot).
THEOREM OutflowIsBounded == Spec => []OutflowBounded
<1>1. FundingInv => OutflowBounded
  <2> SUFFICES ASSUME FundingInv, Calm, NEW a \in Currencies PROVE Out(a) <= MadeOf(a)
    BY DEF OutflowBounded, Calm
  <2> DEFINE S == {s \in Transfers : Deposits[s] = a}
             B == {s \in S : bounced[s] > 0}
             M == {s \in 1..made : Deposits[s] = a}
  <2>0. Types /\ KeysInv /\ ChainInv /\ MadeInv /\ IntakeInv /\ CreditedInv /\ OutflowInv
    BY DEF FundingInv
  <2>1. /\ IsFiniteSet(Transfers) /\ Transfers = 1..Cardinality(Transfers) /\ Cardinality(Transfers) \in Nat
        /\ bounced \in [Transfers -> Nat] /\ returned \in [Currencies -> Nat] /\ made \in Nat
    BY <2>0, TransferFacts DEF Types
  <2>2. IsFiniteSet(S) /\ IsFiniteSet(B) /\ IsFiniteSet(M) /\ MadeOf(a) = Cardinality(M) /\ MadeOf(a) \in Nat
    BY <2>0, <2>1, FS_Subset, MadeOfFacts DEF MadeOf
  <2>3. Bounced(a) <= Cardinality(B) /\ Bounced(a) \in Int /\ Cardinality(B) \in Nat
    <3>1. \A s \in S : bounced[s] \in {0, 1}
      <4>1. \A s \in Transfers : bounced[s] <= 1 /\ bounced[s] \in Nat
        BY <2>0, <2>1 DEF IntakeInv
      <4> QED BY <4>1
    <3>2. SumFunctionOnSet(bounced, S) <= Cardinality({s \in S : bounced[s] > 0})
      BY <2>2, <3>1, OnesCounted
    <3>3. SumFunctionOnSet(bounced, S) \in Int
      BY <2>2, <3>1, SumFacts
    <3> QED BY <2>2, <3>2, <3>3, FS_CardinalityType DEF Bounced
  <2>4. B \subseteq M
    <3>1. \A s \in B : s \in 1..Cardinality(Transfers) /\ s <= made
      BY <2>0, <2>1 DEF MadeInv
    <3> QED BY <2>1, <3>1
  <2>5. Cardinality(B) + Credits(a) <= MadeOf(a) \/ a \notin Assets
    <3>1. /\ IsFiniteSet(CreditedOf(a)) /\ Credits(a) = Cardinality(CreditedOf(a)) /\ CreditedOf(a) \subseteq M
      BY <2>0, CreditsCounted
    <3>2. a \in Assets => B \cap CreditedOf(a) = {}
      <4>1. \A s \in Transfers : Deposits[s] \in Assets /\ Credited(s) => bounced[s] = 0
        BY <2>0 DEF CreditedInv
      <4> QED BY <4>1 DEF CreditedOf
    <3>3. Cardinality(B \cup CreditedOf(a))
            = Cardinality(B) + Cardinality(CreditedOf(a)) - Cardinality(B \cap CreditedOf(a))
      BY <2>2, <3>1, FS_Union
    <3>4. Cardinality(B \cup CreditedOf(a)) <= Cardinality(M)
      <4>1. B \cup CreditedOf(a) \subseteq M
        BY <2>4, <3>1
      <4> QED BY <2>2, <4>1, FS_Subset
    <3>5. a \in Assets => Cardinality(B \cap CreditedOf(a)) = 0
      BY <3>2, FS_EmptySet
    <3>6. Cardinality(B) \in Nat /\ Cardinality(CreditedOf(a)) \in Nat
      BY <2>2, <3>1, FS_CardinalityType
    <3> HIDE DEF B, M
    <3> QED BY <2>2, <3>1, <3>3, <3>4, <3>5, <3>6
  <2>6. CASE a \in Assets
    <3>1. /\ Booked("refund", a) - Booked("refund-compensation", a) + Booked("withdraw", a) <= Credits(a)
          /\ returned[a] <= Booked("refund", a) - Booked("refund-compensation", a) /\ returned[a] \in Nat
      BY <2>0, <2>1, <2>6 DEF OutflowInv
    <3>2. /\ Booked("refund", a) \in Nat /\ Booked("withdraw", a) \in Nat
          /\ Booked("refund-compensation", a) \in Nat /\ Credits(a) \in Nat
      BY <2>0, BookedTypes, CreditsCounted
    <3>3. a \in Roles => sent[a] \in {0, Booked("withdraw", a)}
      BY <2>0, SentBooked
    <3> HIDE DEF B
    <3> QED BY <2>2, <2>3, <2>5, <2>6, <3>1, <3>2, <3>3 DEF Out
  <2>7. CASE a \notin Assets
    <3>1. a = "other" /\ a \notin Roles /\ returned[a] = 0
      BY <2>0, <2>7 DEF Currencies, Assets, OutflowInv
    <3>2. Cardinality(B) <= Cardinality(M)
      BY <2>2, <2>4, FS_Subset
    <3> HIDE DEF B, M
    <3> QED BY <2>2, <2>3, <3>1, <3>2 DEF Out
  <2> QED BY <2>6, <2>7
<1> QED BY <1>1, FundingInvariance, PTL

\* Without faults the buckets hold what was credited and has not left, whatever
\* transfers are late (the debits of executeRefundTransfer and executeExchangeWithdrawal).
THEOREM LedgerMatches == Spec => []LedgerMatchesOutflow
<1>1. FundingInv => LedgerMatchesOutflow
  <2> SUFFICES ASSUME FundingInv, seen = {}, NEW a \in Assets, ~InTransit(a)
               PROVE  ledger.funds[a] = Credits(a) - returned[a] - (IF a \in Roles THEN sent[a] ELSE 0)
    BY DEF LedgerMatchesOutflow
  <2>0. Types /\ KeysInv /\ FundsInv /\ DebitInv /\ a \in Currencies
    BY DEF FundingInv, Currencies
  <2>1. returned[a] = Booked("refund", a) /\ (a \in Roles => sent[a] = Booked("withdraw", a))
    BY <2>0 DEF DebitInv, InTransit, At
  <2>2. Booked("refund-compensation", a) = 0 /\ Booked("withdraw-compensation", a) = 0
    <3>1. ASSUME NEW c \in Compensations, Booked(c, a) # 0 PROVE FALSE
      <4>1. c \in Commands \ {"credit"}
        BY DEF Compensations, Commands
      <4>2. LedgerKey(c, 0, a, Booked(c, a)) \in ledger.keys
        BY <2>0, <3>1, <4>1, BookedTypes DEF Has
      <4>3. LedgerKey(c, 0, a, Booked(c, a)).what = c
        BY DEF LedgerKey
      <4> QED BY <2>0, <4>2, <4>3 DEF DebitInv
    <3> QED BY <3>1 DEF Compensations
  <2>3. a \notin Roles => Booked("withdraw", a) = 0
    <3>1. ASSUME Booked("withdraw", a) # 0 PROVE a \in Roles
      <4>1. "withdraw" \in Commands \ {"credit"}
        BY DEF Commands
      <4>2. LedgerKey("withdraw", 0, a, Booked("withdraw", a)) \in ledger.keys
        BY <2>0, <3>1, <4>1, BookedTypes DEF Has
      <4>3. LedgerKey("withdraw", 0, a, Booked("withdraw", a)).what = "withdraw"
            /\ LedgerKey("withdraw", 0, a, Booked("withdraw", a)).asset = a
        BY DEF LedgerKey
      <4> QED BY <2>0, <4>2, <4>3 DEF KeysInv
    <3> QED BY <3>1
  <2>4. ledger.funds[a] = Credits(a) - Booked("refund", a) + Booked("refund-compensation", a)
                            - Booked("withdraw", a) + Booked("withdraw-compensation", a)
    BY <2>0 DEF FundsInv
  <2>5. Booked("refund", a) \in Nat /\ Booked("withdraw", a) \in Nat /\ Credits(a) \in Nat
    BY <2>0, BookedTypes, CreditsCounted
  <2> QED BY <2>1, <2>2, <2>3, <2>4, <2>5
<1> QED BY <1>1, FundingInvariance, PTL
=============================================================================
