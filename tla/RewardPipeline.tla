--------------------------- MODULE RewardPipeline ---------------------------
(***************************************************************************)
(* Campaign rewards: RewardPipelineService observes, corrects, confirms,     *)
(* allocates and distributes them, RewardReceiverService confirms what is    *)
(* mined, RewardVaultTransferService moves confirmed ones to the Mixin       *)
(* vault. All of them read a reward's row, wait, and save the whole row.     *)
(*                                                                           *)
(* Amounts are in units of the eighth decimal. One reward and one correction *)
(* of it; its platform fee is the 0 it is observed with.                     *)
(***************************************************************************)
EXTENDS Integers, FiniteSets, FiniteSetsExt, Functions

CONSTANTS
  Amount,        \* of the reward
  Corrected,     \* what a correction says it should have been
  Scale,         \* of a quotient's last decimal, the twentieth: 10^20
  Users,         \* 1..n, one order each
  Creators,      \* parallel calls of createAllocations
  Setups,        \* bounds of a behaviour: the shares an allocation may be made from
                 \* (users to weights), calls of each kind, corrections, faults
  None

Rewards == {"reward", "correction"}

ASSUME RewardAssumption ==
  /\ IsFiniteSet(Users) /\ Users = 1..Cardinality(Users) /\ Amount \in Nat /\ Corrected \in Nat /\ Amount # Corrected
  /\ Scale \in Nat \ {0}
  /\ \A p \in Setups :
       /\ {p.creates, p.confirms, p.distributions, p.corrections, p.faults} \subseteq Nat
       /\ p.creators \subseteq Creators
       /\ \A s \in p.shares : DOMAIN s \subseteq Users /\ \A u \in DOMAIN s : s[u] \in Nat \ {0}

VARIABLES
  mined,      \* the reward's transaction succeeded on chain
  row,        \* RewardLedger rows
  alloc,      \* RewardAllocation rows of each reward and user
  credited,   \* what the ledger credited under each allocation's key
  vault,      \* transfers of each reward that reached the vault
  marked,     \* rewards whose transfer has its durability receipt
  confirm,    \* confirmReward or confirmObservedRewards: the row it has read
  create,     \* what each call of createAllocations holds
  dist,       \* what distributeAllocations holds
  move,       \* what transferConfirmedRewardsToMixin holds
  setup,      \* the bounds; fixed
  calls,      \* bound: calls made
  seen,       \* history: faults, and the races the properties name
  faults      \* bound

tables == <<row, alloc, credited, vault, marked>>
procs == <<confirm, create, dist, move>>
fixed == <<setup, mined>>
vars == <<setup, mined, row, alloc, credited, vault, marked, confirm, create, dist, move, calls, seen, faults>>

Init ==
  /\ setup \in Setups /\ mined \in BOOLEAN
  /\ row = [r \in Rewards |-> None] /\ alloc = [r \in Rewards |-> [u \in Users |-> None]]
  /\ credited = [r \in Rewards |-> [u \in Users |-> None]]
  /\ vault = [r \in Rewards |-> 0] /\ marked = {}
  /\ confirm = None /\ create = [c \in Creators |-> None] /\ dist = None /\ move = None
  /\ calls = [creates |-> 0, confirms |-> 0, distributions |-> 0] /\ seen = {} /\ faults = 0

Fault(kind) == faults < setup.faults /\ faults' = faults + 1 /\ seen' = seen \cup {kind}

NoFault == UNCHANGED <<seen, faults>>

\* save of a whole row: it may have changed since it was read.
Saves(r, new, known) ==
  /\ row' = [row EXCEPT ![r] = new]
  /\ seen' = (IF row[r] = known THEN seen ELSE seen \cup {"stale"}) /\ UNCHANGED faults

Status(r) == IF row[r] = None THEN None ELSE row[r].status

Counts(what) == calls[what] < setup[what] /\ calls' = [calls EXCEPT ![what] = @ + 1]

-----------------------------------------------------------------------------
(* observeReward, observeRewardCorrection, confirmations                     *)

Observe ==
  /\ row["reward"] = None
  /\ row' = [row EXCEPT !["reward"] = [status |-> "OBSERVED", amount |-> Amount, remainder |-> 0]]
  /\ UNCHANGED <<fixed, alloc, credited, vault, marked, procs, calls, seen, faults>>

\* A correction is a reward of the difference, confirmed from the start.
ObserveCorrection ==
  /\ setup.corrections > 0 /\ row["reward"] # None /\ row["correction"] = None
  /\ row' = [row EXCEPT !["correction"] =
                [status |-> "CONFIRMED", amount |-> Corrected - row["reward"].amount, remainder |-> 0]]
  /\ UNCHANGED <<fixed, alloc, credited, vault, marked, procs, calls, seen, faults>>

\* confirmReward reads any row, the receiver an observed one that is mined.
ConfirmRead ==
  /\ confirm = None
  /\ \E r \in Rewards :
       /\ row[r] # None /\ confirm' = [id |-> r, row |-> row[r]]
       /\ \/ Counts("confirms")
          \/ r = "reward" /\ mined /\ Status(r) = "OBSERVED" /\ UNCHANGED calls
  /\ UNCHANGED <<fixed, tables, create, dist, move, seen, faults>>

ConfirmSave ==
  /\ confirm # None /\ confirm' = None
  /\ Saves(confirm.id, [confirm.row EXCEPT !.status = "CONFIRMED"], confirm.row)
  /\ UNCHANGED <<fixed, alloc, credited, vault, marked, create, dist, move, calls>>

-----------------------------------------------------------------------------
(* createAllocations                                                         *)

TotalShares(s) == SumFunction(s)

\* A quotient of naturals to the nearest whole, halves up.
HalfUp(n, d) == (2 * n + d) \div (2 * d)

\* A user's part of the whole, in units of its last decimal. The parts may be more
\* than the whole by half a unit a user.
Ratio(s, u) == HalfUp(s[u] * Scale, TotalShares(s))

\* decimalPlaces(8, ROUND_DOWN): towards zero.
RoundDown(n, d) == IF n >= 0 THEN n \div d ELSE -((-n) \div d)

Parts(amount, s) == [u \in DOMAIN s |-> RoundDown(amount * Ratio(s, u), Scale)]

\* The first of some users in sortedShares: the largest share, the lower id among
\* equals.
First(s, us) == CHOOSE u \in us : \A v \in us : s[u] > s[v] \/ (s[u] = s[v] /\ u <= v)

Remainder(amount, s) == amount - SumFunction(Parts(amount, s))

\* Mutant: what rounding leaves over is not given to anyone.
ComputedBare(amount, s) == Parts(amount, s)

\* The first one gets what rounding leaves over, if it is positive; what rounding gave
\* too much nobody loses.
Computed(amount, s) ==
  LET rest == Remainder(amount, s)
  IN  [u \in DOMAIN s |-> Parts(amount, s)[u] + IF u = First(s, DOMAIN s) /\ rest > 0 THEN rest ELSE 0]

Allocated(r) == {u \in Users : alloc[r][u] # None}

Creating(r) == {c \in Creators : create[c] # None /\ create[c].id = r}

\* Nothing is done for a reward that has allocations.
CreateRead(c) ==
  /\ c \in setup.creators /\ create[c] = None /\ Counts("creates")
  /\ \E r \in Rewards, s \in setup.shares :
       /\ row[r] # None /\ Allocated(r) = {}
       /\ create' = [create EXCEPT ![c] = [id |-> r, row |-> row[r], shares |-> s, todo |-> DOMAIN s,
                                            saved |-> FALSE]]
       /\ seen' = IF Creating(r) = {} THEN seen ELSE seen \cup {"overlap"}
  /\ UNCHANGED <<fixed, tables, confirm, dist, move, faults>>

\* The row is saved; without shares all of it stays undistributed.
CreateSave(c) ==
  /\ create[c] # None /\ ~create[c].saved
  /\ LET t == create[c]
         none == DOMAIN t.shares = {}
     IN  /\ Saves(t.id, [t.row EXCEPT !.remainder = IF none THEN t.row.amount ELSE 0], t.row)
         /\ create' = [create EXCEPT ![c] = IF none THEN None ELSE [t EXCEPT !.saved = TRUE]]
  /\ UNCHANGED <<fixed, alloc, credited, vault, marked, confirm, dist, move, calls>>

\* Then the allocations one by one.
CreateAllocation(c) ==
  /\ create[c] # None /\ create[c].saved
  /\ LET t == create[c]
         u == First(t.shares, t.todo)
     IN  /\ alloc' = [alloc EXCEPT ![t.id][u] =
                        [amount |-> Computed(t.row.amount, t.shares)[u], status |-> "CREATED"]]
         /\ create' = [create EXCEPT ![c] = IF t.todo = {u} THEN None ELSE [t EXCEPT !.todo = @ \ {u}]]
  /\ UNCHANGED <<fixed, row, credited, vault, marked, confirm, dist, move, calls, seen, faults>>

-----------------------------------------------------------------------------
(* distributeAllocations                                                     *)

\* The allocations are read; whether the reward is confirmed is not asked.
DistributeRead ==
  /\ dist = None /\ Counts("distributions")
  /\ \E r \in Rewards :
       dist' = [id |-> r, todo |-> {u \in Allocated(r) : alloc[r][u].status # "CREDITED"},
                rows |-> alloc[r], pc |-> "credit", row |-> None]
  /\ UNCHANGED <<fixed, tables, confirm, create, move, seen, faults>>

\* Mutant: a credit is applied whenever it is asked for.
CreditedAgain(r, u, n) == (IF credited[r][u] = None THEN 0 ELSE credited[r][u]) + n

\* creditReward under the allocation's key.
Credited(r, u, n) == IF credited[r][u] = None THEN n ELSE credited[r][u]

\* What a user has of the token; a negative credit must be covered.
Balance(u) ==
  MapThenSumSet(LAMBDA r : IF credited[r][u] = None THEN 0 ELSE credited[r][u], Rewards)

\* The ledger replays an entry of its key with the same amount. Other amounts under
\* it, zero and a debit that is not covered are refused.
Refused(r, u, n) ==
  IF credited[r][u] = None THEN n = 0 \/ Balance(u) + n < 0 ELSE credited[r][u] # n

\* One allocation at a time; a credit that fails ends the distribution.
DistributeCredit ==
  /\ dist # None /\ dist.pc = "credit" /\ dist.todo # {}
  /\ LET u == Min(dist.todo)
         n == dist.rows[u].amount
     IN  \/ /\ ~Refused(dist.id, u, n)
            /\ credited' = [credited EXCEPT ![dist.id][u] = Credited(dist.id, u, n)]
            /\ dist' = [dist EXCEPT !.pc = "save"]
         \/ Refused(dist.id, u, n) /\ dist' = None /\ UNCHANGED credited
  /\ UNCHANGED <<fixed, row, alloc, vault, marked, confirm, create, move, calls, seen, faults>>

DistributeSave ==
  /\ dist # None /\ dist.pc = "save"
  /\ LET u == Min(dist.todo)
     IN  /\ alloc' = [alloc EXCEPT ![dist.id][u] = [dist.rows[u] EXCEPT !.status = "CREDITED"]]
         /\ dist' = [dist EXCEPT !.pc = "credit", !.todo = @ \ {u}]
  /\ UNCHANGED <<fixed, row, credited, vault, marked, confirm, create, move, calls, seen, faults>>

\* The row is read again, if there is one,
DistributeReread ==
  /\ dist # None /\ dist.pc = "credit" /\ dist.todo = {}
  /\ dist' = IF row[dist.id] = None THEN None ELSE [dist EXCEPT !.pc = "end", !.row = row[dist.id]]
  /\ UNCHANGED <<fixed, tables, confirm, create, move, calls, seen, faults>>

\* and saved as distributed.
DistributeEnd ==
  /\ dist # None /\ dist.pc = "end" /\ dist' = None
  /\ Saves(dist.id, [dist.row EXCEPT !.status = "DISTRIBUTED"], dist.row)
  /\ UNCHANGED <<fixed, alloc, credited, vault, marked, confirm, create, move, calls>>

-----------------------------------------------------------------------------
(* transferConfirmedRewardsToMixin                                           *)

Without(rows, r) == [rows EXCEPT ![r] = None]

\* The pass takes the next of the rows it has read, or ends.
TakeOf(rows) ==
  \/ \E r \in Rewards :
       rows[r] # None /\ move' = [id |-> r, row |-> rows[r], later |-> Without(rows, r), pc |-> "claim"]
  \/ (\A r \in Rewards : rows[r] = None) /\ move' = None

\* All confirmed rows are read at once.
MoveRead ==
  /\ move = None /\ \E r \in Rewards : Status(r) = "CONFIRMED"
  /\ TakeOf([r \in Rewards |-> IF Status(r) = "CONFIRMED" THEN row[r] ELSE None])
  /\ UNCHANGED <<fixed, tables, confirm, create, dist, calls, seen, faults>>

MoveAt(p) == move # None /\ move.pc = p

\* The conditional update; a row that is no longer confirmed is left.
MoveClaim ==
  /\ MoveAt("claim")
  /\ \/ /\ Status(move.id) = "CONFIRMED" /\ move' = [move EXCEPT !.pc = "send"]
        /\ row' = [row EXCEPT ![move.id].status = "TRANSFERRING_TO_MIXIN"]
     \/ Status(move.id) # "CONFIRMED" /\ TakeOf(move.later) /\ UNCHANGED row
  /\ UNCHANGED <<fixed, alloc, credited, vault, marked, confirm, create, dist, calls, seen, faults>>

\* Mutant: the receipt of an earlier transfer is not looked for.
AlreadyProcessedNever == FALSE

AlreadyProcessed == move.id \in marked

Landed == vault' = [vault EXCEPT ![move.id] = @ + 1]

\* A transfer that was done is not done again; one that fails, is of a negative
\* amount, or loses its answer goes back to confirmed, as does a failed look for
\* the receipt.
MoveSend ==
  /\ MoveAt("send")
  /\ \/ AlreadyProcessed /\ move' = [move EXCEPT !.pc = "save"] /\ UNCHANGED vault /\ NoFault
     \/ /\ ~AlreadyProcessed /\ move.row.amount > 0
        /\ \/ Landed /\ move' = [move EXCEPT !.pc = "mark"] /\ NoFault
           \/ Fault("lost") /\ Landed /\ move' = [move EXCEPT !.pc = "undo"]
     \/ /\ ~AlreadyProcessed /\ move.row.amount <= 0
        /\ move' = [move EXCEPT !.pc = "undo"] /\ UNCHANGED vault /\ NoFault
     \/ Fault("reject") /\ move' = [move EXCEPT !.pc = "undo"] /\ UNCHANGED vault
  /\ UNCHANGED <<fixed, row, alloc, credited, marked, confirm, create, dist, calls>>

MoveMark ==
  /\ MoveAt("mark")
  /\ \/ marked' = marked \cup {move.id} /\ move' = [move EXCEPT !.pc = "save"] /\ NoFault
     \/ Fault("db") /\ move' = [move EXCEPT !.pc = "undo"] /\ UNCHANGED marked
  /\ UNCHANGED <<fixed, row, alloc, credited, vault, confirm, create, dist, calls>>

ClaimedRow == [move.row EXCEPT !.status = "TRANSFERRING_TO_MIXIN"]

\* The save throws: the catch block is next, or, when it was its own, the pass ends
\* and leaves the row claimed.
MoveSaveThrows ==
  /\ \/ MoveAt("save") /\ Fault("save") /\ move' = [move EXCEPT !.pc = "undo"]
     \/ MoveAt("undo") /\ Fault("stuck") /\ move' = None
  /\ UNCHANGED <<fixed, tables, confirm, create, dist, calls>>

\* Mutant: a transfer that fails stays claimed.
MoveSaveOnly ==
  /\ MoveAt("save") \/ MoveAt("undo")
  /\ Saves(move.id, [move.row EXCEPT !.status = IF MoveAt("save") THEN "TRANSFERRED_TO_MIXIN"
                                                ELSE "TRANSFERRING_TO_MIXIN"], ClaimedRow)
  /\ TakeOf(move.later)
  /\ UNCHANGED <<fixed, alloc, credited, vault, marked, confirm, create, dist, calls>>

MoveSave ==
  /\ MoveAt("save") \/ MoveAt("undo")
  /\ Saves(move.id, [move.row EXCEPT !.status = IF MoveAt("save") THEN "TRANSFERRED_TO_MIXIN"
                                                ELSE "CONFIRMED"], ClaimedRow)
  /\ TakeOf(move.later)
  /\ UNCHANGED <<fixed, alloc, credited, vault, marked, confirm, create, dist, calls>>

-----------------------------------------------------------------------------
\* The process dies: what the calls held is gone.
Crash ==
  /\ Fault("crash")
  /\ confirm' = None /\ create' = [c \in Creators |-> None] /\ dist' = None /\ move' = None
  /\ UNCHANGED <<fixed, tables, calls>>

Confirming == ConfirmRead \/ ConfirmSave
Create(c) == CreateRead(c) \/ CreateSave(c) \/ CreateAllocation(c)
Distribute == DistributeRead \/ DistributeCredit \/ DistributeSave \/ DistributeReread \/ DistributeEnd
Move == MoveRead \/ MoveClaim \/ MoveSend \/ MoveMark \/ MoveSave \/ MoveSaveThrows

Next == \/ Observe \/ ObserveCorrection \/ Confirming \/ Distribute \/ Move \/ Crash
        \/ \E c \in Creators : Create(c)

Spec == Init /\ [][Next]_vars

\* Both crons come back, and calls that have begun end.
FairSpec ==
  /\ Spec /\ WF_vars(Confirming) /\ WF_vars(Move)
  /\ \A c \in Creators : WF_vars(CreateSave(c)) /\ WF_vars(CreateAllocation(c))

-----------------------------------------------------------------------------
Statuses == {"OBSERVED", "CONFIRMED", "TRANSFERRING_TO_MIXIN", "TRANSFERRED_TO_MIXIN", "DISTRIBUTED"}
Faults == {"stale", "overlap", "reject", "lost", "db", "save", "stuck", "crash"}

RewardRow == [status : Statuses, amount : Int, remainder : Int]
Copies == [Rewards -> RewardRow \cup {None}]
AllocationRow == [amount : Int, status : {"CREATED", "CREDITED"}]
Confirmations == [id : Rewards, row : RewardRow]
Creates == [id : Rewards, row : RewardRow, shares : UNION {p.shares : p \in Setups}, todo : SUBSET Users,
            saved : BOOLEAN]
Distributions == [id : Rewards, todo : SUBSET Users, rows : [Users -> AllocationRow \cup {None}],
                  pc : {"credit", "save", "end"}, row : RewardRow \cup {None}]
Moves == [id : Rewards, row : RewardRow, later : Copies, pc : {"claim", "send", "mark", "undo", "save"}]

ASSUME NoneAssumption ==
  /\ None \notin Int /\ None \notin Statuses /\ None \notin RewardRow /\ None \notin AllocationRow
  /\ None \notin Confirmations /\ None \notin Creates /\ None \notin Distributions /\ None \notin Moves

\* The types of the variables.
TypeOK ==
  /\ setup \in Setups /\ mined \in BOOLEAN
  /\ row \in [Rewards -> RewardRow \cup {None}]
  /\ alloc \in [Rewards -> [Users -> AllocationRow \cup {None}]]
  /\ credited \in [Rewards -> [Users -> Int \cup {None}]]
  /\ vault \in [Rewards -> Nat] /\ marked \subseteq Rewards
  /\ confirm \in Confirmations \cup {None}
  /\ create \in [Creators -> Creates \cup {None}]
  /\ dist \in Distributions \cup {None} /\ move \in Moves \cup {None}
  /\ seen \subseteq Faults /\ faults \in Nat

AllocatedSum(r) == SumFunction([u \in Allocated(r) |-> alloc[r][u].amount])

CreditedSum(r) ==
  SumFunction([u \in {v \in Users : credited[r][v] # None} |-> credited[r][u]])

\* n exceeds an amount by no more than k rounded ratios can: half a unit of the last
\* decimal each. It does not exceed an amount below 2 * Scale / k.
WithinRounding(n, amount, k) == 2 * Scale * (n - amount) <= amount * k

\* What was allocated and what stays undistributed add up to a positive reward, to
\* more only by ratios rounded up; of a negative correction no more is taken back
\* than it says (createAllocations, the rounding and its remainder). Calls that
\* overlap, rows saved over newer ones and crashes between the allocations are
\* excepted.
AllocationsAddUp ==
  seen \cap {"overlap", "stale", "crash"} = {} =>
    \A r \in Rewards : (Allocated(r) # {} /\ Creating(r) = {}) =>
      LET sum == AllocatedSum(r) + row[r].remainder
          amount == row[r].amount
      IN  IF amount > 0 THEN amount <= sum /\ WithinRounding(sum, amount, Cardinality(Allocated(r)))
          ELSE amount <= sum /\ sum <= 0

\* Users are never credited more than the reward and what rounded ratios add to it,
\* however often distribution is repeated or dies between a credit and its record;
\* only overlapping createAllocations calls are excepted (distributeAllocations,
\* creditReward's key).
CreditedWithinReward ==
  "overlap" \notin seen =>
    \A r \in Rewards : row[r] # None /\ row[r].amount > 0 =>
      WithinRounding(CreditedSum(r), row[r].amount, Cardinality(Users))

\* A reward is moved to the vault at most once, also when other calls save its row
\* back to confirmed meanwhile: the receipt stops a second transfer. A lost answer,
\* a lost receipt and a crash before the receipt are excepted.
MovedAtMostOnce == seen \cap {"lost", "db", "crash"} = {} => \A r \in Rewards : vault[r] <= 1

\* A confirmed reward is recorded as moved to the vault or as distributed, whatever
\* fails on the way except a crash, a row saved over a newer one and the catch
\* block's own save (the transfer's cron retries from confirmed). A negative
\* correction is not: its transfer never succeeds, and it is retried for good.
ConfirmedMovesOn ==
  \A r \in Rewards :
    (Status(r) = "CONFIRMED" /\ row[r].amount > 0) ~>
      (Status(r) \in {"TRANSFERRED_TO_MIXIN", "DISTRIBUTED"} \/ seen \cap {"crash", "stale", "stuck"} # {})
=============================================================================
