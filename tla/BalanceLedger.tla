--------------------------- MODULE BalanceLedger ---------------------------
(***************************************************************************)
(* BalanceLedgerService: an append-only table of entries, one read-model   *)
(* row per bucket (an order and an asset), and calls that run concurrently *)
(* in one process.  A call waits on a promise chain for the mutation lock, *)
(* looks its idempotency key up, loads the row, saves the entry and then   *)
(* saves the row.  The two saves are one database transaction only on a    *)
(* database other than SQLite (UseTransaction).  The lock is one for the   *)
(* process when a data source is injected and one per bucket otherwise     *)
(* (GlobalLock).  The rebuild takes no lock, the set of paused buckets is  *)
(* in memory only, and the process may crash between any two steps.        *)
(***************************************************************************)
EXTENDS LedgerRules, Sequences, FiniteSets

CONSTANTS
  Buckets,         \* (ledgerOrderId, assetId) pairs
  Keys,            \* idempotency keys
  Commands,        \* the commands callers submit, any number of times each
  GlobalLock,      \* a data source is injected: one lock for all buckets
  UseTransaction,  \* shouldUseDataSourceTransaction(): FALSE on SQLite
  RebuildBuckets,  \* buckets rebuildOrderBalance is asked for
  PauseBuckets,    \* buckets pauseReservations is asked for
  None,            \* no command, no key, no row, a value not read yet
  MaxCalls,        \* bound: calls made in a behaviour
  MaxFaults        \* bound: crashes and failed saves in a behaviour

Command ==
  [ key : Keys, bucket : Buckets, type : EntryTypes, amount : Int,
    reversalOf : Keys \cup {None} ]

ASSUME CommandsAssumption == Commands \subseteq Command
ASSUME NoneAssumption ==
  None \notin Keys /\ None \notin Commands /\ None \notin Balance /\ None \notin Buckets
ASSUME BucketsAssumption == RebuildBuckets \subseteq Buckets /\ PauseBuckets \subseteq Buckets
\* Without a data source there is nothing to open a transaction on.
ASSUME SwitchAssumption ==
  UseTransaction \in BOOLEAN /\ GlobalLock \in BOOLEAN /\ (UseTransaction => GlobalLock)
ASSUME BoundsAssumption == MaxCalls \in Nat /\ MaxFaults \in Nat
\* A caller reverses an entry of the bucket its command is about.
ASSUME ReversalAssumption ==
  \A c, d \in Commands :
    c.reversalOf = d.key => c.type = "reversal" /\ c.bucket = d.bucket

VARIABLES
  entries,    \* table ledger_entry, in the order the rows were inserted
  rows,       \* table market_making_order_balance: bucket -> row or None
  outbox,     \* events appended by DurabilityService
  call,       \* the n-th call of applyMutation: where it is and what it holds
  publishing, \* applied mutations whose created event is not appended yet
  paused,     \* reservationPausedBalances
  rebuild,    \* the rebuild that is running
  unapplied,  \* history: keys of entries whose effect is not in the row
  outcome,    \* history: the last mutation that ended and how
  calls,      \* calls and rebuilds made so far
  faults      \* crashes and failed saves so far

vars == <<entries, rows, outbox, call, publishing, paused, rebuild, unapplied,
          outcome, calls, faults>>

-----------------------------------------------------------------------------
(* Data. *)

\* Mutant: a content hash that leaves the amount out.
ContentWithoutAmount(c, signed) ==
  [bucket |-> c.bucket, type |-> c.type, amount |-> 0, reversalOf |-> c.reversalOf]

\* What the content hash covers.
Content(c, signed) ==
  [bucket |-> c.bucket, type |-> c.type, amount |-> signed, reversalOf |-> c.reversalOf]

EntryOf(c) ==
  LET signed == SignedEntryAmount(c.type, c.amount)
  IN  [ key |-> c.key, bucket |-> c.bucket, type |-> c.type, amount |-> signed,
        hash |-> Content(c, signed), reversalOf |-> c.reversalOf ]

\* findOneBy({ idempotencyKey }): the key column is unique.
Existing(k) == {i \in 1..Len(entries) : entries[i].key = k}

\* Mutant: the reversed entry is not looked up.
ReversedTypeIgnored(c) == NoType

\* The type of the entry a command reverses, looked up in the whole table.
ReversedType(c) ==
  IF Existing(c.reversalOf) = {} THEN NoType
  ELSE entries[CHOOSE i \in Existing(c.reversalOf) : TRUE].type

KeysOf(b) == {entries[i].key : i \in {j \in 1..Len(entries) : entries[j].bucket = b}}

\* The row a mutation starts from; a missing row is created in memory only.
Row(b) == IF rows[b] = None THEN ZeroBalance ELSE rows[b]

\* projectBalanceFromEntries: the loop body for the i-th of the entries es,
\* which looks a reversed entry up in the bucket, and the balance after each
\* iteration; keys in omit are left out.
ProjectStep(es, b, omit, acc, i) ==
  LET found == {j \in 1..Len(es) : es[j].bucket = b /\ es[j].key = es[i].reversalOf}
      revType == IF found = {} THEN NoType ELSE es[CHOOSE j \in found : TRUE].type
  IN  IF es[i].bucket = b /\ es[i].key \notin omit
      THEN ProjectEntry(acc, es[i].type, es[i].amount, revType)
      ELSE acc

RunningBalance(es, b, omit) ==
  LET sum[i \in 0..Len(es)] ==
        IF i = 0 THEN ZeroBalance ELSE ProjectStep(es, b, omit, sum[i-1], i)
  IN  sum

Project(es, b, omit) == RunningBalance(es, b, omit)[Len(es)]

-----------------------------------------------------------------------------
(* Calls, the mutation lock and the steps under it. *)

CallIds == 1..MaxCalls

NoCall == [pc |-> "none", cmd |-> None, next |-> ZeroBalance, missing |-> {}]

NoRebuild == [bucket |-> None, expected |-> None, actual |-> None, creating |-> FALSE]

Active(n) == call[n].pc # "none"

Init ==
  /\ entries = <<>>
  /\ rows = [b \in Buckets |-> None]
  /\ outbox = {}
  /\ call = [n \in CallIds |-> NoCall]
  /\ publishing = {}
  /\ paused = {}
  /\ rebuild = NoRebuild
  /\ unapplied = {}
  /\ outcome = None
  /\ calls = 0
  /\ faults = 0

\* A caller enters applyMutation and chains itself behind the current tail.
\* The id of an entry to reverse is random: it can only be that of an entry.
Call(c) ==
  /\ calls < MaxCalls
  /\ c.reversalOf # None => Existing(c.reversalOf) # {}
  /\ calls' = calls + 1
  /\ call' = [call EXCEPT ![calls + 1] = [NoCall EXCEPT !.pc = "queued", !.cmd = c]]
  /\ UNCHANGED <<entries, rows, outbox, publishing, paused, rebuild, unapplied,
                 outcome, faults>>

\* getMutationLockKey: two calls contend for one lock.
SameLock(m, n) == GlobalLock \/ call[m].cmd.bucket = call[n].cmd.bucket

\* Mutant: a call does not await the tail of the chain.
HasLockAtOnce(n) == n \in CallIds

\* The promise chain is first come first served: the tail a call awaits has
\* resolved when every earlier call for the lock has ended.
HasLock(n) == \A m \in 1..(n-1) : Active(m) => ~SameLock(m, n)

Acquire(n) ==
  /\ call[n].pc = "queued"
  /\ HasLock(n)
  /\ call' = [call EXCEPT ![n].pc = "lookup"]
  /\ UNCHANGED <<entries, rows, outbox, publishing, paused, rebuild, unapplied,
                 outcome, calls, faults>>

\* Mutant: the lock is released in the success path only.
FinishKeepsLock(n, result) ==
  /\ call' = IF result = "rejected" THEN call ELSE [call EXCEPT ![n] = NoCall]
  /\ outcome' = [cmd |-> call[n].cmd, result |-> result]

\* The operation returns or throws: the finally block hands the lock on.
Finish(n, result) ==
  /\ call' = [call EXCEPT ![n] = NoCall]
  /\ outcome' = [cmd |-> call[n].cmd, result |-> result]

\* assertIdempotencyPayloadMatches for a key that is recorded: the same content
\* is a replay, another one a conflict, noted in the outbox.
Replay(n) ==
  LET c == call[n].cmd
      signed == SignedAmountForIdempotency(c.type, c.amount)
  IN  \E i \in Existing(c.key) :
        IF entries[i].hash = Content(c, signed)
        THEN Finish(n, "replayed") /\ UNCHANGED outbox
        ELSE /\ Finish(n, "conflict")
             /\ outbox' = outbox \cup {[topic |-> "conflict", key |-> c.key]}

\* The key is recorded already, or the amount is checked.
Lookup(n) ==
  /\ call[n].pc = "lookup"
  /\ LET c == call[n].cmd
     IN  \/ Replay(n)
         \/ /\ Existing(c.key) = {}
            /\ ~AmountAdmissible(c.type, c.amount)
            /\ Finish(n, "rejected")
            /\ UNCHANGED outbox
         \/ /\ Existing(c.key) = {}
            /\ AmountAdmissible(c.type, c.amount)
            /\ call' = [call EXCEPT ![n].pc = "load"]
            /\ UNCHANGED <<outbox, outcome>>
  /\ UNCHANGED <<entries, rows, publishing, paused, rebuild, unapplied, calls, faults>>

\* The pause check, the row, the next balance and the checks on it.
Load(n) ==
  /\ call[n].pc = "load"
  /\ LET c == call[n].cmd
         refused == \/ c.type = "reserve_lock" /\ c.bucket \in paused
                    \/ ~FundsSuffice(c.type, c.amount, Row(c.bucket))
     IN  \/ refused /\ Finish(n, "rejected")
         \/ /\ ~refused
            /\ call' = [call EXCEPT
                          ![n].pc = "saveEntry",
                          ![n].next = ApplyCommand(c.type, c.amount, ReversedType(c),
                                                   Row(c.bucket)),
                          ![n].missing = unapplied \cap KeysOf(c.bucket)]
            /\ UNCHANGED outcome
  /\ UNCHANGED <<entries, rows, outbox, publishing, paused, rebuild, unapplied,
                 calls, faults>>

\* Mutant: the created event is not appended.
SavedRowUnannounced(n) ==
  LET c == call[n].cmd
  IN  /\ rows' = [rows EXCEPT ![c.bucket] = call[n].next]
      /\ unapplied' = (unapplied \ (KeysOf(c.bucket) \cup {c.key})) \cup call[n].missing
      /\ UNCHANGED publishing
      /\ Finish(n, "applied")

\* The row becomes what the call computed; what the call did not see is missing.
SavedRow(n) ==
  LET c == call[n].cmd
  IN  /\ rows' = [rows EXCEPT ![c.bucket] = call[n].next]
      /\ unapplied' = (unapplied \ (KeysOf(c.bucket) \cup {c.key})) \cup call[n].missing
      /\ publishing' = publishing \cup {c.key}
      /\ Finish(n, "applied")

\* Mutant: the key column of the entry table is not unique.
SaveEntryNotUnique(n) ==
  /\ call[n].pc = "saveEntry"
  /\ ~UseTransaction
  /\ entries' = Append(entries, EntryOf(call[n].cmd))
  /\ unapplied' = unapplied \cup {call[n].cmd.key}
  /\ call' = [call EXCEPT ![n].pc = "saveBalance"]
  /\ UNCHANGED <<rows, outbox, publishing, paused, rebuild, outcome, calls, faults>>

\* Without a transaction the entry is durable before the row is saved.  The
\* unique key column refuses an entry another bucket's call saved meanwhile.
SaveEntry(n) ==
  /\ call[n].pc = "saveEntry"
  /\ ~UseTransaction
  /\ LET c == call[n].cmd
     IN  \/ Replay(n) /\ UNCHANGED <<entries, unapplied>>
         \/ /\ Existing(c.key) = {}
            /\ entries' = Append(entries, EntryOf(c))
            /\ unapplied' = unapplied \cup {c.key}
            /\ call' = [call EXCEPT ![n].pc = "saveBalance"]
            /\ UNCHANGED <<outbox, outcome>>
  /\ UNCHANGED <<rows, publishing, paused, rebuild, calls, faults>>

SaveBalance(n) ==
  /\ call[n].pc = "saveBalance"
  /\ SavedRow(n)
  /\ UNCHANGED <<entries, outbox, paused, rebuild, calls, faults>>

\* With a transaction both saves take effect at the commit.
Commit(n) ==
  /\ call[n].pc = "saveEntry"
  /\ UseTransaction
  /\ entries' = Append(entries, EntryOf(call[n].cmd))
  /\ SavedRow(n)
  /\ UNCHANGED <<outbox, paused, rebuild, calls, faults>>

\* A save throws.  What the call saved before stays, unless it ran in a
\* transaction, which is rolled back; the lock is released either way.
SaveFails(n) ==
  /\ call[n].pc \in {"saveEntry", "saveBalance"}
  /\ faults < MaxFaults
  /\ faults' = faults + 1
  /\ Finish(n, "error")
  /\ UNCHANGED <<entries, rows, outbox, publishing, paused, rebuild, unapplied, calls>>

\* appendOutboxEvent of an applied mutation, after the lock is released.
Publish(k) ==
  /\ k \in publishing
  /\ publishing' = publishing \ {k}
  /\ outbox' = outbox \cup {[topic |-> "created", key |-> k]}
  /\ UNCHANGED <<entries, rows, call, paused, rebuild, unapplied, outcome, calls, faults>>

-----------------------------------------------------------------------------
(* Pausing, rebuilding and crashing. *)

PauseReservations(b) ==
  /\ b \notin paused
  /\ paused' = paused \cup {b}
  /\ UNCHANGED <<entries, rows, outbox, call, publishing, rebuild,
                 unapplied, outcome, calls, faults>>

\* rebuildOrderBalance starts two reads that may be served in either order.
RebuildStart(b) ==
  /\ rebuild = NoRebuild
  /\ calls < MaxCalls
  /\ calls' = calls + 1
  /\ rebuild' = [NoRebuild EXCEPT !.bucket = b]
  /\ UNCHANGED <<entries, rows, outbox, call, publishing, paused,
                 unapplied, outcome, faults>>

RebuildReadEntries ==
  /\ rebuild.bucket # None
  /\ rebuild.expected = None
  /\ rebuild' = [rebuild EXCEPT !.expected = Project(entries, rebuild.bucket, {})]
  /\ UNCHANGED <<entries, rows, outbox, call, publishing, paused,
                 unapplied, outcome, calls, faults>>

RebuildReadRow ==
  /\ rebuild.bucket # None
  /\ rebuild.actual = None
  /\ ~rebuild.creating
  /\ rebuild' = IF rows[rebuild.bucket] = None
                THEN [rebuild EXCEPT !.creating = TRUE]
                ELSE [rebuild EXCEPT !.actual = rows[rebuild.bucket]]
  /\ UNCHANGED <<entries, rows, outbox, call, publishing, paused,
                 unapplied, outcome, calls, faults>>

\* getOrCreateBalance persists a zero row; save() of an entity whose primary
\* key exists by now is an update, so it replaces the row of a mutation that
\* ran since the row was found missing.
RebuildCreateRow ==
  /\ rebuild.creating
  /\ rows' = [rows EXCEPT ![rebuild.bucket] = ZeroBalance]
  /\ unapplied' = unapplied \cup KeysOf(rebuild.bucket)
  /\ rebuild' = [rebuild EXCEPT !.actual = ZeroBalance, !.creating = FALSE]
  /\ UNCHANGED <<entries, outbox, call, publishing, paused, outcome,
                 calls, faults>>

\* The comparison leaves externalLocked out, as the code does.
SameBalance(p, q) ==
  \A f \in DOMAIN ZeroBalance \ {"externalLocked"} : p[f] = q[f]

\* Mutant: a finished rebuild leaves what it read behind.
RebuildCompareKeepsReads ==
  /\ rebuild.expected # None
  /\ rebuild.actual # None
  /\ paused' = IF SameBalance(rebuild.actual, rebuild.expected)
               THEN paused \ {rebuild.bucket}
               ELSE paused \cup {rebuild.bucket}
  /\ rebuild' = [rebuild EXCEPT !.bucket = None]
  /\ UNCHANGED <<entries, rows, outbox, call, publishing, unapplied,
                 outcome, calls, faults>>

RebuildCompare ==
  /\ rebuild.expected # None
  /\ rebuild.actual # None
  /\ paused' = IF SameBalance(rebuild.actual, rebuild.expected)
               THEN paused \ {rebuild.bucket}
               ELSE paused \cup {rebuild.bucket}
  /\ rebuild' = NoRebuild
  /\ UNCHANGED <<entries, rows, outbox, call, publishing, unapplied,
                 outcome, calls, faults>>

\* The process dies and restarts: the tables stay, everything else is lost.
Crash ==
  /\ faults < MaxFaults
  /\ faults' = faults + 1
  /\ call' = [n \in CallIds |-> NoCall]
  /\ publishing' = {}
  /\ paused' = {}
  /\ rebuild' = NoRebuild
  /\ UNCHANGED <<entries, rows, outbox, unapplied, outcome, calls>>

-----------------------------------------------------------------------------
Mutate(n) ==
  Acquire(n) \/ Lookup(n) \/ Load(n) \/ SaveEntry(n) \/ SaveBalance(n) \/ Commit(n)

Rebuild == RebuildReadEntries \/ RebuildReadRow \/ RebuildCreateRow \/ RebuildCompare

Next ==
  \/ \E c \in Commands : Call(c)
  \/ \E n \in CallIds : Mutate(n) \/ SaveFails(n)
  \/ \E k \in Keys : Publish(k)
  \/ \E b \in PauseBuckets : PauseReservations(b)
  \/ \E b \in RebuildBuckets : RebuildStart(b)
  \/ Rebuild
  \/ Crash

Spec == Init /\ [][Next]_vars

\* Awaited database calls return: each step of a mutation, of the append of an
\* event and of a rebuild is taken.  Nothing obliges a caller to call.
Fairness ==
  /\ \A n \in CallIds : WF_vars(Mutate(n))
  /\ \A k \in Keys : WF_vars(Publish(k))
  /\ WF_vars(Rebuild)

FairSpec == Spec /\ Fairness
-----------------------------------------------------------------------------
(* What the ledger promises. *)

Entry ==
  [ key : Keys, bucket : Buckets, type : EntryTypes, amount : Int,
    hash : [bucket : Buckets, type : EntryTypes, amount : Int,
            reversalOf : Keys \cup {None}],
    reversalOf : Keys \cup {None} ]

CallState ==
  [ pc : {"none", "queued", "lookup", "load", "saveEntry", "saveBalance"},
    cmd : Commands \cup {None}, next : Balance, missing : SUBSET Keys ]

\* The type of every variable: the two tables, the outbox, the calls, the
\* rebuild and the histories.
TypeOK ==
  /\ entries \in Seq(Entry)
  /\ rows \in [Buckets -> Balance \cup {None}]
  /\ outbox \subseteq [topic : {"created", "conflict"}, key : Keys]
  /\ call \in [CallIds -> CallState]
  /\ \A n \in CallIds : Active(n) => n <= calls /\ call[n].cmd \in Commands
  /\ publishing \subseteq Keys
  /\ paused \subseteq Buckets
  /\ rebuild \in [bucket : Buckets \cup {None}, expected : Balance \cup {None},
                  actual : Balance \cup {None}, creating : BOOLEAN]
  /\ rebuild.creating => rebuild.bucket # None
  /\ rebuild.expected # None \/ rebuild.actual # None => rebuild.bucket # None
  /\ unapplied \subseteq Keys
  /\ outcome \in [cmd : Commands,
                  result : {"applied", "replayed", "conflict", "rejected", "error"}]
                 \cup {None}
  /\ calls \in Nat
  /\ faults \in Nat

NonNegative(bal) == bal.available >= 0 /\ bal.locked >= 0 /\ bal.externalLocked >= 0

\* No saved row has a negative part and its total is the sum of its parts,
\* whatever calls are interleaved and wherever the process crashes: the checks
\* of applyMutationWithRepositories are made on the row it then overwrites.
NoOverdraft ==
  \A b \in Buckets :
    /\ NonNegative(Row(b))
    /\ Row(b).total = Row(b).available + Row(b).locked + Row(b).externalLocked

\* An idempotency key stands for one entry, however often and however
\* concurrently its command is submitted.
OneEntryPerKey ==
  \A i, j \in 1..Len(entries) : entries[i].key = entries[j].key => i = j

\* The read model is the projection of exactly those entries that are not unapplied:
\* no mutation overwrites the update of another, and applyMutation computes the balance
\* projectBalanceFromEntries computes.  Unapplied are entries whose row is not saved (yet,
\* or never, after a failed save or a crash), and those a rebuild's zero row wiped out.
ReadModelFollowsLedger ==
  \A b \in Buckets : Row(b) = Project(entries, b, unapplied)

\* The entries that wait for their row to be saved.
UnderWay == {call[n].cmd.key : n \in {m \in CallIds : call[m].pc = "saveBalance"}}

\* An entry and its effect on the row take effect together, for every bucket: the row
\* has all entries in it but those of calls between their two saves.  With a transaction
\* that is so whatever fails; without one, as on SQLite, as long as no save fails and the
\* process does not die.
EntryAndBalanceTogether ==
  UseTransaction \/ faults = 0 => \A b \in Buckets : Row(b) = Project(entries, b, UnderWay)

\* The amounts that left or re-entered a bucket outside trading and fees:
\* withdrawals, allocation releases, and reversals of these and of deposits.
OutsideFlow(b) ==
  LET counts(e) ==
        \/ e.type \in {"withdraw_debit", "allocation_release"}
        \/ /\ e.type = "reversal"
           /\ \A i \in Existing(e.reversalOf) :
                entries[i].type \notin FeeTypes \cup RealizedTypes \cup {"reversal"}
      flow[i \in 0..Len(entries)] ==
        IF i = 0 THEN 0
        ELSE IF /\ entries[i].bucket = b
                /\ entries[i].key \notin unapplied
                /\ counts(entries[i])
             THEN flow[i-1] + entries[i].amount
             ELSE flow[i-1]
  IN  flow[Len(entries)]

\* Money is neither made nor lost inside a bucket: what is available or locked
\* is the initial deposit plus the realised result, less the fees paid, plus
\* the flow from and to the outside.
MoneyConserved ==
  \A b \in Buckets :
    Row(b).available + Row(b).locked =
      Row(b).initialDeposit + Row(b).realizedDelta - Row(b).feePaid + OutsideFlow(b)

\* A call that reports success, applied or replayed, left or found the entry of
\* exactly its command in the ledger, and a created event names an entry.
SuccessMeansRecorded ==
  /\ outcome # None /\ outcome.result \in {"applied", "replayed"} =>
       \E i \in 1..Len(entries) : entries[i] = EntryOf(outcome.cmd)
  /\ \A e \in outbox : Existing(e.key) # {}

\* Every call gets the lock and releases it, also when it is refused or a save
\* fails: in the end no call is left waiting or holding a lock.
LockDrains == <>[](\A n \in CallIds : ~Active(n))

\* As long as no save fails and the process does not crash, every applied
\* mutation is announced in the outbox.
AppliedIsAnnounced ==
  [](faults = 0) =>
    \A k \in Keys :
      (outcome # None /\ outcome.cmd.key = k /\ outcome.result = "applied")
        ~> [topic |-> "created", key |-> k] \in outbox

-----------------------------------------------------------------------------
(* The ledger seen through its read model is an atomic ledger: an entry is   *)
(* in the book once its row is saved.                                        *)

BookEntry(e) ==
  [ key |-> e.key, bucket |-> e.bucket, type |-> e.type, amount |-> e.amount,
    reversalOf |-> e.reversalOf ]

EffectiveBook ==
  {BookEntry(entries[i]) : i \in {j \in 1..Len(entries) : entries[j].key \notin unapplied}}

Atomic == INSTANCE AtomicLedger
            WITH book <- EffectiveBook, balance <- [b \in Buckets |-> Row(b)]

\* Through the lock, the two saves, replays, failed saves and crashes, every
\* step is an atomic command of AtomicLedger or changes nothing it can see.
ImplementsAtomicLedger == Atomic!ASpec
=============================================================================
