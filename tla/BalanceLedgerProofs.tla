------------------------ MODULE BalanceLedgerProofs ------------------------
(***************************************************************************)
(* Theorems about BalanceLedger: its types, no overdraft, keys recorded     *)
(* once, and what its tables say of each other: the read model is the       *)
(* projection of the entries, success means a record, the ledger implements *)
(* the atomic one, and money stays.  For every set of buckets and commands, *)
(* one lock or one per bucket, and any number of calls and faults.          *)
(***************************************************************************)
EXTENDS BalanceLedger, NatSets, SequenceTheorems

-----------------------------------------------------------------------------
(* The rules. *)

\* applyMutationWithRepositories computes a balance from a balance.
LEMMA ApplyCommandType ==
  ASSUME NEW t \in EntryTypes, NEW a \in Int, NEW r, NEW bal \in Balance
  PROVE  ApplyCommand(t, a, r, bal) \in Balance
<1>1. NextAvailable(t, a, bal) \in Int
  BY DEF NextAvailable, Balance
<1>2. NextLocked(t, a, bal) \in Int
  BY DEF NextLocked, Balance, Abs
<1>3. NextExternalLocked(t, a, bal) \in Int
  BY DEF NextExternalLocked, Balance, Abs
<1>4. SignedEntryAmount(t, a) \in Int
  BY DEF SignedEntryAmount
<1>5. NextFeePaid(bal.feePaid, t, a, r) \in Int
  BY DEF NextFeePaid, Balance, Abs, NonNeg
<1> QED BY <1>1, <1>2, <1>3, <1>4, <1>5 DEF ApplyCommand, Balance

\* A command that passes the checks leaves a balance without a negative part
\* and with the right total.
LEMMA ApplyCommandSound ==
  ASSUME NEW t \in EntryTypes, NEW a \in Int, NEW r, NEW bal \in Balance,
         FundsSuffice(t, a, bal)
  PROVE  LET n == ApplyCommand(t, a, r, bal)
         IN  NonNegative(n) /\ n.total = n.available + n.locked + n.externalLocked
BY DEF FundsSuffice, ApplyCommand, NonNegative

\* An iteration of projectBalanceFromEntries maps a balance to a balance.
LEMMA ProjectEntryType ==
  ASSUME NEW t \in EntryTypes, NEW a \in Int, NEW r, NEW bal \in Balance
  PROVE  ProjectEntry(bal, t, a, r) \in Balance
BY DEF ProjectEntry, Balance, Abs, NonNeg

\* The write path and the rebuild path compute the same balance: applying an
\* admissible command equals projecting the entry it is recorded as.
THEOREM RebuildAgreesWithApply ==
  ASSUME NEW t \in EntryTypes, NEW a \in Int, NEW bal \in Balance,
         NEW r \in EntryTypes \cup {NoType},
         AmountAdmissible(t, a), t # "reversal" => r = NoType
  PROVE  ApplyCommand(t, a, r, bal) = ProjectEntry(bal, t, SignedEntryAmount(t, a), r)
<1> DEFINE s == SignedEntryAmount(t, a)
           p == ProjectEntry(bal, t, s, r)
           n == ApplyCommand(t, a, r, bal)
<1>1. n.available = p.available
  BY DEF ApplyCommand, ProjectEntry, NextAvailable, SignedEntryAmount, AmountAdmissible,
         EntryTypes, Credits, AvailableDebits, TradeSettles, SignedTypes, Balance
<1>2. n.locked = p.locked
  BY DEF ApplyCommand, ProjectEntry, NextLocked, SignedEntryAmount, AmountAdmissible, Abs,
         EntryTypes, Credits, AvailableDebits, TradeSettles, SignedTypes, Balance
<1>3. n.externalLocked = p.externalLocked
  BY DEF ApplyCommand, ProjectEntry, NextExternalLocked, SignedEntryAmount,
         AmountAdmissible, Abs, EntryTypes, AvailableDebits, SignedTypes, Balance
<1>4. n.initialDeposit = p.initialDeposit
  BY DEF ApplyCommand, ProjectEntry, SignedEntryAmount, AvailableDebits, Balance
<1>5. n.realizedDelta = p.realizedDelta
  BY DEF ApplyCommand, ProjectEntry, SignedEntryAmount, ReversalAffectsRealizedDelta,
         RealizedTypes, NoType, EntryTypes, AvailableDebits, TradeSettles, Balance
<1>6. n.feePaid = p.feePaid
  BY DEF ApplyCommand, ProjectEntry, NextFeePaid, SignedEntryAmount, AmountAdmissible,
         FeeTypes, AvailableDebits, SignedTypes, TradeSettles, Abs, NonNeg, Balance
<1>7. n.total = p.total
  BY <1>1, <1>2, <1>3 DEF ApplyCommand, ProjectEntry
<1> HIDE DEF s
<1>8. n = [ available |-> n.available, locked |-> n.locked,
            externalLocked |-> n.externalLocked, total |-> n.total,
            initialDeposit |-> n.initialDeposit, realizedDelta |-> n.realizedDelta,
            feePaid |-> n.feePaid ]
  BY DEF ApplyCommand
<1>9. p = [ available |-> p.available, locked |-> p.locked,
            externalLocked |-> p.externalLocked, total |-> p.total,
            initialDeposit |-> p.initialDeposit, realizedDelta |-> p.realizedDelta,
            feePaid |-> p.feePaid ]
  BY DEF ProjectEntry
<1> HIDE DEF n, p
<1>10. n = p
  BY <1>1, <1>2, <1>3, <1>4, <1>5, <1>6, <1>7, <1>8, <1>9
<1> QED BY <1>10 DEF n, p, s

-----------------------------------------------------------------------------
(* The projection of the entries. *)

\* A row that is created in memory is a balance.
LEMMA ZeroBalanceType == ZeroBalance \in Balance
BY DEF ZeroBalance, Balance

\* One iteration over the entries keeps a balance a balance.
LEMMA ProjectStepType ==
  ASSUME NEW es \in Seq(Entry), NEW b, NEW omit, NEW acc \in Balance, NEW i \in 1..Len(es)
  PROVE  ProjectStep(es, b, omit, acc, i) \in Balance
<1> DEFINE found == {j \in 1..Len(es) : es[j].bucket = b /\ es[j].key = es[i].reversalOf}
           revType == IF found = {} THEN NoType ELSE es[CHOOSE j \in found : TRUE].type
<1>1. es[i].type \in EntryTypes /\ es[i].amount \in Int
  <2>1. es[i] \in Entry
    BY ElementOfSeq
  <2> QED BY <2>1 DEF Entry
<1>2. ProjectEntry(acc, es[i].type, es[i].amount, revType) \in Balance
  <2> HIDE DEF revType
  <2> QED BY <1>1, ProjectEntryType
<1> QED BY <1>2 DEF ProjectStep

\* The running balance of projectBalanceFromEntries is well defined.
LEMMA RunningBalanceFacts ==
  ASSUME NEW es \in Seq(Entry), NEW b, NEW omit
  PROVE  /\ RunningBalance(es, b, omit) \in [0..Len(es) -> Balance]
         /\ RunningBalance(es, b, omit)[0] = ZeroBalance
         /\ \A i \in 1..Len(es) :
              RunningBalance(es, b, omit)[i] =
                ProjectStep(es, b, omit, RunningBalance(es, b, omit)[i-1], i)
<1> DEFINE n == Len(es)
           step == [p \in Balance \X (1..n) |-> ProjectStep(es, b, omit, p[1], p[2])]
           Is(f) == f = [i \in 0..n |-> IF i = 0 THEN ZeroBalance
                                        ELSE ProjectStep(es, b, omit, f[i-1], i)]
           sum == CHOOSE f : Is(f)
<1>0. n \in Nat
  OBVIOUS
<1>1. step \in [Balance \X (1..n) -> Balance]
  BY ProjectStepType
<1>2. PICK f \in [0..n -> Balance] :
        f[0] = ZeroBalance /\ \A i \in 1..n : f[i] = step[<<f[i-1], i>>]
  <2> HIDE DEF step, n
  <2>1. Solvable(n, Balance, ZeroBalance, step)
    BY <1>0, <1>1, ZeroBalanceType, RecurrenceHasSolution
  <2> QED BY <2>1 DEF Solvable
<1>3. \A i \in 1..n : f[i] = ProjectStep(es, b, omit, f[i-1], i)
  <2> SUFFICES ASSUME NEW i \in 1..n PROVE f[i] = ProjectStep(es, b, omit, f[i-1], i)
    OBVIOUS
  <2>1. <<f[i-1], i>> \in Balance \X (1..n)
    BY <1>2
  <2> QED BY <1>2, <2>1
<1>4. Is(f)
  BY <1>2, <1>3
<1>5. Is(sum)
  <2> HIDE DEF Is
  <2> QED BY <1>4
<1>6. sum = RunningBalance(es, b, omit)
  BY DEF RunningBalance
<1> HIDE DEF sum
<1>7. sum[0] = ZeroBalance /\ DOMAIN sum = 0..n
  BY <1>0, <1>5
<1>8. \A i \in 1..n : sum[i] = ProjectStep(es, b, omit, sum[i-1], i)
  BY <1>0, <1>5
<1>9. \A i \in 0..n : sum[i] = f[i]
  <2>1. StepAlike(sum, f, n)
    BY <1>3, <1>8 DEF StepAlike
  <2>2. sum[0] = f[0]
    BY <1>2, <1>7
  <2> HIDE DEF n
  <2>3. Agree(sum, f, n)
    BY <1>0, <2>1, <2>2, RecurrenceUnique
  <2> QED BY <2>3 DEF Agree
<1>10. sum \in [0..n -> Balance]
  BY <1>2, <1>5, <1>7, <1>9
<1> QED BY <1>6, <1>7, <1>8, <1>10

\* projectBalanceFromEntries returns a balance, whatever entries it skips.
LEMMA ProjectType ==
  ASSUME NEW es \in Seq(Entry), NEW b, NEW omit
  PROVE  Project(es, b, omit) \in Balance
BY RunningBalanceFacts DEF Project

-----------------------------------------------------------------------------
(* The inductive invariant. *)

\* The balance a call is about to save has passed the checks.
SavingOK ==
  \A n \in CallIds : call[n].pc \in {"saveEntry", "saveBalance"} =>
    /\ NonNegative(call[n].next)
    /\ call[n].next.total =
         call[n].next.available + call[n].next.locked + call[n].next.externalLocked

\* A call that runs holds its lock: the earlier calls for the lock have ended.
InLock(n) == call[n].pc \notin {"none", "queued"}

LockHeld == \A n \in CallIds : InLock(n) => HasLock(n)

\* Under the one lock of the process, a key found to be new stays new until
\* the transaction commits.
KeyIsNew ==
  GlobalLock =>
    \A n \in CallIds : call[n].pc \in {"load", "saveEntry"} => Existing(call[n].cmd.key) = {}

LedgerInv == TypeOK /\ NoOverdraft /\ OneEntryPerKey /\ SavingOK /\ LockHeld /\ KeyIsNew

\* The fields of a command have the types callers are checked for.
LEMMA CommandFields ==
  ASSUME NEW c \in Commands
  PROVE  /\ c.key \in Keys /\ c.bucket \in Buckets /\ c.type \in EntryTypes
         /\ c.amount \in Int /\ c.reversalOf \in Keys \cup {None}
BY CommandsAssumption DEF Command

\* The entry recorded for a command is an entry.
LEMMA EntryOfType ==
  ASSUME NEW c \in Commands
  PROVE  EntryOf(c) \in Entry /\ EntryOf(c).key = c.key
<1>1. SignedEntryAmount(c.type, c.amount) \in Int
  BY CommandFields DEF SignedEntryAmount
<1> QED BY <1>1, CommandFields DEF EntryOf, Entry, Content

\* The row a mutation starts from is a balance, also when it is missing.
LEMMA RowType ==
  ASSUME TypeOK, NEW b \in Buckets
  PROVE  Row(b) \in Balance
BY ZeroBalanceType DEF TypeOK, Row

\* The slot of a call that has not begun.
LEMMA NoCallType == NoCall \in CallState /\ NoCall.pc = "none"
BY ZeroBalanceType DEF NoCall, CallState

\* The empty ledger satisfies the invariant.
LEMMA InitInv == Init => LedgerInv
<1> SUFFICES ASSUME Init PROVE LedgerInv
  OBVIOUS
<1>0. \A n \in CallIds : call[n] = NoCall
  BY DEF Init
<1>1. TypeOK
  <2>1. call \in [CallIds -> CallState]
    BY NoCallType DEF Init
  <2>2. rebuild \in [bucket : Buckets \cup {None}, expected : Balance \cup {None},
                     actual : Balance \cup {None}, creating : BOOLEAN]
    BY DEF Init, NoRebuild
  <2>3. ~rebuild.creating /\ rebuild.expected = None /\ rebuild.actual = None
    BY DEF Init, NoRebuild
  <2>4. \A n \in CallIds : ~Active(n)
    BY <1>0, NoCallType DEF Active
  <2> QED BY <2>1, <2>2, <2>3, <2>4 DEF Init, TypeOK
<1>2. NoOverdraft
  BY DEF Init, NoOverdraft, Row, NonNegative, ZeroBalance
<1>3. OneEntryPerKey
  BY DEF Init, OneEntryPerKey
<1>4. SavingOK /\ LockHeld /\ KeyIsNew
  BY <1>0, NoCallType DEF SavingOK, LockHeld, InLock, KeyIsNew
<1> QED BY <1>1, <1>2, <1>3, <1>4 DEF LedgerInv

\* The step gives the n-th call the state x.
Becomes(n, x) == call' = [call EXCEPT ![n] = x]

\* The part of TypeOK about the calls.
CallsTyped ==
  /\ call \in [CallIds -> CallState]
  /\ \A m \in CallIds : Active(m) => m <= calls /\ call[m].cmd \in Commands

\* A call may take any state that has a command or has ended.
LEMMA CallStep ==
  ASSUME TypeOK, NEW n \in CallIds, NEW x \in CallState, Becomes(n, x),
         x.pc = "none" \/ (n <= calls' /\ x.cmd \in Commands),
         calls' \in {calls, calls + 1}
  PROVE  CallsTyped'
<1> USE DEF Becomes
<1>1. \A m \in CallIds : call'[m] = IF m = n THEN x ELSE call[m]
  BY DEF TypeOK
<1>2. call' \in [CallIds -> CallState]
  BY DEF TypeOK
<1>3. \A m \in CallIds : m \in Nat
  BY BoundsAssumption DEF CallIds
<1>4. ASSUME NEW m \in CallIds, Active(m)'
      PROVE  m <= calls' /\ call'[m].cmd \in Commands
  BY <1>1, <1>3, <1>4 DEF TypeOK, Active
<1> QED BY <1>2, <1>4 DEF CallsTyped

\* Every step keeps the types.
LEMMA TypeStep == TypeOK /\ [Next]_vars => TypeOK'
<1> SUFFICES ASSUME TypeOK, [Next]_vars PROVE TypeOK'
  OBVIOUS
<1> DEFINE RebuildType == [bucket : Buckets \cup {None}, expected : Balance \cup {None},
                           actual : Balance \cup {None}, creating : BOOLEAN]
           Results == {"applied", "replayed", "conflict", "rejected", "error"}
           OutcomeType == [cmd : Commands, result : Results] \cup {None}
<1>1. NoRebuild \in RebuildType /\ ~NoRebuild.creating /\ NoRebuild.expected = None
        /\ NoRebuild.actual = None
  BY DEF NoRebuild
<1>2. ASSUME NEW n \in CallIds, Active(n)
      PROVE  /\ call[n] \in CallState /\ call[n].cmd \in Commands /\ call[n].next \in Balance
             /\ call[n].missing \subseteq Keys /\ n <= calls /\ n \in Nat /\ calls \in Nat
  BY <1>2, BoundsAssumption DEF TypeOK, CallsTyped, CallState, CallIds
<1>3. ASSUME NEW n \in CallIds, Active(n), NEW r \in Results, Finish(n, r), calls' = calls
      PROVE  CallsTyped' /\ outcome' \in OutcomeType
  <2>1. CallsTyped'
    BY <1>2, <1>3, NoCallType, CallStep DEF Finish, Becomes
  <2> QED BY <1>2, <1>3, <2>1 DEF Finish, Becomes
<1>4. ASSUME NEW c \in Commands, Call(c) PROVE TypeOK'
  <2> DEFINE x == [NoCall EXCEPT !.pc = "queued", !.cmd = c]
  <2>1. x \in CallState /\ x.cmd = c
    BY NoCallType DEF NoCall, CallState
  <2>2. calls + 1 \in CallIds
    BY <1>4, BoundsAssumption DEF Call, TypeOK, CallIds
  <2>3. Becomes(calls + 1, x) /\ calls' = calls + 1 /\ calls \in Nat
    BY <1>4 DEF Call, TypeOK, Becomes
  <2> HIDE DEF x
  <2>4. CallsTyped'
    BY <2>1, <2>2, <2>3, CallStep
  <2> QED BY <1>4, <2>4 DEF TypeOK, CallsTyped, Call
<1>5. ASSUME NEW n \in CallIds, Replay(n), Active(n), calls' = calls
      PROVE  /\ CallsTyped' /\ outcome' \in OutcomeType
             /\ outbox' \subseteq [topic : {"created", "conflict"}, key : Keys]
  <2>1. call[n].cmd.key \in Keys
    BY <1>2, <1>5, CommandFields
  <2>2. \/ Finish(n, "replayed") /\ outbox' = outbox
        \/ /\ Finish(n, "conflict")
           /\ outbox' = outbox \cup {[topic |-> "conflict", key |-> call[n].cmd.key]}
    BY <1>5 DEF Replay
  <2>3. CallsTyped' /\ outcome' \in OutcomeType
    BY <1>3, <1>5, <2>2
  <2> QED BY <2>1, <2>2, <2>3 DEF TypeOK, CallsTyped
<1>6. ASSUME NEW n \in CallIds, Acquire(n) PROVE TypeOK'
  <2>1. Active(n)
    BY <1>6 DEF Acquire, Active
  <2> DEFINE x == [call[n] EXCEPT !.pc = "lookup"]
  <2>2. x \in CallState /\ x.cmd = call[n].cmd
    BY <1>2, <2>1 DEF CallState
  <2>3. Becomes(n, x) /\ calls' = calls
    BY <1>6 DEF Acquire, Becomes
  <2> HIDE DEF x
  <2>4. CallsTyped'
    BY <1>2, <2>1, <2>2, <2>3, CallStep
  <2> QED BY <1>6, <2>4 DEF TypeOK, CallsTyped, Acquire
<1>7. ASSUME NEW n \in CallIds, Lookup(n) PROVE TypeOK'
  <2>1. Active(n) /\ calls' = calls
    BY <1>7 DEF Lookup, Active
  <2> DEFINE x == [call[n] EXCEPT !.pc = "load"]
  <2>2. x \in CallState /\ x.cmd = call[n].cmd
    BY <1>2, <2>1 DEF CallState
  <2>3. \/ Replay(n)
        \/ Finish(n, "rejected") /\ outbox' = outbox
        \/ Becomes(n, x) /\ outbox' = outbox /\ outcome' = outcome
    BY <1>7 DEF Lookup, Becomes
  <2> HIDE DEF x
  <2>4. /\ CallsTyped' /\ outcome' \in OutcomeType
        /\ outbox' \subseteq [topic : {"created", "conflict"}, key : Keys]
    <3>1. CASE Replay(n)
      BY <1>5, <2>1, <3>1
    <3>2. CASE Finish(n, "rejected") /\ outbox' = outbox
      BY <1>3, <2>1, <3>2 DEF TypeOK, CallsTyped
    <3>3. CASE Becomes(n, x) /\ outbox' = outbox /\ outcome' = outcome
      <4>1. CallsTyped'
        BY <1>2, <2>1, <2>2, <3>3, CallStep
      <4> QED BY <3>3, <4>1 DEF TypeOK, CallsTyped
    <3> QED BY <2>3, <3>1, <3>2, <3>3
  <2> QED BY <1>7, <2>4 DEF TypeOK, CallsTyped, Lookup
<1>8. ASSUME NEW n \in CallIds, Load(n) PROVE TypeOK'
  <2> DEFINE c == call[n].cmd
             bal == ApplyCommand(c.type, c.amount, ReversedType(c), Row(c.bucket))
             gap == unapplied \cap KeysOf(c.bucket)
             x == [call[n] EXCEPT !.pc = "saveEntry", !.next = bal, !.missing = gap]
  <2>1. Active(n) /\ calls' = calls
    BY <1>8 DEF Load, Active
  <2>2. bal \in Balance
    BY <1>2, <2>1, CommandFields, RowType, ApplyCommandType
  <2>3. gap \in SUBSET Keys
    BY DEF TypeOK, CallsTyped
  <2>4. \/ Finish(n, "rejected")
        \/ Becomes(n, x) /\ outcome' = outcome
    BY <1>8 DEF Load, Becomes
  <2> HIDE DEF bal, gap
  <2>5. x \in CallState /\ x.cmd = call[n].cmd
    BY <1>2, <2>1, <2>2, <2>3 DEF CallState
  <2> HIDE DEF x
  <2>6. CallsTyped' /\ outcome' \in OutcomeType
    <3>1. CASE Finish(n, "rejected")
      BY <1>3, <2>1, <3>1
    <3>2. CASE Becomes(n, x) /\ outcome' = outcome
      <4>1. CallsTyped'
        BY <1>2, <2>1, <2>5, <3>2, CallStep
      <4> QED BY <3>2, <4>1 DEF TypeOK, CallsTyped
    <3> QED BY <2>4, <3>1, <3>2
  <2> QED BY <1>8, <2>6 DEF TypeOK, CallsTyped, Load
<1>9. ASSUME NEW n \in CallIds, SaveEntry(n) PROVE TypeOK'
  <2> DEFINE x == [call[n] EXCEPT !.pc = "saveBalance"]
  <2>1. Active(n) /\ calls' = calls
    BY <1>9 DEF SaveEntry, Active
  <2>2. x \in CallState /\ x.cmd = call[n].cmd
    BY <1>2, <2>1 DEF CallState
  <2>3. CASE Replay(n) /\ UNCHANGED <<entries, unapplied>>
    BY <1>5, <1>9, <2>1, <2>3 DEF TypeOK, CallsTyped, SaveEntry
  <2>4. CASE /\ entries' = Append(entries, EntryOf(call[n].cmd))
             /\ unapplied' = unapplied \cup {call[n].cmd.key}
             /\ Becomes(n, x)
             /\ UNCHANGED <<outbox, outcome>>
    <3> HIDE DEF x
    <3>1. entries' \in Seq(Entry)
      BY <1>2, <2>1, <2>4, EntryOfType, AppendProperties DEF TypeOK, CallsTyped
    <3>2. unapplied' \subseteq Keys
      BY <1>2, <2>1, <2>4, CommandFields DEF TypeOK, CallsTyped
    <3>3. CallsTyped'
      BY <1>2, <2>1, <2>2, <2>4, CallStep
    <3> QED BY <1>9, <2>4, <3>1, <3>2, <3>3 DEF TypeOK, CallsTyped, SaveEntry
  <2> QED BY <1>9, <2>3, <2>4 DEF SaveEntry, Becomes
<1>10. ASSUME NEW n \in CallIds, Active(n), SavedRow(n), calls' = calls
       PROVE  /\ rows' \in [Buckets -> Balance \cup {None}]
              /\ CallsTyped' /\ outcome' \in OutcomeType
              /\ publishing' \subseteq Keys /\ unapplied' \subseteq Keys
  <2>1. CallsTyped' /\ outcome' \in OutcomeType
    BY <1>3, <1>10 DEF SavedRow
  <2> QED BY <1>2, <1>10, <2>1, CommandFields DEF SavedRow, TypeOK
<1>11. ASSUME NEW n \in CallIds, SaveBalance(n) PROVE TypeOK'
  <2>1. Active(n) /\ calls' = calls /\ SavedRow(n)
    BY <1>11 DEF SaveBalance, Active
  <2> QED BY <1>10, <1>11, <2>1 DEF TypeOK, CallsTyped, SaveBalance
<1>12. ASSUME NEW n \in CallIds, Commit(n) PROVE TypeOK'
  <2>1. Active(n) /\ calls' = calls /\ SavedRow(n)
    BY <1>12 DEF Commit, Active
  <2>2. entries' \in Seq(Entry)
    BY <1>2, <1>12, <2>1, EntryOfType, AppendProperties DEF TypeOK, CallsTyped, Commit
  <2> QED BY <1>10, <1>12, <2>1, <2>2 DEF TypeOK, CallsTyped, Commit
<1>13. ASSUME NEW n \in CallIds, SaveFails(n) PROVE TypeOK'
  <2>1. Active(n) /\ calls' = calls /\ Finish(n, "error")
    BY <1>13 DEF SaveFails, Active
  <2>2. CallsTyped' /\ outcome' \in OutcomeType
    BY <1>3, <2>1
  <2> QED BY <1>13, <2>2 DEF TypeOK, CallsTyped, SaveFails
<1>14. ASSUME NEW k \in Keys, Publish(k) PROVE TypeOK'
  BY <1>14 DEF TypeOK, CallsTyped, Publish, Active
<1>15. ASSUME NEW b \in PauseBuckets, PauseReservations(b) PROVE TypeOK'
  BY <1>15, BucketsAssumption DEF TypeOK, CallsTyped, PauseReservations, Active
<1>16. ASSUME NEW b \in RebuildBuckets, RebuildStart(b) PROVE TypeOK'
  <2>1. rebuild' \in RebuildType /\ rebuild'.bucket # None
    BY <1>1, <1>16, BucketsAssumption, NoneAssumption DEF RebuildStart, NoRebuild
  <2>2. CallsTyped' /\ calls' \in Nat
    BY <1>16, BoundsAssumption DEF TypeOK, CallsTyped, RebuildStart, Active, CallIds
  <2> QED BY <1>16, <2>1, <2>2 DEF TypeOK, CallsTyped, RebuildStart
<1>17. CASE RebuildReadEntries
  <2>1. Project(entries, rebuild.bucket, {}) \in Balance
    BY ProjectType DEF TypeOK, CallsTyped
  <2>2. rebuild' \in RebuildType /\ rebuild'.bucket # None
    BY <1>17, <2>1 DEF TypeOK, CallsTyped, RebuildReadEntries
  <2> QED BY <1>17, <2>2 DEF TypeOK, CallsTyped, RebuildReadEntries, Active
<1>18. CASE RebuildReadRow
  <2>1. rebuild' \in RebuildType /\ rebuild'.bucket # None
    BY <1>18 DEF TypeOK, CallsTyped, RebuildReadRow
  <2> QED BY <1>18, <2>1 DEF TypeOK, CallsTyped, RebuildReadRow, Active
<1>19. CASE RebuildCreateRow
  <2>1. rebuild' \in RebuildType /\ rebuild'.bucket # None
    BY <1>19, ZeroBalanceType DEF TypeOK, CallsTyped, RebuildCreateRow
  <2>2. KeysOf(rebuild.bucket) \subseteq Keys
    <3>1. \A i \in 1..Len(entries) : entries[i] \in Entry
      BY ElementOfSeq DEF TypeOK, CallsTyped
    <3>2. \A e \in Entry : e.key \in Keys
      BY DEF Entry
    <3> QED BY <3>1, <3>2 DEF KeysOf
  <2> QED BY <1>19, <2>1, <2>2, ZeroBalanceType DEF TypeOK, CallsTyped, RebuildCreateRow, Active
<1>20. CASE RebuildCompare
  BY <1>1, <1>20 DEF TypeOK, CallsTyped, RebuildCompare, Active
<1>21. CASE Crash
  BY <1>1, <1>21, NoCallType DEF TypeOK, CallsTyped, Crash, Active
<1>22. CASE UNCHANGED vars
  BY <1>22 DEF TypeOK, CallsTyped, vars, Active
<1> QED
  BY <1>4, <1>6, <1>7, <1>8, <1>9, <1>11, <1>12, <1>13, <1>14, <1>15, <1>16, <1>17,
     <1>18, <1>19, <1>20, <1>21, <1>22 DEF Next, Mutate, Rebuild

-----------------------------------------------------------------------------
(* What each kind of step does to the invariant. *)

\* A step of a running call that leaves it the same command keeps the locks.
LEMMA LockStep ==
  ASSUME TypeOK, LockHeld, NEW n \in CallIds, NEW x \in CallState,
         Becomes(n, x),
         x.pc = "none" \/ (x.cmd = call[n].cmd /\ Active(n) /\ HasLock(n))
  PROVE  LockHeld'
<1>1. \A m \in CallIds : call'[m] = IF m = n THEN x ELSE call[m]
  BY DEF TypeOK, Becomes
<1>2. \A i \in CallIds : \A j \in 1..(i-1) : j \in CallIds
  BY BoundsAssumption DEF CallIds
<1>3. ASSUME NEW i \in CallIds, InLock(i)', NEW m \in 1..(i-1), Active(m)'
      PROVE  ~SameLock(m, i)'
  <2>1. m \in CallIds
    BY <1>2
  <2>2. Active(m) /\ call'[m].cmd = call[m].cmd
    BY <1>1, <1>3, <2>1 DEF Active
  <2>3. HasLock(i) /\ call'[i].cmd = call[i].cmd
    BY <1>1, <1>3 DEF InLock, LockHeld
  <2> QED BY <2>2, <2>3 DEF HasLock, SameLock
<1> QED BY <1>3 DEF LockHeld, HasLock

\* Under the one lock of the process at most one call runs.
LEMMA OneRunner ==
  ASSUME TypeOK, LockHeld, GlobalLock,
         NEW m \in CallIds, NEW n \in CallIds, InLock(m), InLock(n)
  PROVE  m = n
<1>1. m \in Nat /\ n \in Nat /\ m >= 1 /\ n >= 1
  BY BoundsAssumption DEF CallIds
<1>2. m < n => FALSE
  BY <1>1 DEF LockHeld, HasLock, SameLock, InLock, Active
<1>3. n < m => FALSE
  BY <1>1 DEF LockHeld, HasLock, SameLock, InLock, Active
<1> QED BY <1>1, <1>2, <1>3

\* A step that leaves the tables and the calls alone keeps all but the types.
LEMMA Untouched ==
  ASSUME LedgerInv, TypeOK', UNCHANGED <<entries, rows, call>>
  PROVE  LedgerInv'
BY DEF LedgerInv, NoOverdraft, OneEntryPerKey, SavingOK, KeyIsNew, LockHeld, HasLock,
       SameLock, Active, InLock, Row, Existing

\* The same for a step that moves one call on without saving anything.
LEMMA Moved ==
  ASSUME LedgerInv, TypeOK', UNCHANGED <<entries, rows>>,
         NEW n \in CallIds, NEW x \in CallState,
         Becomes(n, x),
         x.pc = "none" \/ (x.cmd = call[n].cmd /\ Active(n) /\ HasLock(n)),
         x.pc \in {"saveEntry", "saveBalance"} =>
           NonNegative(x.next)
             /\ x.next.total = x.next.available + x.next.locked + x.next.externalLocked,
         x.pc \in {"load", "saveEntry"} => Existing(x.cmd.key) = {} \/ ~GlobalLock
  PROVE  LedgerInv'
<1>1. \A m \in CallIds : call'[m] = IF m = n THEN x ELSE call[m]
  BY DEF LedgerInv, TypeOK, Becomes
<1>2. LockHeld'
  BY LockStep DEF LedgerInv
<1>3. SavingOK'
  BY <1>1 DEF LedgerInv, SavingOK, NonNegative
<1>4. KeyIsNew'
  BY <1>1 DEF LedgerInv, KeyIsNew, Existing
<1>5. NoOverdraft' /\ OneEntryPerKey'
  BY DEF LedgerInv, NoOverdraft, OneEntryPerKey, Row
<1> QED BY <1>2, <1>3, <1>4, <1>5 DEF LedgerInv

\* A call that ends without saving anything keeps the invariant.
LEMMA Ended ==
  ASSUME LedgerInv, TypeOK', UNCHANGED <<entries, rows>>,
         NEW n \in CallIds, Becomes(n, NoCall)
  PROVE  LedgerInv'
BY NoCallType, Moved

\* The entry of a new key goes to the end and keeps the keys apart.
LEMMA AppendKeepsKeysApart ==
  ASSUME TypeOK, OneEntryPerKey, NEW c \in Commands, Existing(c.key) = {},
         entries' = Append(entries, EntryOf(c))
  PROVE  OneEntryPerKey'
<1>1. /\ Len(entries') = Len(entries) + 1
      /\ entries'[Len(entries) + 1].key = c.key
      /\ \A i \in 1..Len(entries) : entries'[i] = entries[i]
  BY EntryOfType, AppendProperties DEF TypeOK
<1>2. \A i \in 1..Len(entries) : entries[i].key # c.key
  BY DEF Existing
<1>3. Len(entries) \in Nat
  BY DEF TypeOK
<1>4. ASSUME NEW i \in 1..Len(entries'), NEW j \in 1..Len(entries'),
             entries'[i].key = entries'[j].key
      PROVE  i = j
  <2>1. CASE i \in 1..Len(entries) /\ j \in 1..Len(entries)
    BY <1>1, <1>4, <2>1 DEF OneEntryPerKey
  <2>2. CASE i = Len(entries) + 1 /\ j \in 1..Len(entries)
    BY <1>1, <1>2, <1>4, <2>2
  <2>3. CASE i \in 1..Len(entries) /\ j = Len(entries) + 1
    BY <1>1, <1>2, <1>4, <2>3
  <2>4. CASE i = Len(entries) + 1 /\ j = Len(entries) + 1
    BY <2>4
  <2> QED BY <1>1, <1>3, <2>1, <2>2, <2>3, <2>4
<1> QED BY <1>4 DEF OneEntryPerKey

\* Saving a checked balance keeps every row sound.
LEMMA SavedRowSound ==
  ASSUME LedgerInv, NEW n \in CallIds, call[n].pc \in {"saveEntry", "saveBalance"},
         SavedRow(n)
  PROVE  NoOverdraft'
<1>1. call[n].cmd \in Commands /\ call[n].next \in Balance
  BY DEF LedgerInv, TypeOK, Active, CallState
<1>2. call[n].next # None
  BY <1>1, NoneAssumption
<1>3. \A b \in Buckets : Row(b)' = IF b = call[n].cmd.bucket THEN call[n].next ELSE Row(b)
  BY <1>1, <1>2, CommandFields DEF LedgerInv, TypeOK, SavedRow, Row
<1> QED BY <1>3 DEF LedgerInv, NoOverdraft, SavingOK

\* When a call that runs records its key, no other call of the process is
\* between its lookup and its save.
LEMMA OthersNotLoading ==
  ASSUME LedgerInv, NEW n \in CallIds, InLock(n), NEW x \in CallState,
         Becomes(n, x), x.pc \notin {"load", "saveEntry"}
  PROVE  KeyIsNew'
<1>1. \A m \in CallIds : call'[m] = IF m = n THEN x ELSE call[m]
  BY DEF LedgerInv, TypeOK, Becomes
<1>2. ASSUME GlobalLock, NEW m \in CallIds, call'[m].pc \in {"load", "saveEntry"}
      PROVE  FALSE
  <2>1. m # n /\ InLock(m)
    BY <1>1, <1>2 DEF InLock
  <2> QED BY <1>2, <2>1, OneRunner DEF LedgerInv
<1> QED BY <1>2 DEF KeyIsNew

\* Every step keeps the invariant.
LEMMA InvStep == LedgerInv /\ [Next]_vars => LedgerInv'
<1> SUFFICES ASSUME LedgerInv, [Next]_vars PROVE LedgerInv'
  OBVIOUS
<1>0. TypeOK'
  BY TypeStep DEF LedgerInv
<1>1. ASSUME NEW n \in CallIds, InLock(n)
      PROVE  /\ call[n] \in CallState /\ call[n].cmd \in Commands
             /\ Active(n) /\ HasLock(n)
  BY <1>1 DEF LedgerInv, TypeOK, InLock, Active, LockHeld
<1>2. ASSUME NEW n \in CallIds, Lookup(n) PROVE LedgerInv'
  <2>1. InLock(n)
    BY <1>2 DEF Lookup, InLock
  <2>2. CASE Becomes(n, NoCall)
    BY <1>0, <1>2, <2>2, Ended DEF Lookup
  <2>3. CASE call' = [call EXCEPT ![n].pc = "load"] /\ Existing(call[n].cmd.key) = {}
    <3> DEFINE x == [call[n] EXCEPT !.pc = "load"]
    <3>1. x \in CallState /\ x.pc = "load" /\ x.cmd = call[n].cmd
      BY <1>1, <2>1 DEF CallState
    <3>2. Becomes(n, x)
      BY <2>3 DEF Becomes
    <3> HIDE DEF x
    <3> QED BY <1>0, <1>1, <1>2, <2>1, <2>3, <3>1, <3>2, Moved DEF Lookup
  <2> QED BY <1>2, <2>2, <2>3 DEF Lookup, Replay, Finish, Becomes
<1>3. ASSUME NEW n \in CallIds, Load(n) PROVE LedgerInv'
  <2> DEFINE c == call[n].cmd
             bal == ApplyCommand(c.type, c.amount, ReversedType(c), Row(c.bucket))
             x == [call[n] EXCEPT !.pc = "saveEntry", !.next = bal,
                                  !.missing = unapplied \cap KeysOf(c.bucket)]
  <2>1. InLock(n)
    BY <1>3 DEF Load, InLock
  <2>2. CASE Becomes(n, NoCall)
    BY <1>0, <1>3, <2>2, Ended DEF Load
  <2>3. CASE FundsSuffice(c.type, c.amount, Row(c.bucket)) /\ Becomes(n, x)
    <3>1. NonNegative(bal) /\ bal.total = bal.available + bal.locked + bal.externalLocked
      BY <1>1, <2>1, <2>3, CommandFields, RowType, ApplyCommandSound DEF LedgerInv
    <3>2. bal \in Balance
      BY <1>1, <2>1, CommandFields, RowType, ApplyCommandType DEF LedgerInv
    <3> HIDE DEF bal
    <3>3. /\ x \in CallState /\ x.pc = "saveEntry" /\ x.cmd = call[n].cmd /\ x.next = bal
      BY <1>1, <2>1, <3>2 DEF CallState, LedgerInv, TypeOK
    <3>4. Existing(x.cmd.key) = {} \/ ~GlobalLock
      BY <1>3, <3>3 DEF LedgerInv, KeyIsNew, Load
    <3> HIDE DEF x
    <3> QED BY <1>0, <1>1, <1>3, <2>1, <2>3, <3>1, <3>3, <3>4, Moved DEF Load
  <2> QED BY <1>3, <2>2, <2>3 DEF Load, Finish, Becomes
<1>4. ASSUME NEW n \in CallIds, SaveEntry(n) PROVE LedgerInv'
  <2>1. InLock(n)
    BY <1>4 DEF SaveEntry, InLock
  <2>2. CASE Becomes(n, NoCall) /\ entries' = entries
    BY <1>0, <1>4, <2>2, Ended DEF SaveEntry
  <2>3. CASE /\ Existing(call[n].cmd.key) = {}
             /\ entries' = Append(entries, EntryOf(call[n].cmd))
             /\ call' = [call EXCEPT ![n].pc = "saveBalance"]
    <3> DEFINE x == [call[n] EXCEPT !.pc = "saveBalance"]
    <3>1. /\ x \in CallState /\ x.pc = "saveBalance" /\ x.cmd = call[n].cmd
          /\ x.next = call[n].next
      BY <1>1, <2>1 DEF CallState
    <3>2. Becomes(n, x)
      BY <2>3 DEF Becomes
    <3> HIDE DEF x
    <3>3. OneEntryPerKey'
      BY <1>1, <2>1, <2>3, AppendKeepsKeysApart DEF LedgerInv
    <3>4. LockHeld'
      BY <1>1, <2>1, <3>1, <3>2, LockStep DEF LedgerInv
    <3>5. KeyIsNew'
      BY <2>1, <3>1, <3>2, OthersNotLoading
    <3>6. SavingOK'
      <4>1. \A m \in CallIds : call'[m] = IF m = n THEN x ELSE call[m]
        BY <3>2 DEF LedgerInv, TypeOK, Becomes
      <4> QED BY <1>4, <3>1, <4>1 DEF LedgerInv, SavingOK, NonNegative, SaveEntry
    <3>7. NoOverdraft'
      BY <1>4 DEF LedgerInv, NoOverdraft, Row, SaveEntry
    <3> QED BY <1>0, <3>3, <3>4, <3>5, <3>6, <3>7 DEF LedgerInv
  <2> QED BY <1>4, <2>2, <2>3 DEF SaveEntry, Replay, Finish, Becomes
<1>5. ASSUME NEW n \in CallIds, InLock(n), SavedRow(n)
      PROVE  SavingOK' /\ LockHeld' /\ KeyIsNew'
  <2>1. Becomes(n, NoCall)
    BY <1>5 DEF SavedRow, Finish, Becomes
  <2>2. \A m \in CallIds : call'[m] = IF m = n THEN NoCall ELSE call[m]
    BY <2>1 DEF LedgerInv, TypeOK, Becomes
  <2>3. SavingOK'
    BY <2>2, NoCallType DEF LedgerInv, SavingOK, NonNegative
  <2>4. LockHeld'
    BY <2>1, NoCallType, LockStep DEF LedgerInv
  <2>5. KeyIsNew'
    BY <1>5, <2>1, NoCallType, OthersNotLoading
  <2> QED BY <2>3, <2>4, <2>5
<1>6. ASSUME NEW n \in CallIds, SaveBalance(n) PROVE LedgerInv'
  <2>1. InLock(n)
    BY <1>6 DEF SaveBalance, InLock
  <2>2. NoOverdraft'
    BY <1>6, SavedRowSound DEF SaveBalance
  <2>3. OneEntryPerKey'
    BY <1>6 DEF LedgerInv, OneEntryPerKey, SaveBalance
  <2> QED BY <1>0, <1>5, <1>6, <2>1, <2>2, <2>3 DEF LedgerInv, SaveBalance
<1>7. ASSUME NEW n \in CallIds, Commit(n) PROVE LedgerInv'
  <2>1. InLock(n)
    BY <1>7 DEF Commit, InLock
  <2>2. NoOverdraft'
    BY <1>7, SavedRowSound DEF Commit
  <2>3. Existing(call[n].cmd.key) = {}
    BY <1>7, SwitchAssumption DEF LedgerInv, KeyIsNew, Commit
  <2>4. OneEntryPerKey'
    BY <1>1, <1>7, <2>1, <2>3, AppendKeepsKeysApart DEF LedgerInv, Commit
  <2> QED BY <1>0, <1>5, <1>7, <2>1, <2>2, <2>4 DEF LedgerInv, Commit
<1>8. ASSUME NEW n \in CallIds, Acquire(n) PROVE LedgerInv'
  <2> DEFINE x == [call[n] EXCEPT !.pc = "lookup"]
  <2>1. Active(n) /\ HasLock(n) /\ call[n] \in CallState
    BY <1>8 DEF Acquire, Active, LedgerInv, TypeOK
  <2>2. x \in CallState /\ x.pc = "lookup" /\ x.cmd = call[n].cmd
    BY <2>1 DEF CallState
  <2>3. Becomes(n, x)
    BY <1>8 DEF Acquire, Becomes
  <2> HIDE DEF x
  <2> QED BY <1>0, <1>8, <2>1, <2>2, <2>3, Moved DEF Acquire
<1>9. ASSUME NEW n \in CallIds, SaveFails(n) PROVE LedgerInv'
  BY <1>0, <1>9, Ended DEF SaveFails, Finish, Becomes
<1>10. CASE Crash
  <2>1. \A n \in CallIds : call'[n] = NoCall
    BY <1>10 DEF Crash
  <2>2. SavingOK' /\ LockHeld' /\ KeyIsNew'
    BY <2>1, NoCallType DEF SavingOK, LockHeld, InLock, KeyIsNew
  <2> QED BY <1>0, <1>10, <2>2 DEF LedgerInv, NoOverdraft, OneEntryPerKey, Row, Crash
<1>11. ASSUME NEW c \in Commands, Call(c) PROVE LedgerInv'
  <2> DEFINE new == calls + 1
  <2>1. new \in CallIds /\ calls \in Nat
    BY <1>11, BoundsAssumption DEF Call, LedgerInv, TypeOK, CallIds
  <2>2. \A m \in CallIds : m # new => call'[m] = call[m]
    BY <1>11 DEF Call, LedgerInv, TypeOK
  <2>3. call'[new].pc = "queued"
    BY <1>11, <2>1 DEF Call, LedgerInv, TypeOK, NoCall
  <2>4. SavingOK' /\ KeyIsNew'
    BY <1>11, <2>1, <2>2, <2>3 DEF LedgerInv, SavingOK, KeyIsNew, NonNegative, Existing, Call
  <2>5. ASSUME NEW i \in CallIds, InLock(i)', NEW m \in 1..(i-1), Active(m)'
        PROVE  ~SameLock(m, i)'
    <3>1. i # new /\ InLock(i) /\ call'[i] = call[i]
      BY <2>2, <2>3, <2>5 DEF InLock
    <3>2. i <= calls /\ i \in Nat
      BY <3>1, BoundsAssumption DEF LedgerInv, TypeOK, InLock, Active, CallIds
    <3>3. m \in CallIds /\ m # new
      BY <2>1, <3>2, BoundsAssumption DEF CallIds
    <3>4. call'[m] = call[m] /\ Active(m)
      BY <2>2, <2>5, <3>3 DEF Active
    <3> QED BY <3>1, <3>4 DEF LedgerInv, LockHeld, HasLock, SameLock
  <2>6. LockHeld'
    BY <2>5 DEF LockHeld, HasLock
  <2> QED BY <1>0, <1>11, <2>4, <2>6 DEF LedgerInv, NoOverdraft, OneEntryPerKey, Row, Call
<1>12. CASE RebuildCreateRow
  <2>1. \A b \in Buckets : Row(b)' = IF b = rebuild.bucket THEN ZeroBalance ELSE Row(b)
    BY <1>12, ZeroBalanceType, NoneAssumption DEF LedgerInv, TypeOK, RebuildCreateRow, Row
  <2>2. NoOverdraft'
    BY <2>1 DEF LedgerInv, NoOverdraft, NonNegative, ZeroBalance
  <2> QED BY <1>0, <1>12, <2>2 DEF LedgerInv, OneEntryPerKey, SavingOK, KeyIsNew, Existing,
                                  LockHeld, HasLock, SameLock, Active, InLock, RebuildCreateRow
<1>13. ASSUME \/ \E k \in Keys : Publish(k)
              \/ \E b \in PauseBuckets : PauseReservations(b)
              \/ \E b \in RebuildBuckets : RebuildStart(b)
              \/ RebuildReadEntries \/ RebuildReadRow \/ RebuildCompare
              \/ UNCHANGED vars
       PROVE  LedgerInv'
  <2>1. UNCHANGED <<entries, rows, call>>
    BY <1>13 DEF Publish, PauseReservations, RebuildStart, RebuildReadEntries,
                 RebuildReadRow, RebuildCompare, vars
  <2> QED BY <1>0, <2>1, Untouched
<1> QED
  BY <1>2, <1>3, <1>4, <1>6, <1>7, <1>8, <1>9, <1>10, <1>11, <1>12, <1>13
  DEF Next, Mutate, Rebuild

-----------------------------------------------------------------------------
(* The theorems. *)

\* BalanceLedger keeps its type invariant.
THEOREM TypeCorrect == Spec => []TypeOK
<1>1. Init => TypeOK
  BY InitInv DEF LedgerInv
<1> QED BY <1>1, TypeStep, PTL DEF Spec

\* Every step preserves the invariant, so every behaviour satisfies it.
LEMMA Invariance == Spec => []LedgerInv
BY InitInv, InvStep, PTL DEF Spec

\* However mutations, rebuilds, failed saves and crashes interleave, no saved
\* row of the read model is ever overdrawn and its total is always exact.
THEOREM NeverOverdrawn == Spec => []NoOverdraft
<1>1. LedgerInv => NoOverdraft
  BY DEF LedgerInv
<1> QED BY <1>1, Invariance, PTL

\* No idempotency key is ever recorded twice, for any number of concurrent and
\* repeated submissions.
THEOREM KeysRecordedOnce == Spec => []OneEntryPerKey
<1>1. LedgerInv => OneEntryPerKey
  BY DEF LedgerInv
<1> QED BY <1>1, Invariance, PTL

-----------------------------------------------------------------------------
(* What the tables say of each other: the inductive invariant. *)

\* Every entry records an admissible command, and one that reverses another comes after it.
Recording(i, c) == entries[i] = EntryOf(c) /\ AmountAdmissible(c.type, c.amount)

EntriesInv ==
  \A i \in 1..Len(entries) :
    /\ \E c \in Commands : Recording(i, c)
    /\ entries[i].reversalOf # None =>
         \E j \in 1..(i-1) : entries[j].key = entries[i].reversalOf

\* A call reverses an entry that is there; once it is checked, its amount is admissible.
CommandsInv ==
  \A n \in CallIds :
    /\ Active(n) /\ call[n].cmd.reversalOf # None => Existing(call[n].cmd.reversalOf) # {}
    /\ call[n].pc \in {"load", "saveEntry", "saveBalance"} =>
         AmountAdmissible(call[n].cmd.type, call[n].cmd.amount)

\* What a call between its load and its last save holds of its bucket: the balance of the
\* entries less what was missing when it loaded the row, with its own entry once that is saved.
Loaded(t) ==
  /\ t.missing \subseteq KeysOf(t.cmd.bucket)
  /\ t.pc = "saveEntry" =>
       t.next = ApplyCommand(t.cmd.type, t.cmd.amount, ReversedType(t.cmd),
                             Project(entries, t.cmd.bucket, t.missing))
  /\ t.pc = "saveBalance" =>
       /\ t.next = Project(entries, t.cmd.bucket, t.missing)
       /\ t.cmd.key \notin t.missing
       /\ \E i \in 1..Len(entries) : entries[i] = EntryOf(t.cmd)

LoadedInv == \A n \in CallIds : call[n].pc \in {"saveEntry", "saveBalance"} => Loaded(call[n])

ReadModelInv == EntriesInv /\ CommandsInv /\ LoadedInv /\ ReadModelFollowsLedger

\* Events and successful outcomes name what is recorded.
RecordInv ==
  /\ SuccessMeansRecorded
  /\ \A k \in publishing : Existing(k) # {}

\* Without rebuilds that set a row back, the row stays what a call loaded until it saves it,
\* and only its own entry is missing in addition to what was missing then.
Fresh(t) ==
  LET c == t.cmd
  IN  /\ FundsSuffice(c.type, c.amount, Row(c.bucket))
      /\ t.next = ApplyCommand(c.type, c.amount, ReversedType(c), Row(c.bucket))
      /\ t.pc = "saveEntry" => t.missing = unapplied \cap KeysOf(c.bucket)
      /\ t.pc = "saveBalance" =>
           c.key \in unapplied /\ t.missing = (unapplied \ {c.key}) \cap KeysOf(c.bucket)

FreshInv ==
  /\ rebuild = NoRebuild
  /\ \A n \in CallIds : call[n].pc \in {"saveEntry", "saveBalance"} => Fresh(call[n])

\* With transactions and without rebuilds nothing is ever missing.
TogetherInv == unapplied = {} /\ \A n \in CallIds : call[n].pc # "saveBalance"

-----------------------------------------------------------------------------
(* Projections. *)

\* A projection depends only on which of its bucket's entries are left out.
LEMMA ProjectOmit ==
  ASSUME NEW es \in Seq(Entry), NEW b, NEW o, NEW p,
         \A i \in 1..Len(es) : es[i].bucket = b => (es[i].key \in o <=> es[i].key \in p)
  PROVE  Project(es, b, o) = Project(es, b, p)
<1> DEFINE n == Len(es)
           f == RunningBalance(es, b, o)
           g == RunningBalance(es, b, p)
<1>1. n \in Nat
  OBVIOUS
<1>2. f[0] = g[0]
  BY RunningBalanceFacts
<1>3. \A acc : \A i \in 1..n : ProjectStep(es, b, o, acc, i) = ProjectStep(es, b, p, acc, i)
  BY DEF ProjectStep
<1>4. /\ \A i \in 1..n : f[i] = ProjectStep(es, b, o, f[i-1], i)
      /\ \A i \in 1..n : g[i] = ProjectStep(es, b, p, g[i-1], i)
  BY RunningBalanceFacts
<1> HIDE DEF n, f, g
<1>5. StepAlike(f, g, n)
  BY <1>3, <1>4 DEF StepAlike
<1>6. f[n] = g[n]
  BY <1>1, <1>2, <1>5, RecurrenceUnique DEF Agree
<1> QED BY <1>6 DEF Project, f, g, n

\* A projection that leaves out its whole bucket is zero.
LEMMA ProjectNothing ==
  ASSUME NEW es \in Seq(Entry), NEW b, NEW o,
         \A i \in 1..Len(es) : es[i].bucket = b => es[i].key \in o
  PROVE  Project(es, b, o) = ZeroBalance
<1> DEFINE n == Len(es)
           f == RunningBalance(es, b, o)
           g == [i \in 0..n |-> ZeroBalance]
<1>1. n \in Nat
  OBVIOUS
<1>2. f[0] = g[0]
  BY <1>1, RunningBalanceFacts
<1>3. \A acc : \A i \in 1..n : ProjectStep(es, b, o, acc, i) = acc
  BY DEF ProjectStep
<1>4. \A i \in 1..n : f[i] = ProjectStep(es, b, o, f[i-1], i)
  BY RunningBalanceFacts
<1>5. \A i \in 0..n : g[i] = ZeroBalance
  OBVIOUS
<1> HIDE DEF n, f, g
<1>6. StepAlike(f, g, n)
  <2>1. \A i \in 1..n : i \in 0..n /\ i - 1 \in 0..n
    BY <1>1
  <2> QED BY <1>3, <1>4, <1>5, <2>1 DEF StepAlike
<1>7. f[n] = g[n]
  BY <1>1, <1>2, <1>6, RecurrenceUnique DEF Agree
<1> QED BY <1>1, <1>5, <1>7 DEF Project, f, n

\* An entry at the end is the last iteration; the iterations before it stay what they
\* were if no earlier entry reverses it.
LEMMA ProjectAppend ==
  ASSUME NEW es \in Seq(Entry), NEW e \in Entry, NEW b, NEW o,
         \A i \in 1..Len(es) : es[i].reversalOf # e.key
  PROVE  Project(Append(es, e), b, o) =
           ProjectStep(Append(es, e), b, o, Project(es, b, o), Len(es) + 1)
<1> DEFINE n == Len(es)
           fs == Append(es, e)
           f == RunningBalance(es, b, o)
           g == RunningBalance(fs, b, o)
<1>1. n \in Nat
  OBVIOUS
<1>2. fs \in Seq(Entry) /\ Len(fs) = n + 1 /\ fs[n + 1] = e /\ \A i \in 1..n : fs[i] = es[i]
  BY AppendProperties
<1>3. f[0] = g[0]
  BY <1>2, RunningBalanceFacts
<1>4. ASSUME NEW i \in 1..n, NEW acc
      PROVE  ProjectStep(fs, b, o, acc, i) = ProjectStep(es, b, o, acc, i)
  <2> DEFINE Found(s) == {j \in 1..Len(s) : s[j].bucket = b /\ s[j].key = s[i].reversalOf}
  <2>1. fs[i] = es[i]
    BY <1>2
  <2>2. Found(fs) = Found(es)
    <3> HIDE DEF fs
    <3> QED BY <1>1, <1>2
  <2>3. \A j \in Found(es) : fs[j] = es[j]
    BY <1>2
  <2>4. (CHOOSE j \in Found(fs) : TRUE) = (CHOOSE j \in Found(es) : TRUE)
    BY <2>2
  <2>5. Found(es) # {} => (CHOOSE j \in Found(es) : TRUE) \in Found(es)
    OBVIOUS
  <2>6. (IF Found(fs) = {} THEN NoType ELSE fs[CHOOSE j \in Found(fs) : TRUE].type)
        = (IF Found(es) = {} THEN NoType ELSE es[CHOOSE j \in Found(es) : TRUE].type)
    <3> HIDE DEF Found, fs
    <3> QED BY <2>2, <2>3, <2>4, <2>5
  <2>7. /\ ProjectStep(fs, b, o, acc, i) =
             IF fs[i].bucket = b /\ fs[i].key \notin o
             THEN ProjectEntry(acc, fs[i].type, fs[i].amount,
                    IF Found(fs) = {} THEN NoType ELSE fs[CHOOSE j \in Found(fs) : TRUE].type)
             ELSE acc
        /\ ProjectStep(es, b, o, acc, i) =
             IF es[i].bucket = b /\ es[i].key \notin o
             THEN ProjectEntry(acc, es[i].type, es[i].amount,
                    IF Found(es) = {} THEN NoType ELSE es[CHOOSE j \in Found(es) : TRUE].type)
             ELSE acc
    BY DEF ProjectStep
  <2> HIDE DEF Found, fs
  <2> QED BY <2>1, <2>6, <2>7
<1>5. /\ \A i \in 1..n : f[i] = ProjectStep(es, b, o, f[i-1], i)
      /\ \A i \in 1..(n + 1) : g[i] = ProjectStep(fs, b, o, g[i-1], i)
  <2>1. \A i \in 1..n : f[i] = ProjectStep(es, b, o, f[i-1], i)
    BY RunningBalanceFacts
  <2> HIDE DEF fs
  <2>2. \A i \in 1..Len(fs) : g[i] = ProjectStep(fs, b, o, g[i-1], i)
    BY <1>2, RunningBalanceFacts
  <2> QED BY <1>2, <2>1, <2>2
<1> HIDE DEF f, g, n, fs
<1>6. StepAlike(f, g, n)
  <2>1. \A i \in 1..n : i \in 1..(n + 1)
    BY <1>1
  <2> QED BY <1>4, <1>5, <2>1 DEF StepAlike
<1>7. f[n] = g[n]
  BY <1>1, <1>3, <1>6, RecurrenceUnique DEF Agree
<1>8. g[n + 1] = ProjectStep(fs, b, o, g[n], n + 1)
  <2>1. n + 1 \in 1..(n + 1) /\ (n + 1) - 1 = n
    BY <1>1
  <2> QED BY <1>5, <2>1
<1>9. Project(fs, b, o) = g[n + 1] /\ Project(es, b, o) = f[n]
  BY <1>2 DEF Project, f, g, n
<1> QED BY <1>7, <1>8, <1>9 DEF fs, n

-----------------------------------------------------------------------------
(* The entries. *)

\* The step that saves the entry of a command whose key is new.
Adds(c) == Existing(c.key) = {} /\ entries' = Append(entries, EntryOf(c))

\* What is used of the tables and the calls at every step.
LEMMA NowFacts ==
  ASSUME LedgerInv
  PROVE  /\ entries \in Seq(Entry) /\ Len(entries) \in Nat
         /\ \A i \in 1..Len(entries) : entries[i] \in Entry /\ entries[i].key \in Keys
         /\ \A n \in CallIds : Active(n) => call[n].cmd \in Commands
         /\ \A b \in Buckets : Row(b) \in Balance
         /\ \A k : Existing(k) # {} => k \in Keys
<1>1. entries \in Seq(Entry) /\ TypeOK
  BY DEF LedgerInv, TypeOK
<1>2. \A i \in 1..Len(entries) : entries[i] \in Entry /\ entries[i].key \in Keys
  <2>1. \A e \in Entry : e.key \in Keys
    BY DEF Entry
  <2> QED BY <1>1, <2>1, ElementOfSeq
<1>3. \A k : Existing(k) # {} => k \in Keys
  BY <1>2 DEF Existing
<1>4. \A n \in CallIds : Active(n) => call[n].cmd \in Commands
  BY <1>1 DEF TypeOK
<1>5. \A b \in Buckets : Row(b) \in Balance
  BY <1>1, RowType
<1> QED BY <1>1, <1>2, <1>3, <1>4, <1>5

\* What is there stays, in its place.
LEMMA AddsFacts ==
  ASSUME LedgerInv, NEW c \in Commands, Adds(c)
  PROVE  /\ Len(entries') = Len(entries) + 1
         /\ \A i \in 1..Len(entries) : entries'[i] = entries[i] /\ entries[i].key # c.key
         /\ entries'[Len(entries) + 1] = EntryOf(c)
         /\ \A i \in 1..Len(entries') : i \in 1..Len(entries) \/ i = Len(entries) + 1
         /\ \A k : k # c.key => Existing(k)' = Existing(k)
         /\ Existing(c.key)' # {}
         /\ \A b : KeysOf(b)' = IF b = c.bucket THEN KeysOf(b) \cup {c.key} ELSE KeysOf(b)
<1>1. entries \in Seq(Entry) /\ Len(entries) \in Nat
  BY NowFacts
<1>2. EntryOf(c) \in Entry /\ EntryOf(c).key = c.key /\ EntryOf(c).bucket = c.bucket
  BY EntryOfType DEF EntryOf
<1>3. /\ Len(entries') = Len(entries) + 1
      /\ \A i \in 1..Len(entries) : entries'[i] = entries[i]
      /\ entries'[Len(entries) + 1] = EntryOf(c)
  BY <1>1, <1>2, AppendProperties DEF Adds
<1>4. \A i \in 1..Len(entries) : entries[i].key # c.key
  BY DEF Adds, Existing
<1>5. \A i \in 1..Len(entries') : i \in 1..Len(entries) \/ i = Len(entries) + 1
  BY <1>1, <1>3
<1>6. 1..Len(entries') = 1..Len(entries) \cup {Len(entries) + 1}
  BY <1>1, <1>3
<1>7. \A k : k # c.key => Existing(k)' = Existing(k)
  BY <1>2, <1>3, <1>6 DEF Existing
<1>8. Existing(c.key)' # {}
  BY <1>2, <1>3, <1>6 DEF Existing
<1>9. ASSUME NEW b
      PROVE  KeysOf(b)' = IF b = c.bucket THEN KeysOf(b) \cup {c.key} ELSE KeysOf(b)
  BY <1>2, <1>3, <1>6 DEF KeysOf
<1> QED BY <1>3, <1>4, <1>5, <1>7, <1>8, <1>9

\* The type of a reversed entry that is there stays what it is.
LEMMA ReversedTypeStays ==
  ASSUME LedgerInv, NEW c \in Commands, Adds(c), NEW d \in Commands,
         d.reversalOf # None => Existing(d.reversalOf) # {}
  PROVE  ReversedType(d)' = ReversedType(d)
<1>1. d.reversalOf # c.key
  <2>1. c.key \in Keys
    BY CommandFields
  <2> QED BY <2>1, NoneAssumption DEF Adds
<1>2. Existing(d.reversalOf)' = Existing(d.reversalOf)
  BY <1>1, AddsFacts
<1>3. Existing(d.reversalOf) \subseteq 1..Len(entries)
  BY DEF Existing
<1>4. \A i \in Existing(d.reversalOf) : entries'[i] = entries[i]
  BY <1>3, AddsFacts
<1>5. (CHOOSE i \in Existing(d.reversalOf)' : TRUE) = (CHOOSE i \in Existing(d.reversalOf) : TRUE)
  BY <1>2
<1>6. Existing(d.reversalOf) # {} =>
        (CHOOSE i \in Existing(d.reversalOf) : TRUE) \in Existing(d.reversalOf)
  OBVIOUS
<1> QED BY <1>2, <1>4, <1>5, <1>6 DEF ReversedType

\* The projection of a bucket without the new entry is what it was; with it, it is what the
\* command makes of that balance: the write path and the rebuild path agree.
LEMMA ProjectAdds ==
  ASSUME LedgerInv, EntriesInv, NEW c \in Commands, Adds(c),
         AmountAdmissible(c.type, c.amount),
         c.reversalOf # None => Existing(c.reversalOf) # {},
         NEW b, NEW o
  PROVE  /\ b # c.bucket \/ c.key \in o => Project(entries', b, o) = Project(entries, b, o)
         /\ c.key \notin o =>
              Project(entries', c.bucket, o) =
                ApplyCommand(c.type, c.amount, ReversedType(c), Project(entries, c.bucket, o))
<1> DEFINE n == Len(entries)
           e == EntryOf(c)
           es == Append(entries, e)
<1>1. entries \in Seq(Entry) /\ n \in Nat /\ es = entries'
  BY NowFacts DEF Adds
<1>2. e \in Entry /\ e.key = c.key /\ e.bucket = c.bucket /\ e.type = c.type
      /\ e.reversalOf = c.reversalOf /\ e.amount = SignedEntryAmount(c.type, c.amount)
  BY EntryOfType DEF EntryOf
<1>3. \A i \in 1..n : entries[i].reversalOf # e.key
  <2> SUFFICES ASSUME NEW i \in 1..n, entries[i].reversalOf = e.key PROVE FALSE
    OBVIOUS
  <2>1. e.key \in Keys /\ e.key # None
    BY <1>2, CommandFields, NoneAssumption
  <2>2. PICK j \in 1..(i-1) : entries[j].key = e.key
    BY <2>1 DEF EntriesInv
  <2>3. j \in 1..n
    BY <1>1
  <2> QED BY <1>2, <2>2, <2>3, AddsFacts
<1>4. /\ es[n + 1] = e /\ Len(es) = n + 1 /\ \A i \in 1..n : es[i] = entries[i]
  BY <1>1, AddsFacts
<1>5. ASSUME NEW bb
      PROVE  Project(entries', bb, o) = ProjectStep(es, bb, o, Project(entries, bb, o), n + 1)
  <2>1. Project(Append(entries, e), bb, o) =
          ProjectStep(Append(entries, e), bb, o, Project(entries, bb, o), Len(entries) + 1)
    <3> HIDE DEF e, n
    <3> QED BY <1>1, <1>2, <1>3, ProjectAppend DEF n
  <2> QED BY <1>1, <2>1
<1>6. b # c.bucket \/ c.key \in o => Project(entries', b, o) = Project(entries, b, o)
  <2> HIDE DEF es, e
  <2> QED BY <1>2, <1>4, <1>5 DEF ProjectStep
<1>7. ASSUME c.key \notin o
      PROVE  Project(entries', c.bucket, o) =
               ApplyCommand(c.type, c.amount, ReversedType(c), Project(entries, c.bucket, o))
  <2> DEFINE Found == {j \in 1..Len(es) : es[j].bucket = c.bucket /\ es[j].key = c.reversalOf}
             rev == IF Found = {} THEN NoType ELSE es[CHOOSE j \in Found : TRUE].type
             acc == Project(entries, c.bucket, o)
  <2>1. Project(entries', c.bucket, o) = ProjectEntry(acc, c.type, e.amount, rev)
    <3>1. ProjectStep(es, c.bucket, o, acc, n + 1) = ProjectEntry(acc, c.type, e.amount, rev)
      <4> HIDE DEF es, e, acc
      <4> QED BY <1>2, <1>4, <1>7 DEF ProjectStep
    <3> HIDE DEF es, e, acc, rev
    <3> QED BY <1>5, <3>1 DEF acc
  <2>2. Found = Existing(c.reversalOf)
    <3>1. c.reversalOf # c.key
      <4>1. c.key \in Keys
        BY CommandFields
      <4> QED BY <4>1, NoneAssumption DEF Adds
    <3>2. \A j \in 1..Len(es) : es[j].key = c.reversalOf => j \in 1..n
      <4> HIDE DEF es, e
      <4> QED BY <1>1, <1>2, <1>4, <3>1
    <3>3. \A j \in 1..n : entries[j].key = c.reversalOf => entries[j].bucket = c.bucket
      <4> SUFFICES ASSUME NEW j \in 1..n, entries[j].key = c.reversalOf
                   PROVE  entries[j].bucket = c.bucket
        OBVIOUS
      <4>1. PICK d \in Commands : entries[j] = EntryOf(d)
        BY DEF EntriesInv, Recording
      <4>2. entries[j].key = d.key /\ entries[j].bucket = d.bucket
        BY <4>1 DEF EntryOf
      <4> QED BY <4>2, ReversalAssumption
    <3>4. 1..n \subseteq 1..Len(es)
      <4> HIDE DEF es
      <4> QED BY <1>1, <1>4
    <3> HIDE DEF es
    <3> QED BY <1>4, <3>2, <3>3, <3>4 DEF Existing
  <2>3. Found \subseteq 1..n
    BY <2>2 DEF Existing
  <2>4. rev = ReversedType(c)
    <3>1. Found # {} => (CHOOSE j \in Found : TRUE) \in Found
      OBVIOUS
    <3> HIDE DEF es, Found
    <3> QED BY <1>4, <2>2, <2>3, <3>1 DEF ReversedType
  <2>5. rev \in EntryTypes \cup {NoType} /\ (c.type # "reversal" => rev = NoType)
    <3>1. \A j \in 1..n : entries[j].type \in EntryTypes
      <4>1. \A x \in Entry : x.type \in EntryTypes
        BY DEF Entry
      <4> QED BY <4>1, NowFacts
    <3>2. ReversedType(c) \in EntryTypes \cup {NoType}
      <4>1. Existing(c.reversalOf) \subseteq 1..n
        BY DEF Existing
      <4>2. Existing(c.reversalOf) # {} =>
              (CHOOSE i \in Existing(c.reversalOf) : TRUE) \in Existing(c.reversalOf)
        OBVIOUS
      <4> QED BY <3>1, <4>1, <4>2 DEF ReversedType
    <3>3. ASSUME Existing(c.reversalOf) # {} PROVE c.type = "reversal"
      <4>1. PICK j \in 1..n : entries[j].key = c.reversalOf
        BY <3>3 DEF Existing
      <4>2. PICK d \in Commands : entries[j] = EntryOf(d)
        BY DEF EntriesInv, Recording
      <4>3. d.key = c.reversalOf
        BY <4>1, <4>2 DEF EntryOf
      <4> QED BY <4>3, ReversalAssumption
    <3>4. ReversedType(c) = NoType \/ Existing(c.reversalOf) # {}
      BY DEF ReversedType
    <3> HIDE DEF rev
    <3> QED BY <2>4, <3>2, <3>3, <3>4
  <2>6. acc \in Balance
    BY <1>1, ProjectType
  <2>7. ApplyCommand(c.type, c.amount, rev, acc) = ProjectEntry(acc, c.type, e.amount, rev)
    <3>1. c.type \in EntryTypes /\ c.amount \in Int
      BY CommandFields
    <3> HIDE DEF rev, acc, e
    <3> QED BY <1>2, <2>5, <2>6, <3>1, RebuildAgreesWithApply
  <2> HIDE DEF rev, acc, e
  <2> QED BY <2>1, <2>4, <2>7 DEF acc
<1> QED BY <1>6, <1>7

-----------------------------------------------------------------------------
(* The steps. *)

Saving(n) == call[n].pc \in {"saveEntry", "saveBalance"}

\* Two calls that run are about different buckets.
LEMMA OtherBucket ==
  ASSUME LedgerInv, NEW m \in CallIds, NEW n \in CallIds, m # n, InLock(m), InLock(n)
  PROVE  call[m].cmd.bucket # call[n].cmd.bucket
<1>1. m \in Nat /\ n \in Nat /\ m >= 1 /\ n >= 1
  BY BoundsAssumption DEF CallIds
<1>2. CASE m < n
  BY <1>1, <1>2 DEF LedgerInv, LockHeld, HasLock, SameLock, InLock, Active
<1>3. CASE n < m
  BY <1>1, <1>3 DEF LedgerInv, LockHeld, HasLock, SameLock, InLock, Active
<1> QED BY <1>1, <1>2, <1>3

\* A step of one call leaves the others what they were.
LEMMA CallSteps ==
  ASSUME LedgerInv, NEW n \in CallIds, Mutate(n) \/ SaveFails(n)
  PROVE  /\ \A m \in CallIds : m # n => call'[m] = call[m]
         /\ \/ call'[n] = NoCall
            \/ Acquire(n) /\ call'[n] = [call[n] EXCEPT !.pc = "lookup"]
            \/ /\ Lookup(n) /\ AmountAdmissible(call[n].cmd.type, call[n].cmd.amount)
               /\ call'[n] = [call[n] EXCEPT !.pc = "load"]
            \/ /\ Load(n) /\ FundsSuffice(call[n].cmd.type, call[n].cmd.amount, Row(call[n].cmd.bucket))
               /\ call'[n] = [call[n] EXCEPT
                     !.pc = "saveEntry",
                     !.next = ApplyCommand(call[n].cmd.type, call[n].cmd.amount,
                                           ReversedType(call[n].cmd), Row(call[n].cmd.bucket)),
                     !.missing = unapplied \cap KeysOf(call[n].cmd.bucket)]
            \/ /\ SaveEntry(n) /\ Adds(call[n].cmd)
               /\ unapplied' = unapplied \cup {call[n].cmd.key}
               /\ UNCHANGED <<outbox, outcome>>
               /\ call'[n] = [call[n] EXCEPT !.pc = "saveBalance"]
<1>1. call \in [CallIds -> CallState]
  BY DEF LedgerInv, TypeOK
<1>2. ASSUME NEW r, Finish(n, r)
      PROVE  call'[n] = NoCall /\ \A m \in CallIds : m # n => call'[m] = call[m]
  BY <1>1, <1>2 DEF Finish
<1>3. CASE Acquire(n)
  BY <1>1, <1>3 DEF Acquire
<1>4. CASE Lookup(n)
  BY <1>1, <1>2, <1>4 DEF Lookup, Replay
<1>5. CASE Load(n)
  BY <1>1, <1>2, <1>5 DEF Load
<1>6. CASE SaveEntry(n)
  BY <1>1, <1>2, <1>6 DEF SaveEntry, Replay, Adds
<1>7. CASE SaveBalance(n) \/ Commit(n) \/ SaveFails(n)
  BY <1>1, <1>2, <1>7 DEF SaveBalance, Commit, SavedRow, SaveFails
<1> QED BY <1>3, <1>4, <1>5, <1>6, <1>7 DEF Mutate

\* Only a new call, a crash and a step of a call change the calls.
LEMMA CallFrame ==
  ASSUME LedgerInv, [Next]_vars
  PROVE  \/ UNCHANGED call
         \/ Crash
         \/ \E c \in Commands : Call(c)
         \/ \E n \in CallIds : Mutate(n) \/ SaveFails(n)
BY DEF Next, Publish, PauseReservations, RebuildStart, Rebuild, RebuildReadEntries,
       RebuildReadRow, RebuildCreateRow, RebuildCompare, vars

\* Commit finds its key new, under the one lock that transactions come with.
LEMMA CommitAdds ==
  ASSUME LedgerInv, NEW n \in CallIds, Commit(n)
  PROVE  Adds(call[n].cmd)
BY SwitchAssumption DEF LedgerInv, KeyIsNew, Commit, Adds

\* The steps of the tables, of what is missing in the read model and of what is announced.
LEMMA TableSteps ==
  ASSUME LedgerInv, [Next]_vars
  PROVE  \/ UNCHANGED <<entries, rows, unapplied>>
         \/ \E n \in CallIds : /\ SaveEntry(n) /\ Adds(call[n].cmd)
                               /\ unapplied' = unapplied \cup {call[n].cmd.key}
         \/ \E n \in CallIds : SaveBalance(n)
         \/ \E n \in CallIds : Commit(n) /\ Adds(call[n].cmd)
         \/ RebuildCreateRow
<1>1. ASSUME NEW n \in CallIds, SaveEntry(n)
      PROVE  \/ UNCHANGED <<entries, rows, unapplied>>
             \/ Adds(call[n].cmd) /\ unapplied' = unapplied \cup {call[n].cmd.key}
  BY <1>1 DEF SaveEntry, Adds
<1>2. ASSUME \/ \E c \in Commands : Call(c)
             \/ \E n \in CallIds : Acquire(n) \/ Lookup(n) \/ Load(n) \/ SaveFails(n)
             \/ \E k \in Keys : Publish(k)
             \/ \E b \in PauseBuckets : PauseReservations(b)
             \/ \E b \in RebuildBuckets : RebuildStart(b)
             \/ RebuildReadEntries \/ RebuildReadRow \/ RebuildCompare \/ Crash
             \/ UNCHANGED vars
      PROVE  UNCHANGED <<entries, rows, unapplied>>
  BY <1>2 DEF Call, Acquire, Lookup, Load, SaveFails, Publish, PauseReservations, RebuildStart,
              RebuildReadEntries, RebuildReadRow, RebuildCompare, Crash, vars
<1> QED BY <1>1, <1>2, CommitAdds DEF Next, Mutate, Rebuild

\* Who adds an entry is between its checks and its end, and about a bucket of its own.
LEMMA AddsAlone ==
  ASSUME LedgerInv, CommandsInv, NEW n \in CallIds, Saving(n)
  PROVE  /\ call[n].cmd \in Commands /\ call[n] \in CallState
         /\ AmountAdmissible(call[n].cmd.type, call[n].cmd.amount)
         /\ call[n].cmd.reversalOf # None => Existing(call[n].cmd.reversalOf) # {}
         /\ \A m \in CallIds : m # n /\ Saving(m) =>
              call[m].cmd.bucket # call[n].cmd.bucket
<1>1. Active(n) /\ InLock(n) /\ \A m \in CallIds : Saving(m) => InLock(m)
  BY DEF Saving, Active, InLock
<1>2. call[n].cmd \in Commands /\ call[n] \in CallState
  BY <1>1 DEF LedgerInv, TypeOK
<1>3. \A m \in CallIds : m # n /\ Saving(m) => call[m].cmd.bucket # call[n].cmd.bucket
  BY <1>1, OtherBucket
<1> QED BY <1>1, <1>2, <1>3 DEF CommandsInv, Saving

\* The entries of a step: none, or one of a call that saves.
LEMMA EntrySteps ==
  ASSUME LedgerInv, [Next]_vars
  PROVE  \/ UNCHANGED entries
         \/ \E n \in CallIds : Adds(call[n].cmd) /\ (SaveEntry(n) \/ Commit(n))
BY TableSteps DEF SaveBalance, RebuildCreateRow

\* Every entry stays the record of an admissible command, after what it reverses.
LEMMA EntriesStep == LedgerInv /\ ReadModelInv /\ [Next]_vars => EntriesInv'
<1> SUFFICES ASSUME LedgerInv, ReadModelInv, [Next]_vars PROVE EntriesInv'
  OBVIOUS
<1>1. EntriesInv /\ CommandsInv
  BY DEF ReadModelInv
<1>2. CASE UNCHANGED entries
  BY <1>1, <1>2 DEF EntriesInv, Recording
<1>3. ASSUME NEW n \in CallIds, Adds(call[n].cmd), SaveEntry(n) \/ Commit(n) PROVE EntriesInv'
  <2>1. Saving(n)
    BY <1>3 DEF SaveEntry, Commit, Saving
  <2>2. PICK c \in Commands : c = call[n].cmd
    BY <1>1, <2>1, AddsAlone
  <2>3. /\ AmountAdmissible(c.type, c.amount)
        /\ c.reversalOf # None => Existing(c.reversalOf) # {}
    BY <1>1, <2>1, <2>2, AddsAlone
  <2>4. /\ Len(entries') = Len(entries) + 1 /\ Len(entries) \in Nat
        /\ \A i \in 1..Len(entries) : entries'[i] = entries[i]
        /\ entries'[Len(entries) + 1] = EntryOf(c)
        /\ \A i \in 1..Len(entries') : i \in 1..Len(entries) \/ i = Len(entries) + 1
    BY <1>3, <2>2, AddsFacts, NowFacts
  <2>5. ASSUME NEW i \in 1..Len(entries)
        PROVE  /\ \E d \in Commands :
                    entries'[i] = EntryOf(d) /\ AmountAdmissible(d.type, d.amount)
               /\ entries'[i].reversalOf # None =>
                    \E j \in 1..(i-1) : entries'[j].key = entries'[i].reversalOf
    <3>1. \A j \in 1..(i-1) : j \in 1..Len(entries)
      BY <2>4
    <3> QED BY <1>1, <2>4, <3>1 DEF EntriesInv, Recording
  <2>6. /\ \E d \in Commands : /\ entries'[Len(entries) + 1] = EntryOf(d)
                               /\ AmountAdmissible(d.type, d.amount)
        /\ entries'[Len(entries) + 1].reversalOf # None =>
             \E j \in 1..((Len(entries) + 1)-1) :
               entries'[j].key = entries'[Len(entries) + 1].reversalOf
    <3>1. entries'[Len(entries) + 1].reversalOf = c.reversalOf
      BY <2>4 DEF EntryOf
    <3>2. c.reversalOf # None => \E j \in 1..Len(entries) : entries[j].key = c.reversalOf
      BY <2>3 DEF Existing
    <3>3. (Len(entries) + 1) - 1 = Len(entries)
      BY <2>4
    <3> QED BY <2>3, <2>4, <3>1, <3>2, <3>3
  <2>7. ASSUME NEW i \in 1..Len(entries')
        PROVE  /\ \E d \in Commands :
                    entries'[i] = EntryOf(d) /\ AmountAdmissible(d.type, d.amount)
               /\ entries'[i].reversalOf # None =>
                    \E j \in 1..(i-1) : entries'[j].key = entries'[i].reversalOf
    <3>1. CASE i \in 1..Len(entries)
      BY <2>5, <3>1
    <3>2. CASE i = Len(entries) + 1
      BY <2>6, <3>2
    <3> QED BY <2>4, <3>1, <3>2
  <2> QED BY <2>7 DEF EntriesInv, Recording
<1> QED BY <1>2, <1>3, EntrySteps

\* What is recorded stays recorded.
LEMMA RecordsStay ==
  ASSUME LedgerInv, [Next]_vars
  PROVE  /\ \A k : Existing(k) # {} => Existing(k)' # {}
         /\ \A e : (\E i \in 1..Len(entries) : entries[i] = e) =>
                   \E i \in 1..Len(entries') : entries'[i] = e
<1>1. CASE UNCHANGED entries
  BY <1>1 DEF Existing
<1>2. ASSUME NEW n \in CallIds, Adds(call[n].cmd), SaveEntry(n) \/ Commit(n)
      PROVE  /\ \A k : Existing(k) # {} => Existing(k)' # {}
             /\ \A e : (\E i \in 1..Len(entries) : entries[i] = e) =>
                       \E i \in 1..Len(entries') : entries'[i] = e
  <2>1. call[n].cmd \in Commands /\ Len(entries) \in Nat
    BY <1>2, NowFacts DEF SaveEntry, Commit, Active
  <2>2. /\ Len(entries') = Len(entries) + 1
        /\ \A i \in 1..Len(entries) : entries'[i] = entries[i] /\ i \in 1..Len(entries')
    BY <1>2, <2>1, AddsFacts
  <2> QED BY <2>2 DEF Existing
<1> QED BY <1>1, <1>2, EntrySteps

\* What CommandsInv asks of a call, for a rigid set of recorded keys.
Checked(t, recorded) ==
  /\ t.pc # "none" /\ t.cmd.reversalOf # None => t.cmd.reversalOf \in recorded
  /\ t.pc \in {"load", "saveEntry", "saveBalance"} =>
       AmountAdmissible(t.cmd.type, t.cmd.amount)

\* A call that goes on with its command, with or without a checked amount, stays checked.
LEMMA CheckedGoesOn ==
  ASSUME NEW t, NEW u, NEW recorded, Checked(t, recorded), t.pc # "none", u.cmd = t.cmd,
         u.pc = "lookup" \/ AmountAdmissible(t.cmd.type, t.cmd.amount)
  PROVE  Checked(u, recorded)
BY DEF Checked

\* Calls reverse what is there, and have been checked once they look up nothing.
LEMMA CommandsStep == LedgerInv /\ ReadModelInv /\ [Next]_vars => CommandsInv'
<1> SUFFICES ASSUME LedgerInv, ReadModelInv, [Next]_vars PROVE CommandsInv'
  OBVIOUS
<1>1. CommandsInv /\ call \in [CallIds -> CallState]
  BY DEF ReadModelInv, LedgerInv, TypeOK
<1>2. PICK K : K = {entries'[i].key : i \in 1..Len(entries')}
  OBVIOUS
<1>3. \A k : Existing(k)' # {} <=> k \in K
  BY <1>2 DEF Existing
<1>4. \A m \in CallIds : Checked(call[m], K)
  BY <1>1, <1>3, RecordsStay DEF CommandsInv, Active, Checked
<1>5. Checked(NoCall, K)
  BY NoCallType DEF Checked, NoCall
<1>6. \A m \in CallIds : Checked(call'[m], K)
  <2>1. CASE UNCHANGED call
    BY <1>4, <2>1
  <2>2. CASE Crash
    BY <1>5, <2>2 DEF Crash
  <2>3. ASSUME NEW c \in Commands, Call(c) PROVE \A m \in CallIds : Checked(call'[m], K)
    <3>1. PICK x : x = [NoCall EXCEPT !.pc = "queued", !.cmd = c]
      OBVIOUS
    <3>2. x.pc = "queued" /\ x.cmd = c
      BY <3>1 DEF NoCall
    <3>3. c.reversalOf # None => c.reversalOf \in K
      BY <1>3, <2>3, RecordsStay DEF Call
    <3>4. Checked(x, K)
      BY <3>2, <3>3 DEF Checked
    <3>5. \A m \in CallIds : call'[m] = call[m] \/ call'[m] = x
      BY <1>1, <2>3, <3>1 DEF Call
    <3> QED BY <1>4, <3>4, <3>5
  <2>4. ASSUME NEW n \in CallIds, Mutate(n) \/ SaveFails(n)
        PROVE  \A m \in CallIds : Checked(call'[m], K)
    <3>1. \A m \in CallIds : m # n => call'[m] = call[m]
      BY <2>4, CallSteps
    <3>2. CASE call'[n] = NoCall
      BY <1>4, <1>5, <3>1, <3>2
    <3>3. CASE /\ call[n].pc # "none" /\ call'[n].cmd = call[n].cmd
               /\ \/ call'[n].pc = "lookup"
                  \/ AmountAdmissible(call[n].cmd.type, call[n].cmd.amount)
      <4>1. Checked(call'[n], K)
        BY <1>4, <3>3, CheckedGoesOn
      <4> QED BY <1>4, <3>1, <4>1
    <3>4. call[n] \in CallState
      BY <1>1
    <3>5. ASSUME NEW p, NEW x, NEW y
          PROVE  /\ [call[n] EXCEPT !.pc = p].cmd = call[n].cmd
                 /\ [call[n] EXCEPT !.pc = p].pc = p
                 /\ [call[n] EXCEPT !.pc = p, !.next = x, !.missing = y].cmd = call[n].cmd
      BY <3>4 DEF CallState
    <3>6. CASE Acquire(n) /\ call'[n] = [call[n] EXCEPT !.pc = "lookup"]
      <4>1. call[n].pc # "none"
        BY <3>6 DEF Acquire
      <4> QED BY <3>3, <3>5, <3>6, <4>1
    <3>7. CASE /\ Lookup(n) /\ AmountAdmissible(call[n].cmd.type, call[n].cmd.amount)
               /\ call'[n] = [call[n] EXCEPT !.pc = "load"]
      <4>1. call[n].pc # "none"
        BY <3>7 DEF Lookup
      <4> QED BY <3>3, <3>5, <3>7, <4>1
    <3>8. CASE /\ Load(n) /\ FundsSuffice(call[n].cmd.type, call[n].cmd.amount, Row(call[n].cmd.bucket))
               /\ call'[n] = [call[n] EXCEPT
                     !.pc = "saveEntry",
                     !.next = ApplyCommand(call[n].cmd.type, call[n].cmd.amount,
                                           ReversedType(call[n].cmd), Row(call[n].cmd.bucket)),
                     !.missing = unapplied \cap KeysOf(call[n].cmd.bucket)]
      <4>1. call[n].pc = "load"
        BY <3>8 DEF Load
      <4>2. AmountAdmissible(call[n].cmd.type, call[n].cmd.amount)
        BY <1>1, <4>1 DEF CommandsInv
      <4>3. call'[n].cmd = call[n].cmd
        BY <3>5, <3>8
      <4> QED BY <3>3, <4>1, <4>2, <4>3
    <3>9. CASE SaveEntry(n) /\ call'[n] = [call[n] EXCEPT !.pc = "saveBalance"]
      <4>1. call[n].pc = "saveEntry"
        BY <3>9 DEF SaveEntry
      <4>2. AmountAdmissible(call[n].cmd.type, call[n].cmd.amount)
        BY <1>1, <4>1 DEF CommandsInv
      <4>3. call'[n].cmd = call[n].cmd
        BY <3>5, <3>9
      <4> QED BY <3>3, <4>1, <4>2, <4>3
    <3>10. \/ call'[n] = NoCall
           \/ Acquire(n) /\ call'[n] = [call[n] EXCEPT !.pc = "lookup"]
           \/ /\ Lookup(n) /\ AmountAdmissible(call[n].cmd.type, call[n].cmd.amount)
              /\ call'[n] = [call[n] EXCEPT !.pc = "load"]
           \/ /\ Load(n) /\ FundsSuffice(call[n].cmd.type, call[n].cmd.amount, Row(call[n].cmd.bucket))
               /\ call'[n] = [call[n] EXCEPT
                     !.pc = "saveEntry",
                     !.next = ApplyCommand(call[n].cmd.type, call[n].cmd.amount,
                                           ReversedType(call[n].cmd), Row(call[n].cmd.bucket)),
                     !.missing = unapplied \cap KeysOf(call[n].cmd.bucket)]
           \/ SaveEntry(n) /\ call'[n] = [call[n] EXCEPT !.pc = "saveBalance"]
      BY <2>4, CallSteps
    <3> QED BY <3>2, <3>6, <3>7, <3>8, <3>9, <3>10
  <2> QED BY <2>1, <2>2, <2>3, <2>4, CallFrame
<1> QED BY <1>3, <1>6 DEF CommandsInv, Active, Checked

\* A call that saves a row or an entry is not where it was.
LEMMA SaverMoves ==
  ASSUME LedgerInv, NEW n \in CallIds,
         SaveBalance(n) \/ Commit(n) \/ (SaveEntry(n) /\ Adds(call[n].cmd))
  PROVE  call'[n] # call[n]
<1>1. call[n] \in CallState /\ call \in [CallIds -> CallState]
  BY DEF LedgerInv, TypeOK
<1>2. CASE SaveEntry(n) /\ Adds(call[n].cmd)
  <2>1. call[n].pc = "saveEntry" /\ Existing(call[n].cmd.key) = {}
    BY <1>2 DEF SaveEntry, Adds
  <2>2. call'[n] = [call[n] EXCEPT !.pc = "saveBalance"]
    BY <1>1, <1>2, <2>1 DEF SaveEntry, Replay
  <2>3. call'[n].pc = "saveBalance"
    BY <1>1, <2>2 DEF CallState
  <2> QED BY <2>1, <2>3
<1>3. CASE SaveBalance(n) \/ Commit(n)
  <2>1. call'[n] = NoCall
    BY <1>1, <1>3 DEF SaveBalance, Commit, SavedRow, Finish
  <2> QED BY <1>3, <2>1, NoCallType DEF SaveBalance, Commit
<1> QED BY <1>2, <1>3

\* A call that saves and is not the one that moves still holds what its bucket's entries say.
LEMMA LoadedStays ==
  ASSUME LedgerInv, ReadModelInv, [Next]_vars,
         NEW m \in CallIds, Saving(m), call'[m] = call[m]
  PROVE  Loaded(call[m])'
<1>1. Loaded(call[m]) /\ EntriesInv /\ CommandsInv
  BY DEF ReadModelInv, LoadedInv, Saving
<1>2. CASE UNCHANGED entries
  BY <1>1, <1>2 DEF Loaded, KeysOf, ReversedType, Existing
<1>3. ASSUME NEW n \in CallIds, Adds(call[n].cmd), SaveEntry(n) \/ Commit(n)
      PROVE  Loaded(call[m])'
  <2>1. Saving(n)
    BY <1>3 DEF SaveEntry, Commit, Saving
  <2>2. PICK c \in Commands : c = call[n].cmd
    BY <1>1, <2>1, AddsAlone
  <2>3. PICK t : t = call[m] /\ t = call'[m]
    OBVIOUS
  <2>4. /\ AmountAdmissible(c.type, c.amount)
        /\ c.reversalOf # None => Existing(c.reversalOf) # {}
    BY <1>1, <2>1, <2>2, AddsAlone
  <2>5. n # m
    BY <1>3, SaverMoves
  <2>6. /\ t.cmd \in Commands /\ t.cmd.bucket # c.bucket
        /\ t.cmd.reversalOf # None => Existing(t.cmd.reversalOf) # {}
    BY <1>1, <2>1, <2>2, <2>3, <2>5, AddsAlone
  <2>7. Adds(c)
    BY <1>3, <2>2
  <2>8. /\ KeysOf(t.cmd.bucket)' = KeysOf(t.cmd.bucket)
        /\ ReversedType(t.cmd)' = ReversedType(t.cmd)
        /\ Project(entries', t.cmd.bucket, t.missing) = Project(entries, t.cmd.bucket, t.missing)
    <3>1. KeysOf(t.cmd.bucket)' = KeysOf(t.cmd.bucket)
      <4>1. \A b : KeysOf(b)' = IF b = c.bucket THEN KeysOf(b) \cup {c.key} ELSE KeysOf(b)
        BY <2>7, AddsFacts
      <4> QED BY <2>3, <2>6, <4>1
    <3>2. ReversedType(t.cmd)' = ReversedType(t.cmd)
      <4>1. \A d \in Commands : (d.reversalOf # None => Existing(d.reversalOf) # {}) =>
              ReversedType(d)' = ReversedType(d)
        BY <2>7, ReversedTypeStays
      <4> QED BY <2>3, <2>6, <4>1
    <3>3. Project(entries', t.cmd.bucket, t.missing) = Project(entries, t.cmd.bucket, t.missing)
      BY <1>1, <2>4, <2>6, <2>7, ProjectAdds
    <3> QED BY <3>1, <3>2, <3>3
  <2>9. (\E i \in 1..Len(entries) : entries[i] = EntryOf(t.cmd)) =>
          \E i \in 1..Len(entries') : entries'[i] = EntryOf(t.cmd)
    BY RecordsStay
  <2>10. Loaded(t)
    BY <1>1, <2>3
  <2>11. Loaded(t)'
    BY <2>8, <2>9, <2>10 DEF Loaded
  <2> QED BY <2>3, <2>11
<1> QED BY <1>2, <1>3, EntrySteps

\* A call that has just loaded holds the row, which is the projection without what is missing.
LEMMA LoadLoads ==
  ASSUME LedgerInv, ReadModelInv, NEW n \in CallIds, Load(n), Active(n),
         NEW t, t = call'[n], t.pc = "saveEntry", t.cmd = call[n].cmd,
         t.next = ApplyCommand(t.cmd.type, t.cmd.amount, ReversedType(t.cmd), Row(t.cmd.bucket)),
         t.missing = unapplied \cap KeysOf(t.cmd.bucket)
  PROVE  Loaded(t)'
<1>1. entries \in Seq(Entry) /\ t.cmd \in Commands /\ t.cmd.bucket \in Buckets
  BY NowFacts, CommandFields
<1>2. \A i \in 1..Len(entries) : entries[i].bucket = t.cmd.bucket =>
        (entries[i].key \in unapplied <=> entries[i].key \in t.missing)
  BY DEF KeysOf
<1>3. Project(entries, t.cmd.bucket, unapplied) = Project(entries, t.cmd.bucket, t.missing)
  BY <1>1, <1>2, ProjectOmit
<1>4. Row(t.cmd.bucket) = Project(entries, t.cmd.bucket, unapplied)
  BY <1>1 DEF ReadModelInv, ReadModelFollowsLedger
<1>5. entries' = entries
  BY DEF Load
<1>6. Loaded(t)
  BY <1>3, <1>4 DEF Loaded
<1> QED BY <1>5, <1>6 DEF Loaded, KeysOf, ReversedType, Existing

\* A call that has just saved its entry holds the projection with that entry.
LEMMA SavedEntryLoaded ==
  ASSUME LedgerInv, ReadModelInv, NEW n \in CallIds, SaveEntry(n), Adds(call[n].cmd),
         NEW t, t = call'[n], t.pc = "saveBalance", t.cmd = call[n].cmd,
         t.next = call[n].next, t.missing = call[n].missing
  PROVE  Loaded(t)'
<1>1. call[n].pc = "saveEntry" /\ Saving(n)
  BY DEF SaveEntry, Saving
<1>2. EntriesInv /\ CommandsInv /\ Loaded(call[n])
  BY <1>1 DEF ReadModelInv, LoadedInv
<1>3. /\ t.cmd \in Commands /\ AmountAdmissible(t.cmd.type, t.cmd.amount)
      /\ t.cmd.reversalOf # None => Existing(t.cmd.reversalOf) # {}
  BY <1>1, <1>2, AddsAlone
<1>4. Adds(t.cmd)
  OBVIOUS
<1>5. /\ t.missing \subseteq KeysOf(t.cmd.bucket)
      /\ t.next = ApplyCommand(t.cmd.type, t.cmd.amount, ReversedType(t.cmd),
                               Project(entries, t.cmd.bucket, t.missing))
  BY <1>1, <1>2 DEF Loaded
<1>6. t.cmd.key \notin KeysOf(t.cmd.bucket)
  BY <1>4 DEF Adds, Existing, KeysOf
<1>7. Project(entries', t.cmd.bucket, t.missing) =
        ApplyCommand(t.cmd.type, t.cmd.amount, ReversedType(t.cmd),
                     Project(entries, t.cmd.bucket, t.missing))
  BY <1>2, <1>3, <1>4, <1>5, <1>6, ProjectAdds
<1>8. KeysOf(t.cmd.bucket) \subseteq KeysOf(t.cmd.bucket)'
  BY <1>3, <1>4, AddsFacts
<1>9. \E i \in 1..Len(entries') : entries'[i] = EntryOf(t.cmd)
  <2>1. Len(entries) \in Nat
    BY NowFacts
  <2> QED BY <1>3, <1>4, <2>1, AddsFacts
<1> QED BY <1>5, <1>6, <1>7, <1>8, <1>9 DEF Loaded

\* A call between its load and its last save has just loaded, has just saved its entry, or
\* has not moved.
LEMMA SaverSteps ==
  ASSUME LedgerInv, [Next]_vars, NEW m \in CallIds, NEW t, t = call'[m],
         t.pc \in {"saveEntry", "saveBalance"}
  PROVE  \/ t = call[m] /\ Saving(m)
         \/ /\ Load(m) /\ Active(m) /\ t.pc = "saveEntry" /\ t.cmd = call[m].cmd
            /\ FundsSuffice(t.cmd.type, t.cmd.amount, Row(t.cmd.bucket))
            /\ t.next = ApplyCommand(t.cmd.type, t.cmd.amount, ReversedType(t.cmd),
                                     Row(t.cmd.bucket))
            /\ t.missing = unapplied \cap KeysOf(t.cmd.bucket)
         \/ /\ SaveEntry(m) /\ Adds(call[m].cmd) /\ t.pc = "saveBalance"
            /\ t.cmd = call[m].cmd /\ t.next = call[m].next /\ t.missing = call[m].missing
            /\ unapplied' = unapplied \cup {t.cmd.key}
<1>1. CASE call'[m] = call[m]
  BY <1>1 DEF Saving
<1>2. t # NoCall
  BY NoCallType
<1>3. ~Crash
  BY <1>2 DEF Crash
<1>4. ASSUME NEW c \in Commands, Call(c) PROVE call'[m] = call[m]
  <2>1. call'[m] = call[m] \/ call'[m] = [NoCall EXCEPT !.pc = "queued", !.cmd = c]
    BY <1>4 DEF Call, LedgerInv, TypeOK
  <2>2. [NoCall EXCEPT !.pc = "queued", !.cmd = c].pc = "queued"
    BY DEF NoCall
  <2> QED BY <2>1, <2>2
<1>5. ASSUME NEW n \in CallIds, Mutate(n) \/ SaveFails(n), m # n PROVE call'[m] = call[m]
  BY <1>5, CallSteps
<1>6. CASE Mutate(m) \/ SaveFails(m)
  <2>1. call[m] \in CallState
    BY DEF LedgerInv, TypeOK
  <2>2. ASSUME NEW p, NEW x, NEW y
        PROVE  /\ [call[m] EXCEPT !.pc = p].pc = p
               /\ [call[m] EXCEPT !.pc = p].cmd = call[m].cmd
               /\ [call[m] EXCEPT !.pc = p].next = call[m].next
               /\ [call[m] EXCEPT !.pc = p].missing = call[m].missing
               /\ [call[m] EXCEPT !.pc = p, !.next = x, !.missing = y].pc = p
               /\ [call[m] EXCEPT !.pc = p, !.next = x, !.missing = y].cmd = call[m].cmd
               /\ [call[m] EXCEPT !.pc = p, !.next = x, !.missing = y].next = x
               /\ [call[m] EXCEPT !.pc = p, !.next = x, !.missing = y].missing = y
    BY <2>1 DEF CallState
  <2>3. \A p : [call[m] EXCEPT !.pc = p].pc = p
    BY <2>2
  <2>4. t # [call[m] EXCEPT !.pc = "lookup"] /\ t # [call[m] EXCEPT !.pc = "load"]
    BY <2>3
  <2>5. CASE /\ Load(m)
             /\ FundsSuffice(call[m].cmd.type, call[m].cmd.amount, Row(call[m].cmd.bucket))
             /\ t = [call[m] EXCEPT
                   !.pc = "saveEntry",
                   !.next = ApplyCommand(call[m].cmd.type, call[m].cmd.amount,
                                         ReversedType(call[m].cmd), Row(call[m].cmd.bucket)),
                   !.missing = unapplied \cap KeysOf(call[m].cmd.bucket)]
    <3>1. /\ t.pc = "saveEntry" /\ t.cmd = call[m].cmd
          /\ t.next = ApplyCommand(call[m].cmd.type, call[m].cmd.amount,
                                   ReversedType(call[m].cmd), Row(call[m].cmd.bucket))
          /\ t.missing = unapplied \cap KeysOf(call[m].cmd.bucket)
      BY <2>2, <2>5
    <3>2. Active(m)
      BY <2>5 DEF Load, Active
    <3> QED BY <2>5, <3>1, <3>2
  <2>6. CASE /\ SaveEntry(m) /\ Adds(call[m].cmd)
             /\ unapplied' = unapplied \cup {call[m].cmd.key}
             /\ UNCHANGED <<outbox, outcome>>
             /\ t = [call[m] EXCEPT !.pc = "saveBalance"]
    <3>1. /\ t.pc = "saveBalance" /\ t.cmd = call[m].cmd
          /\ t.next = call[m].next /\ t.missing = call[m].missing
      BY <2>2, <2>6
    <3> QED BY <2>6, <3>1
  <2> QED BY <1>2, <1>6, <2>4, <2>5, <2>6, CallSteps
<1> QED BY <1>1, <1>3, <1>4, <1>5, <1>6, CallFrame

\* What a call holds between its load and its last save stays true of its bucket.
LEMMA LoadedStep == LedgerInv /\ ReadModelInv /\ [Next]_vars => LoadedInv'
<1> SUFFICES ASSUME LedgerInv, ReadModelInv, [Next]_vars,
                    NEW m \in CallIds, call'[m].pc \in {"saveEntry", "saveBalance"}
             PROVE  Loaded(call[m])'
  BY DEF LoadedInv
<1>1. PICK t : t = call'[m]
  OBVIOUS
<1>2. CASE t = call[m] /\ Saving(m)
  BY <1>1, <1>2, LoadedStays
<1>3. CASE /\ Load(m) /\ Active(m) /\ t.pc = "saveEntry" /\ t.cmd = call[m].cmd
           /\ FundsSuffice(t.cmd.type, t.cmd.amount, Row(t.cmd.bucket))
           /\ t.next = ApplyCommand(t.cmd.type, t.cmd.amount, ReversedType(t.cmd),
                                    Row(t.cmd.bucket))
           /\ t.missing = unapplied \cap KeysOf(t.cmd.bucket)
  <2>1. Loaded(t)'
    BY <1>1, <1>3, LoadLoads
  <2> QED BY <1>1, <2>1
<1>4. CASE /\ SaveEntry(m) /\ Adds(call[m].cmd) /\ t.pc = "saveBalance"
           /\ t.cmd = call[m].cmd /\ t.next = call[m].next /\ t.missing = call[m].missing
           /\ unapplied' = unapplied \cup {t.cmd.key}
  <2>1. Loaded(t)'
    BY <1>1, <1>4, SavedEntryLoaded
  <2> QED BY <1>1, <2>1
<1> QED BY <1>1, <1>2, <1>3, <1>4, SaverSteps

\* Two buckets share no key.
LEMMA KeysApart ==
  ASSUME LedgerInv, NEW d, NEW i \in 1..Len(entries), entries[i].bucket # d
  PROVE  entries[i].key \notin KeysOf(d)
BY DEF LedgerInv, OneEntryPerKey, KeysOf

\* The row of one bucket is replaced, the others stay.
LEMMA OneRow ==
  ASSUME LedgerInv, NEW d \in Buckets, NEW bal, bal # None,
         rows' = [rows EXCEPT ![d] = bal]
  PROVE  \A b \in Buckets : Row(b)' = IF b = d THEN bal ELSE Row(b)
BY DEF LedgerInv, TypeOK, Row

\* What the last save of a call does to the rows and to what is missing.
LEMMA SavedRowFacts ==
  ASSUME LedgerInv, ReadModelInv, NEW n \in CallIds, SavedRow(n), Saving(n)
  PROVE  /\ call[n].cmd \in Commands /\ Loaded(call[n])
         /\ \A b \in Buckets :
              Row(b)' = IF b = call[n].cmd.bucket THEN call[n].next ELSE Row(b)
         /\ unapplied' = (unapplied \ (KeysOf(call[n].cmd.bucket) \cup {call[n].cmd.key}))
                           \cup call[n].missing
<1>1. call[n].cmd \in Commands /\ call[n] \in CallState
  BY AddsAlone DEF ReadModelInv
<1>2. call[n].next # None /\ call[n].cmd.bucket \in Buckets
  BY <1>1, CommandFields, NoneAssumption DEF CallState
<1>3. \A b \in Buckets : Row(b)' = IF b = call[n].cmd.bucket THEN call[n].next ELSE Row(b)
  BY <1>2, OneRow DEF SavedRow
<1>4. Loaded(call[n])
  BY DEF ReadModelInv, LoadedInv, Saving
<1> QED BY <1>1, <1>3, <1>4 DEF SavedRow

\* A call that saved its entry finds its key among those of its bucket.
LEMMA OwnKey ==
  ASSUME NEW t, Loaded(t), t.pc = "saveBalance"
  PROVE  t.cmd.key \in KeysOf(t.cmd.bucket)
<1>1. PICK i \in 1..Len(entries) : entries[i] = EntryOf(t.cmd)
  BY DEF Loaded
<1>2. entries[i].key = t.cmd.key /\ entries[i].bucket = t.cmd.bucket
  BY <1>1 DEF EntryOf
<1> QED BY <1>2 DEF KeysOf

\* A bucket whose row and entries a step leaves alone still has the row its entries give.
LEMMA RowFollows ==
  ASSUME LedgerInv, ReadModelFollowsLedger, NEW b \in Buckets, Row(b)' = Row(b),
         Project(entries', b, unapplied') = Project(entries, b, unapplied'),
         \A i \in 1..Len(entries) : entries[i].bucket = b =>
           (entries[i].key \in unapplied <=> entries[i].key \in unapplied')
  PROVE  Row(b)' = Project(entries, b, unapplied)'
<1>1. entries \in Seq(Entry)
  BY NowFacts
<1>2. Project(entries, b, unapplied) = Project(entries, b, unapplied')
  BY <1>1, ProjectOmit
<1> QED BY <1>2 DEF ReadModelFollowsLedger

\* Every step that changes a row, the entries or what is missing keeps the row a projection.
LEMMA ReadModelStep == LedgerInv /\ ReadModelInv /\ [Next]_vars => ReadModelFollowsLedger'
<1> SUFFICES ASSUME LedgerInv, ReadModelInv, [Next]_vars, NEW b \in Buckets
             PROVE  Row(b)' = Project(entries, b, unapplied)'
  BY DEF ReadModelFollowsLedger
<1>1. /\ ReadModelFollowsLedger /\ EntriesInv /\ CommandsInv /\ entries \in Seq(Entry)
      /\ Len(entries) \in Nat
  BY NowFacts DEF ReadModelInv
<1>2. CASE UNCHANGED <<entries, rows, unapplied>>
  BY <1>1, <1>2 DEF ReadModelFollowsLedger, Row
<1>3. ASSUME NEW n \in CallIds, SaveEntry(n), Adds(call[n].cmd),
             unapplied' = unapplied \cup {call[n].cmd.key}
      PROVE  Row(b)' = Project(entries, b, unapplied)'
  <2>1. Saving(n)
    BY <1>3 DEF SaveEntry, Saving
  <2>2. PICK c \in Commands : c = call[n].cmd
    BY <1>1, <2>1, AddsAlone
  <2>3. /\ AmountAdmissible(c.type, c.amount)
        /\ c.reversalOf # None => Existing(c.reversalOf) # {}
    BY <1>1, <2>1, <2>2, AddsAlone
  <2>4. Adds(c) /\ c.key \in unapplied'
    BY <1>3, <2>2
  <2>5. Project(entries', b, unapplied') = Project(entries, b, unapplied')
    BY <1>1, <2>3, <2>4, ProjectAdds
  <2>6. \A i \in 1..Len(entries) : entries[i].key # c.key
    BY <2>4, AddsFacts
  <2>7. Row(b)' = Row(b)
    BY <1>3 DEF SaveEntry, Row
  <2> QED BY <1>1, <1>3, <2>2, <2>5, <2>6, <2>7, RowFollows
<1>4. ASSUME NEW n \in CallIds, SavedRow(n), Saving(n)
      PROVE  /\ call[n].cmd \in Commands /\ Loaded(call[n])
             /\ Row(b)' = IF b = call[n].cmd.bucket THEN call[n].next ELSE Row(b)
             /\ unapplied' = (unapplied \ (KeysOf(call[n].cmd.bucket) \cup {call[n].cmd.key}))
                               \cup call[n].missing
  BY <1>4, SavedRowFacts
<1>5. ASSUME NEW n \in CallIds, SaveBalance(n)
      PROVE  Row(b)' = Project(entries, b, unapplied)'
  <2>1. Saving(n) /\ SavedRow(n) /\ call[n].pc = "saveBalance" /\ entries' = entries
    BY <1>5 DEF SaveBalance, Saving
  <2>2. PICK t : t = call[n]
    OBVIOUS
  <2>3. /\ t.cmd \in Commands /\ Loaded(t) /\ t.pc = "saveBalance"
        /\ Row(b)' = IF b = t.cmd.bucket THEN t.next ELSE Row(b)
        /\ unapplied' = (unapplied \ (KeysOf(t.cmd.bucket) \cup {t.cmd.key})) \cup t.missing
    BY <1>4, <2>1, <2>2
  <2>4. /\ t.missing \subseteq KeysOf(t.cmd.bucket)
        /\ t.next = Project(entries, t.cmd.bucket, t.missing)
    BY <2>3 DEF Loaded
  <2>5. t.cmd.key \in KeysOf(t.cmd.bucket)
    BY <2>3, OwnKey
  <2>6. CASE b = t.cmd.bucket
    <3>1. \A i \in 1..Len(entries) : entries[i].bucket = b =>
            (entries[i].key \in t.missing <=> entries[i].key \in unapplied')
      BY <2>3, <2>6 DEF KeysOf
    <3>2. Project(entries, b, t.missing) = Project(entries, b, unapplied')
      BY <1>1, <3>1, ProjectOmit
    <3> QED BY <2>1, <2>3, <2>4, <2>6, <3>2
  <2>7. CASE b # t.cmd.bucket
    <3>1. \A i \in 1..Len(entries) : entries[i].bucket = b =>
            entries[i].key \notin KeysOf(t.cmd.bucket)
      BY <2>7, KeysApart
    <3>2. \A i \in 1..Len(entries) : entries[i].bucket = b =>
            (entries[i].key \in unapplied <=> entries[i].key \in unapplied')
      BY <2>3, <2>4, <2>5, <3>1
    <3> QED BY <1>1, <2>1, <2>3, <2>7, <3>2, RowFollows
  <2> QED BY <2>6, <2>7
<1>6. ASSUME NEW n \in CallIds, Commit(n), Adds(call[n].cmd)
      PROVE  Row(b)' = Project(entries, b, unapplied)'
  <2>1. Saving(n) /\ SavedRow(n) /\ call[n].pc = "saveEntry"
    BY <1>6 DEF Commit, Saving
  <2>2. PICK t : t = call[n]
    OBVIOUS
  <2>3. /\ t.cmd \in Commands /\ Loaded(t) /\ t.pc = "saveEntry"
        /\ Row(b)' = IF b = t.cmd.bucket THEN t.next ELSE Row(b)
        /\ unapplied' = (unapplied \ (KeysOf(t.cmd.bucket) \cup {t.cmd.key})) \cup t.missing
    BY <1>4, <2>1, <2>2
  <2>4. /\ t.missing \subseteq KeysOf(t.cmd.bucket)
        /\ t.next = ApplyCommand(t.cmd.type, t.cmd.amount, ReversedType(t.cmd),
                                 Project(entries, t.cmd.bucket, t.missing))
    BY <2>3 DEF Loaded
  <2>5. /\ AmountAdmissible(t.cmd.type, t.cmd.amount) /\ Adds(t.cmd)
        /\ t.cmd.reversalOf # None => Existing(t.cmd.reversalOf) # {}
    BY <1>1, <1>6, <2>1, <2>2, AddsAlone
  <2>6. t.cmd.key \notin KeysOf(t.cmd.bucket)
    BY <2>5 DEF Adds, Existing, KeysOf
  <2>7. /\ b # t.cmd.bucket => Project(entries', b, unapplied') = Project(entries, b, unapplied')
        /\ Project(entries', t.cmd.bucket, t.missing) = t.next
    BY <1>1, <2>3, <2>4, <2>5, <2>6, ProjectAdds, SMTT(30)
  <2>8. CASE b = t.cmd.bucket
    <3>1. entries' \in Seq(Entry)
      BY TypeStep DEF LedgerInv, TypeOK
    <3>2. \A i \in 1..Len(entries') : entries'[i].bucket = b =>
            (entries'[i].key \in t.missing <=> entries'[i].key \in unapplied')
      <4>1. KeysOf(b)' = KeysOf(b) \cup {t.cmd.key}
        BY <2>3, <2>5, <2>8, AddsFacts
      <4>2. \A i \in 1..Len(entries') : entries'[i].bucket = b => entries'[i].key \in KeysOf(b)'
        BY DEF KeysOf
      <4> QED BY <2>3, <2>8, <4>1, <4>2
    <3>3. Project(entries', b, t.missing) = Project(entries', b, unapplied')
      BY <3>1, <3>2, ProjectOmit
    <3> QED BY <2>3, <2>7, <2>8, <3>3
  <2>9. CASE b # t.cmd.bucket
    <3>1. \A i \in 1..Len(entries) : entries[i].bucket = b =>
            entries[i].key \notin KeysOf(t.cmd.bucket)
      BY <2>9, KeysApart
    <3>2. \A i \in 1..Len(entries) : entries[i].key # t.cmd.key
      BY <2>3, <2>5, AddsFacts
    <3>3. \A i \in 1..Len(entries) : entries[i].bucket = b =>
            (entries[i].key \in unapplied <=> entries[i].key \in unapplied')
      BY <2>3, <2>4, <3>1, <3>2
    <3> QED BY <1>1, <2>3, <2>7, <2>9, <3>3, RowFollows
  <2> QED BY <2>8, <2>9
<1>7. CASE RebuildCreateRow
  <2>1. PICK d : d = rebuild.bucket
    OBVIOUS
  <2>2. /\ d \in Buckets /\ rows' = [rows EXCEPT ![d] = ZeroBalance]
        /\ unapplied' = unapplied \cup KeysOf(d) /\ entries' = entries
    BY <1>7, <2>1 DEF RebuildCreateRow, LedgerInv, TypeOK
  <2>3. Row(b)' = IF b = d THEN ZeroBalance ELSE Row(b)
    BY <2>2, OneRow, ZeroBalanceType, NoneAssumption
  <2>4. CASE b = d
    <3>1. \A i \in 1..Len(entries) : entries[i].bucket = b => entries[i].key \in unapplied'
      BY <2>2, <2>4 DEF KeysOf
    <3>2. Project(entries, b, unapplied') = ZeroBalance
      BY <1>1, <3>1, ProjectNothing
    <3> QED BY <2>2, <2>3, <2>4, <3>2
  <2>5. CASE b # d
    <3>1. \A i \in 1..Len(entries) : entries[i].bucket = b => entries[i].key \notin KeysOf(d)
      BY <2>5, KeysApart
    <3> QED BY <1>1, <2>2, <2>3, <2>5, <3>1, RowFollows
  <2> QED BY <2>4, <2>5
<1> QED BY <1>2, <1>3, <1>5, <1>6, <1>7, TableSteps

\* The read model of the empty ledger is the projection of no entries.
LEMMA ReadModelInit == Init => ReadModelInv
<1> SUFFICES ASSUME Init PROVE ReadModelInv
  OBVIOUS
<1>1. \A n \in CallIds : call[n] = NoCall
  BY DEF Init
<1>2. entries = <<>> /\ Len(entries) = 0 /\ entries \in Seq(Entry)
  BY DEF Init
<1>3. EntriesInv
  BY <1>2 DEF EntriesInv
<1>4. CommandsInv /\ LoadedInv
  BY <1>1, NoCallType DEF CommandsInv, LoadedInv, Active
<1>5. \A b \in Buckets : Row(b) = ZeroBalance
  BY DEF Init, Row
<1>6. ASSUME NEW b PROVE Project(entries, b, unapplied) = ZeroBalance
  <2>1. \A i \in 1..Len(entries) : FALSE
    BY <1>2
  <2> QED BY <1>2, <2>1, ProjectNothing
<1> QED BY <1>3, <1>4, <1>5, <1>6 DEF ReadModelInv, ReadModelFollowsLedger

\* In every behaviour rows, entries and calls agree.
LEMMA ReadModelInvariance == Spec => [](LedgerInv /\ ReadModelInv)
<1>1. Init => LedgerInv /\ ReadModelInv
  BY InitInv, ReadModelInit
<1>2. LedgerInv /\ ReadModelInv /\ [Next]_vars => LedgerInv' /\ ReadModelInv'
  BY InvStep, EntriesStep, CommandsStep, LoadedStep, ReadModelStep DEF ReadModelInv
<1> QED BY <1>1, <1>2, PTL DEF Spec

\* However calls, failed saves and crashes interleave, with one lock or one per bucket, a row
\* is what projectBalanceFromEntries computes from the entries whose row was saved: no mutation
\* overwrites another's update, and applyMutation and the rebuild compute the same balance.
\* Left out are entries whose row is not saved, and those that a rebuild's zero row wiped out.
THEOREM ReadModelIsProjection == Spec => []ReadModelFollowsLedger
<1>1. ReadModelInv => ReadModelFollowsLedger
  BY DEF ReadModelInv
<1> QED BY <1>1, ReadModelInvariance, PTL

-----------------------------------------------------------------------------
(* Without rebuilds. *)

\* The effect of a call's last save: its row, as if computed now, and its entry no longer missing.
LEMMA SaveTakesEffect ==
  ASSUME LedgerInv, ReadModelInv, FreshInv, NEW n \in CallIds,
         SaveBalance(n) \/ (Commit(n) /\ Adds(call[n].cmd)),
         NEW c, c = call[n].cmd
  PROVE  /\ c \in Commands /\ AmountAdmissible(c.type, c.amount)
         /\ FundsSuffice(c.type, c.amount, Row(c.bucket))
         /\ \A b \in Buckets :
              Row(b)' = IF b = c.bucket
                        THEN ApplyCommand(c.type, c.amount, ReversedType(c), Row(c.bucket))
                        ELSE Row(b)
         /\ unapplied' = unapplied \ {c.key}
         /\ SaveBalance(n) => /\ entries' = entries /\ c.key \in unapplied
                              /\ \E i \in 1..Len(entries) : entries[i] = EntryOf(c)
<1>1. Saving(n) /\ SavedRow(n)
  BY DEF SaveBalance, Commit, Saving
<1>2. PICK t : t = call[n]
  OBVIOUS
<1>3. /\ t.cmd = c /\ Fresh(t) /\ Loaded(t) /\ c \in Commands
      /\ \A b \in Buckets : Row(b)' = IF b = c.bucket THEN t.next ELSE Row(b)
      /\ unapplied' = (unapplied \ (KeysOf(c.bucket) \cup {c.key})) \cup t.missing
  BY <1>1, <1>2, SavedRowFacts DEF FreshInv, Saving
<1>4. AmountAdmissible(c.type, c.amount)
  BY <1>1, AddsAlone DEF ReadModelInv
<1>5. unapplied' = unapplied \ {c.key}
  <2>1. CASE SaveBalance(n)
    <3>1. t.missing = (unapplied \ {c.key}) \cap KeysOf(c.bucket)
      BY <1>2, <1>3, <2>1 DEF SaveBalance, Fresh
    <3> QED BY <1>3, <3>1
  <2>2. CASE Commit(n) /\ Adds(c)
    <3>1. t.missing = unapplied \cap KeysOf(c.bucket)
      BY <1>2, <1>3, <2>2 DEF Commit, Fresh
    <3>2. c.key \notin KeysOf(c.bucket)
      BY <2>2 DEF Adds, Existing, KeysOf
    <3> QED BY <1>3, <3>1, <3>2
  <2> QED BY <2>1, <2>2
<1>6. SaveBalance(n) => /\ entries' = entries /\ c.key \in unapplied
                        /\ \E i \in 1..Len(entries) : entries[i] = EntryOf(c)
  BY <1>2, <1>3 DEF SaveBalance, Fresh, Loaded
<1> QED BY <1>3, <1>4, <1>5, <1>6 DEF Fresh

\* A call that saves and does not move keeps what it loaded fresh.
LEMMA FreshStays ==
  ASSUME LedgerInv, ReadModelInv, FreshInv, [Next]_vars,
         NEW m \in CallIds, Saving(m), call'[m] = call[m]
  PROVE  Fresh(call[m])'
<1>1. /\ EntriesInv /\ CommandsInv /\ Fresh(call[m]) /\ Loaded(call[m])
      /\ entries \in Seq(Entry) /\ Len(entries) \in Nat
  BY NowFacts DEF ReadModelInv, LoadedInv, FreshInv, Saving
<1>2. PICK t : t = call[m] /\ t = call'[m]
  OBVIOUS
<1>3. /\ t.cmd \in Commands /\ t.cmd.bucket \in Buckets
      /\ t.cmd.reversalOf # None => Existing(t.cmd.reversalOf) # {}
  BY <1>1, <1>2, AddsAlone, CommandFields
<1>4. ASSUME Row(t.cmd.bucket)' = Row(t.cmd.bucket),
             ReversedType(t.cmd)' = ReversedType(t.cmd),
             KeysOf(t.cmd.bucket)' = KeysOf(t.cmd.bucket),
             \A k \in KeysOf(t.cmd.bucket) : k \in unapplied' <=> k \in unapplied
      PROVE  Fresh(call[m])'
  <2>1. t.pc = "saveBalance" => t.cmd.key \in KeysOf(t.cmd.bucket)
    BY <1>1, <1>2, OwnKey
  <2>2. Fresh(t)
    BY <1>1, <1>2
  <2>3. Fresh(t)'
    BY <1>4, <2>1, <2>2 DEF Fresh
  <2> QED BY <1>2, <2>3
<1>5. CASE UNCHANGED <<entries, rows, unapplied>>
  <2>1. /\ Row(t.cmd.bucket)' = Row(t.cmd.bucket)
        /\ ReversedType(t.cmd)' = ReversedType(t.cmd)
        /\ KeysOf(t.cmd.bucket)' = KeysOf(t.cmd.bucket)
    BY <1>5 DEF Row, ReversedType, Existing, KeysOf
  <2> QED BY <1>4, <1>5, <2>1
<1>6. ASSUME NEW n \in CallIds, Saving(n), n # m, NEW c, c = call[n].cmd, Adds(c)
      PROVE  /\ c.bucket # t.cmd.bucket /\ c.key \notin KeysOf(t.cmd.bucket)
             /\ ReversedType(t.cmd)' = ReversedType(t.cmd)
             /\ KeysOf(t.cmd.bucket)' = KeysOf(t.cmd.bucket)
  <2>1. c.bucket # t.cmd.bucket /\ c \in Commands
    BY <1>1, <1>2, <1>6, AddsAlone
  <2>2. c.key \notin KeysOf(t.cmd.bucket)
    BY <1>6 DEF Adds, Existing, KeysOf
  <2>3. \A d \in Commands : (d.reversalOf # None => Existing(d.reversalOf) # {}) =>
          ReversedType(d)' = ReversedType(d)
    BY <1>6, <2>1, ReversedTypeStays
  <2>4. \A b : KeysOf(b)' = IF b = c.bucket THEN KeysOf(b) \cup {c.key} ELSE KeysOf(b)
    BY <1>6, <2>1, AddsFacts
  <2>5. ReversedType(t.cmd)' = ReversedType(t.cmd)
    BY <1>3, <2>3
  <2>6. KeysOf(t.cmd.bucket)' = KeysOf(t.cmd.bucket)
    BY <1>2, <2>1, <2>4
  <2> QED BY <2>1, <2>2, <2>5, <2>6
<1>7. ASSUME NEW n \in CallIds, SaveEntry(n), Adds(call[n].cmd),
             unapplied' = unapplied \cup {call[n].cmd.key}
      PROVE  Fresh(call[m])'
  <2>1. Saving(n) /\ n # m
    BY <1>7, SaverMoves DEF SaveEntry, Saving
  <2>2. Row(t.cmd.bucket)' = Row(t.cmd.bucket)
    BY <1>2, <1>7 DEF SaveEntry, Row
  <2> QED BY <1>4, <1>6, <1>7, <2>1, <2>2
<1>8. ASSUME NEW n \in CallIds, SaveBalance(n) \/ (Commit(n) /\ Adds(call[n].cmd))
      PROVE  Fresh(call[m])'
  <2>1. Saving(n) /\ n # m
    BY <1>8, SaverMoves DEF SaveBalance, Commit, Saving
  <2>2. PICK c : c = call[n].cmd
    OBVIOUS
  <2>3. c.bucket # t.cmd.bucket
    BY <1>1, <1>2, <2>1, <2>2, AddsAlone
  <2>4. /\ Row(t.cmd.bucket)' = Row(t.cmd.bucket)
        /\ unapplied' = unapplied \ {c.key}
        /\ SaveBalance(n) => /\ entries' = entries
                             /\ \E i \in 1..Len(entries) : entries[i] = EntryOf(c)
    BY <1>3, <1>8, <2>2, <2>3, SaveTakesEffect
  <2>5. CASE SaveBalance(n)
    <3>1. PICK i \in 1..Len(entries) : entries[i] = EntryOf(c)
      BY <2>4, <2>5
    <3>2. entries[i].key = c.key /\ entries[i].bucket = c.bucket
      BY <3>1 DEF EntryOf
    <3>3. c.key \notin KeysOf(t.cmd.bucket)
      BY <2>3, <3>2, KeysApart
    <3>4. ReversedType(t.cmd)' = ReversedType(t.cmd) /\ KeysOf(t.cmd.bucket)' = KeysOf(t.cmd.bucket)
      BY <1>2, <2>4, <2>5 DEF ReversedType, Existing, KeysOf
    <3> QED BY <1>4, <2>4, <3>3, <3>4
  <2>6. CASE Commit(n) /\ Adds(c)
    BY <1>4, <1>6, <2>1, <2>2, <2>4, <2>6
  <2> QED BY <1>8, <2>2, <2>5, <2>6
<1>9. ~RebuildCreateRow
  BY DEF FreshInv, NoRebuild, RebuildCreateRow
<1> QED BY <1>5, <1>7, <1>8, <1>9, TableSteps

\* As long as no rebuild starts, what a call loaded stays fresh until it saves it.
LEMMA FreshStep ==
  ASSUME RebuildBuckets = {}
  PROVE  LedgerInv /\ ReadModelInv /\ FreshInv /\ [Next]_vars => FreshInv'
<1> SUFFICES ASSUME LedgerInv, ReadModelInv, FreshInv, [Next]_vars PROVE FreshInv'
  OBVIOUS
<1>1. rebuild' = NoRebuild
  <2>1. rebuild = NoRebuild /\ NoRebuild.bucket = None /\ NoRebuild.expected = None
        /\ NoRebuild.creating = FALSE
    BY DEF FreshInv, NoRebuild
  <2>2. ~Rebuild
    BY <2>1 DEF Rebuild, RebuildReadEntries, RebuildReadRow, RebuildCreateRow, RebuildCompare
  <2> QED BY <2>1, <2>2 DEF Next, vars, Call, Mutate, Acquire, Lookup, Load, SaveEntry,
             SaveBalance, Commit, SaveFails, Publish, PauseReservations, Crash
<1>2. ASSUME NEW m \in CallIds, call'[m].pc \in {"saveEntry", "saveBalance"}
      PROVE  Fresh(call[m])'
  <2>1. PICK t : t = call'[m]
    OBVIOUS
  <2>2. CASE t = call[m] /\ Saving(m)
    BY <2>1, <2>2, FreshStays
  <2>3. CASE /\ Load(m) /\ Active(m) /\ t.pc = "saveEntry" /\ t.cmd = call[m].cmd
             /\ FundsSuffice(t.cmd.type, t.cmd.amount, Row(t.cmd.bucket))
             /\ t.next = ApplyCommand(t.cmd.type, t.cmd.amount, ReversedType(t.cmd),
                                      Row(t.cmd.bucket))
             /\ t.missing = unapplied \cap KeysOf(t.cmd.bucket)
    <3>1. Fresh(t)
      BY <2>3 DEF Fresh
    <3>2. UNCHANGED <<entries, rows, unapplied>>
      BY <2>3 DEF Load
    <3>3. Fresh(t)'
      BY <3>1, <3>2 DEF Fresh, Row, ReversedType, Existing, KeysOf
    <3> QED BY <2>1, <3>3
  <2>4. CASE /\ SaveEntry(m) /\ Adds(call[m].cmd) /\ t.pc = "saveBalance"
             /\ t.cmd = call[m].cmd /\ t.next = call[m].next /\ t.missing = call[m].missing
             /\ unapplied' = unapplied \cup {t.cmd.key}
    <3>1. call[m].pc = "saveEntry" /\ Saving(m) /\ rows' = rows
      BY <2>4 DEF SaveEntry, Saving
    <3>2. Fresh(call[m]) /\ CommandsInv
      BY <3>1 DEF FreshInv, ReadModelInv
    <3>3. PICK c \in Commands : c = t.cmd
      BY <2>4, <3>1, <3>2, AddsAlone
    <3>4. c.reversalOf # None => Existing(c.reversalOf) # {}
      BY <2>4, <3>1, <3>2, <3>3, AddsAlone
    <3>5. Adds(c)
      BY <2>4, <3>3
    <3>6. KeysOf(c.bucket)' = KeysOf(c.bucket) \cup {c.key}
      BY <3>5, AddsFacts
    <3>7. c.key \notin KeysOf(c.bucket)
      BY <3>5 DEF Adds, Existing, KeysOf
    <3>8. ReversedType(c)' = ReversedType(c)
      BY <3>4, <3>5, ReversedTypeStays
    <3>9. Row(c.bucket)' = Row(c.bucket)
      BY <3>1 DEF Row
    <3>10. /\ FundsSuffice(c.type, c.amount, Row(c.bucket))
           /\ t.next = ApplyCommand(c.type, c.amount, ReversedType(c), Row(c.bucket))
           /\ t.missing = unapplied \cap KeysOf(c.bucket)
      BY <2>4, <3>1, <3>2, <3>3 DEF Fresh
    <3>11. t.missing = (unapplied' \ {c.key}) \cap KeysOf(c.bucket)'
      BY <2>4, <3>3, <3>6, <3>7, <3>10
    <3>12. Fresh(t)'
      BY <2>4, <3>3, <3>8, <3>9, <3>10, <3>11 DEF Fresh
    <3> QED BY <2>1, <3>12
  <2> QED BY <1>2, <2>1, <2>2, <2>3, <2>4, SaverSteps
<1> QED BY <1>1, <1>2 DEF FreshInv

\* Initially nothing is loaded, missing or rebuilt.
LEMMA FreshInit == Init => FreshInv /\ TogetherInv
<1> SUFFICES ASSUME Init PROVE FreshInv /\ TogetherInv
  OBVIOUS
<1>1. \A n \in CallIds : call[n] = NoCall
  BY DEF Init
<1> QED BY <1>1, NoCallType DEF Init, FreshInv, TogetherInv

\* In every behaviour without rebuilds calls save what they loaded, unchanged meanwhile.
LEMMA FreshInvariance ==
  ASSUME RebuildBuckets = {}
  PROVE  Spec => [](LedgerInv /\ ReadModelInv /\ FreshInv)
<1>1. Init => LedgerInv /\ ReadModelInv /\ FreshInv
  BY InitInv, ReadModelInit, FreshInit
<1>2. LedgerInv /\ ReadModelInv /\ FreshInv /\ [Next]_vars =>
        LedgerInv' /\ ReadModelInv' /\ FreshInv'
  BY InvStep, EntriesStep, CommandsStep, LoadedStep, ReadModelStep, FreshStep DEF ReadModelInv
<1> QED BY <1>1, <1>2, PTL DEF Spec

\* A transaction saves both or nothing.
LEMMA TogetherStep ==
  ASSUME RebuildBuckets = {}, UseTransaction
  PROVE  LedgerInv /\ ReadModelInv /\ FreshInv /\ TogetherInv /\ [Next]_vars => TogetherInv'
<1> SUFFICES ASSUME LedgerInv, ReadModelInv, FreshInv, TogetherInv, [Next]_vars
             PROVE  TogetherInv'
  OBVIOUS
<1>1. \A n \in CallIds : ~SaveEntry(n) /\ ~SaveBalance(n)
  BY DEF TogetherInv, SaveEntry, SaveBalance
<1>2. unapplied' = {}
  <2>1. ~RebuildCreateRow
    BY DEF FreshInv, NoRebuild, RebuildCreateRow
  <2>2. ASSUME NEW n \in CallIds, Commit(n), Adds(call[n].cmd) PROVE unapplied' = {}
    BY <2>2, SaveTakesEffect DEF TogetherInv
  <2> QED BY <1>1, <2>1, <2>2, TableSteps DEF TogetherInv
<1>3. ASSUME NEW m \in CallIds, call'[m].pc = "saveBalance" PROVE FALSE
  BY <1>1, <1>3, SaverSteps DEF TogetherInv
<1> QED BY <1>2, <1>3 DEF TogetherInv

\* While nothing fails, a call between its two saves is the only reason an entry is missing.
LEMMA WaitingStep ==
  ASSUME LedgerInv, ReadModelInv, FreshInv, [Next]_vars, ~UseTransaction,
         faults' = 0, unapplied = UnderWay
  PROVE  unapplied' = UnderWay'
<1>1. ~Crash /\ \A n \in CallIds : ~SaveFails(n)
  <2>1. faults \in Nat
    BY DEF LedgerInv, TypeOK
  <2> QED BY <2>1 DEF Crash, SaveFails
<1>2. ASSUME NEW n \in CallIds, SaveEntry(n), Adds(call[n].cmd)
      PROVE  UnderWay' = UnderWay \cup {call[n].cmd.key}
  <2>1. /\ call' = [call EXCEPT ![n].pc = "saveBalance"] /\ call \in [CallIds -> CallState]
        /\ call[n].pc = "saveEntry"
    BY <1>2 DEF SaveEntry, Replay, Adds, LedgerInv, TypeOK
  <2>2. \A m \in CallIds : m # n => call'[m] = call[m]
    BY <2>1
  <2>3. call'[n].pc = "saveBalance" /\ call'[n].cmd = call[n].cmd
    BY <2>1 DEF CallState
  <2> QED BY <2>1, <2>2, <2>3 DEF UnderWay
<1>3. ASSUME NEW n \in CallIds, SaveBalance(n)
      PROVE  UnderWay' = UnderWay \ {call[n].cmd.key}
  <2>1. /\ call' = [call EXCEPT ![n] = NoCall] /\ call \in [CallIds -> CallState]
        /\ call[n].pc = "saveBalance"
    BY <1>3 DEF SaveBalance, SavedRow, Finish, LedgerInv, TypeOK
  <2>2. \A m \in CallIds : m # n => call'[m] = call[m]
    BY <2>1
  <2>3. call'[n].pc # "saveBalance"
    BY <2>1, NoCallType
  <2>4. ASSUME NEW m \in CallIds, m # n, call[m].pc = "saveBalance"
        PROVE  call[m].cmd.key # call[n].cmd.key
    <3>1. Saving(m) /\ Saving(n) /\ call[m].cmd.bucket # call[n].cmd.bucket
      BY <2>1, <2>4, AddsAlone DEF ReadModelInv, Saving
    <3>2. Loaded(call[m]) /\ Loaded(call[n])
      BY <3>1 DEF ReadModelInv, LoadedInv, Saving
    <3>3. PICK i \in 1..Len(entries) : entries[i] = EntryOf(call[m].cmd)
      BY <2>4, <3>2 DEF Loaded
    <3>4. PICK j \in 1..Len(entries) : entries[j] = EntryOf(call[n].cmd)
      BY <2>1, <3>2 DEF Loaded
    <3>5. /\ entries[i].key = call[m].cmd.key /\ entries[i].bucket = call[m].cmd.bucket
          /\ entries[j].key = call[n].cmd.key /\ entries[j].bucket = call[n].cmd.bucket
      BY <3>3, <3>4 DEF EntryOf
    <3> QED BY <3>1, <3>5 DEF LedgerInv, OneEntryPerKey
  <2> QED BY <2>1, <2>2, <2>3, <2>4 DEF UnderWay
<1>4. ASSUME \A n \in CallIds : ~SaveBalance(n) /\ ~(SaveEntry(n) /\ Adds(call[n].cmd))
      PROVE  UnderWay' = UnderWay
  <2>1. ASSUME NEW m \in CallIds, call'[m].pc = "saveBalance" PROVE call'[m] = call[m]
    BY <1>4, <2>1, SaverSteps
  <2>2. ASSUME NEW m \in CallIds, call[m].pc = "saveBalance" PROVE call'[m] = call[m]
    <3>1. Active(m) /\ call \in [CallIds -> CallState] /\ m <= calls /\ calls \in Nat
      BY <2>2 DEF LedgerInv, TypeOK, Active
    <3>2. ASSUME NEW c \in Commands, Call(c) PROVE call'[m] = call[m]
      BY <3>1, <3>2 DEF Call
    <3>3. ASSUME NEW n \in CallIds, Mutate(n), n # m PROVE call'[m] = call[m]
      BY <3>3, CallSteps
    <3>4. ~Mutate(m)
      BY <1>4, <2>2 DEF Mutate, Acquire, Lookup, Load, SaveEntry, Commit
    <3>5. ASSUME \/ \E k \in Keys : Publish(k)
                 \/ \E b \in PauseBuckets : PauseReservations(b)
                 \/ \E b \in RebuildBuckets : RebuildStart(b)
                 \/ Rebuild \/ UNCHANGED vars
          PROVE  call' = call
      BY <3>5 DEF Publish, PauseReservations, RebuildStart, Rebuild, RebuildReadEntries,
                  RebuildReadRow, RebuildCreateRow, RebuildCompare, vars
    <3> QED BY <1>1, <3>2, <3>3, <3>4, <3>5 DEF Next
  <2> QED BY <2>1, <2>2 DEF UnderWay
<1>5. CASE UNCHANGED <<entries, rows, unapplied>>
  <2>1. ASSUME NEW n \in CallIds, SaveBalance(n) PROVE FALSE
    BY <1>5, <2>1, SaveTakesEffect
  <2>2. ASSUME NEW n \in CallIds, SaveEntry(n), Adds(call[n].cmd) PROVE FALSE
    <3>1. call[n].pc = "saveEntry" /\ Saving(n)
      BY <2>2 DEF SaveEntry, Saving
    <3>2. call[n].cmd \in Commands
      BY <3>1, AddsAlone DEF ReadModelInv
    <3>3. Len(entries') = Len(entries) + 1 /\ Len(entries) \in Nat
      BY <2>2, <3>2, AddsFacts, NowFacts
    <3> QED BY <1>5, <3>3
  <2> QED BY <1>4, <1>5, <2>1, <2>2
<1>6. ~RebuildCreateRow
  BY DEF FreshInv, NoRebuild, RebuildCreateRow
<1>7. ASSUME NEW n \in CallIds, SaveBalance(n) PROVE unapplied' = UnderWay'
  BY <1>3, <1>7, SaveTakesEffect
<1>8. \A n \in CallIds : ~Commit(n)
  BY DEF Commit
<1> QED BY <1>2, <1>5, <1>6, <1>7, <1>8, TableSteps

\* With transactions whatever fails, and without them as long as nothing fails, only the
\* entries of calls between their two saves are missing.
WaitingInv ==
  /\ UseTransaction => TogetherInv
  /\ faults = 0 => unapplied = UnderWay

\* As long as no rebuild sets a row back, an entry and its effect on the row take effect
\* together: with transactions wherever a save fails or the process dies, and on a database
\* used without them, as SQLite is, in every interleaving until a save fails or it dies.
THEOREM SavedTogether ==
  ASSUME RebuildBuckets = {}
  PROVE  Spec => []EntryAndBalanceTogether
<1>1. TogetherInv => unapplied = UnderWay
  BY DEF TogetherInv, UnderWay
<1>2. Init => WaitingInv
  BY <1>1, FreshInit DEF WaitingInv
<1>3. LedgerInv /\ ReadModelInv /\ FreshInv /\ WaitingInv /\ [Next]_vars => WaitingInv'
  <2> SUFFICES ASSUME LedgerInv, ReadModelInv, FreshInv, WaitingInv, [Next]_vars
               PROVE  WaitingInv'
    OBVIOUS
  <2>1. CASE UseTransaction
    <3>1. TogetherInv'
      BY <2>1, TogetherStep DEF WaitingInv
    <3> QED BY <2>1, <3>1 DEF WaitingInv, TogetherInv, UnderWay
  <2>2. CASE ~UseTransaction
    <3>1. faults' = 0 => faults = 0
      <4>1. faults \in Nat
        BY DEF LedgerInv, TypeOK
      <4>2. ASSUME Crash \/ \E n \in CallIds : SaveFails(n) PROVE faults' = faults + 1
        BY <4>2 DEF Crash, SaveFails
      <4>3. ASSUME \/ \E c \in Commands : Call(c)
                   \/ \E k \in Keys : Publish(k)
                   \/ \E b \in PauseBuckets : PauseReservations(b)
                   \/ \E b \in RebuildBuckets : RebuildStart(b)
                   \/ Rebuild \/ UNCHANGED vars
            PROVE  faults' = faults
        BY <4>3 DEF Call, Publish, PauseReservations, RebuildStart, Rebuild, RebuildReadEntries,
                    RebuildReadRow, RebuildCreateRow, RebuildCompare, vars
      <4>4. ASSUME NEW n \in CallIds, Mutate(n) PROVE faults' = faults
        BY <4>4 DEF Mutate, Acquire, Lookup, Load, SaveEntry, SaveBalance, Commit
      <4> QED BY <4>1, <4>2, <4>3, <4>4 DEF Next
    <3>2. faults' = 0 => unapplied' = UnderWay'
      BY <2>2, <3>1, WaitingStep DEF WaitingInv
    <3> QED BY <2>2, <3>2 DEF WaitingInv
  <2> QED BY <2>1, <2>2
<1>4. ReadModelInv /\ WaitingInv => EntryAndBalanceTogether
  BY <1>1 DEF ReadModelInv, ReadModelFollowsLedger, WaitingInv, EntryAndBalanceTogether
<1> QED BY <1>2, <1>3, <1>4, FreshInvariance, PTL DEF Spec

-----------------------------------------------------------------------------
(* The ledger seen through its read model is atomic. *)

\* The rules of the abstract ledger are those of the ledger.
LEMMA SameRules ==
  ASSUME NEW t, NEW a, NEW r, NEW bal
  PROVE  /\ Atomic!AmountAdmissible(t, a) = AmountAdmissible(t, a)
         /\ Atomic!SignedEntryAmount(t, a) = SignedEntryAmount(t, a)
         /\ Atomic!FundsSuffice(t, a, bal) = FundsSuffice(t, a, bal)
         /\ Atomic!ApplyCommand(t, a, r, bal) = ApplyCommand(t, a, r, bal)
<1>1. /\ Atomic!Credits = Credits /\ Atomic!AvailableDebits = AvailableDebits
      /\ Atomic!TradeSettles = TradeSettles /\ Atomic!SignedTypes = SignedTypes
      /\ Atomic!RealizedTypes = RealizedTypes /\ Atomic!FeeTypes = FeeTypes
  BY DEF Atomic!Credits, Credits, Atomic!AvailableDebits, AvailableDebits,
         Atomic!TradeSettles, TradeSettles, Atomic!SignedTypes, SignedTypes,
         Atomic!RealizedTypes, RealizedTypes, Atomic!FeeTypes, FeeTypes
<1>2. Atomic!AmountAdmissible(t, a) = AmountAdmissible(t, a)
  BY <1>1 DEF Atomic!AmountAdmissible, AmountAdmissible
<1>3. Atomic!SignedEntryAmount(t, a) = SignedEntryAmount(t, a)
  BY <1>1 DEF Atomic!SignedEntryAmount, SignedEntryAmount
<1>4. Atomic!NextAvailable(t, a, bal) = NextAvailable(t, a, bal)
  BY <1>1 DEF Atomic!NextAvailable, NextAvailable
<1>5. /\ Atomic!NextLocked(t, a, bal) = NextLocked(t, a, bal)
      /\ Atomic!NextExternalLocked(t, a, bal) = NextExternalLocked(t, a, bal)
  BY <1>1 DEF Atomic!NextLocked, NextLocked, Atomic!NextExternalLocked, NextExternalLocked,
              Atomic!Abs, Abs
<1>6. Atomic!FundsSuffice(t, a, bal) = FundsSuffice(t, a, bal)
  BY <1>4, <1>5 DEF Atomic!FundsSuffice, FundsSuffice
<1>7. Atomic!NextFeePaid(bal.feePaid, t, a, r) = NextFeePaid(bal.feePaid, t, a, r)
  BY <1>1 DEF Atomic!NextFeePaid, NextFeePaid, Atomic!Abs, Abs, Atomic!NonNeg, NonNeg
<1>8. Atomic!ReversalAffectsRealizedDelta(r) = ReversalAffectsRealizedDelta(r)
  BY <1>1 DEF Atomic!ReversalAffectsRealizedDelta, ReversalAffectsRealizedDelta
<1>9. Atomic!ApplyCommand(t, a, r, bal) = ApplyCommand(t, a, r, bal)
  BY <1>1, <1>3, <1>4, <1>5, <1>7, <1>8 DEF Atomic!ApplyCommand, ApplyCommand
<1> QED BY <1>2, <1>3, <1>6, <1>9

\* The book and the balances the ledger shows, for given tables.
Book(es, o) == {BookEntry(es[i]) : i \in {j \in 1..Len(es) : es[j].key \notin o}}

\* An entry that is missing adds nothing to the book, and the one that is applied is added.
LEMMA BookAfterSave ==
  ASSUME LedgerInv, NEW c \in Commands,
         NEW i \in 1..Len(entries), entries[i] = EntryOf(c)
  PROVE  Book(entries, unapplied \ {c.key}) =
           Book(entries, unapplied \cup {c.key}) \cup {BookEntry(EntryOf(c))}
<1>1. entries[i].key = c.key
  BY DEF EntryOf
<1>2. \A j \in 1..Len(entries) : entries[j].key = c.key <=> j = i
  BY <1>1 DEF LedgerInv, OneEntryPerKey
<1>3. {j \in 1..Len(entries) : entries[j].key \notin unapplied \ {c.key}} =
        {j \in 1..Len(entries) : entries[j].key \notin unapplied \cup {c.key}} \cup {i}
  BY <1>1, <1>2
<1> QED BY <1>3 DEF Book

\* A new entry that is missing leaves the book what it is.
LEMMA BookAfterAdd ==
  ASSUME LedgerInv, NEW c \in Commands, Adds(c), NEW o
  PROVE  /\ Book(entries', o \cup {c.key}) = Book(entries, o)
         /\ Book(entries', o \ {c.key}) = Book(entries, o) \cup {BookEntry(EntryOf(c))}
<1>1. /\ Len(entries) \in Nat /\ Len(entries') = Len(entries) + 1
      /\ \A i \in 1..Len(entries) : entries'[i] = entries[i] /\ entries[i].key # c.key
      /\ entries'[Len(entries) + 1] = EntryOf(c)
      /\ 1..Len(entries') = 1..Len(entries) \cup {Len(entries) + 1}
  BY NowFacts, AddsFacts
<1>2. EntryOf(c).key = c.key
  BY DEF EntryOf
<1>3. {j \in 1..Len(entries') : entries'[j].key \notin o \cup {c.key}} =
        {j \in 1..Len(entries) : entries[j].key \notin o}
  BY <1>1, <1>2
<1>4. {j \in 1..Len(entries') : entries'[j].key \notin o \ {c.key}} =
        {j \in 1..Len(entries) : entries[j].key \notin o} \cup {Len(entries) + 1}
  BY <1>1, <1>2
<1>5. \A j \in {j \in 1..Len(entries) : entries[j].key \notin o} : entries'[j] = entries[j]
  BY <1>1
<1>6. Book(entries', o \cup {c.key}) = Book(entries, o)
  BY <1>3, <1>5 DEF Book
<1>7. Book(entries', o \ {c.key}) = Book(entries, o) \cup {BookEntry(EntryOf(c))}
  BY <1>1, <1>4, <1>5 DEF Book
<1> QED BY <1>6, <1>7

\* Saving the row of a call is the abstract ledger's command.
LEMMA SaveIsApply ==
  ASSUME LedgerInv, ReadModelInv, FreshInv, [Next]_vars, NEW n \in CallIds,
         SaveBalance(n) \/ (Commit(n) /\ Adds(call[n].cmd)),
         NEW c, c = call[n].cmd
  PROVE  Atomic!AApply(c)
<1>1. /\ c \in Commands /\ AmountAdmissible(c.type, c.amount)
      /\ FundsSuffice(c.type, c.amount, Row(c.bucket))
      /\ \A b \in Buckets :
           Row(b)' = IF b = c.bucket
                     THEN ApplyCommand(c.type, c.amount, ReversedType(c), Row(c.bucket))
                     ELSE Row(b)
      /\ unapplied' = unapplied \ {c.key}
      /\ SaveBalance(n) => /\ entries' = entries /\ c.key \in unapplied
                           /\ \E i \in 1..Len(entries) : entries[i] = EntryOf(c)
  BY SaveTakesEffect
<1>2. c.bucket \in Buckets
  BY <1>1, CommandFields
<1>3. /\ EffectiveBook = Book(entries, unapplied)
      /\ EffectiveBook' = Book(entries', unapplied')
  BY DEF EffectiveBook, Book
<1>4. BookEntry(EntryOf(c)) =
        [ key |-> c.key, bucket |-> c.bucket, type |-> c.type,
          amount |-> SignedEntryAmount(c.type, c.amount), reversalOf |-> c.reversalOf ]
  BY DEF BookEntry, EntryOf
<1>5. EffectiveBook' = EffectiveBook \cup {BookEntry(EntryOf(c))}
  <2>1. CASE SaveBalance(n)
    <3>1. PICK i \in 1..Len(entries) : entries[i] = EntryOf(c)
      BY <1>1, <2>1
    <3>2. Book(entries, unapplied \ {c.key}) =
            Book(entries, unapplied \cup {c.key}) \cup {BookEntry(EntryOf(c))}
      BY <1>1, <3>1, BookAfterSave
    <3>3. unapplied \cup {c.key} = unapplied
      BY <1>1, <2>1
    <3> QED BY <1>1, <1>3, <2>1, <3>2, <3>3
  <2>2. CASE Commit(n) /\ Adds(c)
    BY <1>1, <1>3, <2>2, BookAfterAdd
  <2> QED BY <2>1, <2>2
<1>6. ~Atomic!Recorded(c.key)
  <2>1. \A i \in 1..Len(entries) : entries[i].key = c.key => c.key \in unapplied
    <3>1. CASE SaveBalance(n)
      BY <1>1, <3>1
    <3>2. CASE Commit(n) /\ Adds(c)
      BY <3>2 DEF Adds, Existing
    <3> QED BY <3>1, <3>2
  <2> QED BY <2>1 DEF Atomic!Recorded, EffectiveBook, BookEntry
<1>7. \E r \in EntryTypes \cup {NoType} :
        /\ \A e \in EffectiveBook : e.key = c.reversalOf => r = e.type
        /\ r = ReversedType(c)
  <2>1. \A i \in Existing(c.reversalOf) : ReversedType(c) = entries[i].type
    <3>1. \A i, j \in Existing(c.reversalOf) : i = j
      BY DEF Existing, LedgerInv, OneEntryPerKey
    <3> QED BY <3>1 DEF ReversedType
  <2>2. ReversedType(c) \in EntryTypes \cup {NoType}
    <3>1. \A i \in Existing(c.reversalOf) : entries[i].type \in EntryTypes
      BY NowFacts DEF Existing, Entry
    <3>2. CASE Existing(c.reversalOf) = {}
      BY <3>2 DEF ReversedType
    <3>3. CASE Existing(c.reversalOf) # {}
      BY <2>1, <3>1, <3>3
    <3> QED BY <3>2, <3>3
  <2>3. ASSUME NEW e \in EffectiveBook, e.key = c.reversalOf PROVE ReversedType(c) = e.type
    <3>1. PICK i \in 1..Len(entries) : e = BookEntry(entries[i])
      BY DEF EffectiveBook
    <3>2. i \in Existing(c.reversalOf) /\ e.type = entries[i].type
      BY <2>3, <3>1 DEF BookEntry, Existing
    <3> QED BY <2>1, <3>2
  <2> QED BY <2>2, <2>3
<1>8. [b \in Buckets |-> Row(b)]' =
        [[b \in Buckets |-> Row(b)] EXCEPT ![c.bucket] =
           ApplyCommand(c.type, c.amount, ReversedType(c), Row(c.bucket))]
  BY <1>1, <1>2
<1>9. [b \in Buckets |-> Row(b)][c.bucket] = Row(c.bucket)
  BY <1>2
<1>10. Atomic!EntryTypes = EntryTypes /\ Atomic!NoType = NoType
  BY DEF Atomic!EntryTypes, EntryTypes, Atomic!NoType, NoType
<1>11. /\ Atomic!AmountAdmissible(c.type, c.amount)
       /\ Atomic!FundsSuffice(c.type, c.amount, [b \in Buckets |-> Row(b)][c.bucket])
       /\ Atomic!SignedEntryAmount(c.type, c.amount) = SignedEntryAmount(c.type, c.amount)
       /\ Atomic!ApplyCommand(c.type, c.amount, ReversedType(c),
                              [b \in Buckets |-> Row(b)][c.bucket]) =
            ApplyCommand(c.type, c.amount, ReversedType(c), Row(c.bucket))
  BY <1>1, <1>9, SameRules
<1>12. \E r \in Atomic!EntryTypes \cup {Atomic!NoType} :
         /\ \A e \in EffectiveBook : e.key = c.reversalOf => r = e.type
         /\ [b \in Buckets |-> Row(b)]' =
              [[b \in Buckets |-> Row(b)] EXCEPT ![c.bucket] =
                 Atomic!ApplyCommand(c.type, c.amount, r,
                                     [b \in Buckets |-> Row(b)][c.bucket])]
  BY <1>7, <1>8, <1>10, <1>11
<1>13. EffectiveBook' = EffectiveBook \cup
         {[ key |-> c.key, bucket |-> c.bucket, type |-> c.type,
            amount |-> Atomic!SignedEntryAmount(c.type, c.amount),
            reversalOf |-> c.reversalOf ]}
  BY <1>4, <1>5, <1>11
<1> QED BY <1>6, <1>11, <1>12, <1>13 DEF Atomic!AApply

\* Every step of the ledger is a command of the abstract ledger or changes nothing it shows.
LEMMA StepIsAtomic ==
  LedgerInv /\ ReadModelInv /\ FreshInv /\ [Next]_vars => [Atomic!ANext]_(Atomic!avars)
<1> SUFFICES ASSUME LedgerInv, ReadModelInv, FreshInv, [Next]_vars
             PROVE  Atomic!ANext \/ UNCHANGED Atomic!avars
  OBVIOUS
<1>1. CASE UNCHANGED <<entries, rows, unapplied>>
  BY <1>1 DEF Atomic!avars, EffectiveBook, Row
<1>2. ASSUME NEW n \in CallIds, SaveEntry(n), Adds(call[n].cmd),
             unapplied' = unapplied \cup {call[n].cmd.key}
      PROVE  UNCHANGED Atomic!avars
  <2>1. PICK c \in Commands : c = call[n].cmd
    BY <1>2, AddsAlone DEF SaveEntry, Saving, ReadModelInv
  <2>2. EffectiveBook' = EffectiveBook
    <3>1. EffectiveBook = Book(entries, unapplied) /\ EffectiveBook' = Book(entries', unapplied')
      BY DEF EffectiveBook, Book
    <3> QED BY <1>2, <2>1, <3>1, BookAfterAdd
  <2>3. [b \in Buckets |-> Row(b)]' = [b \in Buckets |-> Row(b)]
    BY <1>2 DEF SaveEntry, Row
  <2> QED BY <2>2, <2>3 DEF Atomic!avars
<1>3. ASSUME NEW n \in CallIds, SaveBalance(n) \/ (Commit(n) /\ Adds(call[n].cmd))
      PROVE  Atomic!ANext
  <2>1. PICK c : c = call[n].cmd
    OBVIOUS
  <2>2. Atomic!AApply(c) /\ c \in Commands
    BY <1>3, <2>1, SaveIsApply, SaveTakesEffect
  <2> QED BY <2>2 DEF Atomic!ANext
<1>4. ~RebuildCreateRow
  BY DEF FreshInv, NoRebuild, RebuildCreateRow
<1> QED BY <1>1, <1>2, <1>3, <1>4, TableSteps

\* Through the lock, the two saves, replays, failed saves and crashes the ledger is an atomic
\* ledger: as long as no rebuild sets a row back, every command has its whole effect in one
\* step, at most once for its key, or none.
THEOREM LedgerIsAtomic ==
  ASSUME RebuildBuckets = {}
  PROVE  Spec => ImplementsAtomicLedger
<1>1. Init => Atomic!AInit
  <2>1. Atomic!ZeroBalance = ZeroBalance
    BY DEF Atomic!ZeroBalance, ZeroBalance
  <2> QED BY <2>1 DEF Init, Atomic!AInit, EffectiveBook, Row
<1> QED BY <1>1, FreshInvariance, StepIsAtomic, PTL
       DEF Spec, ImplementsAtomicLedger, Atomic!ASpec

-----------------------------------------------------------------------------
(* Success means a record. *)

\* Gas is debited with positive amounts: the only caller formats an amount it found positive.
\* The amount a replay is compared with is not negated for gas_debit, so a negative one could
\* meet the negated amount of another command's entry.
GasIsPositive == \A c \in Commands : c.type = "gas_debit" => c.amount > 0

\* A key that is recorded with the content a command is compared with is that command's record.
LEMMA ReplayFindsRecord ==
  ASSUME LedgerInv, EntriesInv, GasIsPositive, NEW c \in Commands, NEW i \in Existing(c.key),
         entries[i].hash = Content(c, SignedAmountForIdempotency(c.type, c.amount))
  PROVE  entries[i] = EntryOf(c)
<1>1. i \in 1..Len(entries) /\ entries[i].key = c.key
  BY DEF Existing
<1>2. PICK d \in Commands : Recording(i, d)
  BY <1>1 DEF EntriesInv
<1>3. /\ d.key = c.key
      /\ Content(d, SignedEntryAmount(d.type, d.amount)) =
           Content(c, SignedAmountForIdempotency(c.type, c.amount))
  BY <1>1, <1>2 DEF Recording, EntryOf
<1>4. /\ d.bucket = c.bucket /\ d.type = c.type /\ d.reversalOf = c.reversalOf
      /\ SignedEntryAmount(d.type, d.amount) = SignedAmountForIdempotency(c.type, c.amount)
  BY <1>3 DEF Content
<1>5. c.amount \in Int /\ d.amount \in Int
  BY CommandFields
<1>6. c.type # "gas_debit"
  <2> SUFFICES ASSUME c.type = "gas_debit" PROVE FALSE
    OBVIOUS
  <2>1. c.amount > 0 /\ d.amount > 0
    BY <1>4 DEF GasIsPositive
  <2>2. -d.amount = c.amount
    BY <1>4 DEF SignedEntryAmount, SignedAmountForIdempotency, AvailableDebits
  <2> QED BY <1>5, <2>1, <2>2
<1>7. SignedAmountForIdempotency(c.type, c.amount) = SignedEntryAmount(c.type, c.amount)
  BY <1>6 DEF SignedAmountForIdempotency, SignedEntryAmount
<1>8. EntryOf(d) = EntryOf(c)
  BY <1>3, <1>4, <1>7 DEF EntryOf, Content
<1> QED BY <1>2, <1>8 DEF Recording

\* How a mutation ends, and what it announces.
LEMMA EndSteps ==
  ASSUME LedgerInv, ReadModelInv, GasIsPositive, [Next]_vars
  PROVE  LET recorded(e) == \E i \in 1..Len(entries') : entries'[i] = e
             known(k) == \E i \in 1..Len(entries') : entries'[i].key = k
         IN  /\ \/ outcome' = outcome
                \/ outcome'.result \notin {"applied", "replayed"}
                \/ recorded(EntryOf(outcome'.cmd))
             /\ \A e \in outbox' : e \in outbox \/ e.key \in publishing \/ known(e.key)
             /\ \A k \in publishing' : k \in publishing \/ known(k)
<1> DEFINE recorded(e) == \E i \in 1..Len(entries') : entries'[i] = e
           known(k) == \E i \in 1..Len(entries') : entries'[i].key = k
           Claim == /\ \/ outcome' = outcome
                       \/ outcome'.result \notin {"applied", "replayed"}
                       \/ recorded(EntryOf(outcome'.cmd))
                    /\ \A e \in outbox' : e \in outbox \/ e.key \in publishing \/ known(e.key)
                    /\ \A k \in publishing' : k \in publishing \/ known(k)
<1>1. EntriesInv /\ CommandsInv
  BY DEF ReadModelInv
<1>2. ASSUME NEW n \in CallIds, Replay(n), call[n].cmd \in Commands, entries' = entries,
             publishing' = publishing,
             \/ UNCHANGED outbox
             \/ outbox' = outbox \cup {[topic |-> "conflict", key |-> call[n].cmd.key]}
      PROVE  Claim
  <2>1. PICK c \in Commands : c = call[n].cmd
    BY <1>2
  <2>2. PICK i \in Existing(c.key) :
          IF entries[i].hash = Content(c, SignedAmountForIdempotency(c.type, c.amount))
          THEN Finish(n, "replayed") /\ UNCHANGED outbox
          ELSE /\ Finish(n, "conflict")
               /\ outbox' = outbox \cup {[topic |-> "conflict", key |-> c.key]}
    BY <1>2, <2>1 DEF Replay
  <2>3. i \in 1..Len(entries) /\ entries[i].key = c.key
    BY DEF Existing
  <2>4. CASE entries[i].hash = Content(c, SignedAmountForIdempotency(c.type, c.amount))
    <3>1. entries[i] = EntryOf(c)
      BY <1>1, <2>4, ReplayFindsRecord
    <3>2. outcome'.cmd = c /\ outbox' = outbox
      BY <2>1, <2>2, <2>4 DEF Finish
    <3> QED BY <1>2, <2>3, <3>1, <3>2
  <2>5. CASE entries[i].hash # Content(c, SignedAmountForIdempotency(c.type, c.amount))
    <3>1. outcome'.result = "conflict"
      BY <2>2, <2>5 DEF Finish
    <3>2. outbox' = outbox \cup {[topic |-> "conflict", key |-> c.key]}
      BY <2>2, <2>5
    <3> QED BY <1>2, <2>3, <3>1, <3>2
  <2> QED BY <2>4, <2>5
<1>3. ASSUME NEW n \in CallIds, Lookup(n) PROVE Claim
  <2>1. call[n].cmd \in Commands
    BY <1>3, NowFacts DEF Lookup, Active
  <2>2. CASE Replay(n)
    BY <1>2, <1>3, <2>1, <2>2 DEF Lookup, Replay
  <2>3. CASE ~Replay(n)
    BY <1>3, <2>3 DEF Lookup, Finish
  <2> QED BY <2>2, <2>3
<1>4. ASSUME NEW n \in CallIds, SaveEntry(n) PROVE Claim
  <2>1. call[n].cmd \in Commands
    BY <1>4, NowFacts DEF SaveEntry, Active
  <2>2. CASE Replay(n) /\ entries' = entries
    BY <1>2, <1>4, <2>1, <2>2 DEF SaveEntry, Replay
  <2>3. CASE outcome' = outcome /\ outbox' = outbox
    BY <1>4, <2>3 DEF SaveEntry
  <2> QED BY <1>4, <2>2, <2>3 DEF SaveEntry
<1>5. ASSUME NEW n \in CallIds, SaveBalance(n) \/ (Commit(n) /\ Adds(call[n].cmd))
      PROVE  Claim
  <2>1. /\ Saving(n) /\ outbox' = outbox
        /\ publishing' = publishing \cup {call[n].cmd.key}
        /\ outcome'.cmd = call[n].cmd
    BY <1>5 DEF SaveBalance, Commit, Saving, SavedRow, Finish
  <2>2. PICK c \in Commands : c = call[n].cmd
    BY <1>1, <2>1, AddsAlone
  <2>3. EntryOf(c).key = c.key
    BY DEF EntryOf
  <2>4. \E i \in 1..Len(entries') : entries'[i] = EntryOf(c)
    <3>1. CASE SaveBalance(n)
      BY <2>1, <2>2, <3>1 DEF SaveBalance, ReadModelInv, LoadedInv, Loaded
    <3>2. CASE Commit(n) /\ Adds(c)
      BY <3>2, NowFacts, AddsFacts
    <3> QED BY <1>5, <2>2, <3>1, <3>2
  <2> QED BY <2>1, <2>2, <2>3, <2>4
<1>6. ASSUME NEW n \in CallIds, Acquire(n) \/ Load(n) \/ SaveFails(n) PROVE Claim
  BY <1>6 DEF Acquire, Load, SaveFails, Finish
<1>7. ASSUME NEW k \in Keys, Publish(k) PROVE Claim
  BY <1>7 DEF Publish
<1>8. ASSUME \/ \E c \in Commands : Call(c)
             \/ \E b \in PauseBuckets : PauseReservations(b)
             \/ \E b \in RebuildBuckets : RebuildStart(b)
             \/ Rebuild \/ Crash \/ UNCHANGED vars
      PROVE  Claim
  BY <1>8 DEF Call, PauseReservations, RebuildStart, Rebuild, RebuildReadEntries,
              RebuildReadRow, RebuildCreateRow, RebuildCompare, Crash, vars
<1> HIDE DEF Claim
<1>9. Claim
  BY <1>3, <1>4, <1>5, <1>6, <1>7, <1>8, CommitAdds DEF Next, Mutate
<1> QED BY <1>9 DEF Claim

\* Records, events and outcomes keep agreeing.
LEMMA RecordStep ==
  ASSUME GasIsPositive
  PROVE  LedgerInv /\ ReadModelInv /\ RecordInv /\ [Next]_vars => RecordInv'
<1> SUFFICES ASSUME LedgerInv, ReadModelInv, RecordInv, [Next]_vars PROVE RecordInv'
  OBVIOUS
<1>1. PICK K : K = {entries'[i].key : i \in 1..Len(entries')}
  OBVIOUS
<1>2. \A k : Existing(k)' # {} <=> k \in K
  BY <1>1 DEF Existing
<1>3. \A k : (\E i \in 1..Len(entries') : entries'[i].key = k) => k \in K
  BY <1>1
<1>4. \A k : Existing(k) # {} => k \in K
  BY <1>2, RecordsStay
<1>5. \A k \in publishing' : k \in K
  BY <1>3, <1>4, EndSteps DEF RecordInv
<1>6. \A e \in outbox' : e.key \in K
  BY <1>3, <1>4, EndSteps DEF RecordInv, SuccessMeansRecorded
<1>7. outcome' # None /\ outcome'.result \in {"applied", "replayed"} =>
        \E i \in 1..Len(entries') : entries'[i] = EntryOf(outcome'.cmd)
  <2>1. CASE outcome' = outcome
    BY <2>1, RecordsStay DEF RecordInv, SuccessMeansRecorded
  <2>2. CASE outcome' # outcome
    BY <2>2, EndSteps
  <2> QED BY <2>1, <2>2
<1> QED BY <1>2, <1>5, <1>6, <1>7 DEF RecordInv, SuccessMeansRecorded

\* A call that reports success, applied or replayed, left or found the entry of exactly its
\* command, and every event announces or refuses a key that is recorded, whatever saves fail
\* and wherever the process dies.
THEOREM SuccessIsRecorded ==
  ASSUME GasIsPositive
  PROVE  Spec => []SuccessMeansRecorded
<1>1. Init => RecordInv
  BY DEF Init, RecordInv, SuccessMeansRecorded
<1>2. RecordInv => SuccessMeansRecorded
  BY DEF RecordInv
<1> QED BY <1>1, <1>2, ReadModelInvariance, RecordStep, PTL DEF Spec

-----------------------------------------------------------------------------
(* Money. *)

\* The one caller of reverse(), the correction of estimated fees, reverses the whole amount of
\* a fee and derives the idempotency key from the entry it reverses.
FeesReversedOnce ==
  \A f, c \in Commands : f.type \in FeeTypes /\ c.reversalOf = f.key =>
    /\ c.amount = f.amount
    /\ \A d \in Commands : d.reversalOf = f.key => d.key = c.key

\* The fees of a bucket that no entry reverses, and what each entry amounts to.
OpenFees(b) ==
  {i \in 1..Len(entries) :
     /\ entries[i].bucket = b /\ entries[i].type \in FeeTypes
     /\ \A j \in 1..Len(entries) : entries[j].reversalOf # entries[i].key}

Amounts == [i \in 1..Len(entries) |-> Abs(entries[i].amount)]

\* The total of fees paid is that of the fees that are not reversed: so no reversal is cut off
\* where the code keeps the total from becoming negative.
FeesInv == \A b \in Buckets : Row(b).feePaid = SumFunctionOnSet(Amounts, OpenFees(b))

\* An entry of the outside flow, the flow after each entry, and one step of it.
Outside(es, e) ==
  \/ e.type \in {"withdraw_debit", "allocation_release"}
  \/ /\ e.type = "reversal"
     /\ \A i \in {i \in 1..Len(es) : es[i].key = e.reversalOf} :
          es[i].type \notin FeeTypes \cup RealizedTypes \cup {"reversal"}

FlowStep(es, o, b, acc, i) ==
  IF es[i].bucket = b /\ es[i].key \notin o /\ Outside(es, es[i])
  THEN acc + es[i].amount
  ELSE acc

Flow(es, o, b) ==
  LET flow[i \in 0..Len(es)] == IF i = 0 THEN 0 ELSE FlowStep(es, o, b, flow[i-1], i)
  IN  flow

\* The outside flow is the last value of that recursion.
LEMMA OutsideFlowIsFlow ==
  ASSUME NEW b
  PROVE  OutsideFlow(b) = Flow(entries, unapplied, b)[Len(entries)]
BY DEF OutsideFlow, Flow, FlowStep, Outside, Existing

\* The flow is well defined.
LEMMA FlowFacts ==
  ASSUME NEW es \in Seq(Entry), NEW o, NEW b
  PROVE  /\ Flow(es, o, b) \in [0..Len(es) -> Int]
         /\ Flow(es, o, b)[0] = 0
         /\ \A i \in 1..Len(es) :
              Flow(es, o, b)[i] = FlowStep(es, o, b, Flow(es, o, b)[i-1], i)
<1> DEFINE n == Len(es)
           step == [p \in Int \X (1..n) |-> FlowStep(es, o, b, p[1], p[2])]
           Is(f) == f = [i \in 0..n |-> IF i = 0 THEN 0 ELSE FlowStep(es, o, b, f[i-1], i)]
           sum == CHOOSE f : Is(f)
<1>0. n \in Nat
  OBVIOUS
<1>1. step \in [Int \X (1..n) -> Int]
  <2>1. \A i \in 1..n : es[i].amount \in Int
    <3>1. \A e \in Entry : e.amount \in Int
      BY DEF Entry
    <3> QED BY <3>1, ElementOfSeq
  <2> QED BY <2>1 DEF FlowStep
<1>2. PICK f \in [0..n -> Int] : f[0] = 0 /\ \A i \in 1..n : f[i] = step[<<f[i-1], i>>]
  <2> HIDE DEF step, n
  <2>1. 0 \in Int
    OBVIOUS
  <2>2. Solvable(n, Int, 0, step)
    BY <1>0, <1>1, <2>1, RecurrenceHasSolution, Zenon
  <2> QED BY <2>2 DEF Solvable
<1>3. \A i \in 1..n : f[i] = FlowStep(es, o, b, f[i-1], i)
  <2> SUFFICES ASSUME NEW i \in 1..n PROVE f[i] = FlowStep(es, o, b, f[i-1], i)
    OBVIOUS
  <2>1. i - 1 \in 0..n
    BY <1>0
  <2>2. <<f[i-1], i>> \in Int \X (1..n)
    BY <2>1
  <2>3. f[i] = step[<<f[i-1], i>>]
    BY <1>2
  <2> QED BY <2>2, <2>3
<1>4. Is(f)
  BY <1>2, <1>3
<1>5. Is(sum)
  <2> HIDE DEF Is
  <2> QED BY <1>4
<1>6. sum = Flow(es, o, b)
  BY DEF Flow
<1> HIDE DEF sum
<1>7. sum[0] = 0 /\ DOMAIN sum = 0..n
  BY <1>0, <1>5
<1>8. \A i \in 1..n : sum[i] = FlowStep(es, o, b, sum[i-1], i)
  BY <1>0, <1>5
<1>9. \A i \in 0..n : sum[i] = f[i]
  <2>1. StepAlike(sum, f, n)
    BY <1>3, <1>8 DEF StepAlike
  <2>2. sum[0] = f[0]
    BY <1>2, <1>7
  <2> HIDE DEF n
  <2>3. Agree(sum, f, n)
    BY <1>0, <2>1, <2>2, RecurrenceUnique
  <2> QED BY <2>3 DEF Agree
<1>10. sum \in [0..n -> Int]
  BY <1>2, <1>5, <1>7, <1>9
<1> QED BY <1>6, <1>7, <1>8, <1>10

\* What an admissible command changes: available and locked funds together move by the
\* deposit, the realised result and the fee, and by its own amount when it is one that goes out.
LEMMA RulesConserve ==
  ASSUME NEW t \in EntryTypes, NEW a \in Int, NEW r, NEW bal \in Balance,
         AmountAdmissible(t, a), t # "reversal" => r = NoType,
         t = "reversal" /\ r \in FeeTypes => a > 0 /\ a <= bal.feePaid
  PROVE  LET n == ApplyCommand(t, a, r, bal)
             out == \/ t \in {"withdraw_debit", "allocation_release"}
                    \/ t = "reversal" /\ r \notin FeeTypes \cup RealizedTypes \cup {"reversal"}
         IN  n.available + n.locked - n.initialDeposit - n.realizedDelta + n.feePaid =
               bal.available + bal.locked - bal.initialDeposit - bal.realizedDelta + bal.feePaid
                 + (IF out THEN SignedEntryAmount(t, a) ELSE 0)
<1> DEFINE n == ApplyCommand(t, a, r, bal)
           out == \/ t \in {"withdraw_debit", "allocation_release"}
                  \/ t = "reversal" /\ r \notin FeeTypes \cup RealizedTypes \cup {"reversal"}
           Claim == n.available + n.locked - n.initialDeposit - n.realizedDelta + n.feePaid =
               bal.available + bal.locked - bal.initialDeposit - bal.realizedDelta + bal.feePaid
                 + (IF out THEN SignedEntryAmount(t, a) ELSE 0)
<1> SUFFICES Claim
  OBVIOUS
<1>1. /\ bal.available \in Int /\ bal.locked \in Int /\ bal.initialDeposit \in Int
      /\ bal.realizedDelta \in Int /\ bal.feePaid \in Int
  BY DEF Balance
<1>2. CASE t \in {"deposit_credit", "withdraw_debit", "allocation_release", "fee_debit", "gas_debit",
                  "reserve_lock", "reserve_release"}
  BY <1>1, <1>2 DEF ApplyCommand, NextAvailable, NextLocked, NextFeePaid, SignedEntryAmount,
    ReversalAffectsRealizedDelta, Credits, AvailableDebits, TradeSettles, RealizedTypes, FeeTypes, NoType
<1>3. CASE t \in {"lp_fee_credit", "reward_credit", "lp_remove_settle"}
  BY <1>1, <1>3 DEF ApplyCommand, NextAvailable, NextLocked, NextFeePaid, SignedEntryAmount,
    ReversalAffectsRealizedDelta, Credits, AvailableDebits, TradeSettles, RealizedTypes, FeeTypes, NoType
<1>4. CASE t \in TradeSettles \cup {"lp_add_settle"}
  BY <1>1, <1>4 DEF ApplyCommand, NextAvailable, NextLocked, NextFeePaid, SignedEntryAmount, Abs,
    ReversalAffectsRealizedDelta, Credits, AvailableDebits, TradeSettles, RealizedTypes, FeeTypes,
    NoType, AmountAdmissible
<1>5. CASE t = "reversal"
  BY <1>1, <1>5 DEF ApplyCommand, NextAvailable, NextLocked, NextFeePaid, SignedEntryAmount, Abs, NonNeg,
    ReversalAffectsRealizedDelta, Credits, AvailableDebits, TradeSettles, RealizedTypes, FeeTypes
<1>6. t \in {"deposit_credit", "withdraw_debit", "allocation_release", "fee_debit", "gas_debit",
              "reserve_lock", "reserve_release"} \cup
             {"lp_fee_credit", "reward_credit", "lp_remove_settle"} \cup
             (TradeSettles \cup {"lp_add_settle"}) \cup {"reversal"}
  BY DEF EntryTypes, TradeSettles
<1> HIDE DEF Claim
<1> QED BY <1>2, <1>3, <1>4, <1>5, <1>6

\* No entry that is there reverses one that is not: reversals come later.
LEMMA NotYetReversed ==
  ASSUME LedgerInv, EntriesInv, NEW c \in Commands, Existing(c.key) = {},
         NEW i \in 1..Len(entries)
  PROVE  entries[i].reversalOf # c.key
<1> SUFFICES ASSUME entries[i].reversalOf = c.key PROVE FALSE
  OBVIOUS
<1>1. c.key # None /\ Len(entries) \in Nat
  BY CommandFields, NoneAssumption, NowFacts
<1>2. PICK j \in 1..(i-1) : entries[j].key = c.key
  BY <1>1 DEF EntriesInv
<1>3. j \in 1..Len(entries)
  BY <1>1
<1> QED BY <1>2, <1>3 DEF Existing

\* What a command finds of the entry it reverses: the type that is recorded, that of a command
\* it is the reversal of.
LEMMA ReversedEntry ==
  ASSUME LedgerInv, EntriesInv, NEW c \in Commands
  PROVE  /\ \A i \in Existing(c.reversalOf) :
              /\ i \in 1..Len(entries) /\ entries[i].key = c.reversalOf
              /\ ReversedType(c) = entries[i].type
              /\ entries[i].bucket = c.bucket /\ c.type = "reversal"
         /\ Existing(c.reversalOf) = {} => ReversedType(c) = NoType
<1>1. ASSUME NEW i \in Existing(c.reversalOf)
      PROVE  /\ i \in 1..Len(entries) /\ entries[i].key = c.reversalOf
             /\ ReversedType(c) = entries[i].type
             /\ entries[i].bucket = c.bucket /\ c.type = "reversal"
  <2>1. i \in 1..Len(entries) /\ entries[i].key = c.reversalOf
    BY DEF Existing
  <2>2. \A j \in Existing(c.reversalOf) : j = i
    BY <2>1 DEF Existing, LedgerInv, OneEntryPerKey
  <2>3. (CHOOSE j \in Existing(c.reversalOf) : TRUE) \in Existing(c.reversalOf)
    BY <1>1
  <2>4. (CHOOSE j \in Existing(c.reversalOf) : TRUE) = i
    BY <2>2, <2>3
  <2>5. ReversedType(c) = entries[i].type
    BY <1>1, <2>4 DEF ReversedType
  <2>6. PICK d \in Commands : entries[i] = EntryOf(d)
    BY <2>1 DEF EntriesInv, Recording
  <2>7. entries[i].key = d.key /\ entries[i].bucket = d.bucket
    BY <2>6 DEF EntryOf
  <2> QED BY <2>1, <2>5, <2>7, ReversalAssumption
<1>2. Existing(c.reversalOf) = {} => ReversedType(c) = NoType
  BY DEF ReversedType
<1> QED BY <1>1, <1>2

\* A new entry that is applied adds its amount to the outside flow of its bucket, if it counts.
LEMMA FlowAdds ==
  ASSUME LedgerInv, EntriesInv, NEW c \in Commands, Adds(c), NEW b,
         c.reversalOf # None => Existing(c.reversalOf) # {}
  PROVE  LET out == \/ c.type \in {"withdraw_debit", "allocation_release"}
                    \/ /\ c.type = "reversal"
                       /\ ReversedType(c) \notin FeeTypes \cup RealizedTypes \cup {"reversal"}
         IN  /\ Flow(entries, {}, b)[Len(entries)] \in Int
             /\ Flow(entries', {}, b)[Len(entries')] =
                  Flow(entries, {}, b)[Len(entries)]
                    + (IF b = c.bucket /\ out THEN SignedEntryAmount(c.type, c.amount) ELSE 0)
<1> DEFINE n == Len(entries)
           e == EntryOf(c)
           out == \/ c.type \in {"withdraw_debit", "allocation_release"}
                  \/ /\ c.type = "reversal"
                     /\ ReversedType(c) \notin FeeTypes \cup RealizedTypes \cup {"reversal"}
           f == Flow(entries, {}, b)
           g == Flow(entries', {}, b)
<1>1. /\ entries \in Seq(Entry) /\ n \in Nat /\ entries' \in Seq(Entry) /\ Len(entries') = n + 1
      /\ \A i \in 1..n : entries'[i] = entries[i]
      /\ entries'[n + 1] = e
  BY NowFacts, AddsFacts, EntryOfType, AppendProperties DEF Adds
<1>2. /\ e.key = c.key /\ e.bucket = c.bucket /\ e.type = c.type
      /\ e.reversalOf = c.reversalOf /\ e.amount = SignedEntryAmount(c.type, c.amount)
  BY DEF EntryOf
<1>3. /\ f \in [0..n -> Int] /\ f[0] = 0
      /\ \A i \in 1..n : f[i] = FlowStep(entries, {}, b, f[i-1], i)
      /\ g[0] = 0
      /\ \A i \in 1..(n + 1) : g[i] = FlowStep(entries', {}, b, g[i-1], i)
  <2>1. /\ f \in [0..n -> Int] /\ f[0] = 0
        /\ \A i \in 1..n : f[i] = FlowStep(entries, {}, b, f[i-1], i)
    BY <1>1, FlowFacts
  <2>2. /\ g[0] = 0
        /\ \A i \in 1..Len(entries') : g[i] = FlowStep(entries', {}, b, g[i-1], i)
    BY <1>1, FlowFacts
  <2> QED BY <1>1, <2>1, <2>2
<1>4. \A k : k # c.key =>
        {i \in 1..Len(entries') : entries'[i].key = k} = {i \in 1..n : entries[i].key = k}
  <2>1. \A k : k # c.key => Existing(k)' = Existing(k)
    BY AddsFacts
  <2> QED BY <2>1 DEF Existing
<1>5. \A i \in 1..n : Outside(entries', entries'[i]) <=> Outside(entries, entries[i])
  <2> SUFFICES ASSUME NEW i \in 1..n
               PROVE  Outside(entries', entries[i]) <=> Outside(entries, entries[i])
    BY <1>1
  <2>1. entries[i].reversalOf # c.key
    BY NotYetReversed DEF Adds
  <2>2. {j \in 1..Len(entries') : entries'[j].key = entries[i].reversalOf} =
          {j \in 1..n : entries[j].key = entries[i].reversalOf}
    BY <1>4, <2>1
  <2>3. \A j \in {j \in 1..n : entries[j].key = entries[i].reversalOf} : entries'[j] = entries[j]
    BY <1>1
  <2> QED BY <2>2, <2>3 DEF Outside
<1>6. Outside(entries', e) <=> out
  <2>1. c.reversalOf # c.key
    <3>1. c.key \in Keys /\ c.key # None
      BY CommandFields, NoneAssumption
    <3> QED BY <3>1 DEF Adds
  <2>2. {j \in 1..Len(entries') : entries'[j].key = e.reversalOf} = Existing(c.reversalOf)
    <3>1. {j \in 1..Len(entries') : entries'[j].key = c.reversalOf} =
            {j \in 1..n : entries[j].key = c.reversalOf}
      BY <1>4, <2>1
    <3>2. e.reversalOf = c.reversalOf
      BY <1>2
    <3> HIDE DEF e
    <3> QED BY <3>1, <3>2 DEF Existing
  <2>3. \A j \in Existing(c.reversalOf) : entries'[j] = entries[j]
    BY <1>1 DEF Existing
  <2>4. (\A j \in Existing(c.reversalOf) :
           entries[j].type \notin FeeTypes \cup RealizedTypes \cup {"reversal"})
        <=> ReversedType(c) \notin FeeTypes \cup RealizedTypes \cup {"reversal"}
    <3>1. CASE Existing(c.reversalOf) = {}
      <4>1. ReversedType(c) = NoType
        BY <3>1, ReversedEntry
      <4> QED BY <3>1, <4>1 DEF NoType, FeeTypes, RealizedTypes, TradeSettles
    <3>2. CASE Existing(c.reversalOf) # {}
      BY <3>2, ReversedEntry
    <3> QED BY <3>1, <3>2
  <2> QED BY <1>2, <2>2, <2>3, <2>4 DEF Outside
<1> HIDE DEF n, f, g, e, out
<1>7. StepAlike(f, g, n)
  <2>1. \A i \in 1..n : i \in 1..(n + 1)
    BY <1>1
  <2>2. \A i \in 1..n : \A acc :
          FlowStep(entries', {}, b, acc, i) = FlowStep(entries, {}, b, acc, i)
    BY <1>1, <1>5 DEF FlowStep
  <2>3. ASSUME NEW i \in 1..n, f[i-1] = g[i-1] PROVE f[i] = g[i]
    <3>1. /\ f[i] = FlowStep(entries, {}, b, f[i-1], i)
          /\ g[i] = FlowStep(entries', {}, b, g[i-1], i)
      BY <1>3, <2>1
    <3> QED BY <2>2, <2>3, <3>1
  <2> QED BY <2>3 DEF StepAlike
<1>8. f[n] = g[n]
  <2>1. n \in Nat /\ n \in 0..n /\ f[0] = g[0]
    BY <1>1, <1>3
  <2>2. Agree(f, g, n)
    BY <1>7, <2>1, RecurrenceUnique, Zenon
  <2> QED BY <2>1, <2>2 DEF Agree
<1>9. g[n + 1] = FlowStep(entries', {}, b, g[n], n + 1)
  <2>1. n + 1 \in 1..(n + 1) /\ (n + 1) - 1 = n
    BY <1>1
  <2> QED BY <1>3, <2>1
<1>10. n \in 0..n /\ f[n] \in Int
  BY <1>1, <1>3
<1>11. g[n + 1] = f[n] + (IF b = c.bucket /\ out THEN SignedEntryAmount(c.type, c.amount) ELSE 0)
  BY <1>1, <1>2, <1>6, <1>8, <1>9, <1>10 DEF FlowStep
<1> QED BY <1>1, <1>10, <1>11 DEF n, f, g, out

\* The fees that are not reversed once an entry is added: a fee joins those of its bucket, the
\* reversal of a fee takes that one away, in full, and nothing else changes them.
LEMMA OpenFeesAdds ==
  ASSUME FeesReversedOnce, LedgerInv, EntriesInv, NEW c \in Commands, Adds(c),
         c.reversalOf # None => Existing(c.reversalOf) # {}, NEW b
  PROVE  /\ b # c.bucket => OpenFees(b)' = OpenFees(b)
         /\ b = c.bucket /\ c.type \in FeeTypes =>
              OpenFees(b)' = OpenFees(b) \cup {Len(entries) + 1}
         /\ b = c.bucket /\ c.type \notin FeeTypes /\ ReversedType(c) \notin FeeTypes =>
              OpenFees(b)' = OpenFees(b)
         /\ b = c.bucket /\ ReversedType(c) \in FeeTypes =>
              \E i \in OpenFees(b) :
                OpenFees(b)' = OpenFees(b) \ {i} /\ Abs(entries[i].amount) = c.amount
<1> DEFINE n == Len(entries)
           e == EntryOf(c)
<1>1. /\ n \in Nat /\ Len(entries') = n + 1
      /\ \A i \in 1..n : entries'[i] = entries[i] /\ entries[i].key # c.key
      /\ entries'[n + 1] = e
      /\ 1..Len(entries') = 1..n \cup {n + 1}
  BY NowFacts, AddsFacts
<1>2. /\ e.key = c.key /\ e.bucket = c.bucket /\ e.type = c.type /\ e.reversalOf = c.reversalOf
  BY DEF EntryOf
<1>3. c.reversalOf # c.key
  <2>1. c.key \in Keys /\ c.key # None
    BY CommandFields, NoneAssumption
  <2> QED BY <2>1 DEF Adds
<1>4. \A i \in 1..n : entries[i].reversalOf # c.key
  BY NotYetReversed DEF Adds
<1>5. \A i \in 1..n : i \in OpenFees(b)' <=> i \in OpenFees(b) /\ entries[i].key # c.reversalOf
  <2> HIDE DEF n, e
  <2>1. \A i \in 1..n : i # n + 1
    BY <1>1
  <2>2. OpenFees(b) = {i \in 1..n : /\ entries[i].bucket = b /\ entries[i].type \in FeeTypes
                                    /\ \A j \in 1..n : entries[j].reversalOf # entries[i].key}
    BY DEF OpenFees, n
  <2> QED BY <1>1, <1>2, <2>1, <2>2 DEF OpenFees
<1>6. n + 1 \in OpenFees(b)' <=> b = c.bucket /\ c.type \in FeeTypes
  <2> HIDE DEF n, e
  <2> QED BY <1>1, <1>2, <1>3, <1>4 DEF OpenFees
<1>7. OpenFees(b) \subseteq 1..n /\ OpenFees(b)' \subseteq 1..n \cup {n + 1}
  BY <1>1 DEF OpenFees
<1>8. \A i \in 1..n : entries[i].key = c.reversalOf => i \in Existing(c.reversalOf)
  BY DEF Existing
<1>9. \A i \in OpenFees(b) : entries[i].bucket = b /\ entries[i].type \in FeeTypes
  BY DEF OpenFees
<1>10. ASSUME b # c.bucket \/ ReversedType(c) \notin FeeTypes
       PROVE  \A i \in OpenFees(b) : entries[i].key # c.reversalOf
  BY <1>7, <1>8, <1>9, <1>10, ReversedEntry
<1>11. ASSUME b = c.bucket, c.type \in FeeTypes
       PROVE  OpenFees(b)' = OpenFees(b) \cup {n + 1}
  <2>1. Existing(c.reversalOf) = {}
    BY <1>11, ReversedEntry DEF FeeTypes
  <2>2. \A i \in 1..n : entries[i].key # c.reversalOf
    BY <1>8, <2>1
  <2> HIDE DEF n
  <2> QED BY <1>5, <1>6, <1>7, <1>11, <2>2
<1>12. ASSUME \/ b # c.bucket
              \/ c.type \notin FeeTypes /\ ReversedType(c) \notin FeeTypes
       PROVE  OpenFees(b)' = OpenFees(b)
  <2> HIDE DEF n
  <2>1. n + 1 \notin OpenFees(b)'
    BY <1>6, <1>12
  <2>2. \A i \in OpenFees(b) : entries[i].key # c.reversalOf
    BY <1>10, <1>12
  <2> QED BY <1>5, <1>7, <2>1, <2>2
<1>13. ASSUME b = c.bucket, ReversedType(c) \in FeeTypes
       PROVE  \E i \in OpenFees(b) :
                OpenFees(b)' = OpenFees(b) \ {i} /\ Abs(entries[i].amount) = c.amount
  <2>1. PICK i \in Existing(c.reversalOf) : TRUE
    BY <1>13, ReversedEntry DEF FeeTypes, NoType
  <2>2. /\ i \in 1..n /\ entries[i].key = c.reversalOf /\ entries[i].bucket = b
        /\ entries[i].type \in FeeTypes /\ c.type = "reversal"
    BY <1>13, <2>1, ReversedEntry
  <2>3. PICK f \in Commands : entries[i] = EntryOf(f) /\ AmountAdmissible(f.type, f.amount)
    BY <2>2 DEF EntriesInv, Recording
  <2>4. /\ f.key = c.reversalOf /\ f.type \in FeeTypes
        /\ entries[i].amount = SignedEntryAmount(f.type, f.amount)
    BY <2>2, <2>3 DEF EntryOf
  <2>5. c.amount = f.amount /\ \A d \in Commands : d.reversalOf = f.key => d.key = c.key
    BY <2>4 DEF FeesReversedOnce
  <2>6. Abs(entries[i].amount) = c.amount
    <3>1. f.amount \in Int
      BY CommandFields
    <3> QED BY <2>3, <2>4, <2>5, <3>1
            DEF Abs, SignedEntryAmount, AmountAdmissible, FeeTypes, AvailableDebits,
                SignedTypes, TradeSettles
  <2>7. \A j \in 1..n : entries[j].reversalOf # entries[i].key
    <3> SUFFICES ASSUME NEW j \in 1..n, entries[j].reversalOf = c.reversalOf PROVE FALSE
      BY <2>2
    <3>1. PICK d \in Commands : entries[j] = EntryOf(d)
      BY DEF EntriesInv, Recording
    <3>2. entries[j].key = d.key /\ d.reversalOf = c.reversalOf
      BY <3>1 DEF EntryOf
    <3> QED BY <1>1, <2>4, <2>5, <3>2
  <2>8. i \in OpenFees(b)
    BY <2>2, <2>7 DEF OpenFees
  <2>9. \A j \in 1..n : entries[j].key = c.reversalOf => j = i
    BY <2>2 DEF LedgerInv, OneEntryPerKey
  <2>10. n + 1 \notin OpenFees(b)'
    BY <1>6, <2>2 DEF FeeTypes
  <2> HIDE DEF n
  <2>11. OpenFees(b)' = OpenFees(b) \ {i}
    BY <1>5, <1>7, <2>2, <2>9, <2>10
  <2> QED BY <2>6, <2>8, <2>11
<1> QED BY <1>11, <1>12, <1>13 DEF n

\* The total of the fees of a step: it grows by a fee that is added, shrinks by the fee that is
\* reversed, which it holds, and otherwise stays.
LEMMA FeeTotals ==
  ASSUME FeesReversedOnce, LedgerInv, EntriesInv, NEW c \in Commands, Adds(c),
         AmountAdmissible(c.type, c.amount),
         c.reversalOf # None => Existing(c.reversalOf) # {}, NEW b
  PROVE  LET old == SumFunctionOnSet(Amounts, OpenFees(b))
             new == SumFunctionOnSet(Amounts, OpenFees(b))'
         IN  /\ old \in Nat
             /\ b # c.bucket => new = old
             /\ b = c.bucket /\ c.type \in FeeTypes => new = old + c.amount
             /\ b = c.bucket /\ c.type \notin FeeTypes /\ ReversedType(c) \notin FeeTypes =>
                  new = old
             /\ b = c.bucket /\ ReversedType(c) \in FeeTypes =>
                  c.amount > 0 /\ c.amount <= old /\ new = old - c.amount
<1> DEFINE n == Len(entries)
           S == OpenFees(b)
           T == OpenFees(b)'
           w == Amounts
           v == Amounts'
           old == SumFunctionOnSet(w, S)
           new == SumFunctionOnSet(v, T)
<1>1. /\ n \in Nat /\ 1..Len(entries') = 1..n \cup {n + 1}
      /\ \A i \in 1..n : entries'[i] = entries[i] /\ entries[i].key # c.key
      /\ entries'[n + 1] = EntryOf(c)
  BY NowFacts, AddsFacts
<1>2. \A i \in 1..n : entries[i].amount \in Int
  <2>1. \A e \in Entry : e.amount \in Int
    BY DEF Entry
  <2> QED BY <2>1, NowFacts
<1>3. /\ \A i \in 1..n : w[i] = Abs(entries[i].amount) /\ w[i] \in Nat /\ v[i] = w[i]
      /\ v[n + 1] = Abs(SignedEntryAmount(c.type, c.amount))
  <2>1. EntryOf(c).amount = SignedEntryAmount(c.type, c.amount)
    BY DEF EntryOf
  <2>2. \A i \in 1..n : Abs(entries[i].amount) \in Nat
    BY <1>2 DEF Abs
  <2>3. v = [i \in 1..Len(entries') |-> Abs(entries'[i].amount)]
    BY DEF Amounts
  <2>4. \A i \in 1..n \cup {n + 1} : v[i] = Abs(entries'[i].amount)
    BY <1>1, <2>3
  <2>5. \A i \in 1..n : w[i] = Abs(entries[i].amount)
    BY DEF Amounts
  <2> HIDE DEF w, v, n
  <2> QED BY <1>1, <2>1, <2>2, <2>4, <2>5
<1>4. S \subseteq 1..n /\ IsFiniteSet(1..n)
  BY <1>1, FS_Interval DEF OpenFees
<1>5. \A U \in SUBSET (1..n) :
        /\ IsFiniteSet(U) /\ SumFunctionOnSet(w, U) \in Nat
        /\ SumFunctionOnSet(v, U) = SumFunctionOnSet(w, U)
  <2> SUFFICES ASSUME NEW U \in SUBSET (1..n)
               PROVE  /\ IsFiniteSet(U) /\ SumFunctionOnSet(w, U) \in Nat
                      /\ SumFunctionOnSet(v, U) = SumFunctionOnSet(w, U)
    OBVIOUS
  <2> HIDE DEF w, v, n
  <2>1. IsFiniteSet(U)
    BY <1>4, FS_Subset
  <2>2. \A x \in U : v[x] \in Int /\ v[x] = w[x] /\ w[x] \in Nat /\ w[x] \in Int
    BY <1>3
  <2>3. SumFunctionOnSet(w, U) \in Int
    BY <2>1, <2>2, SumFacts
  <2>4. SumFunctionOnSet(w, {}) = 0
    BY FS_EmptySet, SumFacts
  <2>5. SumFunctionOnSet(w, {}) <= SumFunctionOnSet(w, U)
    BY <2>1, <2>2, SumMonotone
  <2>6. SumFunctionOnSet(v, U) = SumFunctionOnSet(w, U)
    BY <2>1, <2>2, SumAgrees
  <2> QED BY <2>1, <2>3, <2>4, <2>5, <2>6
<1>6. old \in Nat
  BY <1>4, <1>5
<1>7. T = S => new = old
  BY <1>4, <1>5
<1>8. c.amount \in Int
  BY CommandFields
<1>9. ASSUME b = c.bucket, c.type \in FeeTypes PROVE new = old + c.amount
  <2>1. T = S \cup {n + 1} /\ n + 1 \notin S
    <3>1. T = S \cup {n + 1}
      BY <1>9, OpenFeesAdds
    <3> HIDE DEF n, S, T
    <3> QED BY <1>1, <1>4, <3>1
  <2>2. v[n + 1] = c.amount /\ v[n + 1] \in Int
    <3>1. Abs(SignedEntryAmount(c.type, c.amount)) = c.amount
      BY <1>8, <1>9 DEF Abs, SignedEntryAmount, AmountAdmissible, FeeTypes, AvailableDebits,
                        SignedTypes, TradeSettles
    <3> HIDE DEF v, n
    <3> QED BY <1>3, <1>8, <3>1
  <2> HIDE DEF v, w, n, S, T
  <2>3. IsFiniteSet(T) /\ \A x \in T : v[x] \in Int
    <3>1. IsFiniteSet(S)
      BY <1>4, FS_Subset
    <3>2. IsFiniteSet(S \cup {n + 1})
      BY <3>1, FS_AddElement
    <3> QED BY <1>3, <1>4, <2>1, <2>2, <3>2
  <2>4. SumFunctionOnSet(v, T) = v[n + 1] + SumFunctionOnSet(v, T \ {n + 1})
    BY <2>1, <2>3, SumFacts
  <2>5. T \ {n + 1} = S
    BY <2>1
  <2>6. S \in SUBSET (1..n)
    BY <1>4
  <2>7. SumFunctionOnSet(w, S) \in Nat /\ SumFunctionOnSet(v, S) = SumFunctionOnSet(w, S)
    BY <1>5, <2>6
  <2>8. SumFunctionOnSet(v, T \ {n + 1}) = SumFunctionOnSet(v, S)
    BY <2>5, Zenon
  <2>9. new = v[n + 1] + SumFunctionOnSet(w, S)
    BY <2>4, <2>7, <2>8, Zenon
  <2> QED BY <1>8, <2>2, <2>7, <2>9
<1>10. ASSUME b = c.bucket, ReversedType(c) \in FeeTypes
       PROVE  c.amount > 0 /\ c.amount <= old /\ new = old - c.amount
  <2>1. PICK i \in S : T = S \ {i} /\ Abs(entries[i].amount) = c.amount
    BY <1>10, OpenFeesAdds
  <2>2. c.amount # 0
    BY DEF AmountAdmissible
  <2> HIDE DEF v, w, n, S, T
  <2>3. w[i] = c.amount /\ w[i] \in Nat
    BY <1>3, <1>4, <2>1
  <2>4. SumFunctionOnSet(w, S) = w[i] + SumFunctionOnSet(w, S \ {i})
    <3>1. IsFiniteSet(S) /\ \A x \in S : w[x] \in Int
      BY <1>3, <1>4, <1>5
    <3> QED BY <3>1, SumFacts
  <2>5. S \ {i} \in SUBSET (1..n)
    BY <1>4
  <2>6. /\ SumFunctionOnSet(w, S \ {i}) \in Nat
        /\ SumFunctionOnSet(v, T) = SumFunctionOnSet(w, S \ {i})
    BY <1>5, <2>1, <2>5
  <2> QED BY <1>8, <2>2, <2>3, <2>4, <2>6
<1>11. /\ b # c.bucket => T = S
       /\ b = c.bucket /\ c.type \notin FeeTypes /\ ReversedType(c) \notin FeeTypes => T = S
  BY OpenFeesAdds
<1>12. new = SumFunctionOnSet(Amounts, OpenFees(b))'
  OBVIOUS
<1> QED BY <1>6, <1>7, <1>9, <1>10, <1>11, <1>12

\* The invariant: the total of fees paid, and what the funds of a bucket are made of.
MoneyInv == FeesInv /\ MoneyConserved

\* An empty ledger holds no money and has paid no fee.
LEMMA MoneyInit == Init => MoneyInv
<1> SUFFICES ASSUME Init, NEW b \in Buckets
             PROVE  /\ Row(b).feePaid = SumFunctionOnSet(Amounts, OpenFees(b))
                    /\ Row(b).available + Row(b).locked =
                         Row(b).initialDeposit + Row(b).realizedDelta - Row(b).feePaid
                           + OutsideFlow(b)
  BY DEF MoneyInv, FeesInv, MoneyConserved
<1>1. entries = <<>> /\ Len(entries) = 0 /\ entries \in Seq(Entry)
  BY DEF Init
<1>2. Row(b) = ZeroBalance
  BY DEF Init, Row
<1>3. OpenFees(b) = {}
  BY <1>1 DEF OpenFees
<1>4. SumFunctionOnSet(Amounts, {}) = 0
  BY FS_EmptySet, SumFacts
<1>5. OutsideFlow(b) = 0
  <2>1. Flow(entries, unapplied, b)[0] = 0
    <3>1. \A es \in Seq(Entry) : Flow(es, unapplied, b)[0] = 0
      BY FlowFacts
    <3> QED BY <1>1, <3>1, Zenon
  <2>2. OutsideFlow(b) = Flow(entries, unapplied, b)[Len(entries)]
    BY OutsideFlowIsFlow
  <2> QED BY <1>1, <2>1, <2>2
<1> QED BY <1>2, <1>3, <1>4, <1>5 DEF ZeroBalance

\* A command that commits keeps both: the row is what the rules make of it, and they conserve.
LEMMA CommitConserves ==
  ASSUME FeesReversedOnce, LedgerInv, ReadModelInv, FreshInv, TogetherInv, MoneyInv,
         unapplied' = {},
         NEW n \in CallIds, Commit(n), Adds(call[n].cmd)
  PROVE  MoneyInv'
<1>1. PICK c : c = call[n].cmd
  OBVIOUS
<1>2. /\ c \in Commands /\ AmountAdmissible(c.type, c.amount)
      /\ \A b \in Buckets :
           Row(b)' = IF b = c.bucket
                     THEN ApplyCommand(c.type, c.amount, ReversedType(c), Row(c.bucket))
                     ELSE Row(b)
  BY <1>1, SaveTakesEffect
<1>3. /\ EntriesInv /\ Adds(c) /\ c.bucket \in Buckets /\ c.type \in EntryTypes /\ c.amount \in Int
      /\ c.reversalOf # None => Existing(c.reversalOf) # {}
  <2>1. Saving(n) /\ CommandsInv /\ EntriesInv
    BY DEF Commit, Saving, ReadModelInv
  <2>2. c.reversalOf # None => Existing(c.reversalOf) # {}
    BY <1>1, <2>1, AddsAlone
  <2> QED BY <1>1, <1>2, <2>1, <2>2, CommandFields
<1>4. unapplied = {} /\ unapplied' = {}
  BY DEF TogetherInv
<1> DEFINE out == \/ c.type \in {"withdraw_debit", "allocation_release"}
                  \/ /\ c.type = "reversal"
                     /\ ReversedType(c) \notin FeeTypes \cup RealizedTypes \cup {"reversal"}
           flow(b) == Flow(entries, {}, b)[Len(entries)]
           moves == IF out THEN SignedEntryAmount(c.type, c.amount) ELSE 0
           fees(b) == SumFunctionOnSet(Amounts, OpenFees(b))
           Kept(b) == /\ Row(b)'.feePaid = fees(b)'
                      /\ Row(b)'.available + Row(b)'.locked =
                           Row(b)'.initialDeposit + Row(b)'.realizedDelta - Row(b)'.feePaid
                             + OutsideFlow(b)'
<1>5. \A b : /\ OutsideFlow(b) = flow(b) /\ flow(b) \in Int
             /\ OutsideFlow(b)' = flow(b) + (IF b = c.bucket THEN moves ELSE 0)
  <2> SUFFICES ASSUME NEW b
               PROVE  /\ OutsideFlow(b) = flow(b) /\ flow(b) \in Int
                      /\ OutsideFlow(b)' = flow(b) + (IF b = c.bucket THEN moves ELSE 0)
    OBVIOUS
  <2>1. OutsideFlow(b) = flow(b)
    BY <1>4, OutsideFlowIsFlow
  <2>2. OutsideFlow(b)' = Flow(entries', unapplied', b)[Len(entries')]
    BY DEF OutsideFlow, Flow, FlowStep, Outside, Existing
  <2>3. /\ flow(b) \in Int
        /\ Flow(entries', {}, b)[Len(entries')] =
             flow(b) + (IF b = c.bucket /\ out THEN SignedEntryAmount(c.type, c.amount) ELSE 0)
    BY <1>2, <1>3, FlowAdds
  <2> HIDE DEF out, flow
  <2> QED BY <1>4, <2>1, <2>2, <2>3
<1>6. \A b \in Buckets :
        /\ Row(b) \in Balance /\ Row(b).feePaid = fees(b)
        /\ Row(b).available + Row(b).locked =
             Row(b).initialDeposit + Row(b).realizedDelta - Row(b).feePaid + flow(b)
  BY <1>5, NowFacts DEF MoneyInv, FeesInv, MoneyConserved
<1>7. \A b : /\ fees(b) \in Nat
             /\ b # c.bucket => fees(b)' = fees(b)
             /\ b = c.bucket /\ c.type \in FeeTypes => fees(b)' = fees(b) + c.amount
             /\ b = c.bucket /\ c.type \notin FeeTypes /\ ReversedType(c) \notin FeeTypes =>
                  fees(b)' = fees(b)
             /\ b = c.bucket /\ ReversedType(c) \in FeeTypes =>
                  c.amount > 0 /\ c.amount <= fees(b) /\ fees(b)' = fees(b) - c.amount
  BY <1>2, <1>3, FeeTotals
<1>8. ASSUME NEW b \in Buckets, b # c.bucket PROVE Kept(b)
  <2>1. Row(b)' = Row(b)
    BY <1>2, <1>8
  <2> HIDE DEF fees, flow, moves
  <2> QED BY <1>5, <1>6, <1>7, <1>8, <2>1 DEF Balance
<1>9. Kept(c.bucket)
  <2> DEFINE b == c.bucket
             r == ReversedType(c)
             old == Row(b)
             new == ApplyCommand(c.type, c.amount, r, old)
  <2>1. Row(b)' = new
    BY <1>2, <1>3
  <2>2. old \in Balance /\ new \in Balance
    BY <1>3, <1>6, ApplyCommandType
  <2>3. (c.type # "reversal" => r = NoType) /\ (r \in FeeTypes => c.type = "reversal")
    BY <1>2, <1>3, ReversedEntry DEF NoType, FeeTypes
  <2>4. new.feePaid = fees(b)'
    <3>1. new.feePaid = NextFeePaid(old.feePaid, c.type, c.amount, r)
      BY DEF ApplyCommand
    <3>2. old.feePaid = fees(b) /\ fees(b) \in Nat
      BY <1>3, <1>6, <1>7
    <3>3. CASE c.type \in FeeTypes
      <4>1. fees(b)' = fees(b) + c.amount
        BY <1>7, <3>3
      <4>2. NextFeePaid(old.feePaid, c.type, c.amount, r) = old.feePaid + c.amount
        BY <3>3 DEF NextFeePaid, FeeTypes
      <4> QED BY <3>1, <3>2, <4>1, <4>2
    <3>4. CASE c.type \notin FeeTypes /\ r \notin FeeTypes
      <4>1. fees(b)' = fees(b)
        BY <1>7, <3>4
      <4> HIDE DEF fees, new
      <4> QED BY <3>1, <3>2, <3>4, <4>1 DEF NextFeePaid
    <3>5. CASE r \in FeeTypes
      <4>1. c.amount > 0 /\ c.amount <= fees(b) /\ fees(b)' = fees(b) - c.amount
        BY <1>7, <3>5
      <4>2. c.type = "reversal"
        BY <2>3, <3>5
      <4> HIDE DEF fees, new, r
      <4>3. NextFeePaid(old.feePaid, c.type, c.amount, r) = NonNeg(old.feePaid - Abs(c.amount))
        BY <3>5, <4>2 DEF NextFeePaid, FeeTypes
      <4> QED BY <1>3, <3>1, <3>2, <4>1, <4>3 DEF NonNeg, Abs
    <3> QED BY <3>3, <3>4, <3>5
  <2>5. new.available + new.locked - new.initialDeposit - new.realizedDelta + new.feePaid =
          old.available + old.locked - old.initialDeposit - old.realizedDelta + old.feePaid
            + moves
    <3>1. r \in FeeTypes => c.amount > 0 /\ c.amount <= old.feePaid
      BY <1>3, <1>6, <1>7
    <3> HIDE DEF r, new
    <3> QED BY <1>2, <1>3, <2>2, <2>3, <3>1, RulesConserve DEF new, r
  <2>6. moves \in Int
    BY <1>3 DEF SignedEntryAmount
  <2>7. OutsideFlow(b)' = flow(b) + moves /\ flow(b) \in Int
    BY <1>5
  <2>8. old.available + old.locked =
          old.initialDeposit + old.realizedDelta - old.feePaid + flow(b)
    BY <1>3, <1>6
  <2> HIDE DEF old, new, moves, flow, fees
  <2>9. new.available + new.locked =
          new.initialDeposit + new.realizedDelta - new.feePaid + (flow(b) + moves)
    <3>1. \A x \in Balance : /\ x.available \in Int /\ x.locked \in Int /\ x.initialDeposit \in Int
                             /\ x.realizedDelta \in Int /\ x.feePaid \in Int
      BY DEF Balance
    <3>2. /\ old.available \in Int /\ old.locked \in Int /\ old.initialDeposit \in Int
          /\ old.realizedDelta \in Int /\ old.feePaid \in Int
          /\ new.available \in Int /\ new.locked \in Int /\ new.initialDeposit \in Int
          /\ new.realizedDelta \in Int /\ new.feePaid \in Int
      BY <2>2, <3>1
    <3>3. PICK f \in Int : f = flow(b)
      BY <2>7
    <3>4. old.available + old.locked = old.initialDeposit + old.realizedDelta - old.feePaid + f
      BY <2>8, <3>3
    <3>5. new.available + new.locked =
            new.initialDeposit + new.realizedDelta - new.feePaid + (f + moves)
      BY <2>5, <2>6, <3>2, <3>4
    <3> QED BY <3>3, <3>5
  <2> QED BY <2>1, <2>4, <2>7, <2>9
<1> QED BY <1>8, <1>9 DEF MoneyInv, FeesInv, MoneyConserved

\* Money is conserved by every step.
LEMMA MoneyStep ==
  ASSUME FeesReversedOnce, RebuildBuckets = {}, UseTransaction
  PROVE  LedgerInv /\ ReadModelInv /\ FreshInv /\ TogetherInv /\ MoneyInv /\ [Next]_vars =>
           MoneyInv'
<1> SUFFICES ASSUME LedgerInv, ReadModelInv, FreshInv, TogetherInv, MoneyInv, [Next]_vars
             PROVE  MoneyInv'
  OBVIOUS
<1>1. \A n \in CallIds : ~SaveEntry(n) /\ ~SaveBalance(n)
  BY DEF TogetherInv, SaveEntry, SaveBalance
<1>2. ~RebuildCreateRow
  BY DEF FreshInv, NoRebuild, RebuildCreateRow
<1>3. CASE UNCHANGED <<entries, rows, unapplied>>
  <2>1. \A b : /\ Row(b)' = Row(b) /\ OpenFees(b)' = OpenFees(b) /\ Amounts' = Amounts
               /\ OutsideFlow(b)' = OutsideFlow(b)
    BY <1>3 DEF Row, OpenFees, Amounts, OutsideFlow, Existing
  <2> QED BY <2>1 DEF MoneyInv, FeesInv, MoneyConserved
<1>4. CASE \E n \in CallIds : Commit(n) /\ Adds(call[n].cmd)
  <2>1. unapplied' = {}
    BY TogetherStep DEF TogetherInv
  <2> QED BY <1>4, <2>1, CommitConserves
<1> QED BY <1>1, <1>2, <1>3, <1>4, TableSteps

\* On a database with transactions, as long as no rebuild sets a row back and a fee is
\* reversed once and in full, no interleaving of calls, failed saves and crashes makes or
\* loses money: what a bucket holds is what was deposited, earned and moved in from the
\* outside, less the fees.
THEOREM MoneyStays ==
  ASSUME FeesReversedOnce, RebuildBuckets = {}, UseTransaction
  PROVE  Spec => []MoneyConserved
<1>1. Init => TogetherInv /\ MoneyInv
  BY FreshInit, MoneyInit
<1>2. MoneyInv => MoneyConserved
  BY DEF MoneyInv
<1> QED BY <1>1, <1>2, FreshInvariance, TogetherStep, MoneyStep, PTL DEF Spec
=============================================================================
