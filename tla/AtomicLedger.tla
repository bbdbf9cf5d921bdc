---------------------------- MODULE AtomicLedger ----------------------------
(***************************************************************************)
(* What the order ledger promises its callers: a command either has its    *)
(* whole effect in one step, the entry and the balance together, at most   *)
(* once for each idempotency key, or it has none.  No lock, no queue, no   *)
(* row that lags behind, no crash is visible here.                         *)
(***************************************************************************)
EXTENDS LedgerRules

CONSTANTS Buckets, Commands

VARIABLES
  book,     \* the entries that took effect
  balance   \* bucket -> balance

avars == <<book, balance>>

AInit ==
  /\ book = {}
  /\ balance = [b \in Buckets |-> ZeroBalance]

Recorded(k) == \E e \in book : e.key = k

\* A command that fits the balance takes effect.  If it reverses an entry, the
\* entry's type decides how realised result and fees move.
AApply(c) ==
  /\ ~Recorded(c.key)
  /\ AmountAdmissible(c.type, c.amount)
  /\ FundsSuffice(c.type, c.amount, balance[c.bucket])
  /\ book' = book \cup
       {[ key |-> c.key, bucket |-> c.bucket, type |-> c.type,
          amount |-> SignedEntryAmount(c.type, c.amount), reversalOf |-> c.reversalOf ]}
  /\ \E r \in EntryTypes \cup {NoType} :
       /\ \A e \in book : e.key = c.reversalOf => r = e.type
       /\ balance' = [balance EXCEPT ![c.bucket] =
                        ApplyCommand(c.type, c.amount, r, balance[c.bucket])]

ANext == \E c \in Commands : AApply(c)

ASpec == AInit /\ [][ANext]_avars
=============================================================================
