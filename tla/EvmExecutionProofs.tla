------------------------- MODULE EvmExecutionProofs -------------------------
(***************************************************************************)
(* Theorems about EvmExecution, for every set of swaps, orders and callers, *)
(* every depth of confirmation and any number of blocks, reorganisations    *)
(* and faults.                                                              *)
(***************************************************************************)
EXTENDS EvmExecution, NatSets

-----------------------------------------------------------------------------
(* The inductive invariant. *)

Rowed == {s \in Swaps : row[s] # None}

\* The swaps in the allocator's queue are those that wait for a nonce or hold the
\* lock, each once, and who holds it is at the head.
Queued(s) == sub[s].pc \in {"queue", "create"}

LockInv ==
  /\ \A i \in 1..Len(locks) : Queued(locks[i])
  /\ \A i, j \in 1..Len(locks) : locks[i] = locks[j] => i = j
  /\ \A s \in Swaps : Queued(s) => \E i \in 1..Len(locks) : locks[i] = s
  /\ \A s \in Swaps : sub[s].pc = "create" => locks[1] = s

\* A swap has a row once its nonce is taken; only a swap with a row is broadcast,
\* and only the running swaps get that far.
RowInv ==
  /\ \A s \in Swaps : /\ sub[s].pc \in {"idle", "gas", "queue", "create"} => row[s] = None
                      /\ sub[s].pc \in {"send", "mark"} => row[s] # None
                      /\ sub[s].pc # "idle" \/ row[s] # None => s \in Running
  /\ sent \subseteq Rowed /\ IsFiniteSet(Rowed)

\* A nonce that was read under the lock is still above all of the wallet's when its row
\* is created, and the next one of a wallet that has sent before.
NonceInv ==
  /\ NoncesContiguous /\ NonceNeverContended
  /\ \A s \in Swaps : sub[s].pc = "create" =>
       /\ \A n \in Nonces : n < sub[s].nonce
       /\ setup.count > 0 => sub[s].nonce = setup.count + Cardinality(Nonces)

\* A call has the row of its execution, with the nonce it still has, and the receipt
\* it is to save.
Fits(t) ==
  /\ row[t.id] # None
  /\ t.pc \in {"receipt", "height"} => t.mark = "pending"
  /\ t.mark \in {"confirmed", "reverted"} => t.receipt # None
  /\ t.pc \in {"save", "again", "monitor"} => t.row # None /\ t.row.nonce = row[t.id].nonce

CallInv == \A c \in Callers : call[c] # None => Fits(call[c])

\* In a block, and deeper than any reorganisation reaches.
Deep(s) == block[s] > 0 /\ height - block[s] + 1 >= Confirmations

Matches(receipt, s) ==
  receipt # None /\ block[s] > 0 /\ receipt.block = block[s] /\ receipt.ok = ok[s]

\* A row that says confirmed has the receipt of a deep transaction.
Genuine(r, s) == r # None /\ r.status = "confirmed" => Matches(r.hash, s) /\ Deep(s)

\* What a call holds of the chain is true: the receipt until the height is read, from
\* then on that the transaction is deep.
Truthful(t) ==
  /\ t.pc = "height" /\ t.receipt # None => Matches(t.receipt, t.id)
  /\ t.pc \in {"load", "save", "again"} /\ t.mark \in {"confirmed", "reverted"} =>
       Matches(t.receipt, t.id) /\ Deep(t.id)
  /\ t.pc \in {"save", "again"} => Genuine(t.row, t.id)

\* Whether read, held or saved, a receipt is the chain's, unless a reorganisation came
\* between the reads of receipt and height.
ReceiptInv ==
  "overtaken" \notin seen =>
    /\ \A s \in Swaps : Genuine(row[s], s)
    /\ \A c \in Callers : call[c] # None => Truthful(call[c])

\* Booked for good: deep in the chain, where it succeeded.
Final(s) == Deep(s) /\ ok[s]

\* What is booked, or about to be, is final.
BookedInv ==
  seen \cap {"overtaken", "halfReverted"} = {} =>
    /\ \A s \in Swaps : <<s, "debit">> \in booked => Final(s)
    /\ \A c \in Callers : call[c] # None /\ call[c].pc = "debit" => Final(call[c].id)

EvmInv == TypeOK /\ LockInv /\ RowInv /\ NonceInv /\ CallInv /\ ReceiptInv /\ BookedInv

-----------------------------------------------------------------------------
(* The types. *)

CallTyped == call' \in [Callers -> Calls \cup {None}]

\* A call takes another of its steps.
LEMMA CallWrite ==
  ASSUME call \in [Callers -> Calls \cup {None}], NEW c \in Callers, NEW x \in Calls \cup {None},
         call' = [call EXCEPT ![c] = x]
  PROVE  CallTyped
BY DEF CallTyped

\* A new call knows its execution.
LEMMA BeginsTyped ==
  ASSUME TypeOK, NEW c \in Callers, NEW s \in Swaps,
         NEW p \in {"receipt", "monitor", "entries", "debit"}, row[s] # None, Begins(c, s, p)
  PROVE  CallTyped
<1> DEFINE x == [pc |-> p, id |-> s, row |-> IF p = "monitor" THEN row[s] ELSE None,
                 first |-> IF p = "receipt" THEN row[s].first ELSE 0,
                 receipt |-> None, height |-> 0, mark |-> "pending"]
<1>1. row[s] \in Rows /\ row[s].first \in Nat
  BY DEF TypeOK, Rows
<1>2. x \in Calls
  BY <1>1 DEF Calls, CallSteps, Marks
<1>3. call' = [call EXCEPT ![c] = x]
  BY DEF Begins
<1> HIDE DEF x
<1> QED BY <1>2, <1>3, CallWrite DEF TypeOK

\* What a mark method saves is a row.
LEMMA ChangedTyped ==
  ASSUME NEW t \in Calls, t.row # None,
         t.mark \in {"confirmed", "reverted"} => t.receipt # None
  PROVE  Changed(t) \in Rows /\ Changed(t).nonce = t.row.nonce
<1>1. /\ t.row \in Rows /\ t.mark \in Marks /\ t.height \in Nat /\ t.receipt \in Receipts \cup {None}
  BY DEF Calls
<1>2. [t.row EXCEPT !.first = IF t.row.first = 0 THEN t.height ELSE t.row.first] \in Rows
  <2>1. t.row.first \in Nat
    BY <1>1 DEF Rows
  <2>2. (IF t.row.first = 0 THEN t.height ELSE t.row.first) \in Nat
    BY <1>1, <2>1
  <2> QED BY <1>1, <2>2 DEF Rows
<1>3. [t.row EXCEPT !.status = "confirmed", !.hash = t.receipt] \in Rows
  BY <1>1 DEF Rows, RowStatus
<1>4. [t.row EXCEPT !.status = "manual_review"] \in Rows
  BY <1>1 DEF Rows, RowStatus
<1>5. CASE t.mark = "pending"
  BY <1>1, <1>2, <1>5 DEF Changed, Rows
<1>6. CASE t.mark = "confirmed" \/ t.mark = "reverted"
  BY <1>1, <1>3, <1>6 DEF Changed, Rows
<1>7. CASE t.mark = "manual_review"
  BY <1>1, <1>4, <1>7 DEF Changed, Rows
<1> QED BY <1>1, <1>5, <1>6, <1>7 DEF Marks


\* The largest of a finite set of integers.
LEMMA MaxIsLargest ==
  ASSUME NEW S \in SUBSET Int, IsFiniteSet(S), S # {}
  PROVE  Max(S) \in S /\ \A y \in S : Max(S) >= y
BY FiniteSetHasMax DEF Max

\* The wallet has finitely many nonces.
LEMMA NoncesFinite ==
  ASSUME TypeOK, RowInv
  PROVE  Nonces \subseteq Nat /\ IsFiniteSet(Nonces) /\ Cardinality(Nonces) \in Nat
<1> DEFINE f == [s \in Rowed |-> row[s].nonce]
<1>1. \A s \in Rowed : row[s].nonce \in Nat
  BY DEF TypeOK, Rows, Rowed
<1>2. f \in Surjection(Rowed, Nonces)
  BY DEF Surjection, Rowed, Nonces
<1>3. IsFiniteSet(Nonces)
  <2> HIDE DEF f
  <2> QED BY <1>2, FS_Surjection DEF RowInv
<1> QED BY <1>1, <1>3, FS_CardinalityType DEF Rowed, Nonces

\* The pending count starts at the chain's count and cannot pass the first nonce that
\* nobody was given, since every transaction sent has a row.
LEMMA PendingCountRange ==
  ASSUME TypeOK, RowInv
  PROVE  /\ setup.count \in Nat /\ PendingCount \in Nat /\ PendingCount >= setup.count
         /\ \A k \in Nat : setup.count + k \notin Nonces => PendingCount <= setup.count + k
<1> DEFINE nonces == {row[s].nonce : s \in sent}
           A == {n \in 0..Cardinality(sent) : \A i \in 0..n - 1 : setup.count + i \in nonces}
<1>1. setup.count \in Nat
  BY EvmAssumption DEF TypeOK
<1>2. Cardinality(sent) \in Nat
  BY FS_Subset, FS_CardinalityType DEF RowInv
<1>3. A \in SUBSET Int /\ IsFiniteSet(A) /\ A # {}
  <2>1. 0 \in A
    BY <1>2
  <2>2. A \in SUBSET (0..Cardinality(sent))
    OBVIOUS
  <2>3. IsFiniteSet(0..Cardinality(sent))
    BY <1>2, FS_Interval
  <2>4. 0..Cardinality(sent) \in SUBSET Int
    BY <1>2
  <2> HIDE DEF A
  <2>5. IsFiniteSet(A)
    BY <2>2, <2>3, FS_Subset
  <2> QED BY <2>1, <2>2, <2>4, <2>5
<1>4. Max(A) \in A
  <2> HIDE DEF A
  <2> QED BY <1>3, MaxIsLargest
<1>5. PendingCount = setup.count + Max(A)
  BY DEF PendingCount
<1>6. nonces \subseteq Nonces
  BY DEF RowInv, Rowed, Nonces
<1>7. ASSUME NEW k \in Nat, setup.count + k \notin Nonces PROVE Max(A) <= k
  <2>1. PICK m \in A : m = Max(A)
    BY <1>4
  <2>2. m \in Nat /\ \A i \in 0..m - 1 : setup.count + i \in nonces
    BY <1>2
  <2>3. m <= k
    <3> HIDE DEF nonces
    <3> QED BY <1>6, <1>7, <2>2
  <2> QED BY <2>1, <2>3
<1>8. Max(A) \in Nat
  BY <1>2, <1>4
<1> HIDE DEF A
<1> QED BY <1>1, <1>5, <1>7, <1>8

\* The nonce to allocate is above every nonce given, and for a wallet that has sent
\* before it is the next one after them.
LEMMA NextNonceFacts ==
  ASSUME TypeOK, RowInv
  PROVE  /\ NextNonce \in Nat /\ \A n \in Nonces : n < NextNonce
         /\ setup.count > 0 /\ NoncesContiguous => NextNonce = setup.count + Cardinality(Nonces)
<1> DEFINE S == {0, PendingCount - 1} \cup Nonces
<1>1. PendingCount \in Nat /\ setup.count \in Nat /\ PendingCount >= setup.count
  BY PendingCountRange
<1>2. S \in SUBSET Int /\ IsFiniteSet(S) /\ S # {}
  <2>1. IsFiniteSet({0, PendingCount - 1})
    <3> DEFINE x == PendingCount - 1
    <3> HIDE DEF x
    <3>1. IsFiniteSet({0})
      BY FS_Singleton
    <3>2. IsFiniteSet({0} \cup {x})
      BY <3>1, FS_AddElement
    <3>3. {0, x} = {0} \cup {x}
      OBVIOUS
    <3>4. IsFiniteSet({0, x})
      BY <3>2, <3>3
    <3> QED BY <3>4 DEF x
  <2>2. IsFiniteSet(S)
    <3>1. IsFiniteSet(Nonces)
      BY NoncesFinite
    <3> QED BY <2>1, <3>1, FS_Union
  <2>3. S \in SUBSET Int
    BY <1>1, NoncesFinite
  <2> QED BY <2>2, <2>3
<1>3. Max(S) \in S /\ \A y \in S : Max(S) >= y
  <2> HIDE DEF S
  <2> QED BY <1>2, MaxIsLargest
<1>4. NextNonce = Max(S) + 1
  BY DEF NextNonce
<1>5. Max(S) \in Nat
  BY <1>1, <1>3, NoncesFinite
<1>6. ASSUME setup.count > 0, NoncesContiguous
      PROVE  Max(S) = setup.count + Cardinality(Nonces) - 1
  <2> DEFINE k == Cardinality(Nonces)
  <2>1. Nonces = setup.count..setup.count + k - 1 /\ k \in Nat
    BY <1>6, NoncesFinite DEF NoncesContiguous
  <2> HIDE DEF k
  <2>2. PendingCount <= setup.count + k
    BY <1>1, <2>1, PendingCountRange
  <2>3. \A y \in S : y <= setup.count + k - 1
    BY <1>1, <1>6, <2>1, <2>2
  <2>4. setup.count + k - 1 \in S \/ (k = 0 /\ PendingCount - 1 = setup.count - 1 /\ setup.count - 1 \in S)
    BY <1>1, <2>1, <2>2
  <2>5. setup.count + k - 1 \in S
    BY <1>1, <2>1, <2>4
  <2> HIDE DEF S
  <2> QED BY <1>1, <1>3, <1>5, <2>1, <2>3, <2>5 DEF k
<1> HIDE DEF S
<1>7. \A n \in Nonces : n < NextNonce
  <2>1. \A n \in Nonces : n \in S /\ n \in Nat
    BY NoncesFinite DEF S
  <2> QED BY <1>3, <1>4, <1>5, <2>1
<1> QED BY <1>1, <1>4, <1>5, <1>6, <1>7, NoncesFinite

\* A release key keeps its amounts.
LEMMA ReleaseWrite ==
  ASSUME NEW f \in [Swaps -> [token : Nat, gas : Nat]], NEW s \in Swaps, NEW h \in Nat
  PROVE  /\ [f EXCEPT ![s].token = h] \in [Swaps -> [token : Nat, gas : Nat]]
         /\ [f EXCEPT ![s].gas = h] \in [Swaps -> [token : Nat, gas : Nat]]
OBVIOUS

\* A submission goes on to another step.
LEMMA SubWrite ==
  ASSUME sub \in [Swaps -> Subs], NEW s \in Swaps, NEW p \in SubSteps, Goes(s, p)
  PROVE  sub' \in [Swaps -> Subs]
BY DEF Goes, Subs

\* The forms in which a call goes on.
LEMMA CallForms ==
  ASSUME NEW t \in Calls, NEW p \in CallSteps, NEW q \in Rows \cup {None},
         NEW r \in Receipts \cup {None}, NEW h \in Nat
  PROVE  /\ [t EXCEPT !.pc = p] \in Calls /\ [t EXCEPT !.pc = p, !.receipt = r] \in Calls
         /\ [t EXCEPT !.pc = p, !.row = q] \in Calls /\ [t EXCEPT !.pc = p, !.height = h] \in Calls
         /\ [t EXCEPT !.pc = p, !.mark = "manual_review", !.row = q] \in Calls
BY DEF Calls, Marks


\* Every step keeps the types of the variables.
LEMMA TypeStep == TypeOK /\ LockInv /\ RowInv /\ CallInv /\ [Next]_vars => TypeOK'
<1> SUFFICES ASSUME TypeOK, LockInv, RowInv, CallInv, [Next]_vars PROVE TypeOK'
  OBVIOUS
<1>0. /\ call \in [Callers -> Calls \cup {None}] /\ row \in [Swaps -> Rows \cup {None}]
      /\ sub \in [Swaps -> Subs] /\ block \in [Swaps -> Nat] /\ ok \in [Swaps -> BOOLEAN]
      /\ height \in Nat /\ locked \in [Orders -> Nat] /\ gasLocked \in Nat
      /\ released \in [Swaps -> [token : Nat, gas : Nat]]
      /\ Gas \in Nat /\ locks \in Seq(Swaps) /\ seen \subseteq Kinds /\ faults \in Nat
      /\ booked \subseteq Swaps \X {"debit", "credit", "gas"}
  BY EvmAssumption DEF TypeOK
<1>a. \A s \in Running : s \in Swaps /\ setup.order[s] \in Orders
  BY EvmAssumption DEF TypeOK, Running
<1>b. \A c \in Callers : call[c] # None =>
        LET t == call[c]
        IN  /\ t \in Calls /\ t.id \in Swaps /\ t.row \in Rows \cup {None} /\ t.height \in Nat
            /\ row[t.id] # None /\ t.id \in Running
            /\ t.pc \in {"save", "again", "monitor"} => t.row \in Rows
            /\ t.mark \in {"confirmed", "reverted"} => t.receipt # None
  BY <1>0 DEF Calls, CallInv, Fits, RowInv
<1>c. \A s \in Swaps : Status(s) \in RowStatus => row[s] # None
  BY NoRowAssumption DEF Status

<1>1. ASSUME NEW s \in Swaps, Reserve(s) PROVE TypeOK'
  <2>1. sub' \in [Swaps -> Subs]
    <3>1. PICK p \in SubSteps : Goes(s, p)
      BY <1>1 DEF Reserve, SubSteps
    <3> QED BY <1>0, <1>1, <3>1, SubWrite
  <2>2. locked' \in [Orders -> Nat]
    BY <1>0, <1>a, <1>1 DEF Reserve
  <2> QED BY <1>1, <2>1, <2>2 DEF TypeOK, Reserve, chain, past
<1>2. ASSUME NEW s \in Swaps, ReserveGas(s) PROVE TypeOK'
  <2>1. sub' \in [Swaps -> Subs]
    <3>1. PICK p \in SubSteps : Goes(s, p)
      BY <1>2 DEF ReserveGas, SubSteps
    <3> QED BY <1>0, <1>2, <3>1, SubWrite
  <2>2. gasLocked' \in Nat
    BY <1>0, <1>2 DEF ReserveGas
  <2>3. locks' \in Seq(Swaps)
    <3>1. locks' = locks \/ locks' = Append(locks, s)
      BY <1>2 DEF ReserveGas
    <3>2. Append(locks, s) \in Seq(Swaps)
      BY <1>0, <1>2
    <3> QED BY <1>0, <3>1, <3>2
  <2> QED BY <1>2, <2>1, <2>2, <2>3 DEF TypeOK, ReserveGas, chain, past
<1>3. ASSUME NEW s \in Swaps, AllocateRead(s) PROVE TypeOK'
  <2>1. NextNonce \in Nat
    BY NextNonceFacts
  <2>2. sub' \in [Swaps -> Subs]
    BY <1>0, <1>3, <2>1 DEF AllocateRead, Subs, SubSteps
  <2> QED BY <1>3, <2>2 DEF TypeOK, AllocateRead, chain, ledger, past
<1>4. ASSUME NEW s \in Swaps, CreateRow(s) PROVE TypeOK'
  <2>1. sub' \in [Swaps -> Subs]
    <3>1. PICK p \in SubSteps : Goes(s, p)
      BY <1>4 DEF CreateRow, SubSteps
    <3> QED BY <1>0, <1>4, <3>1, SubWrite
  <2>2. row' \in [Swaps -> Rows \cup {None}]
    <3>1. sub[s].nonce \in Nat
      BY <1>0, <1>4 DEF Subs
    <3>2. [status |-> "created", nonce |-> sub[s].nonce, tx |-> FALSE, first |-> 0, hash |-> None] \in Rows
      BY <3>1 DEF Rows, RowStatus
    <3> QED BY <1>0, <1>4, <3>2 DEF CreateRow
  <2>3. locks' \in Seq(Swaps)
    <3>1. locks # <<>>
      BY <1>4 DEF CreateRow, LockInv, Queued
    <3> QED BY <1>4, <3>1 DEF TypeOK, CreateRow
  <2> QED BY <1>4, <2>1, <2>2, <2>3 DEF TypeOK, CreateRow, chain, ledger, past
<1>5. ASSUME NEW s \in Swaps, Broadcast(s) PROVE TypeOK'
  <2>1. sub' \in [Swaps -> Subs]
    <3>1. PICK p \in SubSteps : Goes(s, p)
      BY <1>5 DEF Broadcast, SubSteps
    <3> QED BY <1>0, <1>5, <3>1, SubWrite
  <2>2. seen' \subseteq Kinds /\ faults' \in Nat
    <3>1. UNCHANGED past \/ Fault("lost") \/ Fault("reject")
      BY <1>5 DEF Broadcast
    <3>2. {"lost", "reject"} \subseteq Kinds
      BY DEF Kinds
    <3>3. CASE Fault("lost")
      BY <1>0, <3>2, <3>3 DEF Fault
    <3>4. CASE Fault("reject")
      BY <1>0, <3>2, <3>4 DEF Fault
    <3> QED BY <1>0, <3>1, <3>3, <3>4 DEF past
  <2> QED BY <1>5, <2>1, <2>2 DEF TypeOK, Broadcast, ledger
<1>6. ASSUME NEW s \in Swaps, MarkSubmitted(s) PROVE TypeOK'
  <2>1. sub' \in [Swaps -> Subs]
    <3>1. PICK p \in SubSteps : Goes(s, p)
      BY <1>6 DEF MarkSubmitted, SubSteps
    <3> QED BY <1>0, <1>6, <3>1, SubWrite
  <2>2. row' \in [Swaps -> Rows \cup {None}]
    <3>1. row[s] \in Rows
      BY <1>0, <1>6 DEF MarkSubmitted, RowInv
    <3>2. [row[s] EXCEPT !.status = "submitted", !.tx = TRUE] \in Rows
      BY <3>1 DEF Rows, RowStatus
    <3>3. row' = row \/ row' = [row EXCEPT ![s] = [row[s] EXCEPT !.status = "submitted", !.tx = TRUE]]
      BY <1>6 DEF MarkSubmitted
    <3> QED BY <1>0, <3>2, <3>3
  <2>3. seen' \subseteq Kinds /\ faults' \in Nat
    <3>1. "db" \in Kinds
      BY DEF Kinds
    <3>2. CASE Fault("db")
      BY <1>0, <3>1, <3>2 DEF Fault
    <3>3. CASE UNCHANGED past
      BY <1>0, <3>3 DEF past
    <3> QED BY <1>6, <3>2, <3>3 DEF MarkSubmitted
  <2> QED BY <1>6, <2>1, <2>2, <2>3 DEF TypeOK, MarkSubmitted, chain, ledger
<1>7. ASSUME NEW s \in Swaps, Mine(s) PROVE TypeOK'
  BY <1>0, <1>7 DEF TypeOK, Mine, ledger, past
<1>8. CASE MineEmpty
  BY <1>0, <1>8 DEF TypeOK, MineEmpty, ledger, past
<1>9. ASSUME NEW d \in 1..Confirmations - 1, Reorg(d) PROVE TypeOK'
  BY <1>0, <1>9 DEF TypeOK, Reorg, ledger, past, Kinds
<1>10. ASSUME NEW c \in Callers, NEW s \in Swaps, ConfirmRead(c, s) PROVE TypeOK'
  <2>1. row[s] # None /\ Begins(c, s, "receipt")
    BY <1>c, <1>10 DEF ConfirmRead, AwaitsReceipt, RowStatus
  <2>2. CallTyped
    BY <2>1, <1>10, BeginsTyped
  <2> QED BY <1>10, <2>2 DEF TypeOK, CallTyped, ConfirmRead, chain, ledger, past
<1>11. ASSUME NEW c \in Callers, NEW s \in Swaps, MonitorRead(c, s) PROVE TypeOK'
  <2>1. row[s] # None /\ Begins(c, s, "monitor")
    BY <1>c, <1>11 DEF MonitorRead, AwaitsReceipt, RowStatus
  <2>2. CallTyped
    BY <2>1, <1>11, BeginsTyped
  <2> QED BY <1>11, <2>2 DEF TypeOK, CallTyped, MonitorRead, chain, ledger, past
<1>12. ASSUME NEW c \in Callers, NEW s \in Swaps, ReconcileRead(c, s) PROVE TypeOK'
  <2>1. row[s] # None /\ Begins(c, s, "entries")
    BY <1>c, <1>12 DEF ReconcileRead, AwaitsReceipt, RowStatus
  <2>2. CallTyped
    BY <2>1, <1>12, BeginsTyped
  <2> QED BY <1>12, <2>2 DEF TypeOK, CallTyped, ReconcileRead, chain, ledger, past
<1>13. ASSUME NEW c \in Callers, NEW s \in Swaps, SettleRead(c, s) PROVE TypeOK'
  <2>1. row[s] # None /\ Begins(c, s, "debit")
    BY <1>c, <1>13 DEF SettleRead, AwaitsReceipt, RowStatus
  <2>2. CallTyped
    BY <2>1, <1>13, BeginsTyped
  <2> QED BY <1>13, <2>2 DEF TypeOK, CallTyped, SettleRead, chain, ledger, past, Kinds
<1>14. ASSUME NEW c \in Callers, ConfirmReceipt(c) PROVE TypeOK'
  <2>1. call[c] # None
    BY <1>14 DEF ConfirmReceipt, At
  <2>0. Receipt(call[c].id) \in Receipts \cup {None}
    BY <1>0, <1>b, <1>14, <2>1 DEF Receipt, Receipts
  <2>2. PICK x \in Calls \cup {None} : call' = [call EXCEPT ![c] = x]
    <3>1. [call[c] EXCEPT !.pc = "height", !.receipt = Receipt(call[c].id)] \in Calls
      BY <1>b, <1>14, <2>1, <2>0, CallForms DEF CallSteps
    <3> QED BY <1>0, <1>14, <2>1, <3>1 DEF ConfirmReceipt, Steps, Ends, ToReview
  <2>3. CallTyped
    BY <1>0, <1>14, <2>2, CallWrite
  <2> QED BY <1>14, <2>3 DEF TypeOK, CallTyped, ConfirmReceipt, chain, ledger, past
<1>15. ASSUME NEW c \in Callers, ConfirmHeight(c) PROVE TypeOK'
  <2> DEFINE t == [call[c] EXCEPT !.height = height, !.pc = "load"]
             x == [t EXCEPT !.mark = IF t.receipt.ok THEN "confirmed" ELSE "reverted", !.first = 0,
                            !.height = 0]
  <2>1. call[c] # None
    BY <1>15 DEF ConfirmHeight, At
  <2>2. t \in Calls
    BY <1>0, <1>b, <1>15, <2>1 DEF Calls, CallSteps
  <2>3. x \in Calls
    <3> HIDE DEF t
    <3> QED BY <2>2 DEF Calls, Marks
  <2>4. call' = [call EXCEPT ![c] = t] \/ call' = [call EXCEPT ![c] = x] \/ call' = [call EXCEPT ![c] = None]
    BY <1>15 DEF ConfirmHeight
  <2> HIDE DEF t, x
  <2>5. CallTyped
    BY <1>0, <1>15, <2>2, <2>3, <2>4, CallWrite
  <2> QED BY <1>15, <2>5 DEF TypeOK, CallTyped, ConfirmHeight, chain, ledger, past
<1>16. ASSUME NEW c \in Callers, MonitorReceipt(c) PROVE TypeOK'
  <2>1. call[c] # None
    BY <1>16 DEF MonitorReceipt, At
  <2>2. PICK x \in Calls \cup {None} : call' = [call EXCEPT ![c] = x]
    <3>1. [call[c] EXCEPT !.pc = "load", !.mark = "manual_review", !.row = None] \in Calls
      BY <1>b, <1>16, <2>1, CallForms DEF CallSteps
    <3> QED BY <1>0, <1>16, <2>1, <3>1 DEF MonitorReceipt, Steps, Ends, ToReview
  <2>3. CallTyped
    BY <1>0, <1>16, <2>2, CallWrite
  <2> QED BY <1>16, <2>3 DEF TypeOK, CallTyped, MonitorReceipt, chain, ledger, past
<1>17. ASSUME NEW c \in Callers, ReconcileEntries(c) PROVE TypeOK'
  <2>1. call[c] # None
    BY <1>17 DEF ReconcileEntries, At
  <2>2. PICK x \in Calls \cup {None} : call' = [call EXCEPT ![c] = x]
    <3>1. [call[c] EXCEPT !.pc = "load", !.mark = "manual_review", !.row = None] \in Calls
      BY <1>b, <1>17, <2>1, CallForms DEF CallSteps
    <3> QED BY <1>0, <1>17, <2>1, <3>1 DEF ReconcileEntries, Steps, Ends, ToReview
  <2>3. CallTyped
    BY <1>0, <1>17, <2>2, CallWrite
  <2> QED BY <1>17, <2>3 DEF TypeOK, CallTyped, ReconcileEntries, chain, ledger, past
<1>18. ASSUME NEW c \in Callers, MarkRead(c) PROVE TypeOK'
  <2>1. call[c] # None
    BY <1>18 DEF MarkRead, At
  <2>2. PICK x \in Calls \cup {None} : call' = [call EXCEPT ![c] = x]
    <3>1. [call[c] EXCEPT !.pc = "save", !.row = row[call[c].id]] \in Calls
      <4>1. call[c] \in Calls /\ call[c].id \in Swaps
        BY <1>b, <2>1, Zenon
      <4>2. row[call[c].id] \in Rows \cup {None} /\ "save" \in CallSteps
        BY <1>0, <4>1 DEF CallSteps
      <4> QED BY <4>1, <4>2, CallForms
    <3> QED BY <1>0, <1>18, <2>1, <3>1 DEF MarkRead, Steps, Ends, ToReview
  <2>3. CallTyped
    BY <1>0, <1>18, <2>2, CallWrite
  <2> QED BY <1>18, <2>3 DEF TypeOK, CallTyped, MarkRead, chain, ledger, past
<1>19. ASSUME NEW c \in Callers, MarkSave(c) PROVE TypeOK'
  <2> DEFINE t == call[c]
             x == [t EXCEPT !.pc = "again", !.row = Changed(t)]
             y == [t EXCEPT !.pc = "load", !.mark = "manual_review", !.row = None, !.first = 0,
                            !.height = 0]
  <2>1. t \in Calls /\ t.id \in Swaps /\ Changed(t) \in Rows
    <3>1. call[c] # None
      BY <1>19 DEF MarkSave, At
    <3>2. t \in Calls /\ t.row # None /\ (t.mark \in {"confirmed", "reverted"} => t.receipt # None)
      BY <1>b, <1>19, <3>1, NoRowAssumption DEF MarkSave, At
    <3> HIDE DEF t
    <3> QED BY <3>2, ChangedTyped DEF Calls
  <2>2. row' = [row EXCEPT ![t.id] = Changed(t)]
    BY <1>19 DEF MarkSave
  <2>3. call' = [call EXCEPT ![c] = x] \/ call' = [call EXCEPT ![c] = y] \/ call' = [call EXCEPT ![c] = None]
    BY <1>19 DEF MarkSave
  <2>4. CallTyped
    <3>1. x \in Calls /\ y \in Calls
      <4> HIDE DEF t
      <4> QED BY <2>1 DEF Calls, CallSteps, Marks
    <3> HIDE DEF x, y
    <3> QED BY <1>0, <1>19, <2>3, <3>1, CallWrite
  <2>5. row' \in [Swaps -> Rows \cup {None}]
    <3> HIDE DEF t
    <3> QED BY <1>0, <2>1, <2>2
  <2> QED BY <1>19, <2>4, <2>5 DEF TypeOK, CallTyped, MarkSave, chain, ledger, past
<1>20. ASSUME NEW c \in Callers, MarkAgain(c) PROVE TypeOK'
  <2>1. call[c] # None
    BY <1>20 DEF MarkAgain, At
  <2>2. PICK x \in Calls \cup {None} : call' = [call EXCEPT ![c] = x]
    <3> QED BY <1>0, <1>20, <2>1 DEF MarkAgain, Steps, Ends, ToReview
  <2>3. CallTyped
    BY <1>0, <1>20, <2>2, CallWrite
  <2>4. row' \in [Swaps -> Rows \cup {None}]
    <3>1. call[c].row \in Rows /\ call[c].id \in Swaps
      BY <1>b, <1>20, <2>1 DEF MarkAgain, At
    <3>2. [call[c].row EXCEPT !.status = "reverted"] \in Rows
      BY <3>1 DEF Rows, RowStatus
    <3> QED BY <1>0, <1>20, <3>1, <3>2 DEF MarkAgain
  <2> QED BY <1>20, <2>3, <2>4 DEF TypeOK, CallTyped, MarkAgain, chain, ledger, past
<1>21. ASSUME NEW c \in Callers, SettleDebit(c) PROVE TypeOK'
  <2>1. call[c] # None
    BY <1>21 DEF SettleDebit, At
  <2>2. PICK x \in Calls \cup {None} : call' = [call EXCEPT ![c] = x]
    <3>1. [call[c] EXCEPT !.pc = "releaseRead"] \in Calls
      BY <1>b, <1>21, <2>1, CallForms DEF CallSteps
    <3> QED BY <1>0, <1>21, <2>1, <3>1 DEF SettleDebit, Steps, Ends, ToReview
  <2>3. CallTyped
    BY <1>0, <1>21, <2>2, CallWrite
  <2>4. locked' \in [Orders -> Nat] /\ booked' \subseteq Swaps \X {"debit", "credit", "gas"}
    <3>1. call[c].id \in Swaps /\ setup.order[call[c].id] \in Orders
      BY <1>a, <1>b, <1>21, <2>1
    <3> DEFINE k == <<call[c].id, "debit">>
    <3>2. k \in Swaps \X {"debit", "credit", "gas"}
      BY <3>1
    <3>3. \/ booked' = booked /\ locked' = locked
          \/ /\ booked' = booked \cup {k} /\ locked[setup.order[call[c].id]] >= 1
             /\ locked' = [locked EXCEPT ![setup.order[call[c].id]] = @ - 1]
      BY <1>21 DEF SettleDebit, Covered
    <3> HIDE DEF k
    <3>4. locked' \in [Orders -> Nat]
      BY <1>0, <3>1, <3>3
    <3> QED BY <1>0, <3>2, <3>3, <3>4
  <2> QED BY <1>21, <2>3, <2>4 DEF TypeOK, CallTyped, SettleDebit, chain, ledger, past
<1>22. ASSUME NEW c \in Callers, SettleReleaseRead(c) PROVE TypeOK'
  <2>1. call[c] # None
    BY <1>22 DEF SettleReleaseRead, At
  <2> DEFINE n == locked[setup.order[call[c].id]]
             p == IF n = 0 THEN "credit" ELSE "release"
  <2>0. n \in Nat
    <3>1. call[c].id \in Running
      BY <1>b, <2>1, Zenon
    <3>2. setup.order[call[c].id] \in Orders
      BY <1>a, <3>1
    <3>3. locked \in [Orders -> Nat]
      BY <1>0
    <3> QED BY <3>2, <3>3
  <2>z. call' = [call EXCEPT ![c] = [call[c] EXCEPT !.pc = p, !.height = n]]
    BY <1>22 DEF SettleReleaseRead
  <2>y. p \in CallSteps
    BY DEF CallSteps
  <2> HIDE DEF n, p
  <2>2. PICK x \in Calls \cup {None} : call' = [call EXCEPT ![c] = x]
    <3>1. [call[c] EXCEPT !.pc = p, !.height = n] \in Calls
      <4>1. call[c] \in Calls
        BY <1>b, <2>1, Zenon
      <4> QED BY <2>0, <2>y, <4>1, CallForms
    <3> QED BY <2>z, <3>1
  <2>3. CallTyped
    BY <1>0, <1>22, <2>2, CallWrite
  <2> QED BY <1>22, <2>3 DEF TypeOK, CallTyped, SettleReleaseRead, chain, ledger, past
<1>23. ASSUME NEW c \in Callers, SettleRelease(c) PROVE TypeOK'
  <2>1. call[c] # None
    BY <1>23 DEF SettleRelease, At
  <2>2. PICK x \in Calls \cup {None} : call' = [call EXCEPT ![c] = x]
    <3>1. [call[c] EXCEPT !.pc = "credit"] \in Calls
      BY <1>b, <1>23, <2>1, CallForms DEF CallSteps
    <3> QED BY <1>0, <1>23, <2>1, <3>1 DEF SettleRelease, Steps, Ends, ToReview
  <2>3. CallTyped
    BY <1>0, <1>23, <2>2, CallWrite
  <2>4. locked' \in [Orders -> Nat] /\ released' \in [Swaps -> [token : Nat, gas : Nat]]
    <3>1. /\ call[c].id \in Swaps /\ setup.order[call[c].id] \in Orders /\ call[c].height \in Nat
      BY <1>a, <1>b, <1>23, <2>1
    <3> DEFINE t == call[c]
               o == setup.order[t.id]
    <3>2. \/ locked' = locked /\ released' = released
          \/ /\ locked[o] >= t.height /\ locked' = [locked EXCEPT ![o] = @ - t.height]
             /\ released' = [released EXCEPT ![t.id].token = t.height]
      BY <1>23 DEF SettleRelease
    <3> HIDE DEF t, o
    <3>3. t.id \in Swaps /\ o \in Orders /\ t.height \in Nat
      BY <3>1 DEF t, o
    <3>4. /\ locked[o] \in Nat
          /\ locked[o] >= t.height => [locked EXCEPT ![o] = @ - t.height] \in [Orders -> Nat]
      BY <1>0, <3>3
    <3>5. [released EXCEPT ![t.id].token = t.height] \in [Swaps -> [token : Nat, gas : Nat]]
      BY <1>0, <3>3, ReleaseWrite
    <3> QED BY <1>0, <3>2, <3>4, <3>5
  <2> QED BY <1>23, <2>3, <2>4 DEF TypeOK, CallTyped, SettleRelease, chain, ledger, past
<1>24. ASSUME NEW c \in Callers, SettleCredit(c) PROVE TypeOK'
  <2>1. call[c] # None
    BY <1>24 DEF SettleCredit, At
  <2>2. PICK x \in Calls \cup {None} : call' = [call EXCEPT ![c] = x]
    <3>1. [call[c] EXCEPT !.pc = "gas"] \in Calls
      BY <1>b, <1>24, <2>1, CallForms DEF CallSteps
    <3> QED BY <1>0, <1>24, <2>1, <3>1 DEF SettleCredit, Steps, Ends, ToReview
  <2>3. CallTyped
    BY <1>0, <1>24, <2>2, CallWrite
  <2>4. booked' \subseteq Swaps \X {"debit", "credit", "gas"}
    BY <1>b, <1>24, <2>1 DEF TypeOK, SettleCredit
  <2> QED BY <1>24, <2>3, <2>4 DEF TypeOK, CallTyped, SettleCredit, chain, ledger, past
<1>25. ASSUME NEW c \in Callers, SettleGas(c) PROVE TypeOK'
  <2>1. call[c] # None
    BY <1>25 DEF SettleGas, At
  <2>2. PICK x \in Calls \cup {None} : call' = [call EXCEPT ![c] = x]
    <3>1. [call[c] EXCEPT !.pc = "gasReleaseRead"] \in Calls
      BY <1>b, <1>25, <2>1, CallForms DEF CallSteps
    <3> QED BY <1>0, <1>25, <2>1, <3>1 DEF SettleGas, Steps, Ends, ToReview
  <2>3. CallTyped
    BY <1>0, <1>25, <2>2, CallWrite
  <2>4. gasLocked' \in Nat /\ booked' \subseteq Swaps \X {"debit", "credit", "gas"}
    BY <1>0, <1>b, <1>25, <2>1 DEF TypeOK, SettleGas
  <2> QED BY <1>25, <2>3, <2>4 DEF TypeOK, CallTyped, SettleGas, chain, ledger, past
<1>26. ASSUME NEW c \in Callers, SettleGasReleaseRead(c) PROVE TypeOK'
  <2>1. call[c] # None
    BY <1>26 DEF SettleGasReleaseRead, At
  <2>2. PICK x \in Calls \cup {None} : call' = [call EXCEPT ![c] = x]
    <3>1. [call[c] EXCEPT !.pc = "gasRelease", !.height = gasLocked] \in Calls
      BY <1>b, <1>26, <2>1, <1>0, CallForms DEF CallSteps
    <3> QED BY <1>0, <1>26, <2>1, <3>1 DEF SettleGasReleaseRead, Steps, Ends, ToReview
  <2>3. CallTyped
    BY <1>0, <1>26, <2>2, CallWrite
  <2> QED BY <1>26, <2>3 DEF TypeOK, CallTyped, SettleGasReleaseRead, chain, ledger, past
<1>27. ASSUME NEW c \in Callers, SettleGasRelease(c) PROVE TypeOK'
  <2>1. call[c] # None
    BY <1>27 DEF SettleGasRelease, At
  <2>2. PICK x \in Calls \cup {None} : call' = [call EXCEPT ![c] = x]
    <3> QED BY <1>0, <1>27, <2>1 DEF SettleGasRelease, Steps, Ends, ToReview
  <2>3. CallTyped
    BY <1>0, <1>27, <2>2, CallWrite
  <2>4. gasLocked' \in Nat /\ released' \in [Swaps -> [token : Nat, gas : Nat]]
    <3>1. call[c].id \in Swaps /\ call[c].height \in Nat
      BY <1>b, <1>27, <2>1
    <3> DEFINE t == call[c]
    <3>2. \/ gasLocked' = gasLocked /\ released' = released
          \/ /\ gasLocked >= t.height /\ gasLocked' = gasLocked - t.height
             /\ released' = [released EXCEPT ![t.id].gas = t.height]
      BY <1>27 DEF SettleGasRelease
    <3> HIDE DEF t
    <3>3. t.id \in Swaps /\ t.height \in Nat
      BY <3>1 DEF t
    <3>4. gasLocked >= t.height => gasLocked - t.height \in Nat
      BY <1>0, <3>3
    <3>5. [released EXCEPT ![t.id].gas = t.height] \in [Swaps -> [token : Nat, gas : Nat]]
      BY <1>0, <3>3, ReleaseWrite
    <3> QED BY <1>0, <3>2, <3>4, <3>5
  <2> QED BY <1>27, <2>3, <2>4 DEF TypeOK, CallTyped, SettleGasRelease, chain, ledger, past
<1>28. CASE Crash
  <2>1. sub' \in [Swaps -> Subs]
    <3>1. \A s \in Swaps : [sub[s] EXCEPT !.pc = "dead"] \in Subs
      <4>1. \A x \in Subs : [x EXCEPT !.pc = "dead"] \in Subs
        BY DEF Subs, SubSteps
      <4>2. \A s \in Swaps : sub[s] \in Subs
        BY <1>0
      <4> QED BY <4>1, <4>2
    <3> QED BY <1>0, <3>1, <1>28 DEF Crash
  <2>2. locks' \in Seq(Swaps) /\ call' \in [Callers -> Calls \cup {None}]
    BY <1>28 DEF Crash
  <2>3. seen' \subseteq Kinds /\ faults' \in Nat
    BY <1>28 DEF TypeOK, Crash, Fault, Kinds
  <2> QED BY <1>28, <2>1, <2>2, <2>3 DEF TypeOK, Crash, chain, ledger
<1>29. CASE UNCHANGED vars
  BY <1>29 DEF TypeOK, vars
<1> QED BY <1>1, <1>2, <1>3, <1>4, <1>5, <1>6, <1>7, <1>8, <1>9, <1>10, <1>11, <1>12, <1>13, <1>14, <1>15, <1>16, <1>17, <1>18, <1>19, <1>20, <1>21, <1>22, <1>23, <1>24, <1>25, <1>26, <1>27, <1>28, <1>29 DEF Next, Submit, Mark, Settle

-----------------------------------------------------------------------------
(* Who writes what. *)

Reads(c, s) == ConfirmRead(c, s) \/ MonitorRead(c, s) \/ ReconcileRead(c, s) \/ SettleRead(c, s)

\* Which actions write the rows, the submissions, the chain and the bookings.
LEMMA Frames ==
  [Next]_vars =>
    /\ setup' = setup
    /\ \/ row' = row \/ \E s \in Swaps : CreateRow(s) \/ MarkSubmitted(s)
       \/ \E c \in Callers : MarkSave(c) \/ MarkAgain(c)
    /\ UNCHANGED <<sub, locks, sent>> \/ Crash \/ \E s \in Swaps : Submit(s)
    /\ \/ UNCHANGED <<block, ok, height>> \/ MineEmpty \/ \E s \in Swaps : Mine(s)
       \/ \E d \in 1..Confirmations - 1 : Reorg(d)
    /\ booked' = booked \/ \E c \in Callers : SettleDebit(c) \/ SettleCredit(c) \/ SettleGas(c)
<1> USE DEF chain, ledger, past
<1>1. ASSUME NEW s \in Swaps, Submit(s)
      PROVE  /\ UNCHANGED <<setup, block, ok, height, booked>>
             /\ row' = row \/ CreateRow(s) \/ MarkSubmitted(s)
  BY <1>1 DEF Submit, Reserve, ReserveGas, AllocateRead, Broadcast, CreateRow, MarkSubmitted
<1>2. ASSUME NEW s \in Swaps, Mine(s) PROVE UNCHANGED <<setup, row, sub, locks, sent, booked>>
  BY <1>2 DEF Mine
<1>3. MineEmpty => UNCHANGED <<setup, row, sub, locks, sent, booked>>
  BY DEF MineEmpty
<1>4. ASSUME NEW d, Reorg(d) PROVE UNCHANGED <<setup, row, sub, locks, sent, booked>>
  BY <1>4 DEF Reorg
<1>5. ASSUME NEW c, NEW s, Reads(c, s)
      PROVE  UNCHANGED <<setup, row, sub, locks, sent, block, ok, height, booked>>
  BY <1>5 DEF Reads, ConfirmRead, MonitorRead, ReconcileRead, SettleRead
<1>6. ASSUME NEW c \in Callers, ConfirmReceipt(c) \/ ConfirmHeight(c) \/ MonitorReceipt(c) \/ ReconcileEntries(c)
      PROVE  UNCHANGED <<setup, row, sub, locks, sent, block, ok, height, booked>>
  BY <1>6 DEF ConfirmReceipt, ConfirmHeight, MonitorReceipt, ReconcileEntries
<1>7. ASSUME NEW c \in Callers, Mark(c)
      PROVE  /\ UNCHANGED <<setup, sub, locks, sent, block, ok, height, booked>>
             /\ row' = row \/ MarkSave(c) \/ MarkAgain(c)
  BY <1>7 DEF Mark, MarkRead, MarkSave, MarkAgain
<1>8. ASSUME NEW c \in Callers, Settle(c)
      PROVE  /\ UNCHANGED <<setup, row, sub, locks, sent, block, ok, height>>
             /\ booked' = booked \/ SettleDebit(c) \/ SettleCredit(c) \/ SettleGas(c)
  BY <1>8 DEF Settle, SettleDebit, SettleReleaseRead, SettleRelease, SettleCredit, SettleGas,
              SettleGasReleaseRead, SettleGasRelease
<1>9. Crash => UNCHANGED <<setup, row, sent, block, ok, height, booked>>
  BY DEF Crash
<1>10. UNCHANGED vars => UNCHANGED <<setup, row, sub, locks, sent, block, ok, height, booked>>
  BY DEF vars
<1> QED BY <1>1, <1>2, <1>3, <1>4, <1>5, <1>6, <1>7, <1>8, <1>9, <1>10 DEF Next, Reads

-----------------------------------------------------------------------------
(* The lock and the rows. *)

\* The queue is unaffected by a step that leaves it and moves no swap in or out of it.
LEMMA LockKept ==
  ASSUME TypeOK, LockInv, locks' = locks,
         \A s \in Swaps : Queued(s)' = Queued(s) /\ (sub'[s].pc = "create" => sub[s].pc = "create")
  PROVE  LockInv'
<1>1. \A i \in 1..Len(locks) : locks[i] \in Swaps
  BY DEF TypeOK
<1> QED BY <1>1 DEF LockInv, Queued

\* A submission goes on from one step to another.
LEMMA Moved ==
  ASSUME TypeOK, NEW s \in Swaps, NEW p, Goes(s, p)
  PROVE  sub'[s].pc = p /\ sub'[s].nonce = sub[s].nonce /\ \A t \in Swaps \ {s} : sub'[t] = sub[t]
BY DEF TypeOK, Goes, Subs

\* Every step keeps the allocator's queue in order.
LEMMA LockStep == TypeOK /\ LockInv /\ [Next]_vars => LockInv'
<1> SUFFICES ASSUME TypeOK, LockInv, [Next]_vars PROVE LockInv'
  OBVIOUS
<1>0. locks \in Seq(Swaps) /\ sub \in [Swaps -> Subs] /\ Len(locks) \in Nat
  BY DEF TypeOK
<1>1. ASSUME NEW s \in Swaps, Reserve(s) PROVE LockInv'
  <2>1. sub[s].pc = "idle" /\ locks' = locks /\ (Goes(s, "gas") \/ Goes(s, "dead"))
    BY <1>1 DEF Reserve
  <2>2. ~Queued(s) /\ ~Queued(s)' /\ sub'[s].pc # "create" /\ \A t \in Swaps \ {s} : sub'[t] = sub[t]
    BY <2>1, Moved DEF Queued
  <2> QED BY <2>1, <2>2, LockKept DEF Queued
<1>2. ASSUME NEW s \in Swaps, ReserveGas(s) PROVE LockInv'
  <2>1. CASE Goes(s, "queue") /\ locks' = Append(locks, s)
    <3>1. /\ sub[s].pc = "gas" /\ sub'[s].pc = "queue" /\ \A t \in Swaps \ {s} : sub'[t] = sub[t]
      BY <1>2, <2>1, Moved DEF ReserveGas
    <3>2. \A i \in 1..Len(locks) : locks[i] # s /\ locks[i] \in Swaps
      BY <1>0, <3>1 DEF LockInv, Queued
    <3>3. /\ Len(locks') = Len(locks) + 1 /\ locks'[Len(locks) + 1] = s
          /\ \A i \in 1..Len(locks) : locks'[i] = locks[i]
      BY <1>0, <2>1
    <3>4. \A i \in 1..Len(locks') : Queued(locks[i])'
      BY <1>0, <3>1, <3>2, <3>3 DEF LockInv, Queued
    <3>5. \A i, j \in 1..Len(locks') : locks'[i] = locks'[j] => i = j
      BY <1>0, <3>2, <3>3 DEF LockInv
    <3>6. \A t \in Swaps : Queued(t)' => \E i \in 1..Len(locks') : locks'[i] = t
      BY <1>0, <3>1, <3>3 DEF LockInv, Queued
    <3>7. ASSUME NEW t \in Swaps, sub'[t].pc = "create" PROVE locks'[1] = t
      <4>1. sub[t].pc = "create" /\ locks[1] = t /\ Len(locks) >= 1
        BY <1>0, <3>1, <3>7 DEF LockInv, Queued
      <4> QED BY <1>0, <3>3, <4>1
    <3> QED BY <3>4, <3>5, <3>6, <3>7 DEF LockInv
  <2>2. CASE Goes(s, "dead") /\ locks' = locks
    <3>1. ~Queued(s) /\ ~Queued(s)' /\ sub'[s].pc # "create" /\ \A t \in Swaps \ {s} : sub'[t] = sub[t]
      BY <1>2, <2>2, Moved DEF Queued, ReserveGas
    <3> QED BY <2>2, <3>1, LockKept DEF Queued
  <2> QED BY <1>2, <2>1, <2>2 DEF ReserveGas
<1>3. ASSUME NEW s \in Swaps, AllocateRead(s) PROVE LockInv'
  <2>1. /\ sub[s].pc = "queue" /\ locks[1] = s /\ locks' = locks
        /\ sub'[s].pc = "create" /\ \A t \in Swaps \ {s} : sub'[t] = sub[t]
    <3>1. Head(locks) = locks[1]
      BY <1>0, <1>3 DEF AllocateRead, MayAllocate, LockInv, Queued
    <3> QED BY <1>0, <1>3, <3>1 DEF AllocateRead, MayAllocate, Subs
  <2>2. \A t \in Swaps : Queued(t)' = Queued(t)
    BY <2>1 DEF Queued
  <2> QED BY <1>0, <2>1, <2>2 DEF LockInv
<1>4. ASSUME NEW s \in Swaps, CreateRow(s) PROVE LockInv'
  <2>1. sub[s].pc = "create" /\ locks[1] = s /\ Len(locks) >= 1 /\ locks' = Tail(locks)
    BY <1>0, <1>4 DEF CreateRow, LockInv, Queued
  <2>2. ~Queued(s)' /\ \A t \in Swaps \ {s} : sub'[t] = sub[t]
    BY <1>4, Moved DEF CreateRow, Queued
  <2>3. Len(locks') = Len(locks) - 1 /\ \A i \in 1..Len(locks') : locks'[i] = locks[i + 1] /\ i + 1 \in 1..Len(locks)
    BY <1>0, <2>1
  <2>4. \A i \in 1..Len(locks') : locks'[i] # s /\ locks'[i] \in Swaps
    BY <1>0, <2>1, <2>3 DEF LockInv
  <2>5. \A i \in 1..Len(locks') : Queued(locks[i])'
    BY <2>2, <2>3, <2>4 DEF LockInv, Queued
  <2>6. \A i, j \in 1..Len(locks') : locks'[i] = locks'[j] => i = j
    BY <1>0, <2>3 DEF LockInv
  <2>7. ASSUME NEW t \in Swaps, Queued(t)' PROVE \E i \in 1..Len(locks') : locks'[i] = t
    <3>1. t # s /\ Queued(t)
      BY <2>2, <2>7 DEF Queued
    <3>2. PICK i \in 1..Len(locks) : locks[i] = t
      BY <3>1 DEF LockInv
    <3>3. i - 1 \in 1..Len(locks') /\ i - 1 + 1 = i
      BY <1>0, <2>1, <2>3, <3>1, <3>2
    <3>4. locks'[i - 1] = t
      BY <2>3, <3>2, <3>3
    <3> QED BY <3>3, <3>4
  <2>8. \A t \in Swaps : sub'[t].pc # "create"
    BY <2>1, <2>2 DEF LockInv, Queued
  <2> QED BY <2>5, <2>6, <2>7, <2>8 DEF LockInv
<1>5. ASSUME NEW s \in Swaps, Broadcast(s) \/ MarkSubmitted(s) PROVE LockInv'
  <2>1. sub[s].pc \in {"send", "mark"} /\ locks' = locks /\ (Goes(s, "mark") \/ Goes(s, "dead") \/ Goes(s, "done"))
    BY <1>5 DEF Broadcast, MarkSubmitted
  <2>2. ~Queued(s) /\ ~Queued(s)' /\ sub'[s].pc # "create" /\ \A t \in Swaps \ {s} : sub'[t] = sub[t]
    BY <2>1, Moved DEF Queued
  <2> QED BY <2>1, <2>2, LockKept DEF Queued
<1>6. CASE Crash
  <2>1. locks' = <<>> /\ \A s \in Swaps : sub'[s].pc \in {"idle", "done", "dead"}
    BY <1>0, <1>6 DEF Crash, Subs
  <2> QED BY <2>1 DEF LockInv, Queued
<1>7. CASE UNCHANGED <<sub, locks>>
  BY <1>7 DEF LockInv, Queued
<1> QED BY <1>1, <1>2, <1>3, <1>4, <1>5, <1>6, <1>7, Frames DEF Submit

\* A row is only added by CreateRow; every other step keeps the rows there are, with
\* their nonces.
LEMMA RowsKept ==
  ASSUME TypeOK, RowInv, CallInv, [Next]_vars, \A s \in Swaps : ~CreateRow(s)
  PROVE  Rowed' = Rowed /\ \A s \in Swaps : row[s] # None => row'[s].nonce = row[s].nonce
<1>0. row \in [Swaps -> Rows \cup {None}] /\ \A r \in Rows : r # None
  BY NoRowAssumption DEF TypeOK
<1>1. ASSUME NEW s \in Swaps, row[s] # None, NEW r \in Rows, r.nonce = row[s].nonce,
             row' = [row EXCEPT ![s] = r]
      PROVE  Rowed' = Rowed /\ \A t \in Swaps : row[t] # None => row'[t].nonce = row[t].nonce
  BY <1>0, <1>1 DEF Rowed
<1>2. ASSUME NEW s \in Swaps, MarkSubmitted(s)
      PROVE  \E r \in Rows : /\ row[s] # None /\ r.nonce = row[s].nonce
                              /\ row' = [row EXCEPT ![s] = r]
  <2>1. row[s] \in Rows
    BY <1>0, <1>2 DEF MarkSubmitted, RowInv
  <2> DEFINE r == [row[s] EXCEPT !.status = "submitted", !.tx = TRUE]
  <2>2. r \in Rows /\ r.nonce = row[s].nonce
    BY <2>1 DEF Rows, RowStatus
  <2>3. row' = [row EXCEPT ![s] = r] \/ row' = [row EXCEPT ![s] = row[s]]
    BY <1>0, <1>2 DEF MarkSubmitted
  <2> HIDE DEF r
  <2> QED BY <1>0, <2>1, <2>2, <2>3
<1>3. ASSUME NEW c \in Callers, MarkSave(c) \/ MarkAgain(c)
      PROVE  \E s \in Swaps : \E r \in Rows : /\ row[s] # None /\ r.nonce = row[s].nonce
                                               /\ row' = [row EXCEPT ![s] = r]
  <2>1. PICK t \in Calls : /\ t = call[c] /\ Fits(t) /\ t.pc \in {"save", "again"}
    BY <1>3 DEF MarkSave, MarkAgain, At, TypeOK, CallInv
  <2>2. t.id \in Swaps /\ row[t.id] # None /\ t.row \in Rows /\ t.row.nonce = row[t.id].nonce
    BY <2>1 DEF Calls, Fits
  <2>3. CASE MarkSave(c)
    <3>1. Changed(t) \in Rows /\ Changed(t).nonce = t.row.nonce
      BY <1>0, <2>1, <2>2, ChangedTyped DEF Fits
    <3>2. row' = [row EXCEPT ![t.id] = Changed(t)]
      BY <2>1, <2>3 DEF MarkSave
    <3> QED BY <2>2, <3>1, <3>2
  <2>4. CASE MarkAgain(c)
    <3> DEFINE r == [t.row EXCEPT !.status = "reverted"]
    <3>1. r \in Rows /\ r.nonce = t.row.nonce
      BY <2>2 DEF Rows, RowStatus
    <3>2. row' = [row EXCEPT ![t.id] = r]
      BY <2>1, <2>4 DEF MarkAgain
    <3> HIDE DEF r
    <3> QED BY <2>2, <3>1, <3>2
  <2> QED BY <1>3, <2>3, <2>4
<1>4. CASE row' = row
  BY <1>4 DEF Rowed
<1> QED BY <1>1, <1>2, <1>3, <1>4, Frames

\* CreateRow gives a swap that has none a row, with the nonce it read.
LEMMA RowAdded ==
  ASSUME TypeOK, LockInv, RowInv, NonceInv, NEW s \in Swaps, CreateRow(s)
  PROVE  /\ sub[s].pc = "create" /\ sub[s].nonce \in Nat /\ sub[s].nonce \notin Nonces
         /\ row[s] = None /\ row'[s] \in Rows /\ row'[s].nonce = sub[s].nonce /\ row'[s].status = "created"
         /\ \A t \in Swaps \ {s} : row'[t] = row[t]
         /\ Goes(s, "send") /\ Rowed' = Rowed \cup {s} /\ Nonces' = Nonces \cup {sub[s].nonce}
<1>0. row \in [Swaps -> Rows \cup {None}] /\ \A x \in Rows : x # None
  BY NoRowAssumption DEF TypeOK
<1>1. sub[s].pc = "create" /\ sub[s].nonce \in Nat /\ row[s] = None
  BY DEF TypeOK, CreateRow, RowInv, Subs
<1>2. sub[s].nonce \notin Nonces
  <2>1. \A n \in Nonces : n < sub[s].nonce
    BY <1>1 DEF NonceInv
  <2> QED BY <1>1, <2>1
<1> DEFINE r == [status |-> "created", nonce |-> sub[s].nonce, tx |-> FALSE, first |-> 0, hash |-> None]
<1>3. r \in Rows /\ r.nonce = sub[s].nonce /\ r.status = "created"
  BY <1>1 DEF Rows, RowStatus
<1>4. row' = [row EXCEPT ![s] = r] /\ Goes(s, "send")
  BY <1>2 DEF CreateRow
<1> HIDE DEF r
<1>5. row'[s] = r /\ \A t \in Swaps \ {s} : row'[t] = row[t]
  BY <1>0, <1>4
<1>6. Rowed' = Rowed \cup {s}
  BY <1>0, <1>3, <1>5 DEF Rowed
<1>7. Nonces' = Nonces \cup {sub[s].nonce}
  BY <1>0, <1>1, <1>3, <1>5 DEF Nonces
<1> QED BY <1>1, <1>2, <1>3, <1>4, <1>5, <1>6, <1>7

\* The rows there are stay, with their nonces.
LEMMA RowsStay ==
  ASSUME TypeOK, LockInv, RowInv, NonceInv, CallInv, [Next]_vars
  PROVE  \A s \in Swaps : row[s] # None => row'[s] # None /\ row'[s].nonce = row[s].nonce
<1>1. CASE \E s \in Swaps : CreateRow(s)
  BY <1>1, RowAdded
<1>2. CASE \A s \in Swaps : ~CreateRow(s)
  BY <1>2, RowsKept DEF Rowed
<1> QED BY <1>1, <1>2

\* Every step keeps rows and submissions in line.
LEMMA RowStep == TypeOK /\ LockInv /\ RowInv /\ NonceInv /\ CallInv /\ [Next]_vars => RowInv'
<1> SUFFICES ASSUME TypeOK, LockInv, RowInv, NonceInv, CallInv, [Next]_vars PROVE RowInv'
  OBVIOUS
<1>0. sub \in [Swaps -> Subs] /\ row \in [Swaps -> Rows \cup {None}] /\ setup' = setup /\ Running' = Running
  BY Frames DEF TypeOK, Running
<1>1. ASSUME NEW s \in Swaps, CreateRow(s) PROVE RowInv'
  <2>1. sub'[s].pc = "send" /\ sub[s].pc = "create" /\ \A t \in Swaps \ {s} : sub'[t] = sub[t]
    BY <1>1, RowAdded, Moved
  <2>2. row'[s] # None
    BY <1>1, RowAdded, NoRowAssumption
  <2>3. sent' = sent /\ IsFiniteSet(Rowed')
    BY <1>1, RowAdded, FS_AddElement DEF CreateRow, chain, RowInv
  <2> QED BY <1>0, <1>1, <2>1, <2>2, <2>3, RowAdded DEF RowInv
<1>2. ASSUME \A s \in Swaps : ~CreateRow(s), UNCHANGED <<sub, locks, sent>> PROVE RowInv'
  BY <1>0, <1>2, RowsKept DEF RowInv, Rowed
<1>3. ASSUME \A s \in Swaps : ~CreateRow(s), Crash PROVE RowInv'
  <2>1. sent' = sent /\ \A s \in Swaps : sub'[s].pc \in {"idle", "done", "dead"} /\ (sub'[s].pc = "idle" <=> sub[s].pc = "idle")
    BY <1>0, <1>3 DEF Crash, Subs, chain
  <2>2. row' = row
    BY <1>3 DEF Crash
  <2> QED BY <1>0, <1>3, <2>1, <2>2 DEF RowInv, Rowed
<1>4. ASSUME NEW s \in Swaps, \A t \in Swaps : ~CreateRow(t), Submit(s) PROVE RowInv'
  <2>1. /\ s \in Running /\ \A t \in Swaps \ {s} : sub'[t] = sub[t]
        /\ sub'[s].pc \in {"gas", "queue", "create"} =>
             sub[s].pc \in {"idle", "gas", "queue", "create"}
        /\ sub'[s].pc \in {"send", "mark"} => sub[s].pc \in {"send", "mark"}
        /\ sub'[s].pc # "idle"
        /\ sent' = sent \/ (sub[s].pc \in {"send", "mark"} /\ sent' = sent \cup {s})
    <3>1. CASE Reserve(s)
      BY <3>1, Moved DEF Reserve, chain
    <3>2. CASE ReserveGas(s)
      BY <3>2, Moved DEF ReserveGas, chain, RowInv
    <3>3. CASE AllocateRead(s)
      BY <1>0, <3>3 DEF AllocateRead, MayAllocate, chain, RowInv
    <3>4. CASE Broadcast(s)
      BY <3>4, Moved DEF Broadcast, RowInv
    <3>5. CASE MarkSubmitted(s)
      BY <3>5, Moved DEF MarkSubmitted, chain, RowInv
    <3> QED BY <1>4, <3>1, <3>2, <3>3, <3>4, <3>5 DEF Submit
  <2>2. Rowed' = Rowed
    BY <1>4, RowsKept
  <2>3. \A t \in Swaps : row'[t] = None <=> row[t] = None
    BY <2>2 DEF Rowed
  <2>4. sent' \subseteq Rowed'
    BY <2>1, <2>2 DEF RowInv, Rowed
  <2> QED BY <1>0, <2>1, <2>2, <2>3, <2>4 DEF RowInv
<1> QED BY <1>1, <1>2, <1>3, <1>4, Frames

\* Every step keeps the nonces in line: only the head of the queue reads them, so none
\* is given between its read and its row.
LEMMA NonceStep == TypeOK /\ LockInv /\ RowInv /\ NonceInv /\ CallInv /\ [Next]_vars => NonceInv'
<1> SUFFICES ASSUME TypeOK, LockInv, RowInv, NonceInv, CallInv, [Next]_vars PROVE NonceInv'
  OBVIOUS
<1>0. sub \in [Swaps -> Subs] /\ setup' = setup /\ setup.count \in Nat
  BY EvmAssumption, Frames DEF TypeOK
<1>1. ASSUME NEW s \in Swaps, CreateRow(s) PROVE NonceInv'
  <2>1. sub'[s].pc = "send" /\ sub[s].pc = "create" /\ \A t \in Swaps \ {s} : sub'[t] = sub[t]
    BY <1>1, RowAdded, Moved
  <2>2. \A t \in Swaps : sub'[t].pc # "create" /\ sub'[t].pc # "taken"
    BY <2>1 DEF LockInv, NonceInv, NonceNeverContended
  <2>3. NoncesContiguous'
    <3>1. SUFFICES ASSUME setup.count > 0
                   PROVE  Nonces' = setup.count..setup.count + Cardinality(Nonces') - 1
      BY <1>0 DEF NoncesContiguous
    <3> DEFINE k == Cardinality(Nonces)
    <3>2. k \in Nat /\ IsFiniteSet(Nonces) /\ Nonces = setup.count..setup.count + k - 1
      BY <3>1, NoncesFinite DEF NonceInv, NoncesContiguous
    <3>3. sub[s].nonce = setup.count + k
      BY <2>1, <3>1 DEF NonceInv
    <3>4. Cardinality(Nonces') = k + 1
      BY <1>1, <3>2, RowAdded, FS_AddElement
    <3>5. Nonces' = Nonces \cup {setup.count + k}
      BY <1>1, <3>3, RowAdded
    <3> HIDE DEF k
    <3> QED BY <1>0, <3>2, <3>4, <3>5
  <2> QED BY <2>2, <2>3 DEF NonceInv, NonceNeverContended
<1>2. ASSUME \A s \in Swaps : ~CreateRow(s) PROVE NonceInv'
  <2>1. Nonces' = Nonces
    BY <1>2, RowsKept DEF Nonces, Rowed
  <2>2. NoncesContiguous'
    BY <1>0, <2>1 DEF NonceInv, NoncesContiguous
  <2>3. ASSUME NEW s \in Swaps
        PROVE  /\ sub'[s].pc # "taken"
               /\ sub'[s].pc = "create" =>
                    /\ \A n \in Nonces : n < sub'[s].nonce
                    /\ setup.count > 0 => sub'[s].nonce = setup.count + Cardinality(Nonces)
    <3>0. CASE sub'[s] = sub[s]
      BY <3>0 DEF NonceInv, NonceNeverContended
    <3>1. ASSUME NEW t \in Swaps, Submit(t), sub'[s] # sub[s], ~AllocateRead(t)
          PROVE  sub'[s].pc \notin {"taken", "create"}
      <4>1. \E p \in {"gas", "queue", "dead", "mark", "done"} : Goes(t, p)
        BY <1>2, <3>1 DEF Submit, Reserve, ReserveGas, Broadcast, MarkSubmitted
      <4> QED BY <3>1, <4>1, Moved
    <3>2. ASSUME NEW t \in Swaps, AllocateRead(t), sub'[s] # sub[s]
          PROVE  sub'[s].pc = "create" /\ sub'[s].nonce = NextNonce
      BY <1>0, <3>2 DEF AllocateRead
    <3>3. ASSUME Crash, sub'[s] # sub[s] PROVE sub'[s].pc \notin {"taken", "create"}
      BY <1>0, <3>3 DEF Crash, Subs
    <3>4. /\ \A n \in Nonces : n < NextNonce
          /\ setup.count > 0 => NextNonce = setup.count + Cardinality(Nonces)
      BY NextNonceFacts DEF NonceInv
    <3> QED BY <3>0, <3>1, <3>2, <3>3, <3>4, Frames
  <2> QED BY <1>0, <2>1, <2>2, <2>3 DEF NonceInv, NonceNeverContended
<1> QED BY <1>1, <1>2

-----------------------------------------------------------------------------
(* The chain, and what calls and rows hold of it. *)

\* A deep transaction stays where it is; any other one that is in a block does unless a
\* reorganisation reaches it.
LEMMA DeepStays ==
  ASSUME TypeOK, [Next]_vars
  PROVE  \A s \in Swaps : Deep(s) => Deep(s)' /\ block'[s] = block[s] /\ ok'[s] = ok[s]
<1>0. block \in [Swaps -> Nat] /\ ok \in [Swaps -> BOOLEAN] /\ height \in Nat /\ Confirmations \in Nat \ {0}
  BY EvmAssumption DEF TypeOK
<1>1. ASSUME NEW x \in Swaps, Mine(x), NEW s \in Swaps, Deep(s)
      PROVE  Deep(s)' /\ block'[s] = block[s] /\ ok'[s] = ok[s]
  <2>1. block[x] = 0 /\ height' = height + 1 /\ block' = [block EXCEPT ![x] = height']
        /\ \E b \in BOOLEAN : ok' = [ok EXCEPT ![x] = b]
    BY <1>1 DEF Mine
  <2>2. s # x
    BY <1>1, <2>1, <1>0 DEF Deep
  <2> QED BY <1>0, <1>1, <2>1, <2>2 DEF Deep
<1>2. ASSUME MineEmpty, NEW s \in Swaps, Deep(s)
      PROVE  Deep(s)' /\ block'[s] = block[s] /\ ok'[s] = ok[s]
  BY <1>0, <1>2 DEF MineEmpty, Deep
<1>3. ASSUME NEW d \in 1..Confirmations - 1, Reorg(d), NEW s \in Swaps, Deep(s)
      PROVE  Deep(s)' /\ block'[s] = block[s] /\ ok'[s] = ok[s]
  BY <1>0, <1>3 DEF Reorg, Deep
<1>4. CASE UNCHANGED <<block, ok, height>>
  BY <1>4 DEF Deep
<1> QED BY <1>1, <1>2, <1>3, <1>4, Frames

\* What was seen stays seen.
LEMMA SeenGrows == [Next]_vars => seen \subseteq seen'
<1> USE DEF past, Fault
<1>1. ASSUME NEW s \in Swaps, Submit(s) PROVE seen \subseteq seen'
  BY <1>1 DEF Submit, Reserve, ReserveGas, AllocateRead, Broadcast, CreateRow, MarkSubmitted
<1>2. ASSUME NEW s \in Swaps, Mine(s) PROVE seen \subseteq seen'
  BY <1>2 DEF Mine
<1>3. MineEmpty => seen \subseteq seen'
  BY DEF MineEmpty
<1>4. ASSUME NEW d, Reorg(d) PROVE seen \subseteq seen'
  BY <1>4 DEF Reorg
<1>5. ASSUME NEW c, NEW s, Reads(c, s) PROVE seen \subseteq seen'
  BY <1>5 DEF Reads, ConfirmRead, MonitorRead, ReconcileRead, SettleRead
<1>6. ASSUME NEW c \in Callers, ConfirmReceipt(c) \/ ConfirmHeight(c) \/ MonitorReceipt(c) \/ ReconcileEntries(c)
      PROVE  seen \subseteq seen'
  BY <1>6 DEF ConfirmReceipt, ConfirmHeight, MonitorReceipt, ReconcileEntries
<1>7. ASSUME NEW c \in Callers, Mark(c) PROVE seen \subseteq seen'
  BY <1>7 DEF Mark, MarkRead, MarkSave, MarkAgain
<1>8. ASSUME NEW c \in Callers, Settle(c) PROVE seen \subseteq seen'
  BY <1>8 DEF Settle, SettleDebit, SettleReleaseRead, SettleRelease, SettleCredit, SettleGas,
              SettleGasReleaseRead, SettleGasRelease
<1>9. Crash => seen \subseteq seen'
  BY DEF Crash
<1>10. UNCHANGED vars => seen \subseteq seen'
  BY DEF vars
<1> QED BY <1>1, <1>2, <1>3, <1>4, <1>5, <1>6, <1>7, <1>8, <1>9, <1>10 DEF Next, Reads

\* A receipt that a call still holds while it reads the height stays the chain's, unless
\* the call is overtaken by a reorganisation.
LEMMA ReceiptStays ==
  ASSUME TypeOK, [Next]_vars, "overtaken" \notin seen', NEW c \in Callers, call[c] # None,
         call[c].pc = "height", Matches(call[c].receipt, call[c].id)
  PROVE  Matches(call[c].receipt, call[c].id)'  \/ call'[c] # call[c]
<1>0. /\ block \in [Swaps -> Nat] /\ ok \in [Swaps -> BOOLEAN] /\ height \in Nat
      /\ Confirmations \in Nat \ {0} /\ call[c].id \in Swaps
  BY EvmAssumption DEF TypeOK, Calls
<1> SUFFICES ASSUME call'[c] = call[c]
             PROVE  block'[call[c].id] = block[call[c].id] /\ ok'[call[c].id] = ok[call[c].id]
  BY DEF Matches
<1>1. ASSUME NEW x \in Swaps, Mine(x)
      PROVE  block'[call[c].id] = block[call[c].id] /\ ok'[call[c].id] = ok[call[c].id]
  BY <1>0, <1>1 DEF Mine, Matches
<1>2. CASE MineEmpty
  BY <1>2 DEF MineEmpty
<1>3. ASSUME NEW d \in 1..Confirmations - 1, Reorg(d)
      PROVE  block'[call[c].id] = block[call[c].id] /\ ok'[call[c].id] = ok[call[c].id]
  <2>1. ~(call[c].receipt.block > height - d)
    BY <1>3 DEF Reorg, Matches
  <2>2. ~(block[call[c].id] > height - d)
    BY <2>1 DEF Matches
  <2> QED BY <1>0, <1>3, <2>2 DEF Reorg
<1> QED BY <1>1, <1>2, <1>3, Frames

\* What the invariant says of one call.
Good(t) ==
  /\ Fits(t)
  /\ "overtaken" \notin seen => Truthful(t)
  /\ seen \cap {"overtaken", "halfReverted"} = {} => (t.pc = "debit" => Final(t.id))

\* A call that does not move is still right about its row and the chain.
LEMMA GoodStays ==
  ASSUME EvmInv, [Next]_vars, NEW c \in Callers, call[c] # None, call'[c] = call[c]
  PROVE  Good(call[c])'
<1> PICK t \in Calls : t = call[c]
  BY DEF EvmInv, TypeOK
<1>0. t.id \in Swaps /\ t = call'[c] /\ t # None
  BY DEF Calls
<1>1. Fits(t) /\ Fits(t)'
  <2>1. Fits(t)
    BY <1>0 DEF EvmInv, CallInv
  <2>2. row[t.id] # None => row'[t.id] # None /\ row'[t.id].nonce = row[t.id].nonce
    BY <1>0, RowsStay DEF EvmInv
  <2> QED BY <2>1, <2>2 DEF Fits
<1>2. \A s \in Swaps : Deep(s) => Deep(s)' /\ block'[s] = block[s] /\ ok'[s] = ok[s]
  BY DeepStays DEF EvmInv
<1>3. seen \subseteq seen'
  BY SeenGrows
<1>4. ASSUME "overtaken" \notin seen' PROVE Truthful(t)'
  <2>1. Truthful(t)
    BY <1>0, <1>3, <1>4 DEF EvmInv, ReceiptInv
  <2>2. t.pc = "height" /\ Matches(t.receipt, t.id) => Matches(t.receipt, t.id)'
    BY <1>0, <1>4, ReceiptStays DEF EvmInv
  <2> QED BY <1>0, <1>2, <2>1, <2>2 DEF Truthful, Matches, Genuine
<1>5. ASSUME seen' \cap {"overtaken", "halfReverted"} = {}, t.pc = "debit" PROVE Final(t.id)'
  <2>1. Final(t.id)
    BY <1>0, <1>3, <1>5 DEF EvmInv, BookedInv
  <2> QED BY <1>0, <1>2, <2>1 DEF Final
<1>6. Good(t)'
  BY <1>1, <1>4, <1>5 DEF Good
<1> QED BY <1>0, <1>6 DEF Good, Fits, Truthful, Final, Genuine, Matches, Deep

\* The steps of a call that hold nothing of the chain.
LEMMA QuietIsGood ==
  ASSUME NEW t, row'[t.id] # None, t.mark \in {"confirmed", "reverted"} => t.receipt # None,
         t.pc \in {"entries", "releaseRead", "release", "credit", "gas", "gasReleaseRead",
                  "gasRelease"}
  PROVE  Good(t)'
BY DEF Good, Fits, Truthful

\* The calls left out of a step stay right, so the one that moves has to be looked at.
LEMMA OneMoves ==
  ASSUME EvmInv, [Next]_vars, NEW c \in Callers, NEW x, call' = [call EXCEPT ![c] = x],
         x # None => Good(x)'
  PROVE  \A d \in Callers : call'[d] # None => Good(call[d])'
<1>1. call'[c] = x /\ \A d \in Callers \ {c} : call'[d] = call[d]
  BY DEF EvmInv, TypeOK
<1>2. x # None => Good(call[c])'
  BY <1>1 DEF Good, Fits, Truthful, Final, Genuine, Matches, Deep
<1>3. ASSUME NEW d \in Callers \ {c}, call'[d] # None PROVE Good(call[d])'
  BY <1>1, <1>3, GoodStays
<1> QED BY <1>1, <1>2, <1>3

\* Every step leaves the calls right about their rows and the chain.
LEMMA CallStep ==
  EvmInv /\ [Next]_vars => \A c \in Callers : call'[c] # None => Good(call[c])'
<1> SUFFICES ASSUME EvmInv, [Next]_vars
             PROVE  \A c \in Callers : call'[c] # None => Good(call[c])'
  OBVIOUS
<1>0. /\ call \in [Callers -> Calls \cup {None}] /\ row \in [Swaps -> Rows \cup {None}]
      /\ block \in [Swaps -> Nat] /\ height \in Nat
  BY DEF EvmInv, TypeOK
<1>b. ASSUME NEW c \in Callers, call[c] # None
      PROVE  /\ call[c] \in Calls /\ call[c].id \in Swaps /\ Good(call[c])
             /\ row[call[c].id] # None /\ row'[call[c].id] # None
  BY <1>0, <1>b, RowsStay DEF EvmInv, CallInv, ReceiptInv, BookedInv, Good, Fits, Calls
<1>1. ASSUME NEW c \in Callers, NEW s \in Swaps, Reads(c, s)
      PROVE  \A d \in Callers : call'[d] # None => Good(call[d])'
  <2>1. UNCHANGED <<row, chain>> /\ row[s] # None
    BY <1>1, NoRowAssumption DEF Reads, ConfirmRead, MonitorRead, ReconcileRead, SettleRead, AwaitsReceipt,
       Status, RowStatus
  <2>2. PICK p \in {"receipt", "monitor", "entries", "debit"} : Begins(c, s, p)
    BY <1>1 DEF Reads, ConfirmRead, MonitorRead, ReconcileRead, SettleRead
  <2>3. PICK x : x = [pc |-> p, id |-> s, row |-> IF p = "monitor" THEN row[s] ELSE None,
                      first |-> IF p = "receipt" THEN row[s].first ELSE 0,
                      receipt |-> None, height |-> 0, mark |-> "pending"]
    OBVIOUS
  <2>z. call' = [call EXCEPT ![c] = x]
    BY <2>2, <2>3 DEF Begins
  <2>4. x.pc = p /\ x.id = s /\ x.mark = "pending" /\ (p = "monitor" => x.row = row[s])
    BY <2>3
  <2>5. p = "debit" /\ seen' \cap {"overtaken", "halfReverted"} = {} => Final(s)'
    <3>1. SUFFICES ASSUME p = "debit", seen' \cap {"overtaken", "halfReverted"} = {} PROVE Final(s)
      BY <2>1 DEF Final, Deep, chain
    <3>2. call'[c].pc = "debit"
      BY <1>0, <2>z, <2>4, <3>1
    <3>3. SettleRead(c, s)
      BY <1>0, <1>1, <3>2 DEF Reads, ConfirmRead, MonitorRead, ReconcileRead, Begins
    <3>4. row[s].status = "confirmed" /\ row[s].hash.ok
      BY <2>1, <3>1, <3>3 DEF SettleRead, Status
    <3>5. Genuine(row[s], s)
      BY <3>1, SeenGrows DEF EvmInv, ReceiptInv
    <3> QED BY <2>1, <3>4, <3>5 DEF Genuine, Matches, Final
  <2>6. Good(x)'
    BY <2>1, <2>4, <2>5 DEF Good, Fits, Truthful
  <2> QED BY <2>z, <2>6, OneMoves
<1>2. ASSUME NEW c \in Callers, ConfirmReceipt(c)
      PROVE  \A d \in Callers : call'[d] # None => Good(call[d])'
  <2>1. PICK t \in Calls : t = call[c] /\ t.pc = "receipt" /\ Good(t) /\ t.id \in Swaps /\ row[t.id] # None
    BY <1>b, <1>2 DEF ConfirmReceipt, At
  <2>z. PICK x : x = [t EXCEPT !.pc = "height", !.receipt = Receipt(t.id)]
    OBVIOUS
  <2>2. call' = [call EXCEPT ![c] = x] /\ UNCHANGED <<row, block, ok, height, seen>>
    BY <1>2, <2>1, <2>z DEF ConfirmReceipt, chain, past
  <2>3. x.pc = "height" /\ x.receipt = Receipt(t.id) /\ x.id = t.id /\ x.mark = t.mark
    BY <2>1, <2>z DEF Calls
  <2>4. x.receipt # None => Matches(x.receipt, t.id)
    BY <1>0, <2>1, <2>3 DEF Receipt, Matches
  <2>5. x.mark = "pending"
    BY <2>1, <2>3 DEF Good, Fits
  <2>6. Good(x)'
    BY <2>1, <2>2, <2>3, <2>4, <2>5 DEF Good, Fits, Truthful, Matches
  <2> QED BY <2>2, <2>6, OneMoves
<1>3. ASSUME NEW c \in Callers, ConfirmHeight(c)
      PROVE  \A d \in Callers : call'[d] # None => Good(call[d])'
  <2>1. PICK t \in Calls : t = call[c] /\ t.pc = "height" /\ Good(t) /\ t.id \in Swaps /\ row[t.id] # None
    BY <1>b, <1>3 DEF ConfirmHeight, At
  <2>x. PICK w : w = [t EXCEPT !.height = height, !.pc = "load"]
    OBVIOUS
  <2>y. PICK y : y = [w EXCEPT !.mark = IF t.receipt.ok THEN "confirmed" ELSE "reverted", !.first = 0, !.height = 0]
    OBVIOUS
  <2>z. PICK x : x = IF t.receipt = None THEN w ELSE IF ~EnoughBlocks(t.receipt) THEN None ELSE y
    OBVIOUS
  <2>2. call' = [call EXCEPT ![c] = x] /\ UNCHANGED <<row, block, ok, height, seen>>
    BY <1>3, <2>1, <2>x, <2>y, <2>z DEF ConfirmHeight, chain, past, Calls
  <2>3. w.pc = "load" /\ w.id = t.id /\ w.mark = "pending" /\ y.pc = "load" /\ y.id = t.id /\ y.receipt = t.receipt
    BY <2>1, <2>x, <2>y DEF Calls, Good, Fits
  <2>4. "overtaken" \notin seen /\ t.receipt # None /\ EnoughBlocks(t.receipt) => Matches(t.receipt, t.id) /\ Deep(t.id)
    BY <2>1 DEF Good, Truthful, Matches, EnoughBlocks, Deep
  <2>5. Good(w)'
    BY <2>1, <2>2, <2>3 DEF Good, Fits, Truthful
  <2>6. t.receipt # None /\ EnoughBlocks(t.receipt) => Good(y)'
    BY <2>1, <2>2, <2>3, <2>4 DEF Good, Fits, Truthful, Matches, Deep
  <2>7. x # None => Good(x)'
    BY <2>5, <2>6, <2>z
  <2> QED BY <2>2, <2>7, OneMoves
<1>4. ASSUME NEW c \in Callers, MonitorReceipt(c) \/ ReconcileEntries(c)
      PROVE  \A d \in Callers : call'[d] # None => Good(call[d])'
  <2>1. PICK t \in Calls : t = call[c] /\ Good(t) /\ t.id \in Swaps /\ row[t.id] # None
    BY <1>b, <1>4 DEF MonitorReceipt, ReconcileEntries, At
  <2> DEFINE y == [t EXCEPT !.pc = "load", !.mark = "manual_review", !.row = None]
  <2>2. row' = row /\ (call' = [call EXCEPT ![c] = None] \/ call' = [call EXCEPT ![c] = y])
    BY <1>4, <2>1 DEF MonitorReceipt, ReconcileEntries, ToReview, Ends
  <2>3. y.pc = "load" /\ y.id = t.id /\ y.mark = "manual_review"
    BY <2>1 DEF Calls
  <2> HIDE DEF y
  <2>4. Good(y)'
    BY <2>1, <2>2, <2>3 DEF Good, Fits, Truthful
  <2> QED BY <2>2, <2>4, OneMoves
<1>5. ASSUME NEW c \in Callers, MarkRead(c)
      PROVE  \A d \in Callers : call'[d] # None => Good(call[d])'
  <2>1. PICK t \in Calls : t = call[c] /\ t.pc = "load" /\ Good(t) /\ t.id \in Swaps /\ row[t.id] # None
    BY <1>b, <1>5 DEF MarkRead, At
  <2>z. PICK y : y = [t EXCEPT !.pc = "save", !.row = row[t.id]]
    OBVIOUS
  <2>2. call' = [call EXCEPT ![c] = y] /\ UNCHANGED <<row, block, ok, height, seen>>
    BY <1>5, <2>1, <2>z DEF MarkRead, chain, past
  <2>3. y.pc = "save" /\ y.id = t.id /\ y.mark = t.mark /\ y.receipt = t.receipt /\ y.row = row[t.id]
    BY <2>1, <2>z DEF Calls
  <2>4. "overtaken" \notin seen => Genuine(row[t.id], t.id)
    BY <2>1 DEF EvmInv, ReceiptInv
  <2>5. Good(y)'
    BY <2>1, <2>2, <2>3, <2>4 DEF Good, Fits, Truthful, Matches, Deep, Genuine
  <2> QED BY <2>2, <2>5, OneMoves
<1>6. ASSUME NEW c \in Callers, MarkSave(c)
      PROVE  \A d \in Callers : call'[d] # None => Good(call[d])'
  <2>1. PICK t \in Calls : t = call[c] /\ t.pc = "save" /\ Good(t) /\ t.id \in Swaps /\ row[t.id] # None
    BY <1>b, <1>6 DEF MarkSave, At
  <2>2. t.row \in Rows /\ t.row # None /\ t.row.nonce = row[t.id].nonce
    BY <2>1 DEF Good, Fits, Calls
  <2>3. PICK r \in Rows : r = Changed(t) /\ r.nonce = row[t.id].nonce
    BY <2>1, <2>2, ChangedTyped DEF Good, Fits
  <2> DEFINE x == [t EXCEPT !.pc = "again", !.row = r]
             y == [t EXCEPT !.pc = "load", !.mark = "manual_review", !.row = None, !.first = 0, !.height = 0]
  <2>4. /\ row' = [row EXCEPT ![t.id] = r] /\ UNCHANGED <<block, ok, height, seen>>
        /\ \/ call' = [call EXCEPT ![c] = x] /\ t.mark = "reverted"
           \/ call' = [call EXCEPT ![c] = y]
           \/ call' = [call EXCEPT ![c] = None]
    BY <1>6, <2>1, <2>3 DEF MarkSave, chain, past
  <2>5. row'[t.id] = r /\ r # None
    BY <1>0, <2>1, <2>4, NoRowAssumption
  <2>6. /\ x.pc = "again" /\ x.id = t.id /\ x.mark = t.mark /\ x.receipt = t.receipt /\ x.row = r
        /\ y.pc = "load" /\ y.id = t.id /\ y.mark = "manual_review"
    BY <2>1 DEF Calls
  <2>7. "overtaken" \notin seen /\ t.mark = "reverted" => Matches(r.hash, t.id) /\ Deep(t.id)
    BY <2>1, <2>2, <2>3 DEF Good, Truthful, Changed, Rows
  <2> HIDE DEF x, y
  <2>8. t.mark = "reverted" => Good(x)'
    BY <2>1, <2>4, <2>5, <2>6, <2>7 DEF Good, Fits, Truthful, Matches, Deep, Genuine
  <2>9. Good(y)'
    BY <2>4, <2>5, <2>6 DEF Good, Fits, Truthful
  <2> QED BY <2>4, <2>8, <2>9, OneMoves
<1>7. ASSUME NEW c \in Callers, Settle(c)
      PROVE  \A d \in Callers : call'[d] # None => Good(call[d])'
  <2>1. PICK t \in Calls : t = call[c] /\ Good(t) /\ t.id \in Swaps /\ row'[t.id] # None
    BY <1>b, <1>7 DEF Settle, SettleDebit, SettleReleaseRead, SettleRelease, SettleCredit, SettleGas,
              SettleGasReleaseRead, SettleGasRelease, At
  <2>2. \/ call' = [call EXCEPT ![c] = None]
        \/ \E p \in {"releaseRead", "release", "credit", "gas", "gasReleaseRead", "gasRelease"} :
             \/ call' = [call EXCEPT ![c] = [t EXCEPT !.pc = p]]
             \/ \E h : call' = [call EXCEPT ![c] = [t EXCEPT !.pc = p, !.height = h]]
    <3>1. SettleDebit(c) \/ SettleRelease(c) \/ SettleCredit(c) \/ SettleGas(c) \/ SettleGasRelease(c) =>
            \/ Ends(c)
            \/ \E p \in {"releaseRead", "release", "credit", "gas", "gasReleaseRead", "gasRelease"} : Steps(c, p)
      BY DEF SettleDebit, SettleRelease, SettleCredit, SettleGas, SettleGasRelease
    <3>2. CASE SettleReleaseRead(c)
      <4> DEFINE h == locked[setup.order[t.id]]
                 p == IF h = 0 THEN "credit" ELSE "release"
      <4>1. call' = [call EXCEPT ![c] = [t EXCEPT !.pc = p, !.height = h]]
        BY <2>1, <3>2 DEF SettleReleaseRead
      <4>2. p \in {"credit", "release"}
        OBVIOUS
      <4> HIDE DEF h, p
      <4> QED BY <4>1, <4>2
    <3>3. CASE SettleGasReleaseRead(c)
      BY <2>1, <3>3 DEF SettleGasReleaseRead
    <3> QED BY <1>7, <2>1, <3>1, <3>2, <3>3 DEF Settle, Ends, Steps
  <2>3. ASSUME NEW p \in {"releaseRead", "release", "credit", "gas", "gasReleaseRead", "gasRelease"}, NEW h,
               NEW x, x = [t EXCEPT !.pc = p] \/ x = [t EXCEPT !.pc = p, !.height = h]
        PROVE  Good(x)'
    <3>1. x.pc = p /\ x.id = t.id /\ x.mark = t.mark /\ x.receipt = t.receipt
      BY <2>3, <2>1 DEF Calls
    <3> QED BY <2>1, <3>1, QuietIsGood DEF Good, Fits
  <2> QED BY <2>2, <2>3, OneMoves
<1>8. ASSUME NEW c \in Callers, MarkAgain(c)
      PROVE  \A d \in Callers : call'[d] # None => Good(call[d])'
  BY <1>8, OneMoves DEF MarkAgain, Ends
<1>9. CASE Crash
  BY <1>9 DEF Crash
<1>10. CASE call' = call
  BY <1>10, GoodStays
<1>11. ASSUME NEW s \in Swaps, Submit(s) \/ Mine(s) PROVE call' = call
  BY <1>11 DEF Submit, Reserve, ReserveGas, AllocateRead, CreateRow, Broadcast, MarkSubmitted, Mine
<1>12. ASSUME NEW d, Reorg(d) PROVE call' = call
  BY <1>12 DEF Reorg
<1>13. MineEmpty \/ UNCHANGED vars => call' = call
  BY DEF MineEmpty, vars
<1> QED BY <1>1, <1>2, <1>3, <1>4, <1>5, <1>6, <1>7, <1>8, <1>9, <1>10, <1>11, <1>12, <1>13 DEF Next, Reads, Mark

\* Every row that says confirmed still has the receipt of a deep transaction.
LEMMA GenuineStep ==
  EvmInv /\ [Next]_vars /\ "overtaken" \notin seen' => \A s \in Swaps : Genuine(row[s], s)'
<1> SUFFICES ASSUME EvmInv, [Next]_vars, "overtaken" \notin seen'
             PROVE  \A s \in Swaps : Genuine(row[s], s)'
  OBVIOUS
<1>0. row \in [Swaps -> Rows \cup {None}] /\ "overtaken" \notin seen
  BY SeenGrows DEF EvmInv, TypeOK
<1>1. \A s \in Swaps : Genuine(row[s], s)
  BY <1>0 DEF EvmInv, ReceiptInv
<1>2. \A s \in Swaps : Deep(s) => Deep(s)' /\ block'[s] = block[s] /\ ok'[s] = ok[s]
  BY DeepStays DEF EvmInv
<1>3. \A s \in Swaps : row'[s] = row[s] => Genuine(row[s], s)'
  BY <1>1, <1>2 DEF Genuine, Matches
<1>4. ASSUME NEW s \in Swaps, CreateRow(s) PROVE \A u \in Swaps : Genuine(row[u], u)'
  <2>1. row'[s].status = "created" /\ \A u \in Swaps \ {s} : row'[u] = row[u]
    BY <1>4, RowAdded DEF EvmInv
  <2> QED BY <1>3, <2>1 DEF Genuine
<1>5. ASSUME NEW s \in Swaps, MarkSubmitted(s) PROVE \A u \in Swaps : Genuine(row[u], u)'
  <2>1. row[s] \in Rows
    BY <1>0, <1>5 DEF EvmInv, RowInv, MarkSubmitted
  <2>2. CASE row' = row
    BY <1>3, <2>2
  <2>3. CASE row' # row
    <3>1. row' = [row EXCEPT ![s].status = "submitted", ![s].tx = TRUE]
      BY <1>5, <2>3 DEF MarkSubmitted
    <3>2. row'[s].status = "submitted" /\ \A u \in Swaps \ {s} : row'[u] = row[u]
      BY <1>0, <2>1, <3>1 DEF Rows
    <3> QED BY <1>3, <3>2 DEF Genuine
  <2> QED BY <2>2, <2>3
<1>6. ASSUME NEW c \in Callers, MarkSave(c) \/ MarkAgain(c) PROVE \A u \in Swaps : Genuine(row[u], u)'
  <2>1. PICK t \in Calls : t = call[c] /\ t.pc \in {"save", "again"} /\ Fits(t) /\ Truthful(t)
    BY <1>0, <1>6 DEF MarkSave, MarkAgain, At, EvmInv, TypeOK, CallInv, ReceiptInv
  <2>2. t.id \in Swaps /\ t.row \in Rows
    BY <2>1 DEF Calls, Fits
  <2>3. UNCHANGED <<block, ok, height>> /\ \A u \in Swaps \ {t.id} : row'[u] = row[u]
    BY <1>0, <1>6, <2>1, <2>2 DEF MarkSave, MarkAgain, chain
  <2>4. CASE MarkSave(c)
    <3>1. PICK r \in Rows : r = Changed(t)
      BY <2>1, <2>2, ChangedTyped, NoRowAssumption DEF Fits
    <3>2. row'[t.id] = r
      BY <1>0, <2>1, <2>2, <2>4, <3>1 DEF MarkSave
    <3>3. Genuine(r, t.id)
      <4>1. CASE t.mark = "pending"
        <5>1. r.status = t.row.status /\ r.hash = t.row.hash
          BY <2>2, <3>1, <4>1 DEF Changed, Rows
        <5> QED BY <2>1, <2>2, <5>1, NoRowAssumption DEF Genuine, Truthful
      <4>2. CASE t.mark \in {"confirmed", "reverted"}
        <5>1. r.hash = t.receipt
          BY <2>2, <3>1, <4>2 DEF Changed, Rows
        <5> QED BY <2>1, <4>2, <5>1 DEF Genuine, Truthful
      <4>3. CASE t.mark = "manual_review"
        BY <2>2, <3>1, <4>3 DEF Changed, Rows, Genuine
      <4> QED BY <2>1, <4>1, <4>2, <4>3 DEF Calls, Marks
    <3> QED BY <1>3, <2>3, <3>2, <3>3 DEF Genuine, Matches, Deep
  <2>5. CASE MarkAgain(c)
    <3>1. row'[t.id].status = "reverted"
      BY <1>0, <2>1, <2>2, <2>5 DEF MarkAgain, Rows
    <3> QED BY <1>3, <2>3, <3>1 DEF Genuine
  <2> QED BY <1>6, <2>4, <2>5
<1> QED BY <1>3, <1>4, <1>5, <1>6, Frames

\* Every step keeps what is booked final: SettleDebit books what its call has found final,
\* and no reorganisation takes it back.
LEMMA BookedStep ==
  EvmInv /\ [Next]_vars /\ seen' \cap {"overtaken", "halfReverted"} = {} =>
    \A s \in Swaps : <<s, "debit">> \in booked' => Final(s)'
<1> SUFFICES ASSUME EvmInv, [Next]_vars, seen' \cap {"overtaken", "halfReverted"} = {},
                    NEW s \in Swaps, <<s, "debit">> \in booked'
             PROVE  Final(s)'
  OBVIOUS
<1>1. seen \cap {"overtaken", "halfReverted"} = {}
  BY SeenGrows
<1>2. <<s, "debit">> \in booked \/ \E c \in Callers : call[c] # None /\ call[c].pc = "debit" /\ call[c].id = s
  <2>1. ASSUME NEW c \in Callers, SettleDebit(c), <<s, "debit">> \notin booked
        PROVE  call[c] # None /\ call[c].pc = "debit" /\ call[c].id = s
    BY <2>1 DEF SettleDebit, At
  <2>2. ASSUME NEW c \in Callers, SettleCredit(c) \/ SettleGas(c) PROVE <<s, "debit">> \in booked
    BY <2>2 DEF SettleCredit, SettleGas
  <2> QED BY <2>1, <2>2, Frames
<1>3. Final(s)
  BY <1>1, <1>2 DEF EvmInv, BookedInv
<1> QED BY <1>3, DeepStays DEF EvmInv, Final

-----------------------------------------------------------------------------
(* The invariant. *)

\* The invariant holds of a new process on a wallet without rows.
LEMMA InitInv == Init => EvmInv
<1> SUFFICES ASSUME Init PROVE EvmInv
  OBVIOUS
<1>1. setup.count \in Nat
  BY EvmAssumption DEF Init
<1>2. Nonces = {} /\ Rowed = {}
  BY DEF Init, Nonces, Rowed
<1>3. TypeOK
  BY DEF Init, TypeOK, Subs, SubSteps
<1>4. LockInv
  BY DEF Init, LockInv, Queued
<1>5. RowInv
  BY <1>2, FS_EmptySet DEF Init, RowInv
<1>6. NonceInv
  <2>1. NoncesContiguous
    BY <1>1, <1>2, FS_EmptySet DEF NoncesContiguous
  <2> QED BY <2>1 DEF Init, NonceInv, NonceNeverContended
<1>7. CallInv /\ ReceiptInv /\ BookedInv
  BY DEF Init, CallInv, ReceiptInv, BookedInv, Genuine
<1> QED BY <1>3, <1>4, <1>5, <1>6, <1>7 DEF EvmInv

\* Every step keeps the invariant.
LEMMA InvStep == EvmInv /\ [Next]_vars => EvmInv'
<1> SUFFICES ASSUME EvmInv, [Next]_vars PROVE EvmInv'
  OBVIOUS
<1>1. TypeOK' /\ LockInv' /\ RowInv' /\ NonceInv'
  BY TypeStep, LockStep, RowStep, NonceStep DEF EvmInv
<1>2. \A c \in Callers : call'[c] # None => Good(call[c])'
  BY CallStep
<1>3. CallInv'
  BY <1>2 DEF CallInv, Good
<1>4. ReceiptInv'
  BY <1>2, GenuineStep DEF ReceiptInv, Good
<1>5. BookedInv'
  BY <1>2, BookedStep DEF BookedInv, Good
<1> QED BY <1>1, <1>3, <1>4, <1>5 DEF EvmInv

\* The invariant holds in every state.
LEMMA Invariance == Spec => []EvmInv
BY InitInv, InvStep, PTL DEF Spec

\* The variables have their types in every state.
THEOREM TypeCorrect == Spec => []TypeOK
<1>1. EvmInv => TypeOK
  BY DEF EvmInv
<1> QED BY <1>1, Invariance, PTL

\* No allocation ever finds its nonce taken: however the submissions of a wallet overlap
\* and wherever a crash cut them off, preAllocate's lock and the rows' maximum keep the
\* nonces it hands out apart.
THEOREM NoncesNeverContended == Spec => []NonceNeverContended
<1>1. EvmInv => NonceNeverContended
  BY DEF EvmInv, NonceInv
<1> QED BY <1>1, Invariance, PTL

\* The nonces handed out for a wallet that has sent before are consecutive from the
\* chain's count on: refused and lost broadcasts and crashes keep their row, and the
\* next submission counts from it. That every nonce is broadcast is not said: one
\* whose broadcast was refused holds up those after it.
THEOREM NoncesHaveNoGap == Spec => []NoncesContiguous
<1>1. EvmInv => NoncesContiguous
  BY DEF EvmInv, NonceInv
<1> QED BY <1>1, Invariance, PTL

\* A swap that settleConfirmedSwap has booked is in the chain, where it succeeded, and
\* no reorganisation shallower than requiredConfirmations takes it out.
THEOREM BookedStaysMined == Spec => []SettledOnlyIfMined
<1>1. EvmInv => SettledOnlyIfMined
  BY DEF EvmInv, BookedInv, Final, Deep, SettledOnlyIfMined
<1> QED BY <1>1, Invariance, PTL
=============================================================================
