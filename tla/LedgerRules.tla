---------------------------- MODULE LedgerRules ----------------------------
(***************************************************************************)
(* The arithmetic of the order ledger: which commands are admissible, what *)
(* a command does to the balance of its (order, asset) bucket, and how the *)
(* same balance is rebuilt from the immutable entries.  The two are        *)
(* written twice in the code (applyMutationWithRepositories and            *)
(* projectBalanceFromEntries of balance-ledger.service.ts) and are written *)
(* twice here, so that their agreement can be checked.                     *)
(*                                                                         *)
(* Amounts are integers counted in the smallest unit of the asset: the     *)
(* code uses arbitrary precision decimals, so no operation rounds.         *)
(***************************************************************************)
EXTENDS Integers

\* The type of "no entry": a lookup of a reversed entry that finds nothing.
NoType == "none"

EntryTypes ==
  { "deposit_credit", "withdraw_debit", "reserve_lock", "reserve_release",
    "fill_settle", "swap_settle", "lp_add_settle", "lp_remove_settle",
    "lp_fee_credit", "reward_credit", "fee_debit", "gas_debit",
    "allocation_release", "reversal" }

Credits == {"deposit_credit", "reward_credit", "lp_fee_credit"}
AvailableDebits == {"withdraw_debit", "fee_debit", "allocation_release"}
TradeSettles == {"fill_settle", "swap_settle"}

\* Types whose amount may carry a sign of its own.
SignedTypes ==
  TradeSettles \cup
  {"lp_add_settle", "lp_remove_settle", "reward_credit", "lp_fee_credit", "reversal"}

\* Types that count as profit or loss of the order.
RealizedTypes ==
  TradeSettles \cup
  {"lp_add_settle", "lp_remove_settle", "lp_fee_credit", "reward_credit"}

FeeTypes == {"fee_debit", "gas_debit"}

Abs(n) == IF n < 0 THEN -n ELSE n

NonNeg(n) == IF n < 0 THEN 0 ELSE n

Balance ==
  [ available : Int, locked : Int, externalLocked : Int, total : Int,
    initialDeposit : Int, realizedDelta : Int, feePaid : Int ]

ZeroBalance ==
  [ available |-> 0, locked |-> 0, externalLocked |-> 0, total |-> 0,
    initialDeposit |-> 0, realizedDelta |-> 0, feePaid |-> 0 ]

-----------------------------------------------------------------------------
(* The write path. *)

AmountAdmissible(type, a) ==
  /\ a # 0
  /\ type \notin SignedTypes => a > 0
  /\ type = "lp_add_settle" => a < 0
  /\ type = "lp_remove_settle" => a > 0

\* The amount stored in the entry.
SignedEntryAmount(type, a) ==
  IF type \in AvailableDebits \cup {"gas_debit"} THEN -a ELSE a

\* The amount a replay is compared with; gas_debit is not in the code's list.
SignedAmountForIdempotency(type, a) ==
  IF type \in AvailableDebits THEN -a ELSE a

NextAvailable(type, a, bal) ==
  CASE type \in Credits \cup {"reserve_release", "lp_remove_settle", "reversal"}
         -> bal.available + a
    [] type \in AvailableDebits \cup {"reserve_lock"} -> bal.available - a
    [] type \in TradeSettles /\ a >= 0 -> bal.available + a
    [] OTHER -> bal.available

NextLocked(type, a, bal) ==
  CASE type = "reserve_lock" -> bal.locked + a
    [] type \in {"reserve_release", "gas_debit"} -> bal.locked - a
    [] type \in TradeSettles \cup {"lp_add_settle"} /\ a < 0 -> bal.locked - Abs(a)
    [] OTHER -> bal.locked

NextExternalLocked(type, a, bal) ==
  CASE type = "lp_add_settle" -> bal.externalLocked + Abs(a)
    [] type = "lp_remove_settle" -> bal.externalLocked - a
    [] OTHER -> bal.externalLocked

\* Mutant: the available balance is not checked.
FundsSufficeLockedOnly(type, a, bal) ==
  NextLocked(type, a, bal) >= 0 /\ NextExternalLocked(type, a, bal) >= 0

\* "insufficient ... balance" and "balance cannot become negative".
FundsSuffice(type, a, bal) ==
  /\ NextAvailable(type, a, bal) >= 0
  /\ NextLocked(type, a, bal) >= 0
  /\ NextExternalLocked(type, a, bal) >= 0

ReversalAffectsRealizedDelta(revType) == revType \in RealizedTypes \cup {"reversal"}

\* Mutant: a reversal does not give a fee back.
NextFeePaidNoRefund(feePaid, type, a, revType) ==
  IF type \in FeeTypes THEN feePaid + a ELSE feePaid

NextFeePaid(feePaid, type, a, revType) ==
  CASE type \in FeeTypes -> feePaid + a
    [] type = "reversal" /\ revType \in FeeTypes -> NonNeg(feePaid - Abs(a))
    [] OTHER -> feePaid

\* The row that is saved for a command of the given type and amount.
ApplyCommand(type, a, revType, bal) ==
  LET avail == NextAvailable(type, a, bal)
      lock  == NextLocked(type, a, bal)
      ext   == NextExternalLocked(type, a, bal)
  IN  [ available |-> avail, locked |-> lock, externalLocked |-> ext,
        total |-> avail + lock + ext,
        initialDeposit |-> IF type = "deposit_credit" THEN bal.initialDeposit + a
                           ELSE bal.initialDeposit,
        realizedDelta |->
          IF type \in RealizedTypes \/ ReversalAffectsRealizedDelta(revType)
          THEN bal.realizedDelta + SignedEntryAmount(type, a)
          ELSE bal.realizedDelta,
        feePaid |-> NextFeePaid(bal.feePaid, type, a, revType) ]

-----------------------------------------------------------------------------
(* The rebuild path: one iteration of the loop over the sorted entries. *)

ProjectEntry(bal, type, amount, revType) ==
  LET avail ==
        CASE type \in Credits \cup AvailableDebits
                        \cup {"reserve_release", "lp_remove_settle", "reversal"}
               -> bal.available + amount
          [] type = "reserve_lock" -> bal.available - amount
          [] type \in TradeSettles /\ amount >= 0 -> bal.available + amount
          [] OTHER -> bal.available
      lock ==
        CASE type \in {"gas_debit", "reserve_lock", "lp_add_settle"} -> bal.locked + amount
          [] type = "reserve_release" -> bal.locked - amount
          [] type \in TradeSettles /\ amount < 0 -> bal.locked + amount
          [] OTHER -> bal.locked
      ext ==
        CASE type = "lp_add_settle" -> bal.externalLocked + Abs(amount)
          [] type = "lp_remove_settle" -> bal.externalLocked - amount
          [] OTHER -> bal.externalLocked
  IN  [ available |-> avail, locked |-> lock, externalLocked |-> ext,
        total |-> avail + lock + ext,
        initialDeposit |-> IF type = "deposit_credit" THEN bal.initialDeposit + amount
                           ELSE bal.initialDeposit,
        realizedDelta |->
          IF \/ type \in RealizedTypes
             \/ type = "reversal" /\ ReversalAffectsRealizedDelta(revType)
          THEN bal.realizedDelta + amount
          ELSE bal.realizedDelta,
        feePaid |->
          CASE type \in FeeTypes -> bal.feePaid + Abs(amount)
            [] type = "reversal" /\ revType \in FeeTypes
                 -> NonNeg(bal.feePaid - Abs(amount))
            [] OTHER -> bal.feePaid ]
=============================================================================
