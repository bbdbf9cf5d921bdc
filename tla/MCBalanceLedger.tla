-------------------------- MODULE MCBalanceLedger --------------------------
(* Instances of BalanceLedger for TLC. *)
EXTENDS BalanceLedger

CONSTANTS b1, b2, k1, k2, k3, k4, k5, k6

Cmd(k, b, t, a, r) == [key |-> k, bucket |-> b, type |-> t, amount |-> a, reversalOf |-> r]

\* One order: a reservation and a withdrawal that only fit one at a time, and a
\* key submitted with two payloads.
ContendingCommands ==
  { Cmd(k1, b1, "deposit_credit", 2, None),
    Cmd(k1, b1, "deposit_credit", 1, None),
    Cmd(k2, b1, "reserve_lock", 2, None),
    Cmd(k3, b1, "withdraw_debit", 1, None) }

\* Two orders whose callers use one key for both; one of them pays a fee that
\* is reversed.
SharedKeyCommands ==
  { Cmd(k1, b1, "deposit_credit", 2, None),
    Cmd(k1, b2, "deposit_credit", 2, None),
    Cmd(k2, b1, "reserve_lock", 1, None),
    Cmd(k3, b1, "fee_debit", 1, None),
    Cmd(k4, b1, "reversal", 1, k3) }

\* An order that trades, provides liquidity, once with an amount of the wrong
\* sign, and pays fees that are reversed.
TradingCommands ==
  { Cmd(k1, b1, "deposit_credit", 3, None),
    Cmd(k2, b1, "reserve_lock", 2, None),
    Cmd(k3, b1, "swap_settle", -1, None),
    Cmd(k4, b1, "fee_debit", 1, None),
    Cmd(k5, b1, "reversal", 1, k4),
    Cmd(k6, b1, "lp_add_settle", -1, None),
    Cmd(k6, b1, "lp_add_settle", 1, None) }
=============================================================================
