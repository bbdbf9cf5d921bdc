-------------------------- MODULE MCOrderPlacement --------------------------
(* Intents for TLC: two requote one slot with the same terms, a third one,     *)
(* where there is one, has a slot of its own.                                  *)
EXTENDS OrderPlacement

TwoSlots == [i \in IntentIds |-> IF i = 3 THEN 2 ELSE 1]
=============================================================================
