------------------------ MODULE OrderPlacementProofs ------------------------
(***************************************************************************)
(* Theorems about OrderPlacement: a client order id is one intent's, and     *)
(* the exchange opens at most one order for an intent.  For any number of    *)
(* intents, retries, stops and crashes, whatever times out or lands late.    *)
(* For a strategy that is neither stopped nor crashes: an open order's unit  *)
(* stays locked, a slot has one open order, and in the end only orders that  *)
(* failed or went missing after their intent was done keep a unit.           *)
(***************************************************************************)
EXTENDS OrderPlacement, FiniteSetTheorems, WellFoundedInduction, TLAPS

-----------------------------------------------------------------------------
(* The inductive invariant. *)

Unsent == {"unpublished", "NEW"}

\* The pcs from which a client order id is held.
WithClient ==
  {"reserve", "check", "submit", "reconcile", "release", "attach", "track", "rejected", "acked",
   "done", "mark"}

IntentRow ==
  [status : Unsent \cup {"SENT", "ACKED"} \cup Final, order : ClientIds \cup {None}]

Mapping == {"none", "reserved", "linked"}

Landing == {"open", "filled", "cancelled", "rejected"}

\* The types of what the argument is about.
PlaceTypes ==
  /\ intents \in [IntentIds -> IntentRow]
  /\ mappings \in [ClientIds -> Mapping]
  /\ worker \in IntentIds \cup {None}
  /\ exec \in Execution \cup {None}
  /\ nextSeq \in Nat \cup {None}
  /\ exchange \in [ClientIds -> {"none", "flight"} \cup Landing]
  /\ sender \in [ClientIds -> IntentIds \cup {None}]
  /\ placed \in [IntentIds -> Nat]

\* The mapped client order ids are the first m, and m is what is remembered.
FirstMapped(m) ==
  /\ \A c \in ClientIds : mappings[c] # "none" <=> c < m
  /\ nextSeq \in {None, m}

SequenceInv == \E m \in 0..Cardinality(IntentIds) : FirstMapped(m)

\* An execution from its reservation on holds a mapped client order id.
ClientInv ==
  exec # None =>
    /\ exec.pc \in WithClient <=> exec.client # None
    /\ exec.client # None => mappings[exec.client] # "none"

\* What was sent was sent under a mapped id, for an intent that is not new any more, and for
\* no other intent than the one under execution if it is that one's id.
SenderInv ==
  \A c \in ClientIds : sender[c] # None =>
    /\ mappings[c] # "none"
    /\ intents[sender[c]].status \notin Unsent
    /\ sender[c] # worker
    /\ exec # None => (sender[c] = exec.intent <=> c = exec.client)

OneId == \A c, d \in ClientIds : sender[c] = sender[d] /\ sender[c] # None => c = d

\* The worker and an execution take turns; an intent under way is not new.
TurnInv ==
  /\ worker # None => exec = None
  /\ exec # None /\ exec.pc \notin {"begin", "sent"} => intents[exec.intent].status \notin Unsent

\* The exchange has what was sent, and one order for an intent once it landed.
ExchangeInv ==
  /\ \A c \in ClientIds : exchange[c] = "none" <=> sender[c] = None
  /\ \A i \in IntentIds :
       \/ placed[i] = 0
       \/ placed[i] = 1 /\ \E c \in ClientIds : sender[c] = i /\ Landed(c)

PlaceInv ==
  PlaceTypes /\ SequenceInv /\ ClientInv /\ SenderInv /\ OneId /\ TurnInv /\ ExchangeInv

-----------------------------------------------------------------------------
(* The steps that only move things on. *)

\* An intent that was sent does not become new again.
IntentsMove ==
  /\ intents' \in [IntentIds -> IntentRow]
  /\ \A i \in IntentIds : intents[i].status \notin Unsent => intents'[i].status \notin Unsent

\* No client order id becomes mapped or unmapped; the counter may be forgotten.
MappingsMove ==
  /\ mappings' \in [ClientIds -> Mapping]
  /\ \A c \in ClientIds : mappings'[c] = "none" <=> mappings[c] = "none"
  /\ nextSeq' \in {nextSeq, None}

\* The exchange changes only what landed.
ExchangeMove ==
  /\ exchange' \in [ClientIds -> {"none", "flight"} \cup Landing]
  /\ \A c \in ClientIds : exchange'[c] = "none" <=> exchange[c] = "none"
  /\ \A c \in ClientIds : exchange[c] \in Landing => exchange'[c] \in Landing
  /\ sender' = sender /\ placed' = placed

\* The execution goes on with its intent and its client order id, or ends.
ExecMove ==
  \/ exec' = None
  \/ /\ exec # None /\ exec' \in Execution
     /\ exec'.intent = exec.intent /\ exec'.client = exec.client
     /\ exec'.pc \in WithClient <=> exec.pc \in WithClient
     /\ exec.pc \in {"begin", "sent"} /\ exec'.pc \notin {"begin", "sent"}
          => intents'[exec.intent].status \notin Unsent

\* A step that only moves things on preserves the invariant.
LEMMA MovePreserves ==
  ASSUME PlaceInv, IntentsMove, MappingsMove, ExchangeMove, ExecMove, worker' \in {worker, None}
  PROVE  PlaceInv'
<1>1. PlaceTypes'
  BY SMT DEF PlaceInv, PlaceTypes, IntentsMove, MappingsMove, ExchangeMove, ExecMove
<1>2. SequenceInv'
  <2>1. PICK m \in 0..Cardinality(IntentIds) : FirstMapped(m)
    BY DEF PlaceInv, SequenceInv
  <2>2. FirstMapped(m)'
    BY <2>1 DEF FirstMapped, MappingsMove
  <2>. QED  BY <2>2 DEF SequenceInv
<1>3. ClientInv'
  <2>1. CASE exec' = None
    BY <2>1 DEF ClientInv
  <2>2. CASE exec' # None
    <3>1. /\ exec # None /\ exec \in Execution /\ exec'.client = exec.client
          /\ exec'.pc \in WithClient <=> exec.pc \in WithClient
      BY <2>2 DEF PlaceInv, PlaceTypes, ExecMove
    <3>2. exec.client \in ClientIds \cup {None}
      BY <3>1 DEF Execution
    <3>3. /\ exec.pc \in WithClient <=> exec.client # None
          /\ exec.client # None => mappings[exec.client] # "none"
      BY <3>1 DEF PlaceInv, ClientInv
    <3>4. exec'.client # None => mappings'[exec'.client] # "none"
      BY <3>1, <3>2, <3>3 DEF MappingsMove
    <3>5. exec'.pc \in WithClient <=> exec'.client # None
      BY <3>1, <3>3, Zenon
    <3>. QED  BY <3>4, <3>5 DEF ClientInv
  <2>. QED  BY <2>1, <2>2
<1>4. SenderInv'
  BY SMT DEF PlaceInv, PlaceTypes, SenderInv, MappingsMove, IntentsMove, ExchangeMove, ExecMove
<1>5. OneId'
  BY DEF PlaceInv, OneId, ExchangeMove
<1>6. TurnInv'
  BY SMT DEF PlaceInv, PlaceTypes, TurnInv, IntentsMove, ExecMove, Execution
<1>7. ExchangeInv'
  <2>1. \A c \in ClientIds : Landed(c) => Landed(c)'
    BY DEF Landed, Landing, ExchangeMove
  <2>. QED  BY <2>1 DEF PlaceInv, ExchangeInv, ExchangeMove
<1>. QED  BY <1>1, <1>2, <1>3, <1>4, <1>5, <1>6, <1>7 DEF PlaceInv

\* Setting the status of an intent.
LEMMA StatusSet ==
  ASSUME PlaceTypes, NEW i \in IntentIds, NEW s \in {"SENT", "ACKED"} \cup Final, SetStatus(i, s)
  PROVE  IntentsMove /\ intents'[i].status \notin Unsent
<1>1. \A r \in IntentRow : /\ [r EXCEPT !.status = s] \in IntentRow
                            /\ [r EXCEPT !.status = s].status = s
  BY DEF IntentRow
<1>2. s \notin Unsent
  BY DEF Unsent, Final
<1>3. intents' = [intents EXCEPT ![i] = [intents[i] EXCEPT !.status = s]]
  BY Zenon DEF SetStatus
<1>. QED  BY <1>1, <1>2, <1>3 DEF PlaceTypes, IntentsMove

\* cancelPendingIntents.
LEMMA PendingCancelled ==
  ASSUME PlaceTypes, intents' = CancelPending(intents)
  PROVE  IntentsMove
<1>1. \A r \in IntentRow : /\ [r EXCEPT !.status = "CANCELLED"] \in IntentRow
                            /\ [r EXCEPT !.status = "CANCELLED"].status = "CANCELLED"
  BY DEF IntentRow, Final
<1>2. "CANCELLED" \notin Unsent
  BY DEF Unsent
<1>. QED  BY <1>1, <1>2 DEF PlaceTypes, IntentsMove, CancelPending

\* Nothing of the intents, the mappings or the exchange changes.
LEMMA StillMoves ==
  ASSUME PlaceTypes
  PROVE  /\ UNCHANGED intents => IntentsMove
         /\ UNCHANGED <<mappings, nextSeq>> => MappingsMove
         /\ UNCHANGED outside => ExchangeMove
         /\ UNCHANGED exec => ExecMove
BY SMT DEF PlaceTypes, IntentsMove, MappingsMove, ExchangeMove, ExecMove, outside

\* A step of the execution to another pc.
LEMMA GotoFacts ==
  ASSUME PlaceTypes, exec # None, NEW p \in ExecPc, exec' = [exec EXCEPT !.pc = p]
  PROVE  /\ exec' \in Execution /\ exec'.pc = p
         /\ exec'.intent = exec.intent /\ exec'.client = exec.client
BY DEF PlaceTypes, Execution

\* Intents are numbers.
LEMMA IntentsAreNat == \A i \in IntentIds : i \in Nat /\ i # None
<1>1. \A k, i : i \in 1..k => i \in Nat
  OBVIOUS
<1>. QED  BY <1>1, PlacementAssumption

\* The execution names an intent.
LEMMA ExecIntent ==
  ASSUME PlaceTypes, exec # None
  PROVE  exec \in Execution /\ exec.intent \in IntentIds /\ exec.pc \in ExecPc
BY DEF PlaceTypes, Execution

-----------------------------------------------------------------------------
(* The actions that only move things on. *)

\* Publish.
LEMMA PublishPreserves == PlaceInv /\ Publish => PlaceInv'
<1>. SUFFICES ASSUME PlaceInv, Publish PROVE PlaceInv'
  OBVIOUS
<1>1. PlaceTypes
  BY DEF PlaceInv
<1>2. PICK i \in IntentIds : intents[i].status = "unpublished" /\ SetStatus(i, "NEW")
  BY DEF Publish
<1>3. \A r \in IntentRow : [r EXCEPT !.status = "NEW"] \in IntentRow
  BY DEF IntentRow, Unsent
<1>4. intents' = [intents EXCEPT ![i] = [intents[i] EXCEPT !.status = "NEW"]]
  BY <1>2, Zenon DEF SetStatus
<1>5. IntentsMove
  BY <1>1, <1>2, <1>3, <1>4 DEF PlaceTypes, IntentsMove, Unsent
<1>. QED  BY <1>1, <1>5, StillMoves, MovePreserves DEF Publish, outside

\* ExecBegin.
LEMMA ExecBeginPreserves == PlaceInv /\ ExecBegin => PlaceInv'
<1>. SUFFICES ASSUME PlaceInv, ExecBegin PROVE PlaceInv'
  OBVIOUS
<1>1. /\ PlaceTypes /\ exec # None /\ exec.pc = "begin"
      /\ UNCHANGED <<mappings, nextSeq, worker>> /\ UNCHANGED outside
  BY DEF PlaceInv, ExecBegin, At
<1>2. exec.intent \in IntentIds
  BY <1>1, ExecIntent
<1>3. \/ SetStatus(exec.intent, "DONE") /\ exec' = None
      \/ SetStatus(exec.intent, "CANCELLED") /\ exec' = None
      \/ exec' = [exec EXCEPT !.pc = "sent"] /\ UNCHANGED intents
  BY Zenon DEF ExecBegin, Goto
<1>4. IntentsMove
  BY <1>1, <1>2, <1>3, StatusSet, StillMoves DEF Final
<1>5. ExecMove
  BY <1>1, <1>3, GotoFacts DEF ExecMove, WithClient, ExecPc
<1>. QED  BY <1>1, <1>4, <1>5, StillMoves, MovePreserves

\* ExecSent.
LEMMA ExecSentPreserves == PlaceInv /\ ExecSent => PlaceInv'
<1>. SUFFICES ASSUME PlaceInv, ExecSent PROVE PlaceInv'
  OBVIOUS
<1>1. /\ PlaceTypes /\ exec # None /\ exec.pc = "sent"
      /\ SetStatus(exec.intent, "SENT") /\ exec' = [exec EXCEPT !.pc = "gate"]
      /\ UNCHANGED <<mappings, nextSeq, worker>> /\ UNCHANGED outside
  BY DEF PlaceInv, ExecSent, At, Goto
<1>2. exec.intent \in IntentIds
  BY <1>1, ExecIntent
<1>3. IntentsMove /\ intents'[exec.intent].status \notin Unsent
  BY <1>1, <1>2, StatusSet
<1>4. ExecMove
  BY <1>1, <1>3, GotoFacts DEF ExecMove, WithClient, ExecPc
<1>. QED  BY <1>1, <1>3, <1>4, StillMoves, MovePreserves

\* ExecGate.
LEMMA ExecGatePreserves == PlaceInv /\ ExecGate => PlaceInv'
<1>. SUFFICES ASSUME PlaceInv, ExecGate PROVE PlaceInv'
  OBVIOUS
<1>1. /\ PlaceTypes /\ exec # None /\ exec.pc = "gate"
      /\ UNCHANGED <<mappings, nextSeq, worker>> /\ UNCHANGED outside
  BY DEF PlaceInv, ExecGate, At
<1>2. exec.intent \in IntentIds
  BY <1>1, ExecIntent
<1>3. \/ SetStatus(exec.intent, "FAILED") /\ exec' = None
      \/ SetStatus(exec.intent, "DONE") /\ exec' = None
      \/ exec' = [exec EXCEPT !.pc = "client"] /\ UNCHANGED intents
  BY Zenon DEF ExecGate, Goto
<1>4. IntentsMove
  BY <1>1, <1>2, <1>3, StatusSet, StillMoves DEF Final
<1>5. ExecMove
  BY <1>1, <1>3, GotoFacts DEF ExecMove, WithClient, ExecPc
<1>. QED  BY <1>1, <1>4, <1>5, StillMoves, MovePreserves

\* ExecReserve.
LEMMA ExecReservePreserves == PlaceInv /\ ExecReserve => PlaceInv'
<1>. SUFFICES ASSUME PlaceInv, ExecReserve PROVE PlaceInv'
  OBVIOUS
<1>1. /\ PlaceTypes /\ exec # None /\ exec.pc = "reserve"
      /\ UNCHANGED <<mappings, nextSeq, worker>> /\ UNCHANGED outside
  BY DEF PlaceInv, ExecReserve, At
<1>2. exec.intent \in IntentIds /\ exec \in Execution
  BY <1>1, ExecIntent
<1>3. \/ exec' = [exec EXCEPT !.pc = "check"] /\ UNCHANGED intents
      \/ exec' = [exec EXCEPT !.pc = "check", !.applied = TRUE] /\ UNCHANGED intents
      \/ SetStatus(exec.intent, "FAILED") /\ exec' = None
  BY Zenon DEF ExecReserve, Goto
<1>4. IntentsMove
  BY <1>1, <1>2, <1>3, StatusSet, StillMoves DEF Final
<1>5. \A e \in Execution :
        LET f == [e EXCEPT !.pc = "check", !.applied = TRUE]
        IN  f \in Execution /\ f.pc = "check" /\ f.intent = e.intent /\ f.client = e.client
  BY DEF Execution, ExecPc
<1>6. ExecMove
  BY <1>1, <1>2, <1>3, <1>5, GotoFacts DEF ExecMove, WithClient, ExecPc
<1>. QED  BY <1>1, <1>4, <1>6, StillMoves, MovePreserves

\* From its reservation on an execution moves between the pcs that hold a client order id.
LEMMA ExecGoesOn ==
  ASSUME PlaceTypes, exec # None, exec.pc \in WithClient, exec' \in Execution,
         exec'.pc \in WithClient, exec'.intent = exec.intent, exec'.client = exec.client
  PROVE  ExecMove
BY DEF ExecMove, WithClient

\* ExecCheck.
LEMMA ExecCheckPreserves == PlaceInv /\ ExecCheck => PlaceInv'
<1>. SUFFICES ASSUME PlaceInv, ExecCheck PROVE PlaceInv'
  OBVIOUS
<1>1. /\ PlaceTypes /\ exec # None /\ exec.pc = "check"
      /\ UNCHANGED <<mappings, nextSeq, worker>> /\ UNCHANGED outside
  BY DEF PlaceInv, ExecCheck, At
<1>2. exec.intent \in IntentIds /\ exec \in Execution
  BY <1>1, ExecIntent
<1>3. \/ exec' = [exec EXCEPT !.pc = "submit"] /\ UNCHANGED intents
      \/ /\ SetStatus(exec.intent, "CANCELLED")
         /\ exec' = [exec EXCEPT !.pc = "reconcile", !.error = "IntentCancelled"]
  BY Zenon DEF ExecCheck, Goto
<1>4. IntentsMove
  BY <1>1, <1>2, <1>3, StatusSet, StillMoves DEF Final
<1>5. \A e \in Execution :
        LET f == [e EXCEPT !.pc = "reconcile", !.error = "IntentCancelled"]
        IN  f \in Execution /\ f.pc = "reconcile" /\ f.intent = e.intent /\ f.client = e.client
  BY DEF Execution, ExecPc
<1>6. ExecMove
  BY <1>1, <1>2, <1>3, <1>5, GotoFacts, ExecGoesOn DEF WithClient, ExecPc
<1>. QED  BY <1>1, <1>4, <1>6, StillMoves, MovePreserves

\* ExecReconcile.
LEMMA ExecReconcilePreserves == PlaceInv /\ ExecReconcile => PlaceInv'
<1>. SUFFICES ASSUME PlaceInv, ExecReconcile PROVE PlaceInv'
  OBVIOUS
<1>1. /\ PlaceTypes /\ exec # None /\ exec.pc = "reconcile" /\ UNCHANGED intents
      /\ UNCHANGED <<mappings, nextSeq, worker>> /\ UNCHANGED outside
  BY DEF PlaceInv, ExecReconcile, At
<1>2. exec \in Execution
  BY <1>1, ExecIntent
<1>3. \/ exec' = [exec EXCEPT !.pc = "acked"]
      \/ /\ Landed(exec.client)
         /\ exec' = [exec EXCEPT !.pc = "attach", !.answer = exchange[exec.client]]
      \/ exec' = [exec EXCEPT !.pc = "release"]
  BY Zenon DEF ExecReconcile, Goto
<1>4. \A e \in Execution, s \in Landing :
        LET f == [e EXCEPT !.pc = "attach", !.answer = s]
        IN  f \in Execution /\ f.pc = "attach" /\ f.intent = e.intent /\ f.client = e.client
  <2>. SUFFICES ASSUME NEW e \in Execution, NEW s \in Landing
                PROVE  LET f == [e EXCEPT !.pc = "attach", !.answer = s]
                       IN  /\ f \in Execution /\ f.pc = "attach"
                           /\ f.intent = e.intent /\ f.client = e.client
    OBVIOUS
  <2>1. s \in {None, "open", "filled", "cancelled", "rejected"} /\ "attach" \in ExecPc
    BY DEF Landing, ExecPc
  <2>. QED  BY <2>1 DEF Execution
<1>5. Landed(exec.client) => exchange[exec.client] \in Landing
  BY DEF Landed, Landing
<1>6. ASSUME Landed(exec.client),
             exec' = [exec EXCEPT !.pc = "attach", !.answer = exchange[exec.client]]
      PROVE  ExecMove
  <2>1. PICK a \in Landing : a = exchange[exec.client]
    BY <1>5, <1>6
  <2>2. exec' = [exec EXCEPT !.pc = "attach", !.answer = a]
    BY <1>6, <2>1
  <2>3. /\ exec' \in Execution /\ exec'.pc = "attach"
        /\ exec'.intent = exec.intent /\ exec'.client = exec.client
    BY <1>2, <1>4, <2>2
  <2>. QED  BY <1>1, <2>3, ExecGoesOn DEF WithClient
<1>7. ExecMove
  BY <1>1, <1>3, <1>6, GotoFacts, ExecGoesOn DEF WithClient, ExecPc
<1>. QED  BY <1>1, <1>7, StillMoves, MovePreserves

\* ExecRelease and ExecRejected: the execution ends.
LEMMA ExecEndsPreserves == PlaceInv /\ (ExecRelease \/ ExecRejected) => PlaceInv'
<1>. SUFFICES ASSUME PlaceInv, ExecRelease \/ ExecRejected PROVE PlaceInv'
  OBVIOUS
<1>1. /\ PlaceTypes /\ exec # None
      /\ UNCHANGED <<mappings, nextSeq, worker>> /\ UNCHANGED outside /\ exec' = None
  BY DEF PlaceInv, ExecRelease, ExecRejected, At
<1>2. exec.intent \in IntentIds
  BY <1>1, ExecIntent
<1>3. UNCHANGED intents \/ SetStatus(exec.intent, "FAILED")
  BY Zenon DEF ExecRelease, ExecRejected
<1>4. IntentsMove
  BY <1>1, <1>2, <1>3, StatusSet, StillMoves DEF Final
<1>5. ExecMove
  BY <1>1 DEF ExecMove
<1>. QED  BY <1>1, <1>4, <1>5, StillMoves, MovePreserves

\* ExecAttach.
LEMMA ExecAttachPreserves == PlaceInv /\ ExecAttach => PlaceInv'
<1>. SUFFICES ASSUME PlaceInv, ExecAttach PROVE PlaceInv'
  OBVIOUS
<1>1. /\ PlaceTypes /\ exec # None /\ exec.pc = "attach" /\ exec' = [exec EXCEPT !.pc = "track"]
      /\ UNCHANGED <<nextSeq, worker>> /\ UNCHANGED outside
  BY DEF PlaceInv, ExecAttach, At, Goto
<1>2. exec \in Execution /\ exec.intent \in IntentIds
  BY <1>1, ExecIntent
<1>3. exec.client \in ClientIds /\ mappings[exec.client] # "none"
  BY <1>1, <1>2 DEF PlaceInv, ClientInv, WithClient, Execution
<1>4. /\ intents' = [intents EXCEPT ![exec.intent] = [intents[exec.intent] EXCEPT !.order = exec.client]]
      /\ mappings' = [mappings EXCEPT ![exec.client] = "linked"]
  BY Zenon DEF ExecAttach
<1>5. \A r \in IntentRow, c \in ClientIds : /\ [r EXCEPT !.order = c] \in IntentRow
                                            /\ [r EXCEPT !.order = c].status = r.status
  BY DEF IntentRow
<1>6. IntentsMove
  BY <1>1, <1>2, <1>3, <1>4, <1>5 DEF PlaceTypes, IntentsMove
<1>7. MappingsMove
  BY <1>1, <1>3, <1>4 DEF PlaceTypes, MappingsMove, Mapping
<1>8. ExecMove
  BY <1>1, GotoFacts, ExecGoesOn DEF WithClient, ExecPc
<1>. QED  BY <1>1, <1>6, <1>7, <1>8, StillMoves, MovePreserves

\* ExecTrack.
LEMMA ExecTrackPreserves == PlaceInv /\ ExecTrack => PlaceInv'
<1>. SUFFICES ASSUME PlaceInv, ExecTrack PROVE PlaceInv'
  OBVIOUS
<1>1. /\ PlaceTypes /\ exec # None /\ exec.pc = "track" /\ UNCHANGED intents
      /\ UNCHANGED <<mappings, nextSeq, worker>> /\ UNCHANGED outside
  BY DEF PlaceInv, ExecTrack, At
<1>2. \/ exec' = [exec EXCEPT !.pc = "rejected"]
      \/ exec' = [exec EXCEPT !.pc = "acked"]
  BY Zenon DEF ExecTrack, Goto
<1>3. ExecMove
  BY <1>1, <1>2, GotoFacts, ExecGoesOn DEF WithClient, ExecPc
<1>. QED  BY <1>1, <1>3, StillMoves, MovePreserves

\* ExecAcked, ExecDone and ExecMark.
LEMMA ExecFinishPreserves == PlaceInv /\ (ExecAcked \/ ExecDone \/ ExecMark) => PlaceInv'
<1>. SUFFICES ASSUME PlaceInv, ExecAcked \/ ExecDone \/ ExecMark PROVE PlaceInv'
  OBVIOUS
<1>1. /\ PlaceTypes /\ exec # None
      /\ UNCHANGED <<mappings, nextSeq, worker>> /\ UNCHANGED outside
  BY DEF PlaceInv, ExecAcked, ExecDone, ExecMark, At
<1>2. exec.intent \in IntentIds
  BY <1>1, ExecIntent
<1>3. \/ /\ SetStatus(exec.intent, "ACKED") /\ exec.pc = "acked"
         /\ exec' = [exec EXCEPT !.pc = "done"]
      \/ /\ SetStatus(exec.intent, "DONE") /\ exec.pc = "done"
         /\ exec' = [exec EXCEPT !.pc = "mark"]
      \/ UNCHANGED intents /\ exec' = None
  BY Zenon DEF ExecAcked, ExecDone, ExecMark, Goto, At
<1>4. IntentsMove
  BY <1>1, <1>2, <1>3, StatusSet, StillMoves DEF Final
<1>5. ExecMove
  <2>1. exec' = None => ExecMove
    BY DEF ExecMove
  <2>. QED  BY <1>1, <1>3, <2>1, GotoFacts, ExecGoesOn DEF WithClient, ExecPc
<1>. QED  BY <1>1, <1>4, <1>5, StillMoves, MovePreserves

\* The tracker's passes and a start of the strategy touch none of this.
LEMMA OthersPreserve ==
  PlaceInv /\ (Polls \/ StopBegin \/ StartAgain \/ UNCHANGED vars) => PlaceInv'
<1>. SUFFICES ASSUME PlaceInv, Polls \/ StopBegin \/ StartAgain \/ UNCHANGED vars PROVE PlaceInv'
  OBVIOUS
<1>1. UNCHANGED <<intents, mappings, nextSeq, worker, exec>> /\ UNCHANGED outside
  BY Zenon DEF Polls, PollAsk, PollThrows, PollApply, Snapshot, StopBegin, StartAgain, vars,
               outside, durable
<1>2. PlaceTypes
  BY DEF PlaceInv
<1>. QED  BY <1>1, <1>2, StillMoves, MovePreserves

\* StopEnd.
LEMMA StopEndPreserves == PlaceInv /\ StopEnd => PlaceInv'
<1>. SUFFICES ASSUME PlaceInv, StopEnd PROVE PlaceInv'
  OBVIOUS
<1>1. /\ PlaceTypes /\ intents' = CancelPending(intents)
      /\ UNCHANGED <<mappings, nextSeq, worker>> /\ UNCHANGED exec /\ UNCHANGED outside
  BY DEF PlaceInv, StopEnd
<1>. QED  BY <1>1, PendingCancelled, StillMoves, MovePreserves

\* StopCancel: what is cancelled at the exchange had landed.
LEMMA StopCancelPreserves == PlaceInv /\ StopCancel => PlaceInv'
<1>. SUFFICES ASSUME PlaceInv, StopCancel PROVE PlaceInv'
  OBVIOUS
<1>1. /\ PlaceTypes /\ UNCHANGED intents
      /\ UNCHANGED <<mappings, nextSeq, worker>> /\ UNCHANGED exec /\ UNCHANGED <<sender, placed>>
  BY DEF PlaceInv, StopCancel
<1>2. PICK d : exchange' = [exchange EXCEPT ![d] = IF @ = "open" THEN "cancelled" ELSE @]
  BY Zenon DEF StopCancel
<1>3. \A c \in ClientIds : exchange'[c] = IF c = d /\ exchange[c] = "open" THEN "cancelled"
                                         ELSE exchange[c]
  BY <1>1, <1>2 DEF PlaceTypes
<1>4. exchange' = [c \in ClientIds |-> exchange'[c]]
  BY <1>1, <1>2 DEF PlaceTypes
<1>5. ExchangeMove
  BY <1>1, <1>3, <1>4 DEF PlaceTypes, ExchangeMove, Landing
<1>. QED  BY <1>1, <1>5, StillMoves, MovePreserves

\* An attempt that failed leaves the execution with what it holds.
LEMMA FailedMoves ==
  ASSUME PlaceTypes, exec # None, exec.pc = "submit", NEW e, Failed(e),
         e \in {"INSUFFICIENT_FUNDS", "INVALID_ORDER", "NO_ID", "REQUEST_TIMEOUT",
               "DUPLICATE_ORDER_ID"}
  PROVE  /\ exec' \in Execution /\ exec'.pc \in WithClient
         /\ exec'.intent = exec.intent /\ exec'.client = exec.client
<1>1. exec \in Execution
  BY ExecIntent
<1>2. \A b \in BOOLEAN, k \in Nat :
        LET f == [exec EXCEPT !.pc = "check", !.attempt = k, !.doubt = b]
        IN  /\ f \in Execution /\ f.pc \in WithClient
            /\ f.intent = exec.intent /\ f.client = exec.client
  BY <1>1 DEF Execution, ExecPc, WithClient
<1>3. \A p \in {"reconcile", "release"} :
        LET f == [exec EXCEPT !.error = e, !.pc = p]
        IN  /\ f \in Execution /\ f.pc \in WithClient
            /\ f.intent = exec.intent /\ f.client = exec.client
  BY <1>1 DEF Execution, ExecPc, WithClient
<1>4. (exec.doubt \/ e = "REQUEST_TIMEOUT") \in BOOLEAN
  BY <1>1 DEF Execution
<1>5. CASE exec.attempt < MaxRetries
  <2>1. PICK b \in BOOLEAN : b = (exec.doubt \/ e = "REQUEST_TIMEOUT")
    BY <1>4
  <2>2. exec' = [exec EXCEPT !.pc = "check", !.attempt = exec.attempt + 1, !.doubt = b]
    BY <1>5, <2>1 DEF Failed
  <2>3. exec.attempt + 1 \in Nat
    BY <1>1 DEF Execution
  <2>. QED  BY <1>2, <2>2, <2>3
<1>6. CASE ~(exec.attempt < MaxRetries)
  <2>1. PICK p \in {"reconcile", "release"} : p = IF Ambiguous(e) THEN "reconcile" ELSE "release"
    BY Zenon
  <2>2. exec' = [exec EXCEPT !.error = e, !.pc = p]
    BY <1>6, <2>1 DEF Failed
  <2>. QED  BY <1>3, <2>2
<1>. QED  BY <1>5, <1>6

-----------------------------------------------------------------------------
(* Sending an order. *)

\* An order is sent for the first time under the id of the execution: into flight, or it lands
\* and counts for its intent.
LEMMA SendPreserves ==
  ASSUME PlaceInv, exec # None, exec.pc = "submit", exchange[exec.client] = "none",
         NEW s \in {"flight"} \cup Landing,
         exchange' = [exchange EXCEPT ![exec.client] = s],
         sender' = [sender EXCEPT ![exec.client] = exec.intent],
         IF s = "flight" THEN placed' = placed
                         ELSE placed' = [placed EXCEPT ![exec.intent] = @ + 1],
         exec' \in Execution, exec'.pc \in WithClient,
         exec'.intent = exec.intent, exec'.client = exec.client,
         UNCHANGED <<intents, mappings, nextSeq, worker>>
  PROVE  PlaceInv'
<1>. DEFINE x == exec.client
            n == exec.intent
<1>1. /\ PlaceTypes /\ SequenceInv /\ ClientInv /\ SenderInv /\ OneId /\ TurnInv /\ ExchangeInv
      /\ exec \in Execution /\ n \in IntentIds
  BY ExecIntent DEF PlaceInv
<1>2. x \in ClientIds /\ mappings[x] # "none"
  BY <1>1 DEF ClientInv, WithClient, Execution
<1>3. n # None /\ worker = None
  <2>1. n \in Nat
    BY <1>1, IntentsAreNat
  <2>2. worker = None
    BY <1>1 DEF TurnInv
  <2>. QED  BY <2>1, <2>2, PlacementAssumption
<1>4. sender[x] = None
  BY <1>1, <1>2 DEF ExchangeInv
<1>5. \A c \in ClientIds : sender[c] # n
  BY <1>1, <1>2, <1>3, <1>4 DEF SenderInv
<1>6. /\ \A c \in ClientIds : sender'[c] = IF c = x THEN n ELSE sender[c]
      /\ \A c \in ClientIds : exchange'[c] = IF c = x THEN s ELSE exchange[c]
  BY <1>1, <1>2 DEF PlaceTypes
<1>7. \A i \in IntentIds :
        placed'[i] = IF i = n /\ s # "flight" THEN placed[i] + 1 ELSE placed[i]
  BY <1>1 DEF PlaceTypes
<1>8. PlaceTypes'
  BY <1>1, <1>2 DEF PlaceTypes
<1>9. SequenceInv' /\ ClientInv' /\ TurnInv'
  <2>1. SequenceInv'
    BY <1>1 DEF SequenceInv, FirstMapped
  <2>2. exec'.client # None /\ mappings'[exec'.client] # "none"
    BY <1>2, PlacementAssumption DEF ClientIds
  <2>3. ClientInv'
    BY <2>2 DEF ClientInv
  <2>4. TurnInv'
    BY <1>1, <1>3 DEF TurnInv, WithClient
  <2>. QED  BY <2>1, <2>3, <2>4
<1>10. SenderInv'
  <2>1. intents[n].status \notin Unsent
    BY <1>1 DEF TurnInv
  <2>. QED  BY <1>1, <1>2, <1>3, <1>5, <1>6, <2>1 DEF SenderInv
<1>11. OneId'
  BY <1>1, <1>5, <1>6 DEF OneId
<1>12. ExchangeInv'
  <2>1. \A c \in ClientIds : exchange'[c] = "none" <=> sender'[c] = None
    BY <1>1, <1>3, <1>6 DEF ExchangeInv, Landing
  <2>2. placed[n] = 0
    BY <1>1, <1>5 DEF ExchangeInv
  <2>3. \A c \in ClientIds : Landed(c) => sender'[c] = sender[c] /\ Landed(c)'
    BY <1>2, <1>6 DEF Landed
  <2>4. s # "flight" => sender'[x] = n /\ Landed(x)'
    BY <1>2, <1>6 DEF Landed, Landing
  <2>5. ASSUME NEW i \in IntentIds
        PROVE  \/ placed'[i] = 0
               \/ placed'[i] = 1 /\ \E c \in ClientIds : sender'[c] = i /\ Landed(c)'
    <3>1. CASE i = n /\ s # "flight"
      BY <1>2, <1>7, <2>2, <2>4, <3>1
    <3>2. CASE ~(i = n /\ s # "flight")
      BY <1>1, <1>7, <2>3, <3>2 DEF ExchangeInv
    <3>. QED  BY <3>1, <3>2
  <2>. QED  BY <2>1, <2>5 DEF ExchangeInv
<1>. QED  BY <1>8, <1>9, <1>10, <1>11, <1>12 DEF PlaceInv

\* ExecSubmit.
LEMMA ExecSubmitPreserves == PlaceInv /\ ExecSubmit => PlaceInv'
<1>. SUFFICES ASSUME PlaceInv, ExecSubmit PROVE PlaceInv'
  OBVIOUS
<1>. DEFINE Keeps == /\ exec' \in Execution /\ exec'.pc \in WithClient
                     /\ exec'.intent = exec.intent /\ exec'.client = exec.client
<1>1. /\ PlaceTypes /\ exec # None /\ exec.pc = "submit"
      /\ UNCHANGED <<intents, mappings, nextSeq, worker>>
  BY DEF PlaceInv, ExecSubmit, At, durable
<1>2. exec \in Execution
  BY <1>1, ExecIntent
<1>3. ASSUME Keeps, UNCHANGED outside PROVE PlaceInv'
  BY <1>1, <1>3, StillMoves, ExecGoesOn, MovePreserves DEF WithClient
<1>4. \A e \in Errors \cup {"REQUEST_TIMEOUT", "DUPLICATE_ORDER_ID"} : Failed(e) => Keeps
  BY <1>1, FailedMoves, PlacementAssumption
<1>5. \A e \in Execution, s \in Landing :
        LET f == [e EXCEPT !.pc = "attach", !.answer = s]
        IN  f \in Execution /\ f.pc = "attach" /\ f.intent = e.intent /\ f.client = e.client
  <2>. SUFFICES ASSUME NEW e \in Execution, NEW s \in Landing
                PROVE  LET f == [e EXCEPT !.pc = "attach", !.answer = s]
                       IN  /\ f \in Execution /\ f.pc = "attach"
                           /\ f.intent = e.intent /\ f.client = e.client
    OBVIOUS
  <2>1. s \in {None, "open", "filled", "cancelled", "rejected"} /\ "attach" \in ExecPc
    BY DEF Landing, ExecPc
  <2>. QED  BY <2>1 DEF Execution
<1>6. LET f == [exec EXCEPT !.pc = "release", !.error = "NO_ID"]
      IN  f \in Execution /\ f.pc = "release" /\ f.intent = exec.intent /\ f.client = exec.client
  BY <1>2 DEF Execution, ExecPc
<1>7. Answers \subseteq Landing
  BY PlacementAssumption DEF Landing
<1>8. \A s \in Landing : exchange[exec.client] = "none" /\ Opens(s) /\ Keeps => PlaceInv'
  BY <1>1, SendPreserves DEF Opens, Landing
<1>9. \/ \E s \in Answers : /\ exchange[exec.client] = "none" /\ Opens(s)
                            /\ exec' = [exec EXCEPT !.pc = "attach", !.answer = s]
      \/ exchange[exec.client] = "none" /\ Opens("open") /\ Failed("REQUEST_TIMEOUT")
      \/ /\ exchange[exec.client] = "none" /\ Failed("REQUEST_TIMEOUT")
         /\ exchange' = [exchange EXCEPT ![exec.client] = "flight"]
         /\ sender' = [sender EXCEPT ![exec.client] = exec.intent]
         /\ placed' = placed
      \/ /\ UNCHANGED outside
         /\ \E e \in Errors \cup {"REQUEST_TIMEOUT", "DUPLICATE_ORDER_ID"} : Failed(e)
      \/ UNCHANGED outside /\ exec' = [exec EXCEPT !.pc = "release", !.error = "NO_ID"]
  BY Zenon DEF ExecSubmit
<1>10. ASSUME NEW s \in Answers, exchange[exec.client] = "none", Opens(s),
              exec' = [exec EXCEPT !.pc = "attach", !.answer = s]
       PROVE  PlaceInv'
  <2>1. Keeps
    BY <1>2, <1>5, <1>7, <1>10 DEF WithClient
  <2>. QED  BY <1>7, <1>8, <1>10, <2>1
<1>11. CASE exchange[exec.client] = "none" /\ Opens("open") /\ Failed("REQUEST_TIMEOUT")
  BY <1>4, <1>8, <1>11 DEF Landing
<1>12. CASE /\ exchange[exec.client] = "none" /\ Failed("REQUEST_TIMEOUT")
            /\ exchange' = [exchange EXCEPT ![exec.client] = "flight"]
            /\ sender' = [sender EXCEPT ![exec.client] = exec.intent]
            /\ placed' = placed
  <2>1. Keeps
    BY <1>4, <1>12
  <2>. QED  BY <1>1, <1>12, <2>1, SendPreserves
<1>13. CASE /\ UNCHANGED outside
            /\ \E e \in Errors \cup {"REQUEST_TIMEOUT", "DUPLICATE_ORDER_ID"} : Failed(e)
  BY <1>3, <1>4, <1>13
<1>14. CASE UNCHANGED outside /\ exec' = [exec EXCEPT !.pc = "release", !.error = "NO_ID"]
  BY <1>3, <1>6, <1>14 DEF WithClient
<1>. QED  BY <1>9, <1>10, <1>11, <1>12, <1>13, <1>14

\* The next client order id is the number of mapped ones, whether it is remembered or counted.
LEMMA SeqIsCount ==
  ASSUME NEW m \in 0..Cardinality(IntentIds), FirstMapped(m)
  PROVE  m \in Nat /\ Cardinality(IntentIds) \in Nat /\ ClientSeq = m
<1>1. Cardinality(IntentIds) \in Nat
  BY PlacementAssumption, FS_CardinalityType
<1>2. m \in Nat /\ m <= Cardinality(IntentIds)
  BY <1>1
<1>3. {c \in ClientIds : mappings[c] # "none"} = 0..(m - 1)
  BY <1>1, <1>2 DEF FirstMapped, ClientIds
<1>4. MappingCount = m
  <2>1. Cardinality(0..(m - 1)) = IF 0 > m - 1 THEN 0 ELSE (m - 1) - 0 + 1
    BY <1>2, FS_Interval
  <2>2. MappingCount = Cardinality(0..(m - 1))
    BY <1>3, Zenon DEF MappingCount
  <2>3. (IF 0 > m - 1 THEN 0 ELSE (m - 1) - 0 + 1) = m
    BY <1>2
  <2>. QED  BY <2>1, <2>2, <2>3
<1>5. nextSeq = None \/ nextSeq = m
  BY DEF FirstMapped
<1>. QED  BY <1>1, <1>2, <1>4, <1>5, Zenon DEF ClientSeq

\* ExecClientId: the id is not mapped yet, so nothing was sent under it.
LEMMA ExecClientIdPreserves == PlaceInv /\ ExecClientId => PlaceInv'
<1>. SUFFICES ASSUME PlaceInv, ExecClientId PROVE PlaceInv'
  OBVIOUS
<1>1. /\ PlaceTypes /\ SequenceInv /\ ClientInv /\ SenderInv /\ OneId /\ TurnInv /\ ExchangeInv
      /\ exec # None /\ exec.pc = "client"
      /\ UNCHANGED <<intents, worker, exchange, sender, placed>>
  BY DEF PlaceInv, ExecClientId, At, outside
<1>2. exec \in Execution /\ exec.intent \in IntentIds
  BY <1>1, ExecIntent
<1>3. PICK m \in 0..Cardinality(IntentIds) : FirstMapped(m)
  BY <1>1 DEF SequenceInv
<1>4. m \in Nat /\ Cardinality(IntentIds) \in Nat /\ ClientSeq = m
  BY <1>3, SeqIsCount
<1>5. /\ m \in ClientIds
      /\ mappings' = [mappings EXCEPT ![m] = IF mappings[m] = "none" THEN "reserved" ELSE mappings[m]]
      /\ nextSeq' = m + 1
      /\ exec' = [exec EXCEPT !.pc = "reserve", !.client = m]
  BY <1>4, Zenon DEF ExecClientId
<1>6. mappings[m] = "none"
  BY <1>3, <1>4, <1>5 DEF FirstMapped
<1>7. \A c \in ClientIds : mappings'[c] = IF c = m THEN "reserved" ELSE mappings[c]
  BY <1>1, <1>5, <1>6 DEF PlaceTypes
<1>8. /\ exec' \in Execution /\ exec'.pc = "reserve" /\ exec'.client = m
      /\ exec'.intent = exec.intent
  BY <1>2, <1>5 DEF Execution, ExecPc
<1>9. sender[m] = None
  BY <1>1, <1>5, <1>6 DEF SenderInv
<1>10. exec.client = None
  BY <1>1 DEF ClientInv, WithClient
<1>11. \A c \in ClientIds : c # None
  BY PlacementAssumption DEF ClientIds
<1>12. PlaceTypes'
  <2>1. mappings' \in [ClientIds -> Mapping]
    BY <1>1, <1>5, <1>6 DEF PlaceTypes, Mapping
  <2>. QED  BY <1>1, <1>4, <1>5, <1>8, <2>1 DEF PlaceTypes
<1>13. SequenceInv'
  <2>1. m + 1 \in 0..Cardinality(IntentIds)
    BY <1>4, <1>5 DEF ClientIds
  <2>2. FirstMapped(m + 1)'
    BY <1>3, <1>4, <1>5, <1>7 DEF FirstMapped, ClientIds
  <2>. QED  BY <2>1, <2>2 DEF SequenceInv
<1>14. ClientInv'
  BY <1>5, <1>7, <1>8, <1>11 DEF ClientInv, WithClient
<1>15. SenderInv'
  <2>1. ASSUME NEW c \in ClientIds, sender[c] # None
        PROVE  c # m /\ sender[c] # exec.intent
    BY <1>1, <1>9, <1>10, <1>11, <2>1 DEF SenderInv
  <2>2. \A c \in ClientIds : sender[c] # None =>
           mappings[c] # "none" /\ intents[sender[c]].status \notin Unsent /\ sender[c] # worker
    BY <1>1 DEF SenderInv
  <2>. QED  BY <1>1, <1>7, <1>8, <2>1, <2>2 DEF SenderInv
<1>16. OneId' /\ ExchangeInv'
  BY <1>1 DEF OneId, ExchangeInv, Landed
<1>17. TurnInv'
  BY <1>1, <1>8 DEF TurnInv
<1>. QED  BY <1>12, <1>13, <1>14, <1>15, <1>16, <1>17 DEF PlaceInv

\* getNextNewIntent returns an intent that is new, if there is one.
LEMMA NextNewHasMin == NextNew # {} => Min(NextNew) \in NextNew
<1>. SUFFICES ASSUME NextNew # {} PROVE Min(NextNew) \in NextNew
  OBVIOUS
<1>1. NextNew \subseteq Nat
  BY IntentsAreNat DEF NextNew
<1>. DEFINE R == {ss \in Nat \X Nat : ss[1] < ss[2]}
<1>2. IsWellFoundedOn(R, Nat)
  BY NatLessThanWellFounded DEF OpToRel
<1>3. PICK x \in NextNew : \A y \in NextNew : ~(<<y, x>> \in R)
  BY <1>1, <1>2, WFMin
<1>4. ASSUME NEW y \in NextNew PROVE x <= y
  <2>1. <<y, x>> \in Nat \X Nat /\ <<y, x>>[1] = y /\ <<y, x>>[2] = x
    BY <1>1
  <2>2. ~(y < x)
    BY <1>3, <2>1
  <2>. QED  BY <1>1, <2>2
<1>5. \E z \in NextNew : \A y \in NextNew : z <= y
  BY <1>3, <1>4
<1>. HIDE DEF R
<1>. QED  BY <1>5 DEF Min

\* WorkerTake: an intent that is new was never sent.
LEMMA WorkerTakePreserves == PlaceInv /\ WorkerTake => PlaceInv'
<1>. SUFFICES ASSUME PlaceInv, WorkerTake PROVE PlaceInv'
  OBVIOUS
<1>1. /\ PlaceTypes /\ SequenceInv /\ ClientInv /\ SenderInv /\ OneId /\ TurnInv /\ ExchangeInv
      /\ exec = None
      /\ UNCHANGED <<intents, mappings, nextSeq, exec, exchange, sender, placed>>
  BY DEF PlaceInv, WorkerTake, durable, outside
<1>2. worker' \in NextNew
  BY NextNewHasMin DEF WorkerTake
<1>3. worker' \in IntentIds /\ intents[worker'].status = "NEW"
  BY <1>2 DEF NextNew
<1>4. PlaceTypes'
  BY <1>1, <1>3 DEF PlaceTypes
<1>5. SequenceInv' /\ ClientInv' /\ OneId' /\ ExchangeInv' /\ TurnInv'
  BY <1>1 DEF SequenceInv, FirstMapped, ClientInv, OneId, ExchangeInv, Landed, TurnInv
<1>6. SenderInv'
  BY <1>1, <1>3 DEF SenderInv, Unsent
<1>. QED  BY <1>4, <1>5, <1>6 DEF PlaceInv

\* WorkerDispatch: the intent the worker took was never sent.
LEMMA WorkerDispatchPreserves == PlaceInv /\ WorkerDispatch => PlaceInv'
<1>. SUFFICES ASSUME PlaceInv, WorkerDispatch PROVE PlaceInv'
  OBVIOUS
<1>1. /\ PlaceTypes /\ SequenceInv /\ ClientInv /\ SenderInv /\ OneId /\ TurnInv /\ ExchangeInv
      /\ worker # None /\ worker' = None
      /\ UNCHANGED <<mappings, nextSeq, exchange, sender, placed>>
  BY DEF PlaceInv, WorkerDispatch, outside
<1>2. worker \in IntentIds /\ exec = None
  BY <1>1 DEF PlaceTypes, TurnInv
<1>3. CASE intents' = CancelPending(intents) /\ UNCHANGED exec
  BY <1>1, <1>3, PendingCancelled, StillMoves, MovePreserves DEF outside
<1>4. CASE UNCHANGED intents /\ exec' = None
  <2>1. ExecMove
    BY <1>4 DEF ExecMove
  <2>. QED  BY <1>1, <1>4, <2>1, StillMoves, MovePreserves DEF outside
<1>5. CASE /\ UNCHANGED intents
           /\ exec' = [pc |-> "begin", intent |-> worker, client |-> None, attempt |-> 0,
                       doubt |-> FALSE, applied |-> FALSE, error |-> None, answer |-> None]
  <2>1. /\ exec' \in Execution /\ exec'.pc = "begin" /\ exec'.intent = worker
        /\ exec'.client = None
    BY <1>2, <1>5 DEF Execution, ExecPc
  <2>2. PlaceTypes'
    BY <1>1, <1>5, <2>1 DEF PlaceTypes
  <2>3. SequenceInv' /\ OneId' /\ ExchangeInv'
    BY <1>1, <1>5 DEF SequenceInv, FirstMapped, OneId, ExchangeInv, Landed
  <2>4. ClientInv' /\ TurnInv'
    BY <1>1, <2>1 DEF ClientInv, TurnInv, WithClient
  <2>5. \A c \in ClientIds : c # None
    BY PlacementAssumption DEF ClientIds
  <2>6. SenderInv'
    BY <1>1, <1>5, <2>1, <2>5 DEF SenderInv
  <2>. QED  BY <2>2, <2>3, <2>4, <2>6 DEF PlaceInv
<1>. QED  BY <1>3, <1>4, <1>5, Zenon DEF WorkerDispatch

-----------------------------------------------------------------------------
(* The exchange and the crash. *)

\* ExchangeMoves: what lands is the one order that was sent for its intent.
LEMMA ExchangePreserves == PlaceInv /\ ExchangeMoves => PlaceInv'
<1>. SUFFICES ASSUME PlaceInv, ExchangeMoves PROVE PlaceInv'
  OBVIOUS
<1>1. /\ PlaceTypes /\ SequenceInv /\ ClientInv /\ SenderInv /\ OneId /\ TurnInv /\ ExchangeInv
      /\ UNCHANGED <<intents, mappings, nextSeq, worker, exec, sender>>
  BY DEF PlaceInv, ExchangeMoves, durable
<1>2. ASSUME NEW c \in ClientIds, NEW s \in Answers \ {"open"}, exchange[c] = "open",
             exchange' = [exchange EXCEPT ![c] = s], UNCHANGED placed
      PROVE  PlaceInv'
  <2>1. s \in Landing
    BY <1>2, PlacementAssumption DEF Landing
  <2>2. ExchangeMove
    BY <1>1, <1>2, <2>1 DEF PlaceTypes, ExchangeMove, Landing
  <2>. QED  BY <1>1, <2>2, StillMoves, MovePreserves
<1>3. ASSUME NEW c \in ClientIds, exchange[c] = "flight",
             exchange' = [exchange EXCEPT ![c] = "open"],
             placed' = [placed EXCEPT ![sender[c]] = @ + 1]
      PROVE  PlaceInv'
  <2>1. sender[c] \in IntentIds
    BY <1>1, <1>3 DEF PlaceTypes, ExchangeInv
  <2>2. /\ \A d \in ClientIds : exchange'[d] = IF d = c THEN "open" ELSE exchange[d]
        /\ \A i \in IntentIds : placed'[i] = IF i = sender[c] THEN placed[i] + 1 ELSE placed[i]
    BY <1>1, <1>3 DEF PlaceTypes
  <2>3. PlaceTypes'
    BY <1>1, <1>3, <2>1 DEF PlaceTypes, Landing
  <2>4. SequenceInv' /\ ClientInv' /\ SenderInv' /\ OneId' /\ TurnInv'
    BY <1>1 DEF SequenceInv, FirstMapped, ClientInv, SenderInv, OneId, TurnInv
  <2>5. \A d \in ClientIds : exchange'[d] = "none" <=> sender'[d] = None
    BY <1>1, <1>3, <2>2 DEF ExchangeInv
  <2>6. ~Landed(c) /\ Landed(c)' /\ \A d \in ClientIds : Landed(d) => Landed(d)'
    BY <1>3, <2>2 DEF Landed
  <2>7. placed[sender[c]] = 0
    <3>1. \A d \in ClientIds : sender[d] = sender[c] => d = c
      BY <1>1, <1>3 DEF OneId, ExchangeInv
    <3>. QED  BY <1>1, <2>1, <2>6, <3>1 DEF ExchangeInv
  <2>8. ASSUME NEW i \in IntentIds
        PROVE  \/ placed'[i] = 0
               \/ placed'[i] = 1 /\ \E d \in ClientIds : sender'[d] = i /\ Landed(d)'
    <3>1. CASE i = sender[c]
      BY <1>1, <2>2, <2>6, <2>7, <3>1
    <3>2. CASE i # sender[c]
      BY <1>1, <2>2, <2>6, <3>2 DEF ExchangeInv
    <3>. QED  BY <3>1, <3>2
  <2>9. ExchangeInv'
    BY <2>5, <2>8 DEF ExchangeInv
  <2>. QED  BY <2>3, <2>4, <2>9 DEF PlaceInv
<1>. QED  BY <1>2, <1>3, Zenon DEF ExchangeMoves

\* CrashAndRestart: the counter is lost, the mappings are not; recovery ends intents that were
\* sent.
LEMMA CrashPreserves == PlaceInv /\ CrashAndRestart => PlaceInv'
<1>. SUFFICES ASSUME PlaceInv, CrashAndRestart PROVE PlaceInv'
  OBVIOUS
<1>1. /\ PlaceTypes /\ worker' = None /\ exec' = None /\ nextSeq' = None /\ UNCHANGED outside
  BY DEF PlaceInv, CrashAndRestart
<1>2. \/ /\ intents' = [i \in IntentIds |->
                         CASE i \in Recovered -> [intents[i] EXCEPT !.status = "CANCELLED"]
                           [] i \in Interrupted \ Lost -> [intents[i] EXCEPT !.status = "DONE"]
                           [] OTHER -> intents[i]]
         /\ mappings' = [c \in ClientIds |->
                         IF exchange[c] = "open" /\ mappings[c] # "none" THEN "linked"
                         ELSE mappings[c]]
      \/ UNCHANGED <<intents, mappings>>
  BY Zenon DEF CrashAndRestart
<1>3. IntentsMove
  <2>1. \A r \in IntentRow, s \in Final : /\ [r EXCEPT !.status = s] \in IntentRow
                                         /\ [r EXCEPT !.status = s].status \notin Unsent
    BY DEF IntentRow, Final, Unsent
  <2>2. \A i \in IntentIds : \/ \E s \in Final : intents'[i] = [intents[i] EXCEPT !.status = s]
                             \/ intents'[i] = intents[i]
    BY <1>2 DEF Final
  <2>3. intents' = [i \in IntentIds |-> intents'[i]]
    BY <1>1, <1>2 DEF PlaceTypes
  <2>4. ASSUME NEW i \in IntentIds
        PROVE  /\ intents'[i] \in IntentRow
               /\ intents[i].status \notin Unsent => intents'[i].status \notin Unsent
    <3>1. intents[i] \in IntentRow
      BY <1>1 DEF PlaceTypes
    <3>2. CASE intents'[i] = intents[i]
      BY <3>1, <3>2
    <3>3. ASSUME NEW s \in Final, intents'[i] = [intents[i] EXCEPT !.status = s]
          PROVE  intents'[i] \in IntentRow /\ intents'[i].status \notin Unsent
      BY <2>1, <3>1, <3>3
    <3>. QED  BY <2>2, <3>2, <3>3
  <2>. QED  BY <2>3, <2>4 DEF IntentsMove
<1>4. MappingsMove
  BY <1>1, <1>2 DEF PlaceTypes, MappingsMove, Mapping
<1>5. ExecMove
  BY <1>1 DEF ExecMove
<1>. QED  BY <1>1, <1>3, <1>4, <1>5, StillMoves, MovePreserves

-----------------------------------------------------------------------------
(* The theorems. *)

\* At first nothing is mapped and nothing was sent.
LEMMA PlaceInit == Init => PlaceInv
<1>. SUFFICES ASSUME Init PROVE PlaceInv
  OBVIOUS
<1>1. PlaceTypes
  <2>1. PICK past \in Pasts :
          intents = [i \in IntentIds |-> [status |-> IF i \in past THEN "FAILED"
                                                     ELSE "unpublished", order |-> None]]
    BY DEF Init
  <2>2. \A i \in IntentIds : intents[i].status \in {"unpublished", "FAILED"}
    BY <2>1
  <2>. QED  BY <2>1, <2>2 DEF Init, PlaceTypes, IntentRow, Mapping, Unsent, Final
<1>2. SequenceInv
  <2>1. Cardinality(IntentIds) \in Nat
    BY PlacementAssumption, FS_CardinalityType
  <2>2. FirstMapped(0)
    BY <2>1 DEF Init, FirstMapped, ClientIds
  <2>. QED  BY <2>1, <2>2 DEF SequenceInv
<1>3. ClientInv /\ SenderInv /\ OneId /\ TurnInv
  BY DEF Init, ClientInv, SenderInv, OneId, TurnInv
<1>4. ExchangeInv
  BY DEF Init, ExchangeInv
<1>. QED  BY <1>1, <1>2, <1>3, <1>4 DEF PlaceInv

\* The invariant of placing orders holds in every state.
LEMMA PlaceInvariance == Spec => []PlaceInv
<1>1. PlaceInv /\ [Next]_vars => PlaceInv'
  BY PublishPreserves, WorkerTakePreserves, WorkerDispatchPreserves, ExecBeginPreserves,
     ExecSentPreserves, ExecGatePreserves, ExecClientIdPreserves, ExecReservePreserves,
     ExecCheckPreserves, ExecSubmitPreserves, ExecReconcilePreserves, ExecEndsPreserves,
     ExecAttachPreserves, ExecTrackPreserves, ExecFinishPreserves, OthersPreserve,
     ExchangePreserves, StopCancelPreserves, StopEndPreserves, CrashPreserves, Zenon
     DEF Next, Worker, Exec
<1>. QED  BY <1>1, PlaceInit, PTL DEF Spec

\* The exchange never opens two orders for one intent: an attempt is repeated only under the
\* client order id of the first (runWithRetries), an id that is counted again after a crash is
\* not one that was used (reserveClientOrderId), and an intent that was sent is not taken up
\* again (getNextNewIntent), however requests time out or land late.
THEOREM PlacedOnce == Spec => []PlacedAtMostOnce
<1>1. PlaceInv => PlacedAtMostOnce
  BY DEF PlaceInv, ExchangeInv, PlacedAtMostOnce
<1>. QED  BY <1>1, PlaceInvariance, PTL

\* The client order id an execution holds was not used for another intent
\* (reserveClientOrderId), also after the counter was lost in a crash.
THEOREM ClientIdsFresh == Spec => []ClientIdFresh
<1>1. PlaceInv => ClientIdFresh
  <2>1. ASSUME PlaceInv, exec # None, exec.client # None
        PROVE  sender[exec.client] \in {None, exec.intent}
    <3>1. exec.client \in ClientIds
      BY <2>1 DEF PlaceInv, PlaceTypes, Execution
    <3>. QED  BY <2>1, <3>1 DEF PlaceInv, SenderInv
  <2>. QED  BY <2>1 DEF ClientIdFresh
<1>. QED  BY <1>1, PlaceInvariance, PTL

-----------------------------------------------------------------------------
(* A strategy that runs on. *)

\* The strategy is not stopped, the process does not die, a request that timed out has landed
\* or never will, and no create is acknowledged as cancelled.
Steady == MaxStops = 0 /\ MaxCrashes = 0 /\ ~LateLanding /\ "cancelled" \notin Answers

\* Where consumeIntent is with the client order id.
Doing(c) == IF exec # None /\ exec.client = c THEN exec.pc ELSE "idle"

\* The pcs at which a unit is reserved and no tracked order stands for it yet, and the last ones.
Placing == {"check", "submit", "reconcile", "release", "attach", "track"}
Finishing == {"acked", "done", "mark"}

\* The tracked order in doubt of a client order id, and the one with an exchange order id.
InDoubt(c) == orders[<<"client", c>>]
Known(c) == orders[<<"id", c>>]

\* No placeholder.
Owned(o) == o # None /\ o.intent # None

\* A unit is locked for the client order id.
Holds(c) ==
  \/ Doing(c) \in Placing
  \/ InDoubt(c) # None /\ InDoubt(c).status = "pending_create"
  \/ /\ Owned(Known(c))
     /\ \/ Known(c).status \in {"pending_create", "open", "external_missing"}
        \/ Known(c).status = "failed" /\ Key("rejected", c) \notin ledger.keys

Held == {c \in ClientIds : Holds(c)}

LedgerType == [available : Int, locked : Int, keys : SUBSET LedgerKeys]

\* The types, and what never happens to a steady strategy.
Calm ==
  /\ strategy = "running" /\ stop = "idle" /\ stops = 0 /\ crashes = 0
  /\ exchange \in [ClientIds -> {"none", "open", "filled", "rejected"}]
  /\ orders \in [TrackKeys -> Tracked \cup {None}] /\ orders[<<"blank", 0>>] = None
  /\ ledger \in LedgerType

\* An order in doubt is the only one of its client order id; one that failed is unknown to the
\* exchange.
InDoubtInv(c) ==
  InDoubt(c) # None =>
    /\ InDoubt(c).client = c /\ ~InDoubt(c).hasId /\ InDoubt(c).intent # None
    /\ InDoubt(c).status \in {"pending_create", "failed"}
    /\ mappings[c] # "none" /\ Doing(c) \in {"idle"} \cup Finishing
    /\ InDoubt(c).status = "failed" => exchange[c] = "none"
    /\ sender[c] # None => InDoubt(c).intent = sender[c]
    /\ ~Owned(Known(c))

\* An order with an exchange order id is one the exchange has, and not open there when the
\* tracker says it ended.
KnownInv(c) ==
  Known(c) # None =>
    /\ Known(c).client = c /\ Known(c).hasId /\ exchange[c] # "none"
    /\ Known(c).intent = None => Known(c).status = "internal_missing"
    /\ Known(c).intent # None =>
         /\ Known(c).intent = sender[c]
         /\ Known(c).status \in {"pending_create", "open", "filled", "failed", "external_missing"}
         /\ Doing(c) \in {"idle", "rejected"} \cup Finishing
         /\ Known(c).status \in Terminal => exchange[c] # "open"

\* A key of the ledger tells what became of the order.
ClientKeys(c) ==
  /\ Key("settle", c) \in ledger.keys => Owned(Known(c)) /\ Known(c).status = "filled"
  /\ Key("not_found", c) \in ledger.keys => InDoubt(c) # None /\ InDoubt(c).status = "failed"
  /\ Key("rejected", c) \in ledger.keys =>
       Owned(Known(c)) /\ Known(c).status = "failed" /\ Doing(c) = "idle"
  /\ Key("missing_id", c) \in ledger.keys => mappings[c] # "none" /\ Doing(c) = "idle"

\* The intent of an order that is not under execution any more is done, or failed and its unit
\* was given back.
IntentInv(c) ==
  Doing(c) = "idle" =>
    /\ InDoubt(c) # None /\ sender[c] # None => intents[sender[c]].status = "DONE"
    /\ Owned(Known(c)) =>
         intents[sender[c]].status = IF Key("rejected", c) \in ledger.keys THEN "FAILED" ELSE "DONE"

ClientOK(c) == InDoubtInv(c) /\ KnownInv(c) /\ ClientKeys(c) /\ IntentInv(c)

\* What an execution knows of its order.
ExecInv ==
  exec # None =>
    /\ exec.pc \in Placing \cup {"rejected"} => exec.applied
    /\ exec.pc = "reserve" => exchange[exec.client] = "none"
    /\ exec.pc \in {"check", "submit"} /\ exchange[exec.client] # "none" => exec.doubt
    /\ exec.pc = "release" /\ exchange[exec.client] # "none" => exec.doubt /\ exec.error \in Errors
    /\ exec.pc \in {"attach", "track"} =>
         /\ exchange[exec.client] # "none" /\ exec.answer \in {"open", "filled", "rejected"}
         /\ exec.answer # "open" => exchange[exec.client] = exec.answer
    /\ exec.pc = "rejected" => Owned(Known(exec.client)) /\ Known(exec.client).status = "failed"
    /\ exec.pc = "mark" => intents[exec.intent].status = "DONE"

\* The keys of an intent are new until they are used.
IntentKeys ==
  /\ \A i \in IntentIds : intents[i].status \in Unsent =>
       Key("reserve", i) \notin ledger.keys /\ Key("failed", i) \notin ledger.keys
  /\ worker # None => intents[worker].status \in Unsent
  /\ exec # None =>
       /\ Key("failed", exec.intent) \notin ledger.keys
       /\ exec.pc \in {"begin", "sent", "gate", "client", "reserve"} =>
             Key("reserve", exec.intent) \notin ledger.keys

\* The order being polled is still tracked as it was read, or the snapshot missed it since; the
\* answer is what the exchange still has.
PollInv ==
  poll # None =>
    LET o == poll.order IN
    /\ o \in Tracked /\ o.intent # None /\ o.status \in {"pending_create", "open"}
    /\ poll.answer \in {None, "open", "filled", "rejected"}
    /\ ~o.hasId => InDoubt(o.client) = o /\ (poll.answer = None => exchange[o.client] = "none")
    /\ o.hasId => /\ Known(o.client) = o \/ Known(o.client) = [o EXCEPT !.status = "external_missing"]
                  /\ poll.answer # None
    /\ poll.answer # None => exchange[o.client] # "none"
    /\ poll.answer \notin {None, "open"} => exchange[o.client] = poll.answer

\* What is locked is one unit for each client order id that holds one.
Balance == ledger.locked = Cardinality(Held)

\* An order the exchange has is being placed or tracked.
Covered ==
  hasty = {} => \A c \in ClientIds : exchange[c] # "none" =>
    Doing(c) \in Placing \/ InDoubt(c) # None \/ Owned(Known(c))

\* An execution that passed the check of its slot finds it free of open orders.
SlotFree ==
  (hasty = {} /\ exec # None /\ exec.pc \in {"client", "reserve"} \cup Placing) =>
    \A c \in ClientIds : exchange[c] = "open" /\ c # exec.client => Slot[sender[c]] # Slot[exec.intent]

SteadyInv ==
  /\ PlaceInv /\ Calm /\ \A c \in ClientIds : ClientOK(c)
  /\ ExecInv /\ IntentKeys /\ PollInv /\ Balance /\ Covered /\ SlotFree /\ OneOrderPerSlot

-----------------------------------------------------------------------------
(* What does not change for a client order id. *)

\* Nothing that ClientOK and Holds look at changes for the client order id.
Same(c) ==
  /\ Doing(c)' = Doing(c) /\ InDoubt(c)' = InDoubt(c) /\ Known(c)' = Known(c)
  /\ exchange'[c] = exchange[c] /\ sender'[c] = sender[c]
  /\ mappings'[c] = "none" <=> mappings[c] = "none"
  /\ \A w \in {"settle", "not_found", "rejected", "missing_id"} :
       Key(w, c) \in ledger'.keys <=> Key(w, c) \in ledger.keys
  /\ sender[c] # None => intents'[sender[c]].status = intents[sender[c]].status

\* Then they stay.
LEMMA SameStays ==
  ASSUME NEW c \in ClientIds, Same(c)
  PROVE  (ClientOK(c) => ClientOK(c)') /\ (Holds(c)' <=> Holds(c))
<1>1. /\ Doing(c)' = Doing(c) /\ InDoubt(c)' = InDoubt(c) /\ Known(c)' = Known(c)
      /\ exchange'[c] = exchange[c] /\ sender'[c] = sender[c]
      /\ mappings'[c] = "none" <=> mappings[c] = "none"
  BY DEF Same
<1>2. /\ Key("settle", c) \in ledger'.keys <=> Key("settle", c) \in ledger.keys
      /\ Key("not_found", c) \in ledger'.keys <=> Key("not_found", c) \in ledger.keys
      /\ Key("rejected", c) \in ledger'.keys <=> Key("rejected", c) \in ledger.keys
      /\ Key("missing_id", c) \in ledger'.keys <=> Key("missing_id", c) \in ledger.keys
  BY DEF Same
<1>3. sender[c] # None => intents'[sender[c]].status = intents[sender[c]].status
  BY DEF Same
<1>4. Owned(Known(c))' <=> Owned(Known(c))
  BY <1>1 DEF Owned
<1>5. Holds(c)' <=> Holds(c)
  BY <1>1, <1>2, <1>4, Zenon DEF Holds
<1>6. ASSUME ClientOK(c) PROVE ClientOK(c)'
  <2>1. InDoubtInv(c)'
    BY <1>1, <1>4, <1>6 DEF ClientOK, InDoubtInv
  <2>2. KnownInv(c)'
    BY <1>1, <1>6 DEF ClientOK, KnownInv
  <2>3. ClientKeys(c)'
    BY <1>1, <1>2, <1>4, <1>6 DEF ClientOK, ClientKeys
  <2>4. Owned(Known(c)) => sender[c] # None
    BY <1>6 DEF ClientOK, KnownInv, Owned
  <2>5. IntentInv(c)'
    BY <1>1, <1>2, <1>3, <1>4, <1>6, <2>4 DEF ClientOK, IntentInv
  <2>. QED  BY <2>1, <2>2, <2>3, <2>5 DEF ClientOK
<1>. QED  BY <1>5, <1>6

\* Client order ids are numbers, and finitely many.
LEMMA ClientIdFacts ==
  /\ None \notin ClientIds /\ IsFiniteSet(ClientIds) /\ Cardinality(ClientIds) \in Nat
  /\ \A c \in ClientIds : <<"client", c>> \in TrackKeys /\ <<"id", c>> \in TrackKeys
<1>1. Cardinality(IntentIds) \in Nat
  BY PlacementAssumption, FS_CardinalityType
<1>2. IsFiniteSet(ClientIds) /\ None \notin ClientIds
  BY <1>1, FS_Interval, PlacementAssumption DEF ClientIds
<1>3. Cardinality(ClientIds) \in Nat
  BY <1>2, FS_CardinalityType
<1>. QED  BY <1>2, <1>3 DEF TrackKeys

\* The units held are counted.
LEMMA HeldFacts ==
  /\ IsFiniteSet(Held) /\ Cardinality(Held) \in Nat
  /\ \A c \in ClientIds : Holds(c) => Cardinality(Held) > 0
<1>1. IsFiniteSet(Held)
  BY ClientIdFacts, FS_Subset DEF Held
<1>2. Cardinality(Held) \in Nat /\ (Cardinality(Held) = 0 <=> Held = {})
  BY <1>1, FS_CardinalityType, FS_EmptySet
<1>. QED  BY <1>1, <1>2 DEF Held

\* A step takes a unit for one client order id at most.
LEMMA HeldMoves ==
  ASSUME NEW d, \A c \in ClientIds : c # d => (Holds(c)' <=> Holds(c))
  PROVE  /\ (d \in ClientIds => (Holds(d)' <=> Holds(d))) =>
              Cardinality(Held)' = Cardinality(Held)
         /\ (d \in ClientIds /\ ~Holds(d) /\ Holds(d)') =>
              Cardinality(Held)' = Cardinality(Held) + 1
         /\ (d \in ClientIds /\ Holds(d) /\ ~Holds(d)') =>
              Cardinality(Held)' = Cardinality(Held) - 1
<1>. DEFINE H2 == {c \in ClientIds : Holds(c)'}
<1>1. Held' = H2
  BY DEF Held
<1>2. ASSUME d \in ClientIds => (Holds(d)' <=> Holds(d)) PROVE H2 = Held
  BY <1>2, Zenon DEF Held
<1>3. ASSUME d \in ClientIds, ~Holds(d), Holds(d)' PROVE d \notin Held /\ H2 = Held \cup {d}
  BY <1>3, Zenon DEF Held
<1>4. ASSUME d \in ClientIds, Holds(d), ~Holds(d)' PROVE d \in Held /\ H2 = Held \ {d}
  BY <1>4, Zenon DEF Held
<1>5. IsFiniteSet(Held)
  BY HeldFacts
<1>. HIDE DEF H2
<1>6. ASSUME d \in ClientIds, ~Holds(d), Holds(d)' PROVE Cardinality(H2) = Cardinality(Held) + 1
  BY <1>3, <1>5, <1>6, FS_AddElement
<1>7. ASSUME d \in ClientIds, Holds(d), ~Holds(d)' PROVE Cardinality(H2) = Cardinality(Held) - 1
  BY <1>4, <1>5, <1>7, FS_RemoveElement
<1>8. Cardinality(Held)' = Cardinality(H2)
  BY <1>1
<1>. QED  BY <1>2, <1>6, <1>7, <1>8

-----------------------------------------------------------------------------
(* The parts a step leaves alone. *)

\* The steps of an execution, and the tracker's, concern one client order id.
OnlyAt(d) ==
  \A c \in ClientIds : c # d =>
    /\ InDoubt(c)' = InDoubt(c) /\ Known(c)' = Known(c)
    /\ exchange'[c] = exchange[c] /\ sender'[c] = sender[c]
    /\ mappings'[c] = "none" <=> mappings[c] = "none"
    /\ \A w \in {"settle", "not_found", "rejected", "missing_id"} :
         Key(w, c) \in ledger'.keys <=> Key(w, c) \in ledger.keys

\* A step of the execution leaves the other client order ids alone: their intents are others.
LEMMA ExecApart ==
  ASSUME PlaceInv, exec # None, exec' = None \/ (exec' # None /\ exec'.client = exec.client),
         OnlyAt(exec.client),
         \A i \in IntentIds : i # exec.intent => intents'[i].status = intents[i].status
  PROVE  \A c \in ClientIds : c # exec.client => Same(c)
<1>. SUFFICES ASSUME NEW c \in ClientIds, c # exec.client PROVE Same(c)
  OBVIOUS
<1>1. Doing(c)' = Doing(c)
  BY DEF Doing
<1>2. sender[c] # None => sender[c] \in IntentIds /\ sender[c] # exec.intent
  BY DEF PlaceInv, PlaceTypes, SenderInv
<1>. QED  BY <1>1, <1>2 DEF Same, OnlyAt

\* A step of the tracker or the exchange leaves the other client order ids alone.
LEMMA StepApart ==
  ASSUME NEW d, OnlyAt(d), UNCHANGED <<exec, intents>>
  PROVE  \A c \in ClientIds : c # d => Same(c)
BY DEF Same, OnlyAt, Doing

\* What is true of the client order ids a step leaves alone stays true.
LEMMA ClientsStay ==
  ASSUME \A c \in ClientIds : ClientOK(c), NEW d, \A c \in ClientIds : c # d => Same(c),
         d \in ClientIds => ClientOK(d)'
  PROVE  /\ \A c \in ClientIds : ClientOK(c)'
         /\ \A c \in ClientIds : c # d => (Holds(c)' <=> Holds(c))
BY SameStays

\* Likewise that its order is placed or tracked.
LEMMA CoveredStays ==
  ASSUME Covered, NEW d, \A c \in ClientIds : c # d => Same(c), hasty' = {} => hasty = {},
         d \in ClientIds /\ hasty' = {} /\ exchange'[d] # "none" =>
           Doing(d)' \in Placing \/ InDoubt(d)' # None \/ Owned(Known(d))'
  PROVE  Covered'
<1>1. ASSUME NEW c \in ClientIds, c # d, hasty' = {}, exchange'[c] # "none"
      PROVE  Doing(c)' \in Placing \/ InDoubt(c)' # None \/ Owned(Known(c))'
  <2>1. /\ Doing(c)' = Doing(c) /\ InDoubt(c)' = InDoubt(c) /\ Known(c)' = Known(c)
        /\ exchange'[c] = exchange[c]
    BY <1>1 DEF Same
  <2>2. Doing(c) \in Placing \/ InDoubt(c) # None \/ Owned(Known(c))
    BY <1>1, <2>1 DEF Covered
  <2>. QED  BY <2>1, <2>2 DEF Owned
<1>. QED  BY <1>1, Zenon DEF Covered

\* The pcs from the check of the slot to the tracked order.
PastGate == {"client", "reserve"} \cup Placing

\* No order opens, or only the one of the execution.
LEMMA SlotFreeStays ==
  ASSUME SlotFree, hasty' = {} => hasty = {},
         \/ exec' = None
         \/ /\ exec # None /\ exec'.client = exec.client /\ exec'.intent = exec.intent
            /\ exec'.pc \in PastGate => exec.pc \in PastGate,
         \A c \in ClientIds : (exec # None => c # exec.client) /\ exchange'[c] = "open" =>
           exchange[c] = "open" /\ sender'[c] = sender[c]
  PROVE  SlotFree'
BY SMT DEF SlotFree, PastGate

\* No order opens, and none that is open is sent for another intent.
LEMMA SlotsStay ==
  ASSUME OneOrderPerSlot, hasty' = {} => hasty = {},
         \A c \in ClientIds : exchange'[c] = "open" =>
           exchange[c] = "open" /\ sender'[c] = sender[c]
  PROVE  OneOrderPerSlot'
BY DEF OneOrderPerSlot

\* The order being polled is not being placed.
LEMMA PollApart ==
  ASSUME SteadyInv, poll # None
  PROVE  /\ poll.order.client \in ClientIds
         /\ Doing(poll.order.client) \in {"idle", "rejected"} \cup Finishing
<1>. DEFINE o == poll.order
            c == o.client
<1>1. /\ o \in Tracked /\ o.intent # None
      /\ ~o.hasId => InDoubt(c) = o
      /\ o.hasId => Known(c) = o \/ Known(c) = [o EXCEPT !.status = "external_missing"]
  BY DEF SteadyInv, PollInv
<1>2. c \in ClientIds /\ o # None /\ o.hasId \in BOOLEAN
  BY <1>1, NoneAssumption DEF Tracked
<1>3. ClientOK(c)
  BY <1>2 DEF SteadyInv
<1>4. CASE ~o.hasId
  BY <1>1, <1>2, <1>3, <1>4 DEF ClientOK, InDoubtInv
<1>5. CASE o.hasId
  <2>1. [o EXCEPT !.status = "external_missing"] \in Tracked
    BY <1>1 DEF Tracked, Status, Terminal
  <2>2. [o EXCEPT !.status = "external_missing"].intent = o.intent
    BY <1>1 DEF Tracked
  <2>3. Known(c) # None /\ Known(c).intent # None
    BY <1>1, <1>2, <1>5, <2>1, <2>2, NoneAssumption
  <2>. QED  BY <1>2, <1>3, <2>3 DEF ClientOK, KnownInv
<1>. QED  BY <1>2, <1>4, <1>5

\* A poll goes on while its order is left alone.
LEMMA PollStays ==
  ASSUME PollInv, poll' = poll,
         poll # None => LET p == poll.order.client
                        IN  /\ InDoubt(p)' = InDoubt(p) /\ Known(p)' = Known(p)
                            /\ exchange'[p] = exchange[p]
  PROVE  PollInv'
BY SMT DEF PollInv

\* A step of the execution at its order does not concern a poll.
LEMMA PollStaysApart ==
  ASSUME SteadyInv, poll' = poll, OnlyAt(exec.client), exec # None, exec.pc \in {"reserve"} \cup Placing
  PROVE  PollInv'
<1>1. poll # None => poll.order.client \in ClientIds /\ poll.order.client # exec.client
  <2>1. exec.client # None => Doing(exec.client) = exec.pc
    BY DEF Doing
  <2>. QED  BY <2>1, PollApart, ClientIdFacts DEF Placing, Finishing
<1>2. poll # None => LET p == poll.order.client
                     IN  /\ InDoubt(p)' = InDoubt(p) /\ Known(p)' = Known(p)
                         /\ exchange'[p] = exchange[p]
  BY <1>1, Zenon DEF OnlyAt
<1>. QED  BY <1>2, PollStays DEF SteadyInv

\* The commands of the ledger.
LEMMA LedgerSteps ==
  ASSUME NEW l \in LedgerType, NEW k \in LedgerKeys
  PROVE  /\ LET m == Lock(l, k) IN
              m \in LedgerType /\ m.locked = l.locked + 1 /\ m.keys = l.keys \cup {k}
         /\ Unlock(l, k) \in LedgerType
         /\ k \notin l.keys /\ l.locked > 0 =>
              LET m == Unlock(l, k) IN m.locked = l.locked - 1 /\ m.keys = l.keys \cup {k}
         /\ Settle(l, k) \in LedgerType
         /\ k \notin l.keys /\ l.locked > 0 =>
              LET m == Settle(l, k) IN m.locked = l.locked - 1 /\ m.keys = l.keys \cup {k}
<1>1. /\ l.locked \in Int /\ l.available \in Int /\ l.keys \in SUBSET LedgerKeys
      /\ l.keys \cup {k} \in SUBSET LedgerKeys
  BY DEF LedgerType
<1>2. /\ l.available - 1 \in Int /\ l.available + 1 \in Int
      /\ l.locked - 1 \in Int /\ l.locked + 1 \in Int
  BY <1>1
<1>3. PICK a \in Int, b \in Int, c \in Int, d \in Int, s \in SUBSET LedgerKeys :
        /\ a = l.available - 1 /\ b = l.available + 1 /\ c = l.locked - 1 /\ d = l.locked + 1
        /\ s = l.keys \cup {k}
  BY <1>1, <1>2
<1>4. Lock(l, k) = [l EXCEPT !.available = a, !.locked = d, !.keys = s]
  BY <1>3, Zenon DEF Lock
<1>5. Lock(l, k) \in LedgerType /\ Lock(l, k).locked = d /\ Lock(l, k).keys = s
  BY <1>4 DEF LedgerType
<1>6. CASE k \in l.keys \/ l.locked = 0
  <2>1. ~(k \notin l.keys /\ l.locked > 0)
    BY <1>1, <1>6
  <2>2. Unlock(l, k) = l /\ Settle(l, k) = l
    BY <1>6 DEF Unlock, Settle
  <2>. QED  BY <1>3, <1>5, <2>1, <2>2
<1>7. CASE ~(k \in l.keys \/ l.locked = 0)
  <2>1. /\ Unlock(l, k) = [l EXCEPT !.available = b, !.locked = c, !.keys = s]
        /\ Settle(l, k) = [l EXCEPT !.locked = c, !.keys = s]
    BY <1>3, <1>7, Zenon DEF Unlock, Settle
  <2>2. /\ Unlock(l, k) \in LedgerType /\ Unlock(l, k).locked = c /\ Unlock(l, k).keys = s
        /\ Settle(l, k) \in LedgerType /\ Settle(l, k).locked = c /\ Settle(l, k).keys = s
    BY <2>1 DEF LedgerType
  <2>. QED  BY <1>3, <1>5, <2>2
<1>. QED  BY <1>6, <1>7

\* Keys that differ in what they are for, or in what they refer to.
LEMMA KeyFacts ==
  /\ \A w, v, r, q : Key(w, r) = Key(v, q) <=> w = v /\ r = q
  /\ \A i \in IntentIds, w \in {"reserve", "failed", "interrupted"} : Key(w, i) \in LedgerKeys
  /\ \A c \in ClientIds, w \in {"settle", "missing_id", "rejected", "not_found", "cancelled"} :
       Key(w, c) \in LedgerKeys
<1>1. \A w, v, r, q : Key(w, r) = Key(v, q) <=> w = v /\ r = q
  <2>. SUFFICES ASSUME NEW w, NEW v, NEW r, NEW q PROVE Key(w, r) = Key(v, q) <=> w = v /\ r = q
    OBVIOUS
  <2>1. Key(w, r).what = w /\ Key(v, q).what = v /\ Key(w, r).ref = r /\ Key(v, q).ref = q
    BY DEF Key
  <2>. QED  BY <2>1
<1>. QED  BY <1>1 DEF Key, LedgerKeys

\* A step to another pc leaves the rest of an execution.
LEMMA GotoKeeps ==
  ASSUME exec \in Execution, NEW p \in ExecPc, exec' = [exec EXCEPT !.pc = p]
  PROVE  /\ exec' \in Execution /\ exec' # None /\ exec'.pc = p
         /\ exec'.intent = exec.intent /\ exec'.client = exec.client
         /\ exec'.doubt = exec.doubt /\ exec'.applied = exec.applied
         /\ exec'.error = exec.error /\ exec'.answer = exec.answer
BY NoneAssumption DEF Execution

\* Setting a status leaves the other intents.
LEMMA StatusKeeps ==
  ASSUME PlaceTypes, NEW i \in IntentIds, NEW s, SetStatus(i, s)
  PROVE  /\ intents'[i].status = s
         /\ \A j \in IntentIds : j # i => intents'[j].status = intents[j].status
<1>1. intents' = [intents EXCEPT ![i] = [intents[i] EXCEPT !.status = s]]
  BY Zenon DEF SetStatus
<1>. QED  BY <1>1 DEF PlaceTypes, IntentRow

\* The invariant from its parts, after a step that concerns one client order id at most.
LEMMA StepEnds ==
  ASSUME SteadyInv, PlaceInv', Calm', ExecInv', IntentKeys', PollInv', SlotFree',
         OneOrderPerSlot', hasty' = {} => hasty = {},
         NEW d, \A c \in ClientIds : c # d => Same(c), d \in ClientIds => ClientOK(d)',
         d \in ClientIds /\ hasty' = {} /\ exchange'[d] # "none" =>
           Doing(d)' \in Placing \/ InDoubt(d)' # None \/ Owned(Known(d))',
         \/ /\ d \in ClientIds => (Holds(d)' <=> Holds(d))
            /\ ledger'.locked = ledger.locked
         \/ d \in ClientIds /\ Holds(d) /\ ~Holds(d)' /\ ledger'.locked = ledger.locked - 1
         \/ d \in ClientIds /\ ~Holds(d) /\ Holds(d)' /\ ledger'.locked = ledger.locked + 1
  PROVE  SteadyInv'
<1>1. (\A c \in ClientIds : ClientOK(c)) /\ Covered /\ Balance
  BY DEF SteadyInv
<1>2. /\ (\A c \in ClientIds : ClientOK(c))'
      /\ \A c \in ClientIds : c # d => (Holds(c)' <=> Holds(c))
  BY <1>1, ClientsStay
<1>3. Covered'
  BY <1>1, CoveredStays
<1>4. Balance'
  BY <1>1, <1>2, HeldMoves DEF Balance
<1>. QED  BY <1>2, <1>3, <1>4 DEF SteadyInv

\* Before it holds a client order id an execution concerns no order.
LEMMA NoClientYet ==
  ASSUME SteadyInv
  PROVE  /\ exec # None /\ exec.pc \in {"begin", "sent", "gate", "client"} => exec.client = None
         /\ exec # None /\ exec.pc \in WithClient => exec.client \in ClientIds
         /\ exec # None => exec \in Execution /\ exec.intent \in IntentIds
         /\ PlaceInv /\ PlaceTypes
<1>1. PlaceInv /\ PlaceTypes /\ ClientInv
  BY DEF SteadyInv, PlaceInv
<1>2. exec # None => exec \in Execution /\ exec.intent \in IntentIds
  BY <1>1, ExecIntent
<1>. QED  BY <1>1, <1>2 DEF ClientInv, WithClient, Execution

\* A step before a client order id is held, with the ledger as it is.
LEMMA EarlyStep ==
  ASSUME SteadyInv, PlaceInv',
         UNCHANGED <<strategy, stop, stops, crashes, ledger, orders, poll, hasty>>,
         UNCHANGED outside, UNCHANGED mappings,
         \A c \in ClientIds : Doing(c)' = Doing(c),
         \A i \in IntentIds :
           intents[i].status \notin Unsent /\ ~(exec # None /\ exec.client = None /\ i = exec.intent)
             => intents'[i].status = intents[i].status,
         ExecInv', IntentKeys', SlotFree'
  PROVE  SteadyInv'
<1>1. Calm' /\ UNCHANGED <<exchange, sender>>
  BY DEF SteadyInv, Calm, outside
<1>2. PollInv'
  BY <1>1 DEF SteadyInv, PollInv, InDoubt, Known
<1>3. OneOrderPerSlot'
  BY <1>1 DEF SteadyInv, OneOrderPerSlot
<1>4. ASSUME NEW c \in ClientIds PROVE Same(c)
  <2>1. sender[c] # None => sender[c] \in IntentIds /\ intents[sender[c]].status \notin Unsent
                            /\ (exec # None => (sender[c] = exec.intent <=> c = exec.client))
    BY DEF SteadyInv, PlaceInv, PlaceTypes, SenderInv
  <2>2. sender[c] # None => intents'[sender[c]].status = intents[sender[c]].status
    BY <2>1, ClientIdFacts
  <2>. QED  BY <1>1, <2>2 DEF Same, InDoubt, Known
<1>. QED  BY <1>1, <1>2, <1>3, <1>4, ClientIdFacts, StepEnds

\* Publish.
LEMMA SteadyPublish == SteadyInv /\ Publish => SteadyInv'
<1>. SUFFICES ASSUME SteadyInv, Publish PROVE SteadyInv'
  OBVIOUS
<1>1. PlaceInv' /\ PlaceTypes
  BY PublishPreserves DEF SteadyInv, PlaceInv
<1>2. /\ UNCHANGED <<strategy, stop, stops, crashes, ledger, orders, poll, hasty, exec, worker>>
      /\ UNCHANGED outside /\ UNCHANGED mappings
  BY DEF Publish
<1>3. PICK i \in IntentIds : intents[i].status = "unpublished" /\ SetStatus(i, "NEW")
  BY DEF Publish
<1>4. /\ intents'[i].status = "NEW"
      /\ \A j \in IntentIds : j # i => intents'[j].status = intents[j].status
  BY <1>1, <1>3, StatusKeeps
<1>5. \A j \in IntentIds : intents[j].status \notin Unsent => intents'[j].status = intents[j].status
  BY <1>3, <1>4 DEF Unsent
<1>6. ExecInv'
  <2>1. exec # None => exec.intent \in IntentIds
    BY NoClientYet
  <2>2. exec # None /\ exec.pc = "mark" => exec.intent # i
    BY <1>3 DEF SteadyInv, ExecInv
  <2>. QED  BY <1>2, <1>4, <2>1, <2>2 DEF SteadyInv, ExecInv, Known, Owned, outside
<1>7. IntentKeys'
  BY <1>1, <1>2, <1>3, <1>4 DEF SteadyInv, IntentKeys, Unsent, PlaceTypes
<1>8. SlotFree'
  BY <1>2 DEF SteadyInv, SlotFree, outside
<1>9. \A c \in ClientIds : Doing(c)' = Doing(c)
  BY <1>2 DEF Doing
<1>. QED  BY <1>1, <1>2, <1>5, <1>6, <1>7, <1>8, <1>9, EarlyStep

\* WorkerTake.
LEMMA SteadyTake == SteadyInv /\ WorkerTake => SteadyInv'
<1>. SUFFICES ASSUME SteadyInv, WorkerTake PROVE SteadyInv'
  OBVIOUS
<1>1. PlaceInv'
  BY WorkerTakePreserves DEF SteadyInv
<1>2. /\ UNCHANGED <<strategy, stop, stops, crashes, ledger, orders, poll, hasty, exec, intents>>
      /\ UNCHANGED outside /\ UNCHANGED mappings /\ exec = None
  BY DEF WorkerTake, durable
<1>3. intents[worker'].status \in Unsent
  BY NextNewHasMin DEF WorkerTake, NextNew, Unsent
<1>4. ExecInv' /\ SlotFree' /\ IntentKeys'
  BY <1>2, <1>3 DEF SteadyInv, IntentKeys, ExecInv, SlotFree
<1>5. \A c \in ClientIds : Doing(c)' = Doing(c)
  BY <1>2 DEF Doing
<1>. QED  BY <1>1, <1>2, <1>4, <1>5, EarlyStep

\* WorkerDispatch: the strategy runs.
LEMMA SteadyDispatch == SteadyInv /\ WorkerDispatch => SteadyInv'
<1>. SUFFICES ASSUME SteadyInv, WorkerDispatch PROVE SteadyInv'
  OBVIOUS
<1>1. PlaceInv'
  BY WorkerDispatchPreserves DEF SteadyInv
<1>2. /\ UNCHANGED <<strategy, stop, stops, crashes, ledger, orders, poll, hasty>>
      /\ UNCHANGED outside /\ UNCHANGED mappings /\ strategy = "running"
  BY DEF WorkerDispatch, SteadyInv, Calm
<1>3. /\ worker # None /\ worker' = None /\ UNCHANGED intents
      /\ \/ exec' = None
         \/ exec' = [pc |-> "begin", intent |-> worker, client |-> None, attempt |-> 0,
                     doubt |-> FALSE, applied |-> FALSE, error |-> None, answer |-> None]
  BY <1>2, Zenon DEF WorkerDispatch
<1>4. exec = None /\ worker \in IntentIds
  BY <1>3 DEF SteadyInv, PlaceInv, PlaceTypes, TurnInv
<1>5. exec' = None \/ (exec'.pc = "begin" /\ exec'.intent = worker /\ exec'.client = None)
  BY <1>3
<1>6. intents[worker].status \in Unsent
  BY <1>3 DEF SteadyInv, IntentKeys
<1>7. ExecInv' /\ SlotFree' /\ IntentKeys'
  <2>1. ExecInv' /\ SlotFree'
    BY <1>5 DEF ExecInv, SlotFree, Placing
  <2>2. IntentKeys'
    BY <1>2, <1>3, <1>4, <1>5, <1>6 DEF SteadyInv, IntentKeys
  <2>. QED  BY <2>1, <2>2
<1>8. \A c \in ClientIds : Doing(c)' = Doing(c)
  BY <1>4, <1>5, ClientIdFacts DEF Doing
<1>. QED  BY <1>1, <1>2, <1>3, <1>7, <1>8, EarlyStep

\* ExecBegin.
LEMMA SteadyBegin == SteadyInv /\ ExecBegin => SteadyInv'
<1>. SUFFICES ASSUME SteadyInv, ExecBegin PROVE SteadyInv'
  OBVIOUS
<1>1. PlaceInv' /\ PlaceInv /\ PlaceTypes
  BY ExecBeginPreserves DEF SteadyInv, PlaceInv
<1>2. /\ UNCHANGED <<strategy, stop, stops, crashes, ledger, orders, poll, hasty, worker>>
      /\ UNCHANGED outside /\ UNCHANGED mappings
      /\ exec # None /\ exec.pc = "begin"
  BY DEF ExecBegin, At
<1>3. exec \in Execution /\ exec.intent \in IntentIds /\ exec.client = None
  BY <1>2, NoClientYet
<1>4. \/ SetStatus(exec.intent, "DONE") /\ exec' = None
      \/ SetStatus(exec.intent, "CANCELLED") /\ exec' = None
      \/ exec' = [exec EXCEPT !.pc = "sent"] /\ UNCHANGED intents
  BY Zenon DEF ExecBegin, Goto
<1>5. \/ exec' = None
      \/ exec' # None /\ exec'.pc = "sent" /\ exec'.client = None /\ exec'.intent = exec.intent
  BY <1>3, <1>4, GotoKeeps DEF ExecPc
<1>6. /\ \A j \in IntentIds : j # exec.intent => intents'[j].status = intents[j].status
      /\ intents'[exec.intent].status \in Unsent => intents[exec.intent].status \in Unsent
  BY <1>1, <1>3, <1>4, StatusKeeps DEF Unsent
<1>7. worker = None
  BY <1>2 DEF SteadyInv, PlaceInv, TurnInv
<1>8. ExecInv' /\ SlotFree' /\ IntentKeys'
  <2>1. ExecInv' /\ SlotFree'
    BY <1>5 DEF ExecInv, SlotFree, Placing
  <2>2. IntentKeys'
    BY <1>2, <1>3, <1>5, <1>6, <1>7 DEF SteadyInv, IntentKeys
  <2>. QED  BY <2>1, <2>2
<1>9. \A c \in ClientIds : Doing(c)' = Doing(c)
  BY <1>3, <1>5, ClientIdFacts DEF Doing
<1>. QED  BY <1>1, <1>2, <1>3, <1>6, <1>8, <1>9, EarlyStep

\* ExecSent.
LEMMA SteadySent == SteadyInv /\ ExecSent => SteadyInv'
<1>. SUFFICES ASSUME SteadyInv, ExecSent PROVE SteadyInv'
  OBVIOUS
<1>1. PlaceInv' /\ PlaceInv /\ PlaceTypes
  BY ExecSentPreserves DEF SteadyInv, PlaceInv
<1>2. /\ UNCHANGED <<strategy, stop, stops, crashes, ledger, orders, poll, hasty, worker>>
      /\ UNCHANGED outside /\ UNCHANGED mappings
      /\ exec # None /\ exec.pc = "sent" /\ SetStatus(exec.intent, "SENT")
      /\ exec' = [exec EXCEPT !.pc = "gate"]
  BY DEF ExecSent, At, Goto
<1>3. exec \in Execution /\ exec.intent \in IntentIds /\ exec.client = None
  BY <1>2, NoClientYet
<1>4. exec' # None /\ exec'.pc = "gate" /\ exec'.client = None /\ exec'.intent = exec.intent
  BY <1>2, <1>3, GotoKeeps DEF ExecPc
<1>5. /\ \A j \in IntentIds : j # exec.intent => intents'[j].status = intents[j].status
      /\ intents'[exec.intent].status \notin Unsent
  BY <1>1, <1>2, <1>3, StatusKeeps DEF Unsent
<1>6. worker = None
  BY <1>2 DEF SteadyInv, PlaceInv, TurnInv
<1>7. ExecInv' /\ SlotFree' /\ IntentKeys'
  <2>1. ExecInv' /\ SlotFree'
    BY <1>4 DEF ExecInv, SlotFree, Placing
  <2>2. IntentKeys'
    BY <1>2, <1>3, <1>4, <1>5, <1>6 DEF SteadyInv, IntentKeys
  <2>. QED  BY <2>1, <2>2
<1>8. \A c \in ClientIds : Doing(c)' = Doing(c)
  BY <1>3, <1>4, ClientIdFacts DEF Doing
<1>. QED  BY <1>1, <1>2, <1>3, <1>5, <1>7, <1>8, EarlyStep

\* The slot is free: no order of it is open, as every open one is tracked.
LEMMA GateFinds ==
  ASSUME SteadyInv, exec # None, exec.pc = "gate", ~SlotTaken(exec.intent), hasty = {},
         NEW c \in ClientIds, exchange[c] = "open"
  PROVE  Slot[sender[c]] # Slot[exec.intent]
<1>1. Doing(c) = "idle"
  BY NoClientYet, ClientIdFacts DEF Doing
<1>2. ClientOK(c) /\ Covered /\ Calm
  BY DEF SteadyInv
<1>3. sender[c] # None
  BY DEF SteadyInv, PlaceInv, ExchangeInv
<1>4. InDoubt(c) # None \/ Owned(Known(c))
  BY <1>1, <1>2 DEF Covered, Placing
<1>5. <<"client", c>> \in TrackKeys /\ <<"id", c>> \in TrackKeys
  BY ClientIdFacts
<1>6. CASE InDoubt(c) # None
  <2>1. /\ InDoubt(c).intent = sender[c] /\ InDoubt(c).intent # None
        /\ InDoubt(c).status = "pending_create"
    BY <1>2, <1>3, <1>6 DEF ClientOK, InDoubtInv
  <2>2. InDoubt(c) \in Own
    BY <1>5, <1>6, <2>1 DEF Own, TrackedOrders, InDoubt
  <2>. QED  BY <2>1, <2>2 DEF SlotTaken, Pollable
<1>7. CASE Owned(Known(c))
  <2>1. Known(c).intent = sender[c] /\ Known(c).status \in {"pending_create", "open"}
    BY <1>2, <1>3, <1>7 DEF ClientOK, KnownInv, Owned, Terminal
  <2>2. Known(c) \in Own
    BY <1>5, <1>7 DEF Own, TrackedOrders, Known, Owned
  <2>. QED  BY <2>1, <2>2 DEF SlotTaken, Pollable
<1>. QED  BY <1>4, <1>6, <1>7

\* ExecGate.
LEMMA SteadyGate == SteadyInv /\ ExecGate => SteadyInv'
<1>. SUFFICES ASSUME SteadyInv, ExecGate PROVE SteadyInv'
  OBVIOUS
<1>1. PlaceInv' /\ PlaceInv /\ PlaceTypes
  BY ExecGatePreserves DEF SteadyInv, PlaceInv
<1>2. /\ UNCHANGED <<strategy, stop, stops, crashes, ledger, orders, poll, hasty, worker>>
      /\ UNCHANGED outside /\ UNCHANGED mappings
      /\ exec # None /\ exec.pc = "gate"
  BY DEF ExecGate, At
<1>3. exec \in Execution /\ exec.intent \in IntentIds /\ exec.client = None
  BY <1>2, NoClientYet
<1>4. \/ SetStatus(exec.intent, "FAILED") /\ exec' = None
      \/ SetStatus(exec.intent, "DONE") /\ exec' = None
      \/ ~SlotTaken(exec.intent) /\ exec' = [exec EXCEPT !.pc = "client"] /\ UNCHANGED intents
  BY Zenon DEF ExecGate, Goto
<1>5. \/ exec' = None
      \/ /\ exec' # None /\ exec'.pc = "client" /\ exec'.client = None
         /\ exec'.intent = exec.intent /\ ~SlotTaken(exec.intent)
  BY <1>3, <1>4, GotoKeeps DEF ExecPc
<1>6. /\ \A j \in IntentIds : j # exec.intent => intents'[j].status = intents[j].status
      /\ intents'[exec.intent].status \in Unsent => intents[exec.intent].status \in Unsent
  BY <1>1, <1>3, <1>4, StatusKeeps DEF Unsent
<1>7. worker = None
  BY <1>2 DEF SteadyInv, PlaceInv, TurnInv
<1>8. ExecInv'
  BY <1>5 DEF ExecInv, Placing
<1>9. IntentKeys'
  BY <1>2, <1>3, <1>5, <1>6, <1>7 DEF SteadyInv, IntentKeys
<1>10. SlotFree'
  BY <1>2, <1>5, GateFinds DEF SlotFree, outside
<1>11. \A c \in ClientIds : Doing(c)' = Doing(c)
  BY <1>3, <1>5, ClientIdFacts DEF Doing
<1>. QED  BY <1>1, <1>2, <1>3, <1>6, <1>8, <1>9, <1>10, <1>11, EarlyStep

\* Nothing is known of a client order id that is not mapped.
LEMMA NothingUnmapped ==
  ASSUME SteadyInv, NEW c \in ClientIds, mappings[c] = "none"
  PROVE  /\ InDoubt(c) = None /\ Known(c) = None /\ exchange[c] = "none"
         /\ Key("settle", c) \notin ledger.keys /\ Key("not_found", c) \notin ledger.keys
         /\ Key("rejected", c) \notin ledger.keys /\ Key("missing_id", c) \notin ledger.keys
<1>1. exchange[c] = "none"
  BY DEF SteadyInv, PlaceInv, SenderInv, ExchangeInv
<1>2. ClientOK(c)
  BY DEF SteadyInv
<1>3. InDoubt(c) = None /\ Known(c) = None
  BY <1>1, <1>2 DEF ClientOK, InDoubtInv, KnownInv
<1>. QED  BY <1>1, <1>2, <1>3 DEF ClientOK, ClientKeys, Owned

\* While an order is being placed it is not tracked, and none of its keys is used.
LEMMA NotTrackedYet ==
  ASSUME SteadyInv, exec # None, exec.pc \in {"reserve"} \cup Placing
  PROVE  /\ exec.client \in ClientIds /\ mappings[exec.client] # "none"
         /\ Doing(exec.client) = exec.pc
         /\ InDoubt(exec.client) = None /\ ~Owned(Known(exec.client))
         /\ Key("settle", exec.client) \notin ledger.keys
         /\ Key("not_found", exec.client) \notin ledger.keys
         /\ Key("rejected", exec.client) \notin ledger.keys
         /\ Key("missing_id", exec.client) \notin ledger.keys
<1>. DEFINE c == exec.client
<1>1. c \in ClientIds /\ mappings[c] # "none"
  <2>1. exec.pc \in WithClient
    BY DEF Placing, WithClient
  <2>2. c \in ClientIds
    BY <2>1, NoClientYet
  <2>. QED  BY <2>2, ClientIdFacts DEF SteadyInv, PlaceInv, ClientInv
<1>2. Doing(c) = exec.pc
  BY <1>1 DEF Doing
<1>3. ClientOK(c)
  BY <1>1 DEF SteadyInv
<1>4. InDoubt(c) = None /\ ~Owned(Known(c))
  BY <1>2, <1>3 DEF ClientOK, InDoubtInv, KnownInv, Owned, Placing, Finishing
<1>5. /\ Key("settle", c) \notin ledger.keys
      /\ Key("not_found", c) \notin ledger.keys
      /\ Key("rejected", c) \notin ledger.keys
  BY <1>3, <1>4 DEF ClientOK, ClientKeys
<1>6. Key("missing_id", c) \notin ledger.keys
  BY <1>2, <1>3 DEF ClientOK, ClientKeys, Placing
<1>. QED  BY <1>1, <1>2, <1>4, <1>5, <1>6

\* It stays so while the tracker does not learn of it.
LEMMA PlacingOK ==
  ASSUME NEW c \in ClientIds, KnownInv(c), ~Owned(Known(c)),
         InDoubt(c)' = None, Known(c)' = Known(c), exchange[c] # "none" => exchange'[c] # "none",
         mappings'[c] # "none",
         Key("settle", c) \notin ledger'.keys, Key("not_found", c) \notin ledger'.keys,
         Key("rejected", c) \notin ledger'.keys,
         Key("missing_id", c) \in ledger'.keys => Doing(c)' = "idle"
  PROVE  ClientOK(c)'
<1>1. ~Owned(Known(c))'
  BY DEF Owned
<1>2. InDoubtInv(c)' /\ ClientKeys(c)' /\ IntentInv(c)'
  BY <1>1 DEF InDoubtInv, ClientKeys, IntentInv
<1>3. KnownInv(c)'
  BY DEF KnownInv, Owned
<1>. QED  BY <1>2, <1>3 DEF ClientOK

\* The end of a step of an execution that holds a client order id.
LEMMA ExecStepEnds ==
  ASSUME SteadyInv, PlaceInv', exec # None, NEW d \in ClientIds, d = exec.client,
         exec' = None \/ (exec' # None /\ exec'.client = d),
         OnlyAt(d),
         \A i \in IntentIds : i # exec.intent => intents'[i].status = intents[i].status,
         Calm', ExecInv', IntentKeys', PollInv', SlotFree', OneOrderPerSlot',
         hasty' = {} => hasty = {}, ClientOK(d)',
         hasty' = {} /\ exchange'[d] # "none" =>
           Doing(d)' \in Placing \/ InDoubt(d)' # None \/ Owned(Known(d))',
         \/ (Holds(d)' <=> Holds(d)) /\ ledger'.locked = ledger.locked
         \/ Holds(d) /\ ~Holds(d)' /\ ledger'.locked = ledger.locked - 1
         \/ ~Holds(d) /\ Holds(d)' /\ ledger'.locked = ledger.locked + 1
  PROVE  SteadyInv'
<1>1. \A c \in ClientIds : c # d => Same(c)
  BY ExecApart DEF SteadyInv
<1>. QED  BY <1>1, StepEnds

\* The keys of the intents, after such a step.
LEMMA IntentKeysStay ==
  ASSUME SteadyInv, exec # None, exec.pc \notin {"begin", "sent"}, worker' = worker,
         \A i \in IntentIds : i # exec.intent => intents'[i].status = intents[i].status,
         intents[exec.intent].status \notin Unsent => intents'[exec.intent].status \notin Unsent,
         \A i \in IntentIds : i # exec.intent =>
           /\ Key("reserve", i) \in ledger'.keys => Key("reserve", i) \in ledger.keys
           /\ Key("failed", i) \in ledger'.keys => Key("failed", i) \in ledger.keys,
         \/ exec' = None
         \/ /\ exec'.intent = exec.intent
            /\ exec'.pc \notin {"begin", "sent", "gate", "client", "reserve"}
            /\ Key("failed", exec.intent) \notin ledger'.keys
  PROVE  IntentKeys'
<1>1. worker = None /\ intents[exec.intent].status \notin Unsent
  BY DEF SteadyInv, PlaceInv, TurnInv
<1>2. exec.intent \in IntentIds
  BY NoClientYet
<1>. QED  BY <1>1, <1>2 DEF SteadyInv, IntentKeys

\* ExecClientId: nothing is known of the next client order id.
LEMMA SteadyClientId == SteadyInv /\ ExecClientId => SteadyInv'
<1>. SUFFICES ASSUME SteadyInv, ExecClientId PROVE SteadyInv'
  OBVIOUS
<1>1. PlaceInv' /\ PlaceInv /\ PlaceTypes
  BY ExecClientIdPreserves DEF SteadyInv, PlaceInv
<1>2. /\ UNCHANGED <<strategy, stop, stops, crashes, ledger, orders, poll, hasty, worker, intents>>
      /\ UNCHANGED <<exchange, sender, placed>> /\ exec # None /\ exec.pc = "client"
      /\ ClientSeq \in ClientIds
  BY DEF ExecClientId, At, outside
<1>3. exec \in Execution /\ exec.intent \in IntentIds /\ exec.client = None
  BY <1>2, NoClientYet
<1>4. PICK m \in 0..Cardinality(IntentIds) : FirstMapped(m)
  BY <1>1 DEF PlaceInv, SequenceInv
<1>5. m \in Nat /\ Cardinality(IntentIds) \in Nat /\ ClientSeq = m
  BY <1>4, SeqIsCount
<1>6. /\ m \in ClientIds
      /\ mappings' = [mappings EXCEPT ![m] = IF mappings[m] = "none" THEN "reserved" ELSE mappings[m]]
      /\ exec' = [exec EXCEPT !.pc = "reserve", !.client = m]
  BY <1>2, <1>5, Zenon DEF ExecClientId
<1>7. mappings[m] = "none"
  BY <1>4, <1>5, <1>6 DEF FirstMapped
<1>8. \A c \in ClientIds : mappings'[c] = IF c = m THEN "reserved" ELSE mappings[c]
  BY <1>1, <1>6, <1>7 DEF PlaceTypes
<1>9. /\ exec' # None /\ exec'.pc = "reserve" /\ exec'.client = m /\ exec'.intent = exec.intent
  <2>1. exec' \in Execution
    BY <1>3, <1>6 DEF Execution, ExecPc
  <2>. QED  BY <1>3, <1>6, <2>1, NoneAssumption DEF Execution
<1>10. \A c \in ClientIds : Doing(c) = "idle" /\ Doing(c)' = IF c = m THEN "reserve" ELSE "idle"
  BY <1>3, <1>9, ClientIdFacts DEF Doing
<1>11. /\ InDoubt(m) = None /\ Known(m) = None /\ exchange[m] = "none"
       /\ Key("settle", m) \notin ledger.keys /\ Key("not_found", m) \notin ledger.keys
       /\ Key("rejected", m) \notin ledger.keys /\ Key("missing_id", m) \notin ledger.keys
  BY <1>6, <1>7, NothingUnmapped
<1>12. InDoubt(m)' = None /\ Known(m)' = None /\ ~Owned(Known(m)) /\ ~Owned(Known(m))'
  BY <1>2, <1>11 DEF InDoubt, Known, Owned
<1>13. \A c \in ClientIds : c # m => Same(c)
  BY <1>2, <1>8, <1>10 DEF Same, InDoubt, Known
<1>14. ClientOK(m)'
  <2>1. KnownInv(m)
    BY <1>6 DEF SteadyInv, ClientOK
  <2>. QED  BY <1>2, <1>6, <1>8, <1>11, <1>12, <2>1, PlacingOK
<1>15. ~Holds(m) /\ ~Holds(m)'
  BY <1>6, <1>10, <1>11, <1>12 DEF Holds, Placing
<1>16. ExecInv'
  BY <1>2, <1>9, <1>11 DEF ExecInv, Placing
<1>17. IntentKeys'
  BY <1>2, <1>3, <1>9 DEF SteadyInv, IntentKeys
<1>18. PollInv' /\ OneOrderPerSlot' /\ Calm'
  BY <1>2 DEF SteadyInv, PollInv, OneOrderPerSlot, Calm, InDoubt, Known
<1>19. SlotFree'
  BY <1>2, <1>3, <1>9, ClientIdFacts DEF SteadyInv, SlotFree
<1>. QED  BY <1>1, <1>2, <1>6, <1>11, <1>13, <1>14, <1>15, <1>16, <1>17, <1>18, <1>19, StepEnds

\* ExecReserve: the unit is locked under a key that is new.
LEMMA SteadyReserve == SteadyInv /\ ExecReserve => SteadyInv'
<1>. SUFFICES ASSUME SteadyInv, ExecReserve PROVE SteadyInv'
  OBVIOUS
<1>. DEFINE i == exec.intent
            k == Key("reserve", i)
<1>1. PlaceInv' /\ PlaceInv /\ PlaceTypes
  BY ExecReservePreserves DEF SteadyInv, PlaceInv
<1>2. /\ UNCHANGED <<strategy, stop, stops, crashes, orders, poll, hasty, worker, mappings>>
      /\ UNCHANGED <<exchange, sender, placed>> /\ exec # None /\ exec.pc = "reserve"
  BY DEF ExecReserve, At, outside
<1>3. exec \in Execution /\ i \in IntentIds
  BY <1>2, NoClientYet
<1>4. PICK d \in ClientIds :
      /\ d = exec.client /\ mappings[d] # "none" /\ Doing(d) = "reserve"
      /\ InDoubt(d) = None /\ ~Owned(Known(d))
      /\ Key("settle", d) \notin ledger.keys /\ Key("not_found", d) \notin ledger.keys
      /\ Key("rejected", d) \notin ledger.keys /\ Key("missing_id", d) \notin ledger.keys
  BY <1>2, NotTrackedYet
<1>5. k \notin ledger.keys /\ exchange[d] = "none"
  BY <1>2, <1>4 DEF SteadyInv, IntentKeys, ExecInv
<1>6. \/ /\ ledger' = Lock(ledger, k) /\ UNCHANGED intents
         /\ exec' = [exec EXCEPT !.pc = "check", !.applied = TRUE]
      \/ /\ UNCHANGED ledger /\ SetStatus(i, "FAILED") /\ exec' = None
  BY <1>5, Zenon DEF ExecReserve
<1>7. ~Holds(d)
  BY <1>4 DEF Holds, Placing
<1>8. InDoubt(d)' = None /\ Known(d)' = Known(d) /\ ~Owned(Known(d))'
  BY <1>2, <1>4 DEF InDoubt, Known, Owned
<1>9. KnownInv(d) /\ Calm
  BY <1>4 DEF SteadyInv, ClientOK
<1>10. PollInv' /\ OneOrderPerSlot'
  BY <1>2 DEF SteadyInv, PollInv, OneOrderPerSlot, InDoubt, Known
<1>11. CASE /\ ledger' = Lock(ledger, k) /\ UNCHANGED intents
            /\ exec' = [exec EXCEPT !.pc = "check", !.applied = TRUE]
  <2>1. /\ exec' # None /\ exec'.pc = "check" /\ exec'.client = d /\ exec'.intent = i
        /\ exec'.applied
    <3>1. exec' \in Execution
      BY <1>3, <1>11 DEF Execution, ExecPc
    <3>. QED  BY <1>3, <1>4, <1>11, <3>1, NoneAssumption DEF Execution
  <2>2. ledger' \in LedgerType /\ ledger'.locked = ledger.locked + 1 /\ ledger'.keys = ledger.keys \cup {k}
    BY <1>3, <1>9, <1>11, LedgerSteps, KeyFacts DEF Calm
  <2>3. \A w, r : w # "reserve" => (Key(w, r) \in ledger'.keys <=> Key(w, r) \in ledger.keys)
    BY <2>2, KeyFacts
  <2>4. OnlyAt(d)
    BY <1>2, <2>3 DEF OnlyAt, InDoubt, Known
  <2>5. ClientOK(d)'
    BY <1>2, <1>4, <1>8, <1>9, <2>3, PlacingOK
  <2>6. Doing(d)' = "check" /\ Holds(d)'
    BY <1>4, <2>1 DEF Doing, Holds, Placing
  <2>7. ExecInv'
    BY <1>2, <1>5, <2>1 DEF ExecInv, Placing
  <2>8. IntentKeys'
    <3>1. \A j \in IntentIds : j # i =>
             /\ Key("reserve", j) \in ledger'.keys => Key("reserve", j) \in ledger.keys
             /\ Key("failed", j) \in ledger'.keys => Key("failed", j) \in ledger.keys
      BY <2>2, KeyFacts
    <3>2. Key("failed", i) \notin ledger'.keys
      BY <1>2, <2>3 DEF SteadyInv, IntentKeys
    <3>. QED  BY <1>2, <1>11, <2>1, <3>1, <3>2, IntentKeysStay
  <2>9. SlotFree'
    BY <1>2, <1>4, <2>1, SlotFreeStays DEF SteadyInv, PastGate
  <2>10. Calm'
    BY <1>2, <1>9, <2>2 DEF Calm
  <2>. QED  BY <1>1, <1>2, <1>4, <1>5, <1>7, <1>10, <1>11, <2>1, <2>2, <2>4, <2>5, <2>6, <2>7, <2>8, <2>9,
               <2>10, ExecStepEnds
<1>12. CASE UNCHANGED ledger /\ SetStatus(i, "FAILED") /\ exec' = None
  <2>1. /\ intents'[i].status = "FAILED"
        /\ \A j \in IntentIds : j # i => intents'[j].status = intents[j].status
    BY <1>1, <1>3, <1>12, StatusKeeps
  <2>2. OnlyAt(d)
    BY <1>2, <1>12 DEF OnlyAt, InDoubt, Known
  <2>3. ClientOK(d)'
    BY <1>2, <1>4, <1>8, <1>9, <1>12, PlacingOK
  <2>4. Doing(d)' = "idle" /\ ~Holds(d)'
    BY <1>8, <1>12 DEF Doing, Holds, Placing
  <2>5. ExecInv' /\ SlotFree'
    BY <1>12 DEF ExecInv, SlotFree
  <2>6. IntentKeys'
    BY <1>2, <1>12, <2>1, IntentKeysStay DEF Unsent
  <2>7. Calm'
    BY <1>2, <1>9, <1>12 DEF Calm
  <2>. QED  BY <1>1, <1>2, <1>4, <1>5, <1>7, <1>10, <1>12, <2>1, <2>2, <2>3, <2>4, <2>5, <2>6, <2>7,
               ExecStepEnds
<1>. QED  BY <1>6, <1>11, <1>12

\* A step that goes on placing the order: the tracker and the ledger do not learn of it.
LEMMA PlacingStep ==
  ASSUME SteadyInv, PlaceInv', exec # None, exec.pc \in Placing,
         exec' # None, exec'.client = exec.client, exec'.intent = exec.intent, exec'.pc \in Placing,
         UNCHANGED <<strategy, stop, stops, crashes, ledger, orders, poll, hasty, worker>>,
         \A i \in IntentIds : intents'[i].status = intents[i].status,
         \A c \in ClientIds :
           /\ c # exec.client => exchange'[c] = exchange[c] /\ sender'[c] = sender[c]
           /\ mappings'[c] = "none" <=> mappings[c] = "none"
           /\ exchange[c] # "none" => exchange'[c] # "none",
         exchange' \in [ClientIds -> {"none", "open", "filled", "rejected"}],
         ExecInv', OneOrderPerSlot'
  PROVE  SteadyInv'
<1>1. PICK d \in ClientIds :
        /\ d = exec.client /\ mappings[d] # "none" /\ Doing(d) = exec.pc
        /\ InDoubt(d) = None /\ ~Owned(Known(d))
        /\ Key("settle", d) \notin ledger.keys /\ Key("not_found", d) \notin ledger.keys
        /\ Key("rejected", d) \notin ledger.keys /\ Key("missing_id", d) \notin ledger.keys
  BY NotTrackedYet
<1>2. \A c \in ClientIds : InDoubt(c)' = InDoubt(c) /\ Known(c)' = Known(c)
  BY DEF InDoubt, Known
<1>3. OnlyAt(d)
  BY <1>1, <1>2 DEF OnlyAt
<1>4. KnownInv(d) /\ Calm
  BY DEF SteadyInv, ClientOK
<1>5. ClientOK(d)'
  BY <1>1, <1>2, <1>4, PlacingOK
<1>6. Doing(d)' \in Placing
  BY <1>1 DEF Doing
<1>7. Holds(d)' /\ Holds(d)
  BY <1>1, <1>6 DEF Holds
<1>8. IntentKeys'
  <2>1. Key("failed", exec.intent) \notin ledger.keys
    BY DEF SteadyInv, IntentKeys
  <2>2. exec.intent \in IntentIds
    BY NoClientYet
  <2>. QED  BY <2>1, <2>2, IntentKeysStay DEF Placing
<1>9. SlotFree'
  BY <1>1, SlotFreeStays DEF SteadyInv, PastGate
<1>10. Calm'
  BY <1>4 DEF Calm
<1>11. PollInv'
  BY <1>1, <1>3, PollStaysApart
<1>. QED  BY <1>1, <1>3, <1>5, <1>6, <1>7, <1>8, <1>9, <1>10, <1>11, ExecStepEnds

\* ExecCheck: the strategy runs.
LEMMA SteadyCheck == SteadyInv /\ ExecCheck => SteadyInv'
<1>. SUFFICES ASSUME SteadyInv, ExecCheck PROVE SteadyInv'
  OBVIOUS
<1>1. PlaceInv' /\ Calm
  BY ExecCheckPreserves DEF SteadyInv
<1>2. /\ exec # None /\ exec.pc = "check" /\ UNCHANGED <<strategy, stop, stops, crashes>>
      /\ UNCHANGED <<ledger, orders, poll, hasty, worker, mappings, exchange, sender>>
      /\ exec' = [exec EXCEPT !.pc = "submit"] /\ UNCHANGED intents
  <2>1. strategy = "running"
    BY <1>1 DEF Calm
  <2>. QED  BY <2>1, Zenon DEF ExecCheck, At, Goto, outside
<1>3. exec \in Execution
  BY <1>2, NoClientYet
<1>4. /\ exec' # None /\ exec'.pc = "submit" /\ exec'.client = exec.client
      /\ exec'.intent = exec.intent /\ exec'.applied = exec.applied /\ exec'.doubt = exec.doubt
  BY <1>2, <1>3, GotoKeeps DEF ExecPc
<1>5. ExecInv'
  BY <1>2, <1>4 DEF SteadyInv, ExecInv, Placing
<1>6. OneOrderPerSlot'
  BY <1>2 DEF SteadyInv, OneOrderPerSlot
<1>7. exec.pc \in Placing /\ exec'.pc \in Placing
  BY <1>2, <1>4 DEF Placing
<1>. QED  BY <1>1, <1>2, <1>4, <1>5, <1>6, <1>7, PlacingStep DEF Calm

\* ExecAttach.
LEMMA SteadyAttach == SteadyInv /\ ExecAttach => SteadyInv'
<1>. SUFFICES ASSUME SteadyInv, ExecAttach PROVE SteadyInv'
  OBVIOUS
<1>1. PlaceInv' /\ Calm /\ PlaceTypes
  BY ExecAttachPreserves DEF SteadyInv, PlaceInv
<1>2. /\ exec # None /\ exec.pc = "attach" /\ UNCHANGED <<strategy, stop, stops, crashes>>
      /\ UNCHANGED <<ledger, orders, poll, hasty, worker, exchange, sender>>
      /\ exec' = [exec EXCEPT !.pc = "track"]
  BY Zenon DEF ExecAttach, At, Goto, outside
<1>3. exec \in Execution /\ exec.intent \in IntentIds
  BY <1>2, NoClientYet
<1>4. PICK d \in ClientIds : d = exec.client /\ mappings[d] # "none"
  BY <1>2, NotTrackedYet DEF Placing
<1>5. /\ intents' = [intents EXCEPT ![exec.intent] = [intents[exec.intent] EXCEPT !.order = exec.client]]
      /\ mappings' = [mappings EXCEPT ![exec.client] = "linked"]
  BY Zenon DEF ExecAttach
<1>6. \A i \in IntentIds : intents'[i].status = intents[i].status
  <2>1. \A r \in IntentRow, c \in ClientIds : [r EXCEPT !.order = c].status = r.status
    BY DEF IntentRow
  <2>. QED  BY <1>1, <1>3, <1>4, <1>5, <2>1 DEF PlaceTypes
<1>7. \A c \in ClientIds : mappings'[c] = "none" <=> mappings[c] = "none"
  BY <1>1, <1>4, <1>5 DEF PlaceTypes
<1>8. /\ exec' # None /\ exec'.pc = "track" /\ exec'.client = exec.client
      /\ exec'.intent = exec.intent /\ exec'.applied = exec.applied /\ exec'.answer = exec.answer
  BY <1>2, <1>3, GotoKeeps DEF ExecPc
<1>9. ExecInv'
  BY <1>2, <1>8 DEF SteadyInv, ExecInv, Placing
<1>10. OneOrderPerSlot'
  BY <1>2 DEF SteadyInv, OneOrderPerSlot
<1>11. exec.pc \in Placing /\ exec'.pc \in Placing
  BY <1>2, <1>8 DEF Placing
<1>. QED  BY <1>1, <1>2, <1>6, <1>7, <1>8, <1>9, <1>10, <1>11, PlacingStep DEF Calm

\* ExecSubmit: an order that opens is the only one of its slot.
LEMMA SubmitOpens ==
  ASSUME Steady, SteadyInv, exec # None, exec.pc = "submit", exchange[exec.client] = "none",
         NEW s \in Answers \cup {"open"}, Opens(s), UNCHANGED hasty
  PROVE  /\ exchange' \in [ClientIds -> {"none", "open", "filled", "rejected"}]
         /\ \A c \in ClientIds : exchange'[c] = IF c = exec.client THEN s ELSE exchange[c]
         /\ \A c \in ClientIds : c # exec.client => sender'[c] = sender[c]
         /\ s # "none" /\ OneOrderPerSlot'
<1>1. /\ exchange \in [ClientIds -> {"none", "open", "filled", "rejected"}]
      /\ sender \in [ClientIds -> IntentIds \cup {None}]
  BY DEF SteadyInv, Calm, PlaceInv, PlaceTypes
<1>2. s \in {"open", "filled", "rejected"}
  BY PlacementAssumption DEF Steady
<1>3. PICK d \in ClientIds : d = exec.client
  BY NotTrackedYet DEF Placing
<1>4. /\ exchange' = [exchange EXCEPT ![d] = s] /\ sender' = [sender EXCEPT ![d] = exec.intent]
  BY <1>3 DEF Opens
<1>5. /\ exchange' \in [ClientIds -> {"none", "open", "filled", "rejected"}]
      /\ \A c \in ClientIds : exchange'[c] = IF c = d THEN s ELSE exchange[c]
      /\ \A c \in ClientIds : sender'[c] = IF c = d THEN exec.intent ELSE sender[c]
  BY <1>1, <1>2, <1>4
<1>6. hasty = {} => \A c \in ClientIds : exchange[c] = "open" /\ c # d => Slot[sender[c]] # Slot[exec.intent]
  BY <1>3 DEF SteadyInv, SlotFree, Placing
<1>7. OneOrderPerSlot'
  BY <1>5, <1>6 DEF SteadyInv, OneOrderPerSlot
<1>. QED  BY <1>2, <1>3, <1>5, <1>7

\* An attempt that failed keeps what is true of the execution.
LEMMA FailedKeeps ==
  ASSUME SteadyInv, exec # None, exec.pc = "submit", NEW e \in Errors \cup {"REQUEST_TIMEOUT", "DUPLICATE_ORDER_ID"},
         Failed(e), exchange[exec.client] # "none" => exchange' = exchange,
         exchange'[exec.client] # "none" /\ exchange[exec.client] = "none" => e = "REQUEST_TIMEOUT"
  PROVE  /\ exec' # None /\ exec'.client = exec.client /\ exec'.intent = exec.intent
         /\ exec'.pc \in Placing /\ ExecInv'
<1>1. exec \in Execution /\ exec.applied
  BY NoClientYet DEF SteadyInv, ExecInv, Placing
<1>2. exchange[exec.client] # "none" => exec.doubt
  BY DEF SteadyInv, ExecInv
<1>3. e \in {"INSUFFICIENT_FUNDS", "INVALID_ORDER", "NO_ID", "REQUEST_TIMEOUT", "DUPLICATE_ORDER_ID"}
  BY PlacementAssumption
<1>4. PICK b \in BOOLEAN : b = (exec.doubt \/ e = "REQUEST_TIMEOUT")
  BY <1>1 DEF Execution
<1>5. CASE exec.attempt < MaxRetries
  <2>1. PICK k \in Nat : k = exec.attempt + 1
    BY <1>1 DEF Execution
  <2>2. exec' = [exec EXCEPT !.pc = "check", !.attempt = k, !.doubt = b]
    BY <1>4, <1>5, <2>1 DEF Failed
  <2>3. exec' \in Execution
    BY <1>1, <2>2 DEF Execution, ExecPc
  <2>4. /\ exec' # None /\ exec'.client = exec.client /\ exec'.intent = exec.intent
        /\ exec'.pc = "check" /\ exec'.applied /\ exec'.doubt = b
    BY <1>1, <2>2, <2>3, NoneAssumption DEF Execution
  <2>5. exchange'[exec.client] # "none" => b
    BY <1>2, <1>4
  <2>. QED  BY <2>4, <2>5 DEF ExecInv, Placing
<1>6. CASE ~(exec.attempt < MaxRetries)
  <2>1. PICK p \in {"reconcile", "release"} : p = IF Ambiguous(e) THEN "reconcile" ELSE "release"
    BY Zenon
  <2>2. exec' = [exec EXCEPT !.error = e, !.pc = p]
    BY <1>6, <2>1 DEF Failed
  <2>3. exec' \in Execution
    BY <1>1, <1>3, <2>2 DEF Execution, ExecPc
  <2>4. /\ exec' # None /\ exec'.client = exec.client /\ exec'.intent = exec.intent
        /\ exec'.pc = p /\ exec'.applied /\ exec'.doubt = exec.doubt /\ exec'.error = e
    BY <1>1, <2>2, <2>3, NoneAssumption DEF Execution
  <2>5. p = "release" => e \in Errors /\ e # "REQUEST_TIMEOUT"
    BY <2>1 DEF Ambiguous
  <2>6. p = "release" /\ exchange'[exec.client] # "none" => exec.doubt
    BY <1>2, <2>5
  <2>. QED  BY <2>4, <2>5, <2>6 DEF ExecInv, Placing
<1>. QED  BY <1>5, <1>6

\* ExecSubmit.
LEMMA SteadySubmit == Steady /\ SteadyInv /\ ExecSubmit => SteadyInv'
<1>. SUFFICES ASSUME Steady, SteadyInv, ExecSubmit PROVE SteadyInv'
  OBVIOUS
<1>1. PlaceInv' /\ Calm /\ OneOrderPerSlot
  BY ExecSubmitPreserves DEF SteadyInv
<1>2. /\ exec # None /\ exec.pc = "submit" /\ UNCHANGED <<strategy, stop, stops, crashes>>
      /\ UNCHANGED <<ledger, orders, poll, hasty, worker, intents, mappings>>
  BY Zenon DEF ExecSubmit, At, durable
<1>3. exec \in Execution /\ exec.pc \in Placing /\ exec.applied
  BY <1>2, NoClientYet DEF Placing, SteadyInv, ExecInv
<1>4. PICK d \in ClientIds : d = exec.client
  BY <1>2, NotTrackedYet DEF Placing
<1>5. exchange[d] # "flight"
  BY <1>1 DEF Calm
<1>6. \/ \E s \in Answers : /\ exchange[d] = "none" /\ Opens(s)
                            /\ exec' = [exec EXCEPT !.pc = "attach", !.answer = s]
      \/ exchange[d] = "none" /\ Opens("open") /\ Failed("REQUEST_TIMEOUT")
      \/ /\ UNCHANGED outside
         /\ \E e \in Errors \cup {"REQUEST_TIMEOUT", "DUPLICATE_ORDER_ID"} : Failed(e)
      \/ /\ UNCHANGED outside /\ "NO_ID" \in Errors
         /\ exec' = [exec EXCEPT !.pc = "release", !.error = "NO_ID"]
  BY <1>4, <1>5, Zenon DEF ExecSubmit, Steady
<1>7. ASSUME NEW s \in Answers, exchange[d] = "none", Opens(s),
             exec' = [exec EXCEPT !.pc = "attach", !.answer = s]
      PROVE  SteadyInv'
  <2>1. s \in {"open", "filled", "rejected"}
    BY PlacementAssumption DEF Steady
  <2>2. exec' \in Execution
    BY <1>3, <1>7, <2>1 DEF Execution, ExecPc
  <2>3. /\ exec' # None /\ exec'.client = d /\ exec'.intent = exec.intent
        /\ exec'.pc = "attach" /\ exec'.answer = s /\ exec'.applied
    BY <1>3, <1>4, <1>7, <2>2, NoneAssumption DEF Execution
  <2>4. /\ exchange' \in [ClientIds -> {"none", "open", "filled", "rejected"}]
        /\ \A c \in ClientIds : exchange'[c] = IF c = d THEN s ELSE exchange[c]
        /\ \A c \in ClientIds : c # d => sender'[c] = sender[c]
        /\ s # "none" /\ OneOrderPerSlot'
    BY <1>2, <1>4, <1>7, SubmitOpens
  <2>5. ExecInv'
    BY <2>1, <2>3, <2>4 DEF ExecInv, Placing
  <2>6. exec'.pc \in Placing
    BY <2>3 DEF Placing
  <2>. QED  BY <1>1, <1>2, <1>3, <1>4, <2>3, <2>4, <2>5, <2>6, PlacingStep
<1>8. CASE exchange[d] = "none" /\ Opens("open") /\ Failed("REQUEST_TIMEOUT")
  <2>1. /\ exchange' \in [ClientIds -> {"none", "open", "filled", "rejected"}]
        /\ \A c \in ClientIds : exchange'[c] = IF c = d THEN "open" ELSE exchange[c]
        /\ \A c \in ClientIds : c # d => sender'[c] = sender[c]
        /\ OneOrderPerSlot'
    BY <1>2, <1>4, <1>8, SubmitOpens
  <2>2. /\ exec' # None /\ exec'.client = exec.client /\ exec'.intent = exec.intent
        /\ exec'.pc \in Placing /\ ExecInv'
    BY <1>2, <1>4, <1>8, FailedKeeps
  <2>. QED  BY <1>1, <1>2, <1>3, <1>4, <2>1, <2>2, PlacingStep
<1>9. ASSUME UNCHANGED outside, NEW e \in Errors \cup {"REQUEST_TIMEOUT", "DUPLICATE_ORDER_ID"}, Failed(e)
      PROVE  SteadyInv'
  <2>1. UNCHANGED <<exchange, sender>>
    BY <1>9 DEF outside
  <2>2. /\ exec' # None /\ exec'.client = exec.client /\ exec'.intent = exec.intent
        /\ exec'.pc \in Placing /\ ExecInv'
    BY <1>2, <1>9, <2>1, FailedKeeps
  <2>3. OneOrderPerSlot'
    BY <1>1, <1>2, <2>1 DEF OneOrderPerSlot
  <2>. QED  BY <1>1, <1>2, <1>3, <2>1, <2>2, <2>3, PlacingStep DEF Calm
<1>10. CASE /\ UNCHANGED outside /\ "NO_ID" \in Errors
            /\ exec' = [exec EXCEPT !.pc = "release", !.error = "NO_ID"]
  <2>1. UNCHANGED <<exchange, sender>>
    BY <1>10 DEF outside
  <2>2. exec' \in Execution
    BY <1>3, <1>10 DEF Execution, ExecPc
  <2>3. /\ exec' # None /\ exec'.client = exec.client /\ exec'.intent = exec.intent
        /\ exec'.pc = "release" /\ exec'.error = "NO_ID" /\ exec'.applied
        /\ exec'.doubt = exec.doubt
    BY <1>3, <1>10, <2>2, NoneAssumption DEF Execution
  <2>4. exchange[exec.client] # "none" => exec.doubt
    BY <1>2 DEF SteadyInv, ExecInv
  <2>5. ExecInv'
    BY <1>10, <2>1, <2>3, <2>4 DEF ExecInv, Placing
  <2>6. OneOrderPerSlot'
    BY <1>1, <1>2, <2>1 DEF OneOrderPerSlot
  <2>7. exec'.pc \in Placing
    BY <2>3 DEF Placing
  <2>. QED  BY <1>1, <1>2, <1>3, <2>1, <2>3, <2>5, <2>6, <2>7, PlacingStep DEF Calm
<1>. QED  BY <1>6, <1>7, <1>8, <1>9, <1>10

\* An order the tracker learns of: it is accepted where it has nothing, or a placeholder.
LEMMA UpsertNew ==
  ASSUME NEW o \in Tracked, NEW k \in TrackKeys, k = OrderKey(o),
         orders \in [TrackKeys -> Tracked \cup {None}],
         orders[k] = None \/ orders[k].status = "internal_missing",
         o.status \in {"pending_create", "open", "filled", "failed"}, Upsert(orders, o)
  PROVE  /\ orders' \in [TrackKeys -> Tracked \cup {None}]
         /\ \A x \in TrackKeys : orders'[x] = IF x = k THEN o ELSE orders[x]
         /\ ledger' = IF o.status = "filled" THEN Settle(ledger, Key("settle", o.client)) ELSE ledger
<1>1. Accepted(orders[k], o)
  BY DEF Accepted, Status, Terminal, Pollable
<1>2. orders' = [orders EXCEPT ![k] = o] /\ ledger' = ReportEffect(ledger, orders[k], o)
  BY <1>1, Zenon DEF Upsert
<1>3. ~(orders[k] # None /\ orders[k].status \in Terminal)
  BY DEF Terminal
<1>4. ledger' = IF o.status = "filled" THEN Settle(ledger, Key("settle", o.client)) ELSE ledger
  BY <1>2, <1>3 DEF ReportEffect
<1>. QED  BY <1>2, <1>4

\* Keys of the tracker are pairs.
LEMMA TrackKeyFacts ==
  /\ \A c, d : <<"client", c>> # <<"id", d>> /\ <<"client", c>> # <<"blank", 0>>
               /\ <<"id", c>> # <<"blank", 0>>
  /\ \A c, d, w : <<w, c>> = <<w, d>> <=> c = d
  /\ <<"blank", 0>> \in TrackKeys
BY DEF TrackKeys

\* ExecReconcile.
LEMMA SteadyReconcile == SteadyInv /\ ExecReconcile => SteadyInv'
<1>. SUFFICES ASSUME SteadyInv, ExecReconcile PROVE SteadyInv'
  OBVIOUS
<1>1. PlaceInv' /\ PlaceInv /\ PlaceTypes /\ Calm
  BY ExecReconcilePreserves DEF SteadyInv, PlaceInv
<1>2. /\ exec # None /\ exec.pc = "reconcile" /\ UNCHANGED <<strategy, stop, stops, crashes>>
      /\ UNCHANGED <<poll, hasty, worker, intents, mappings, exchange, sender>>
  BY Zenon DEF ExecReconcile, At, outside
<1>3. exec \in Execution /\ exec.intent \in IntentIds /\ exec.pc \in Placing /\ exec.applied
  BY <1>2, NoClientYet DEF Placing, SteadyInv, ExecInv
<1>4. PICK d \in ClientIds :
        /\ d = exec.client /\ mappings[d] # "none" /\ Doing(d) = "reconcile"
        /\ InDoubt(d) = None /\ ~Owned(Known(d))
        /\ Key("settle", d) \notin ledger.keys /\ Key("not_found", d) \notin ledger.keys
        /\ Key("rejected", d) \notin ledger.keys /\ Key("missing_id", d) \notin ledger.keys
  BY <1>2, <1>3, NotTrackedYet
<1>5. OneOrderPerSlot'
  BY <1>2 DEF SteadyInv, OneOrderPerSlot
<1>6. exchange[d] \in {"none", "open", "filled", "rejected"}
  BY <1>1 DEF Calm
<1>7. CASE /\ Upsert(orders, Order(exec.intent, d, FALSE, "pending_create"))
           /\ exec' = [exec EXCEPT !.pc = "acked"]
  <2>. DEFINE k == <<"client", d>>
  <2>1. PICK r : r = [client |-> d, hasId |-> FALSE, intent |-> exec.intent, status |-> "pending_create"]
    OBVIOUS
  <2>2. /\ r \in Tracked /\ r # None /\ r.client = d /\ ~r.hasId /\ r.intent = exec.intent
        /\ r.status = "pending_create" /\ r.intent # None /\ OrderKey(r) = k
    <3>1. "pending_create" \in Status /\ exec.intent # None
      BY <1>3, IntentsAreNat DEF Status, Pollable
    <3>2. r \in Tracked
      BY <1>3, <2>1, <3>1 DEF Tracked
    <3>. QED  BY <2>1, <3>1, <3>2, NoneAssumption DEF OrderKey
  <2>. HIDE DEF k
  <2>3. /\ orders' \in [TrackKeys -> Tracked \cup {None}]
        /\ \A x \in TrackKeys : orders'[x] = IF x = k THEN r ELSE orders[x]
        /\ ledger' = ledger
    <3>1. orders[k] = None /\ Upsert(orders, r)
      BY <1>4, <1>7, <2>1, Zenon DEF InDoubt, k, Order
    <3>2. k = OrderKey(r) /\ k \in TrackKeys
      BY <2>2, ClientIdFacts DEF k
    <3>. QED  BY <1>1, <2>2, <3>1, <3>2, UpsertNew DEF Calm
  <2>4. /\ InDoubt(d)' = r /\ Known(d)' = Known(d)
        /\ \A c \in ClientIds : c # d => InDoubt(c)' = InDoubt(c) /\ Known(c)' = Known(c)
        /\ orders'[<<"blank", 0>>] = orders[<<"blank", 0>>]
    BY <2>3, ClientIdFacts, TrackKeyFacts DEF InDoubt, Known, k
  <2>5. /\ exec' # None /\ exec'.pc = "acked" /\ exec'.client = d /\ exec'.intent = exec.intent
        /\ exec'.applied = exec.applied
    BY <1>3, <1>4, <1>7, GotoKeeps DEF ExecPc
  <2>6. Doing(d)' = "acked"
    BY <2>5 DEF Doing
  <2>7. OnlyAt(d)
    BY <1>2, <2>3, <2>4 DEF OnlyAt
  <2>8. ~Owned(Known(d))'
    BY <1>4, <2>4 DEF Owned
  <2>9. ClientOK(d)'
    <3>1. sender[d] # None => sender[d] = exec.intent
      BY <1>1, <1>2, <1>4 DEF PlaceInv, SenderInv
    <3>2. InDoubtInv(d)'
      BY <1>2, <1>4, <2>2, <2>4, <2>6, <2>8, <3>1 DEF InDoubtInv, Finishing
    <3>3. KnownInv(d)
      BY DEF SteadyInv, ClientOK
    <3>4. KnownInv(d)'
      BY <1>2, <1>4, <2>4, <3>3 DEF KnownInv, Owned
    <3>5. ClientKeys(d)' /\ IntentInv(d)'
      BY <1>4, <2>3, <2>6 DEF ClientKeys, IntentInv
    <3>. QED  BY <3>2, <3>4, <3>5 DEF ClientOK
  <2>10. Holds(d) /\ Holds(d)'
    BY <1>4, <2>2, <2>4 DEF Holds, Placing
  <2>11. ExecInv'
    BY <2>5 DEF ExecInv, Placing
  <2>12. IntentKeys'
    <3>1. Key("failed", exec.intent) \notin ledger.keys
      BY <1>2 DEF SteadyInv, IntentKeys
    <3>. QED  BY <1>2, <2>3, <2>5, <3>1, IntentKeysStay
  <2>13. PollInv'
    BY <1>2, <1>3, <1>4, <2>7, PollStaysApart
  <2>14. SlotFree'
    BY <1>2, <1>4, <2>5, SlotFreeStays DEF SteadyInv, PastGate, Placing
  <2>15. Calm'
    BY <1>1, <1>2, <2>3, <2>4 DEF Calm
  <2>. QED  BY <1>1, <1>2, <1>4, <1>5, <2>2, <2>3, <2>4, <2>5, <2>7, <2>9, <2>10, <2>11, <2>12, <2>13,
               <2>14, <2>15, ExecStepEnds
<1>8. CASE /\ Landed(d) /\ exec' = [exec EXCEPT !.pc = "attach", !.answer = exchange[d]]
           /\ UNCHANGED <<orders, ledger>>
  <2>1. PICK s \in {"open", "filled", "rejected"} : s = exchange[d]
    BY <1>6, <1>8 DEF Landed
  <2>2. exec' = [exec EXCEPT !.pc = "attach", !.answer = s]
    BY <1>8, <2>1
  <2>3. exec' \in Execution
    BY <1>3, <2>2 DEF Execution, ExecPc
  <2>4. /\ exec' # None /\ exec'.client = d /\ exec'.intent = exec.intent
        /\ exec'.pc = "attach" /\ exec'.answer = s /\ exec'.applied
    BY <1>3, <1>4, <2>2, <2>3, NoneAssumption DEF Execution
  <2>5. ExecInv' /\ exec'.pc \in Placing
    BY <1>2, <2>1, <2>4 DEF ExecInv, Placing
  <2>. QED  BY <1>1, <1>2, <1>3, <1>4, <1>5, <1>8, <2>4, <2>5, PlacingStep DEF Calm
<1>9. CASE ~Landed(d) /\ exec' = [exec EXCEPT !.pc = "release"] /\ UNCHANGED <<orders, ledger>>
  <2>1. exchange[d] = "none"
    BY <1>6, <1>9 DEF Landed
  <2>2. /\ exec' # None /\ exec'.pc = "release" /\ exec'.client = d /\ exec'.intent = exec.intent
        /\ exec'.applied = exec.applied
    BY <1>3, <1>4, <1>9, GotoKeeps DEF ExecPc
  <2>3. ExecInv' /\ exec'.pc \in Placing
    BY <1>2, <1>3, <2>1, <2>2 DEF ExecInv, Placing
  <2>. QED  BY <1>1, <1>2, <1>3, <1>4, <1>5, <1>9, <2>2, <2>3, PlacingStep DEF Calm
<1>. QED  BY <1>4, <1>7, <1>8, <1>9, Zenon DEF ExecReconcile, Goto

\* The end of an execution whose unit is given back: a release or a rejection.
LEMMA UnitBack ==
  ASSUME SteadyInv, NEW d \in ClientIds, Holds(d), NEW k \in LedgerKeys, k \notin ledger.keys
  PROVE  LET m == Unlock(ledger, k)
         IN  m \in LedgerType /\ m.locked = ledger.locked - 1 /\ m.keys = ledger.keys \cup {k}
<1>1. ledger \in LedgerType /\ ledger.locked > 0
  BY HeldFacts DEF SteadyInv, Calm, Balance
<1>. QED  BY <1>1, LedgerSteps

\* ExecRelease: no order of it is on the exchange, or the intent is one given up in haste.
LEMMA SteadyRelease == SteadyInv /\ ExecRelease => SteadyInv'
<1>. SUFFICES ASSUME SteadyInv, ExecRelease PROVE SteadyInv'
  OBVIOUS
<1>1. PlaceInv' /\ PlaceInv /\ PlaceTypes /\ Calm
  BY ExecEndsPreserves DEF SteadyInv, PlaceInv
<1>2. /\ exec # None /\ exec.pc = "release" /\ UNCHANGED <<strategy, stop, stops, crashes>>
      /\ UNCHANGED <<poll, orders, worker, mappings, exchange, sender>> /\ exec' = None
  BY Zenon DEF ExecRelease, At, outside
<1>3. exec \in Execution /\ exec.intent \in IntentIds /\ exec.pc \in Placing /\ exec.applied
  BY <1>2, NoClientYet DEF Placing, SteadyInv, ExecInv
<1>4. PICK d \in ClientIds :
        /\ d = exec.client /\ mappings[d] # "none" /\ Doing(d) = "release"
        /\ InDoubt(d) = None /\ ~Owned(Known(d))
        /\ Key("settle", d) \notin ledger.keys /\ Key("not_found", d) \notin ledger.keys
        /\ Key("rejected", d) \notin ledger.keys /\ Key("missing_id", d) \notin ledger.keys
  BY <1>2, <1>3, NotTrackedYet
<1>5. Key("failed", exec.intent) \notin ledger.keys
  BY <1>2 DEF SteadyInv, IntentKeys
<1>6. PICK k \in LedgerKeys : /\ k = Key("missing_id", d) \/ k = Key("failed", exec.intent)
                              /\ ledger' = Unlock(ledger, k)
  <2>1. ledger' = Unlock(ledger, IF exec.error = "NO_ID" THEN Key("missing_id", d)
                                 ELSE Key("failed", exec.intent))
    BY <1>3, <1>4, Zenon DEF ExecRelease
  <2>. QED  BY <1>3, <2>1, KeyFacts
<1>7. Holds(d)
  BY <1>4 DEF Holds, Placing
<1>8. /\ ledger' \in LedgerType /\ ledger'.locked = ledger.locked - 1
      /\ ledger'.keys = ledger.keys \cup {k}
  BY <1>4, <1>5, <1>6, <1>7, UnitBack
<1>9. /\ \A w, r : w \notin {"failed", "missing_id"} =>
           (Key(w, r) \in ledger'.keys <=> Key(w, r) \in ledger.keys)
      /\ \A r : r # d => (Key("missing_id", r) \in ledger'.keys <=> Key("missing_id", r) \in ledger.keys)
      /\ \A r : r # exec.intent => (Key("failed", r) \in ledger'.keys <=> Key("failed", r) \in ledger.keys)
  BY <1>6, <1>8, KeyFacts
<1>10. /\ \A j \in IntentIds : j # exec.intent => intents'[j].status = intents[j].status
       /\ intents[exec.intent].status \notin Unsent => intents'[exec.intent].status \notin Unsent
  <2>1. UNCHANGED intents \/ SetStatus(exec.intent, "FAILED")
    BY Zenon DEF ExecRelease
  <2>. QED  BY <1>1, <1>3, <2>1, StatusKeeps DEF Unsent
<1>11. /\ InDoubt(d)' = None /\ Known(d)' = Known(d) /\ ~Owned(Known(d))'
       /\ Doing(d)' = "idle"
       /\ \A c \in ClientIds : InDoubt(c)' = InDoubt(c) /\ Known(c)' = Known(c)
  BY <1>2, <1>4 DEF InDoubt, Known, Owned, Doing
<1>12. OnlyAt(d)
  BY <1>2, <1>9, <1>11 DEF OnlyAt
<1>13. ClientOK(d)'
  <2>1. KnownInv(d)
    BY DEF SteadyInv, ClientOK
  <2>. QED  BY <1>2, <1>4, <1>9, <1>11, <2>1, PlacingOK
<1>14. ~Holds(d)'
  BY <1>11 DEF Holds, Placing
<1>15. ExecInv' /\ SlotFree'
  BY <1>2 DEF ExecInv, SlotFree
<1>16. IntentKeys'
  BY <1>2, <1>9, <1>10, IntentKeysStay
<1>17. PollInv'
  BY <1>2, <1>3, <1>4, <1>12, PollStaysApart
<1>18. hasty' = {} => hasty = {} /\ exchange[d] = "none"
  <2>1. hasty' = IF exec.doubt /\ exec.error \in Errors THEN hasty \cup {exec.intent} ELSE hasty
    BY DEF ExecRelease
  <2>2. exchange[d] # "none" => exec.doubt /\ exec.error \in Errors
    BY <1>2, <1>4 DEF SteadyInv, ExecInv
  <2>. QED  BY <2>1, <2>2
<1>19. OneOrderPerSlot'
  BY <1>2, <1>18 DEF SteadyInv, OneOrderPerSlot
<1>20. Calm'
  BY <1>1, <1>2, <1>8 DEF Calm
<1>. QED  BY <1>1, <1>2, <1>4, <1>7, <1>8, <1>10, <1>12, <1>13, <1>14, <1>15, <1>16, <1>17, <1>18,
             <1>19, <1>20, ExecStepEnds

\* ExecTrack: the order is tracked; one that filled at once is paid for.
LEMMA SteadyTrack == SteadyInv /\ ExecTrack => SteadyInv'
<1>. SUFFICES ASSUME SteadyInv, ExecTrack PROVE SteadyInv'
  OBVIOUS
<1>1. PlaceInv' /\ PlaceInv /\ PlaceTypes /\ Calm
  BY ExecTrackPreserves DEF SteadyInv, PlaceInv
<1>2. /\ exec # None /\ exec.pc = "track" /\ UNCHANGED <<strategy, stop, stops, crashes>>
      /\ UNCHANGED <<poll, hasty, worker, intents, mappings, exchange, sender>>
  BY Zenon DEF ExecTrack, At, outside
<1>3. exec \in Execution /\ exec.intent \in IntentIds /\ exec.pc \in Placing /\ exec.applied
  BY <1>2, NoClientYet DEF Placing, SteadyInv, ExecInv
<1>4. PICK d \in ClientIds :
        /\ d = exec.client /\ mappings[d] # "none" /\ Doing(d) = "track"
        /\ InDoubt(d) = None /\ ~Owned(Known(d))
        /\ Key("settle", d) \notin ledger.keys /\ Key("not_found", d) \notin ledger.keys
        /\ Key("rejected", d) \notin ledger.keys /\ Key("missing_id", d) \notin ledger.keys
  BY <1>2, <1>3, NotTrackedYet
<1>5. OneOrderPerSlot'
  BY <1>2 DEF SteadyInv, OneOrderPerSlot
<1>6. /\ exchange[d] # "none" /\ exec.answer \in {"open", "filled", "rejected"}
      /\ exec.answer # "open" => exchange[d] = exec.answer
  BY <1>2, <1>4 DEF SteadyInv, ExecInv
<1>7. KnownInv(d)
  BY DEF SteadyInv, ClientOK
<1>8. sender[d] = exec.intent
  BY <1>1, <1>2, <1>4, <1>6 DEF PlaceInv, SenderInv, ExchangeInv
<1>9. PICK s : /\ s = IF exec.answer = "open" THEN "pending_create" ELSE Normalize(exec.answer)
  OBVIOUS
<1>10. /\ s \in {"pending_create", "filled", "failed"}
       /\ s # "pending_create" => exchange[d] # "open"
       /\ exec.answer = "rejected" => s = "failed"
       /\ exec.answer # "cancelled"
  BY <1>6, <1>9 DEF Normalize
<1>11. PICK r : r = [client |-> d, hasId |-> TRUE, intent |-> exec.intent, status |-> s]
  OBVIOUS
<1>. DEFINE k == <<"id", d>>
<1>12. /\ r \in Tracked /\ r # None /\ r.client = d /\ r.hasId /\ r.intent = exec.intent
       /\ r.status = s /\ r.intent # None /\ OrderKey(r) = k
  <2>1. s \in Status /\ exec.intent # None
    BY <1>3, <1>10, IntentsAreNat DEF Status, Pollable, Terminal
  <2>2. r \in Tracked
    BY <1>3, <1>11, <2>1 DEF Tracked
  <2>. QED  BY <1>11, <2>1, <2>2, NoneAssumption DEF OrderKey
<1>. HIDE DEF k
<1>13. /\ orders' \in [TrackKeys -> Tracked \cup {None}]
       /\ \A x \in TrackKeys : orders'[x] = IF x = k THEN r ELSE orders[x]
       /\ ledger' = IF s = "filled" THEN Settle(ledger, Key("settle", d)) ELSE ledger
  <2>1. orders[k] = None \/ orders[k].status = "internal_missing"
    BY <1>4, <1>7 DEF Known, KnownInv, Owned, k
  <2>2. Upsert(orders, r)
    BY <1>4, <1>9, <1>11, Zenon DEF ExecTrack, Order
  <2>3. k = OrderKey(r) /\ k \in TrackKeys
    BY <1>12, ClientIdFacts DEF k
  <2>. QED  BY <1>1, <1>10, <1>12, <2>1, <2>2, <2>3, UpsertNew DEF Calm
<1>14. /\ Known(d)' = r /\ InDoubt(d)' = None
       /\ \A c \in ClientIds : c # d => InDoubt(c)' = InDoubt(c) /\ Known(c)' = Known(c)
       /\ orders'[<<"blank", 0>>] = orders[<<"blank", 0>>]
  BY <1>4, <1>13, ClientIdFacts, TrackKeyFacts DEF InDoubt, Known, k
<1>15. PICK p \in {"rejected", "acked"} : /\ exec' = [exec EXCEPT !.pc = p]
                                          /\ p = "rejected" => s = "failed"
  BY <1>6, <1>10, Zenon DEF ExecTrack, Goto
<1>16. /\ exec' # None /\ exec'.pc = p /\ exec'.client = d /\ exec'.intent = exec.intent
       /\ exec'.applied
  BY <1>3, <1>4, <1>15, GotoKeeps DEF ExecPc
<1>17. Doing(d)' = p
  BY <1>16 DEF Doing
<1>18. Holds(d)
  BY <1>4 DEF Holds, Placing
<1>19. /\ ledger' \in LedgerType
       /\ ledger'.locked = IF s = "filled" THEN ledger.locked - 1 ELSE ledger.locked
       /\ \A w, x : Key(w, x) \in ledger'.keys <=>
            Key(w, x) \in ledger.keys \/ (s = "filled" /\ w = "settle" /\ x = d)
  <2>1. CASE s = "filled"
    <3>1. ledger \in LedgerType /\ ledger.locked > 0
      BY <1>1, <1>18, HeldFacts DEF SteadyInv, Calm, Balance
    <3>2. Key("settle", d) \in LedgerKeys
      BY KeyFacts
    <3>3. /\ ledger' \in LedgerType /\ ledger'.locked = ledger.locked - 1
          /\ ledger'.keys = ledger.keys \cup {Key("settle", d)}
      BY <1>4, <1>13, <2>1, <3>1, <3>2, LedgerSteps
    <3>. QED  BY <2>1, <3>3, KeyFacts
  <2>2. CASE s # "filled"
    BY <1>1, <1>13, <2>2 DEF Calm
  <2>. QED  BY <2>1, <2>2
<1>20. Holds(d)' <=> s # "filled"
  <2>1. Owned(Known(d))' /\ Known(d)'.status = s
    BY <1>12, <1>14 DEF Owned
  <2>2. Doing(d)' \notin Placing /\ InDoubt(d)' = None
    BY <1>14, <1>17 DEF Placing
  <2>3. Key("rejected", d) \notin ledger'.keys
    BY <1>4, <1>19
  <2>. QED  BY <1>10, <2>1, <2>2, <2>3 DEF Holds
<1>21. OnlyAt(d)
  BY <1>2, <1>14, <1>19 DEF OnlyAt
<1>22. ClientOK(d)'
  <2>1. InDoubtInv(d)'
    BY <1>14 DEF InDoubtInv
  <2>2. KnownInv(d)'
    BY <1>2, <1>6, <1>8, <1>10, <1>12, <1>14, <1>17 DEF KnownInv, Terminal, Finishing
  <2>3. ClientKeys(d)'
    BY <1>4, <1>12, <1>14, <1>19 DEF ClientKeys, Owned
  <2>4. IntentInv(d)'
    BY <1>17 DEF IntentInv
  <2>. QED  BY <2>1, <2>2, <2>3, <2>4 DEF ClientOK
<1>23. ExecInv'
  BY <1>4, <1>12, <1>14, <1>15, <1>16 DEF ExecInv, Placing, Owned
<1>24. IntentKeys'
  <2>1. Key("failed", exec.intent) \notin ledger'.keys
    BY <1>2, <1>19 DEF SteadyInv, IntentKeys
  <2>2. exec'.pc \notin {"begin", "sent", "gate", "client", "reserve"}
    BY <1>16
  <2>. QED  BY <1>2, <1>16, <1>19, <2>1, <2>2, IntentKeysStay
<1>25. PollInv'
  BY <1>2, <1>3, <1>4, <1>21, PollStaysApart
<1>26. SlotFree'
  BY <1>2, <1>4, <1>16, SlotFreeStays DEF SteadyInv, PastGate, Placing
<1>27. Calm'
  BY <1>1, <1>2, <1>13, <1>14, <1>19 DEF Calm
<1>28. Owned(Known(d))'
  BY <1>12, <1>14 DEF Owned
<1>. QED  BY <1>1, <1>2, <1>4, <1>5, <1>16, <1>18, <1>19, <1>20, <1>21, <1>22, <1>23, <1>24, <1>25,
             <1>26, <1>27, <1>28, ExecStepEnds

\* A step of the execution once its order is tracked, or its last one: rows and exchange stay.
LEMMA TrackedStep ==
  ASSUME SteadyInv, PlaceInv', exec # None, exec.pc \in {"rejected"} \cup Finishing,
         \/ exec' = None
         \/ exec' # None /\ exec'.client = exec.client /\ exec'.intent = exec.intent
            /\ exec'.pc \in Finishing,
         UNCHANGED <<strategy, stop, stops, crashes, orders, poll, hasty, worker, mappings>>,
         UNCHANGED <<exchange, sender>>, ExecInv', ledger' \in LedgerType,
         NEW d \in ClientIds, d = exec.client,
         \A w, x : w # "rejected" \/ x # d =>
           (Key(w, x) \in ledger'.keys <=> Key(w, x) \in ledger.keys),
         \A i \in IntentIds : i # exec.intent => intents'[i].status = intents[i].status,
         intents'[exec.intent].status \notin Unsent,
         Key("rejected", d) \in ledger'.keys => exec.pc = "rejected" /\ exec' = None,
         exec' = None => intents'[exec.intent].status =
                           IF Key("rejected", d) \in ledger'.keys THEN "FAILED" ELSE "DONE",
         \/ (Holds(d)' <=> Holds(d)) /\ ledger'.locked = ledger.locked
         \/ Holds(d) /\ ~Holds(d)' /\ ledger'.locked = ledger.locked - 1
  PROVE  SteadyInv'
<1>1. Calm /\ ClientOK(d) /\ PlaceInv /\ exec.intent \in IntentIds
  BY NoClientYet DEF SteadyInv
<1>2. /\ \A c \in ClientIds : InDoubt(c)' = InDoubt(c) /\ Known(c)' = Known(c)
      /\ Owned(Known(d))' <=> Owned(Known(d))
      /\ Doing(d) = exec.pc /\ Doing(d)' \in {"idle"} \cup Finishing
      /\ Doing(d)' = "idle" => exec' = None \/ exec'.pc = "idle"
  BY DEF InDoubt, Known, Owned, Doing
<1>3. Doing(d)' = "idle" => exec' = None
  BY <1>2 DEF Finishing
<1>4. OnlyAt(d)
  BY <1>2 DEF OnlyAt
<1>5. sender[d] # None => sender[d] = exec.intent
  BY <1>1 DEF PlaceInv, SenderInv
<1>6. ClientOK(d)'
  <2>1. InDoubtInv(d)'
    BY <1>1, <1>2 DEF ClientOK, InDoubtInv
  <2>2. KnownInv(d)'
    BY <1>1, <1>2 DEF ClientOK, KnownInv
  <2>3. ClientKeys(d)'
    <3>1. /\ Key("settle", d) \in ledger'.keys <=> Key("settle", d) \in ledger.keys
          /\ Key("not_found", d) \in ledger'.keys <=> Key("not_found", d) \in ledger.keys
          /\ Key("missing_id", d) \in ledger'.keys <=> Key("missing_id", d) \in ledger.keys
      OBVIOUS
    <3>2. Key("missing_id", d) \notin ledger.keys
      BY <1>1, <1>2 DEF ClientOK, ClientKeys, Finishing
    <3>3. Key("rejected", d) \in ledger'.keys => Owned(Known(d)) /\ Known(d).status = "failed"
      BY DEF SteadyInv, ExecInv
    <3>4. Key("rejected", d) \in ledger'.keys => Doing(d)' = "idle"
      BY DEF Doing
    <3>. QED  BY <1>1, <1>2, <3>1, <3>2, <3>3, <3>4 DEF ClientOK, ClientKeys
  <2>4. IntentInv(d)'
    <3>1. Owned(Known(d)) => sender[d] # None
      BY <1>1 DEF ClientOK, KnownInv, Owned
    <3>2. ASSUME exec' = None, InDoubt(d) # None PROVE Key("rejected", d) \notin ledger'.keys
      <4>1. ~Owned(Known(d))
        BY <1>1, <3>2 DEF ClientOK, InDoubtInv
      <4>. QED  BY <4>1 DEF SteadyInv, ExecInv
    <3>. QED  BY <1>2, <1>3, <1>5, <3>1, <3>2 DEF IntentInv
  <2>. QED  BY <2>1, <2>2, <2>3, <2>4 DEF ClientOK
<1>7. PollInv' /\ OneOrderPerSlot'
  BY DEF SteadyInv, PollInv, OneOrderPerSlot, InDoubt, Known
<1>8. SlotFree'
  BY SlotFreeStays DEF SteadyInv, PastGate, Placing, Finishing
<1>9. IntentKeys'
  <2>1. Key("failed", exec.intent) \notin ledger'.keys
    BY DEF SteadyInv, IntentKeys
  <2>2. exec' = None \/ exec'.pc \notin {"begin", "sent", "gate", "client", "reserve"}
    BY DEF Finishing
  <2>3. exec.pc \notin {"begin", "sent"}
    BY DEF Finishing
  <2>. QED  BY <2>1, <2>2, <2>3, IntentKeysStay
<1>10. Calm'
  BY <1>1 DEF Calm
<1>11. exchange'[d] # "none" /\ hasty' = {} => InDoubt(d)' # None \/ Owned(Known(d))'
  <2>1. Doing(d) \notin Placing
    BY <1>2 DEF Placing, Finishing
  <2>. QED  BY <1>2, <2>1 DEF SteadyInv, Covered
<1>. QED  BY <1>4, <1>6, <1>7, <1>8, <1>9, <1>10, <1>11, ExecStepEnds

\* An execution with a tracked order has a client order id.
LEMMA TrackedClient ==
  ASSUME SteadyInv, exec # None, exec.pc \in {"rejected"} \cup Finishing
  PROVE  /\ exec.client \in ClientIds /\ Doing(exec.client) = exec.pc
         /\ ClientOK(exec.client) /\ Key("rejected", exec.client) \notin ledger.keys
         /\ intents[exec.intent].status \notin Unsent
<1>1. exec.client \in ClientIds
  BY NoClientYet DEF WithClient, Finishing
<1>2. Doing(exec.client) = exec.pc
  BY <1>1 DEF Doing
<1>3. ClientOK(exec.client)
  BY <1>1 DEF SteadyInv
<1>4. intents[exec.intent].status \notin Unsent
  BY DEF SteadyInv, PlaceInv, TurnInv, Finishing
<1>. QED  BY <1>1, <1>2, <1>3, <1>4 DEF ClientOK, ClientKeys, Finishing

\* ExecRejected: the unit of the failed order is given back.
LEMMA SteadyRejected == SteadyInv /\ ExecRejected => SteadyInv'
<1>. SUFFICES ASSUME SteadyInv, ExecRejected PROVE SteadyInv'
  OBVIOUS
<1>1. PlaceInv' /\ PlaceTypes
  BY ExecEndsPreserves DEF SteadyInv, PlaceInv
<1>2. /\ exec # None /\ exec.pc = "rejected" /\ UNCHANGED <<strategy, stop, stops, crashes>>
      /\ UNCHANGED <<orders, poll, hasty, worker, mappings, exchange, sender>>
      /\ exec' = None /\ SetStatus(exec.intent, "FAILED")
  BY Zenon DEF ExecRejected, At, outside
<1>3. PICK d \in ClientIds : /\ d = exec.client /\ Doing(d) = "rejected" /\ ClientOK(d)
                             /\ Key("rejected", d) \notin ledger.keys
  BY <1>2, TrackedClient
<1>4. exec.applied /\ Owned(Known(d)) /\ Known(d).status = "failed"
  BY <1>2, <1>3 DEF SteadyInv, ExecInv
<1>5. PICK k \in LedgerKeys : k = Key("rejected", d)
  BY KeyFacts
<1>6. ledger' = Unlock(ledger, k)
  BY <1>3, <1>4, <1>5, Zenon DEF ExecRejected
<1>7. Holds(d)
  BY <1>3, <1>4 DEF Holds
<1>8. /\ ledger' \in LedgerType /\ ledger'.locked = ledger.locked - 1
      /\ ledger'.keys = ledger.keys \cup {k}
  BY <1>3, <1>5, <1>6, <1>7, UnitBack
<1>9. /\ Key("rejected", d) \in ledger'.keys
      /\ \A w, x : w # "rejected" \/ x # d =>
           (Key(w, x) \in ledger'.keys <=> Key(w, x) \in ledger.keys)
  BY <1>5, <1>8, KeyFacts
<1>10. exec.intent \in IntentIds
  BY <1>2, NoClientYet
<1>11. /\ intents'[exec.intent].status = "FAILED"
       /\ \A i \in IntentIds : i # exec.intent => intents'[i].status = intents[i].status
  BY <1>1, <1>2, <1>10, StatusKeeps
<1>12. ~Holds(d)'
  <2>1. InDoubt(d) = None
    BY <1>3, <1>4 DEF ClientOK, InDoubtInv
  <2>2. InDoubt(d)' = None /\ Known(d)' = Known(d) /\ Doing(d)' = "idle"
    BY <1>2, <2>1 DEF InDoubt, Known, Doing
  <2>. QED  BY <1>4, <1>9, <2>2 DEF Holds, Placing
<1>13. ExecInv'
  BY <1>2 DEF ExecInv
<1>. QED  BY <1>1, <1>2, <1>3, <1>7, <1>8, <1>9, <1>11, <1>12, <1>13, TrackedStep DEF Unsent

\* ExecAcked, ExecDone and ExecMark.
LEMMA SteadyFinish == SteadyInv /\ (ExecAcked \/ ExecDone \/ ExecMark) => SteadyInv'
<1>. SUFFICES ASSUME SteadyInv, ExecAcked \/ ExecDone \/ ExecMark PROVE SteadyInv'
  OBVIOUS
<1>1. PlaceInv' /\ PlaceTypes /\ Calm
  BY ExecFinishPreserves DEF SteadyInv, PlaceInv
<1>2. /\ exec # None /\ UNCHANGED <<strategy, stop, stops, crashes>>
      /\ UNCHANGED <<orders, poll, hasty, worker, mappings, exchange, sender, ledger>>
      /\ \/ /\ SetStatus(exec.intent, "ACKED") /\ exec.pc = "acked"
            /\ exec' = [exec EXCEPT !.pc = "done"]
         \/ /\ SetStatus(exec.intent, "DONE") /\ exec.pc = "done"
            /\ exec' = [exec EXCEPT !.pc = "mark"]
         \/ UNCHANGED intents /\ exec.pc = "mark" /\ exec' = None
  BY Zenon DEF ExecAcked, ExecDone, ExecMark, At, Goto, outside
<1>3. exec.pc \in Finishing
  BY <1>2 DEF Finishing
<1>4. PICK d \in ClientIds : /\ d = exec.client /\ Doing(d) = exec.pc
                             /\ Key("rejected", d) \notin ledger.keys
                             /\ intents[exec.intent].status \notin Unsent
  BY <1>2, <1>3, TrackedClient
<1>5. exec \in Execution /\ exec.intent \in IntentIds
  BY <1>2, NoClientYet
<1>6. /\ \A i \in IntentIds : i # exec.intent => intents'[i].status = intents[i].status
      /\ intents'[exec.intent].status \notin Unsent
  BY <1>1, <1>2, <1>4, <1>5, StatusKeeps DEF Unsent
<1>7. \/ exec' = None /\ exec.pc = "mark" /\ UNCHANGED intents
      \/ /\ exec' # None /\ exec'.client = exec.client /\ exec'.intent = exec.intent
         /\ exec'.pc \in {"done", "mark"}
         /\ exec'.pc = "mark" => intents'[exec.intent].status = "DONE"
  BY <1>1, <1>2, <1>5, GotoKeeps, StatusKeeps DEF ExecPc
<1>8. ExecInv'
  BY <1>7 DEF ExecInv, Placing
<1>9. exec' = None => intents'[exec.intent].status = "DONE"
  BY <1>2, <1>7 DEF SteadyInv, ExecInv
<1>10. Holds(d)' <=> Holds(d)
  <2>1. Doing(d) \notin Placing /\ Doing(d)' \notin Placing
    BY <1>3, <1>4, <1>7 DEF Doing, Finishing, Placing
  <2>2. InDoubt(d)' = InDoubt(d) /\ Known(d)' = Known(d) /\ (Owned(Known(d))' <=> Owned(Known(d)))
    BY <1>2 DEF InDoubt, Known, Owned
  <2>3. Key("rejected", d) \in ledger'.keys <=> Key("rejected", d) \in ledger.keys
    BY <1>2
  <2>. QED  BY <2>1, <2>2, <2>3, Zenon DEF Holds
<1>11. \/ exec' = None
       \/ exec' # None /\ exec'.client = exec.client /\ exec'.intent = exec.intent
          /\ exec'.pc \in Finishing
  BY <1>7 DEF Finishing
<1>12. ledger' \in LedgerType
  BY <1>1, <1>2 DEF Calm
<1>. QED  BY <1>1, <1>2, <1>3, <1>4, <1>6, <1>8, <1>9, <1>10, <1>11, <1>12, TrackedStep

-----------------------------------------------------------------------------
(* The exchange and the tracker. *)

\* A step of the tracker or the exchange: the executions, the intents and the mappings stay.
LEMMA TrackerStep ==
  ASSUME SteadyInv, PlaceInv', NEW d \in ClientIds,
         UNCHANGED <<strategy, stop, stops, crashes, hasty, worker, mappings, exec, intents>>,
         sender' = sender, OnlyAt(d), Calm', ClientOK(d)', PollInv',
         \A c \in ClientIds : exchange'[c] = "open" => exchange[c] = "open",
         \A i \in IntentIds :
           /\ Key("reserve", i) \in ledger'.keys <=> Key("reserve", i) \in ledger.keys
           /\ Key("failed", i) \in ledger'.keys <=> Key("failed", i) \in ledger.keys,
         ExecInv',
         hasty' = {} /\ exchange'[d] # "none" =>
           Doing(d)' \in Placing \/ InDoubt(d)' # None \/ Owned(Known(d))',
         \/ (Holds(d)' <=> Holds(d)) /\ ledger'.locked = ledger.locked
         \/ Holds(d) /\ ~Holds(d)' /\ ledger'.locked = ledger.locked - 1
  PROVE  SteadyInv'
<1>1. \A c \in ClientIds : c # d => Same(c)
  BY StepApart
<1>2. exec # None => exec.intent \in IntentIds
  BY NoClientYet
<1>3. worker # None => worker \in IntentIds
  BY DEF SteadyInv, PlaceInv, PlaceTypes
<1>4. IntentKeys'
  BY <1>2 DEF SteadyInv, IntentKeys
<1>5. SlotFree'
  BY DEF SteadyInv, SlotFree
<1>6. OneOrderPerSlot'
  BY DEF SteadyInv, OneOrderPerSlot
<1>. QED  BY <1>1, <1>4, <1>5, <1>6, StepEnds

\* ExchangeMoves: an open order fills or is rejected.
LEMMA SteadyExchange == Steady /\ SteadyInv /\ ExchangeMoves => SteadyInv'
<1>. SUFFICES ASSUME Steady, SteadyInv, ExchangeMoves PROVE SteadyInv'
  OBVIOUS
<1>1. PlaceInv' /\ Calm
  BY ExchangePreserves DEF SteadyInv
<1>2. /\ UNCHANGED <<strategy, stop, stops, crashes, hasty, worker, mappings, exec, intents>>
      /\ UNCHANGED <<sender, ledger, orders, poll>>
  BY DEF ExchangeMoves, durable
<1>3. PICK d \in ClientIds, s \in Answers \ {"open"} :
        exchange[d] = "open" /\ exchange' = [exchange EXCEPT ![d] = s]
  BY <1>1, Zenon DEF ExchangeMoves, Calm
<1>4. s \in {"filled", "rejected"}
  BY PlacementAssumption DEF Steady
<1>5. /\ exchange' \in [ClientIds -> {"none", "open", "filled", "rejected"}]
      /\ \A c \in ClientIds : exchange'[c] = IF c = d THEN s ELSE exchange[c]
  BY <1>1, <1>3, <1>4 DEF Calm
<1>6. /\ \A c \in ClientIds : InDoubt(c)' = InDoubt(c) /\ Known(c)' = Known(c)
      /\ \A c \in ClientIds : Doing(c)' = Doing(c)
      /\ Owned(Known(d))' <=> Owned(Known(d))
  BY <1>2 DEF InDoubt, Known, Owned, Doing
<1>7. ClientOK(d)'
  <2>1. ClientOK(d)
    BY DEF SteadyInv
  <2>2. InDoubtInv(d)'
    BY <1>2, <1>3, <1>6, <2>1 DEF ClientOK, InDoubtInv
  <2>3. KnownInv(d)'
    BY <1>2, <1>3, <1>4, <1>5, <1>6, <2>1 DEF ClientOK, KnownInv
  <2>4. ClientKeys(d)' /\ IntentInv(d)'
    BY <1>2, <1>6, <2>1 DEF ClientOK, ClientKeys, IntentInv
  <2>. QED  BY <2>2, <2>3, <2>4 DEF ClientOK
<1>8. exec # None /\ exec.pc \in WithClient => exec.client \in ClientIds
  BY NoClientYet
<1>9. ExecInv'
  <2>1. \A c \in ClientIds : /\ exchange'[c] # "none" <=> exchange[c] # "none"
                             /\ exchange[c] # "open" => exchange'[c] = exchange[c]
    BY <1>3, <1>4, <1>5
  <2>2. ASSUME exec # None
        PROVE  LET c == exec.client IN
               /\ exec.pc \in Placing \cup {"reserve", "rejected"} => c \in ClientIds
               /\ exec.pc \in Placing \cup {"rejected"} => exec.applied
               /\ exec.pc = "reserve" => exchange'[c] = "none"
               /\ exec.pc \in {"check", "submit"} /\ exchange'[c] # "none" => exec.doubt
               /\ exec.pc = "release" /\ exchange'[c] # "none" => exec.doubt /\ exec.error \in Errors
               /\ exec.pc \in {"attach", "track"} =>
                    /\ exchange'[c] # "none" /\ exec.answer \in {"open", "filled", "rejected"}
                    /\ exec.answer # "open" => exchange'[c] = exec.answer
               /\ exec.pc = "rejected" => Owned(Known(c)) /\ Known(c).status = "failed"
               /\ exec.pc = "mark" => intents[exec.intent].status = "DONE"
    BY <1>8, <2>1, <2>2 DEF SteadyInv, ExecInv, Placing, WithClient
  <2>. QED  BY <1>2, <1>6, <2>2 DEF ExecInv, Owned, Known
<1>10. PollInv'
  <2>1. \A c \in ClientIds : /\ exchange'[c] # "none" <=> exchange[c] # "none"
                             /\ exchange[c] # "open" => exchange'[c] = exchange[c]
    BY <1>3, <1>4, <1>5
  <2>2. poll # None => poll.order.client \in ClientIds
    BY PollApart
  <2>3. poll # None => LET o == poll.order IN
           /\ InDoubt(o.client)' = InDoubt(o.client) /\ Known(o.client)' = Known(o.client)
    BY <1>2, <1>6, <2>2
  <2>. QED  BY <1>2, <2>1, <2>2, <2>3 DEF SteadyInv, PollInv
<1>11. OnlyAt(d)
  BY <1>2, <1>5, <1>6 DEF OnlyAt
<1>12. Holds(d)' <=> Holds(d)
  BY <1>2, <1>6, Zenon DEF Holds
<1>13. exchange'[d] # "none" /\ hasty' = {} =>
         Doing(d)' \in Placing \/ InDoubt(d)' # None \/ Owned(Known(d))'
  BY <1>2, <1>3, <1>6 DEF SteadyInv, Covered
<1>14. Calm'
  BY <1>1, <1>2, <1>5 DEF Calm
<1>15. \A c \in ClientIds : exchange'[c] = "open" => exchange[c] = "open"
  BY <1>3, <1>5
<1>. QED  BY <1>1, <1>2, <1>7, <1>9, <1>10, <1>11, <1>12, <1>13, <1>14, <1>15, TrackerStep

\* The keys of the tracker.
LEMMA TrackKeyCases ==
  \A k \in TrackKeys :
    k = <<"blank", 0>> \/ \E c \in ClientIds : k = <<"client", c>> \/ k = <<"id", c>>
BY DEF TrackKeys

\* An order that is due for a poll.
LEMMA DueFacts ==
  ASSUME SteadyInv, NEW k \in TrackKeys, Due(orders[k])
  PROVE  LET o == orders[k] IN
         /\ o \in Tracked /\ o.intent # None /\ o.status \in {"pending_create", "open"}
         /\ o.client \in ClientIds
         /\ ~o.hasId => InDoubt(o.client) = o
         /\ o.hasId => Known(o.client) = o /\ exchange[o.client] # "none"
<1>. DEFINE o == orders[k]
<1>1. Calm /\ \A c \in ClientIds : ClientOK(c)
  BY DEF SteadyInv
<1>2. o # None /\ o.intent # None /\ o.status \in Pollable
  BY Zenon DEF Due, Own, TrackedOrders
<1>3. o \in Tracked /\ k # <<"blank", 0>>
  BY <1>1, <1>2 DEF Calm
<1>4. PICK c \in ClientIds : k = <<"client", c>> \/ k = <<"id", c>>
  BY <1>3, TrackKeyCases
<1>5. CASE k = <<"client", c>>
  <2>1. o = InDoubt(c)
    BY <1>5 DEF InDoubt
  <2>2. o.client = c /\ ~o.hasId /\ o.status \in {"pending_create", "failed"}
    BY <1>1, <1>2, <2>1 DEF ClientOK, InDoubtInv
  <2>. QED  BY <1>2, <1>3, <2>1, <2>2 DEF Pollable
<1>6. CASE k = <<"id", c>>
  <2>1. o = Known(c)
    BY <1>6 DEF Known
  <2>2. /\ o.client = c /\ o.hasId /\ exchange[c] # "none"
        /\ o.status \in {"pending_create", "open", "filled", "failed", "external_missing"}
    BY <1>1, <1>2, <2>1 DEF ClientOK, KnownInv
  <2>. QED  BY <1>2, <1>3, <2>1, <2>2 DEF Pollable
<1>. QED  BY <1>4, <1>5, <1>6

\* PollAsk: the strategy runs, so the exchange is asked.
LEMMA SteadyPollAsk == SteadyInv /\ (\E k \in TrackKeys : PollAsk(k)) => SteadyInv'
<1>. SUFFICES ASSUME SteadyInv, NEW k \in TrackKeys, PollAsk(k) PROVE SteadyInv'
  OBVIOUS
<1>1. PlaceInv' /\ Calm
  BY OthersPreserve, Zenon DEF SteadyInv, Polls
<1>2. /\ UNCHANGED <<strategy, stop, stops, crashes, hasty, worker, mappings, exec, intents>>
      /\ UNCHANGED <<sender, exchange, orders, ledger>>
  BY <1>1, Zenon DEF PollAsk, outside, Calm
<1>3. PICK o : o = orders[k]
  OBVIOUS
<1>4. /\ o \in Tracked /\ o.intent # None /\ o.status \in {"pending_create", "open"}
      /\ o.client \in ClientIds
      /\ ~o.hasId => InDoubt(o.client) = o
      /\ o.hasId => Known(o.client) = o /\ exchange[o.client] # "none"
  <2>1. Due(orders[k])
    BY DEF PollAsk
  <2>. QED  BY <1>3, <2>1, DueFacts
<1>5. PICK a : a = IF Landed(o.client) THEN exchange[o.client] ELSE None
  OBVIOUS
<1>6. poll' = [order |-> o, answer |-> a]
  BY <1>1, <1>3, <1>5, Zenon DEF PollAsk, Calm
<1>7. exchange[o.client] \in {"none", "open", "filled", "rejected"}
  BY <1>1, <1>4 DEF Calm
<1>8. None \notin {"open", "filled", "rejected"}
  BY NoneAssumption
<1>9. PollInv'
  <2>1. /\ a \in {None, "open", "filled", "rejected"}
        /\ a = None => exchange[o.client] = "none"
        /\ a # None => a = exchange[o.client]
        /\ exchange[o.client] # "none" => a # None
    BY <1>5, <1>7, <1>8 DEF Landed
  <2>2. InDoubt(o.client)' = InDoubt(o.client) /\ Known(o.client)' = Known(o.client)
    BY <1>2 DEF InDoubt, Known
  <2>3. poll'.order = o /\ poll'.answer = a
    BY <1>6
  <2>. QED  BY <1>2, <1>4, <1>8, <2>1, <2>2, <2>3 DEF PollInv
<1>10. ExecInv' /\ IntentKeys' /\ SlotFree' /\ OneOrderPerSlot'
  BY <1>2 DEF SteadyInv, ExecInv, IntentKeys, SlotFree, OneOrderPerSlot, Known, Owned
<1>11. \A c \in ClientIds : Same(c)
  BY <1>2 DEF Same, Doing, InDoubt, Known
<1>12. Calm'
  BY <1>1, <1>2 DEF Calm
<1>13. None \notin ClientIds
  BY ClientIdFacts
<1>. QED  BY <1>1, <1>2, <1>9, <1>10, <1>11, <1>12, <1>13, StepEnds

\* The order being polled, unless the snapshot missed it: it holds a unit.
LEMMA PolledFacts ==
  ASSUME SteadyInv, NEW o, NEW d, poll # None, poll.order = o, d = o.client,
         ~o.hasId \/ Known(d) = o
  PROVE  /\ d \in ClientIds /\ o \in Tracked /\ o # None /\ o.hasId \in BOOLEAN /\ o.intent # None
         /\ Doing(d) \in {"idle", "rejected"} \cup Finishing /\ Doing(d) \notin Placing
         /\ Holds(d) /\ ClientOK(d)
         /\ Key("settle", d) \notin ledger.keys /\ Key("not_found", d) \notin ledger.keys
         /\ Key("rejected", d) \notin ledger.keys
         /\ ~o.hasId => InDoubt(d) = o /\ o.status = "pending_create" /\ ~Owned(Known(d))
         /\ o.hasId => InDoubt(d) = None /\ o.status \in {"pending_create", "open"}
         /\ exec # None /\ exec.pc = "rejected" => exec.client # d
<1>1. /\ o \in Tracked /\ o.intent # None /\ o.status \in {"pending_create", "open"}
      /\ ~o.hasId => InDoubt(d) = o
  BY DEF SteadyInv, PollInv
<1>2. /\ o.hasId \in BOOLEAN /\ o # None /\ d \in ClientIds
      /\ Doing(d) \in {"idle", "rejected"} \cup Finishing /\ Doing(d) \notin Placing
  BY <1>1, NoneAssumption, PollApart DEF Tracked, Placing, Finishing
<1>3. ClientOK(d) /\ ExecInv
  BY <1>2 DEF SteadyInv
<1>4. CASE ~o.hasId
  <2>1. InDoubt(d) = o /\ o.status = "pending_create" /\ ~Owned(Known(d))
    BY <1>1, <1>2, <1>3, <1>4 DEF ClientOK, InDoubtInv
  <2>2. /\ Key("settle", d) \notin ledger.keys /\ Key("not_found", d) \notin ledger.keys
        /\ Key("rejected", d) \notin ledger.keys
    BY <1>3, <2>1 DEF ClientOK, ClientKeys
  <2>3. exec # None /\ exec.pc = "rejected" => exec.client # d
    BY <1>3, <2>1 DEF ExecInv
  <2>4. Holds(d)
    BY <1>2, <2>1 DEF Holds
  <2>. QED  BY <1>1, <1>2, <1>3, <1>4, <2>1, <2>2, <2>3, <2>4
<1>5. CASE o.hasId
  <2>1. Known(d) = o /\ Owned(Known(d)) /\ InDoubt(d) = None
    BY <1>1, <1>2, <1>3, <1>5 DEF ClientOK, InDoubtInv, Owned
  <2>2. /\ Key("settle", d) \notin ledger.keys /\ Key("not_found", d) \notin ledger.keys
        /\ Key("rejected", d) \notin ledger.keys
    BY <1>1, <1>3, <2>1 DEF ClientOK, ClientKeys
  <2>3. exec # None /\ exec.pc = "rejected" => exec.client # d
    BY <1>1, <1>3, <2>1 DEF ExecInv
  <2>4. Holds(d)
    BY <1>1, <2>1 DEF Holds
  <2>. QED  BY <1>1, <1>2, <1>3, <1>5, <2>1, <2>2, <2>3, <2>4
<1>. QED  BY <1>2, <1>4, <1>5

\* What an execution knows of its order stays, unless that order is one it has rejected.
LEMMA ExecKnows ==
  ASSUME ExecInv, UNCHANGED <<exec, intents, exchange>>,
         exec # None /\ exec.pc = "rejected" => Known(exec.client)' = Known(exec.client)
  PROVE  ExecInv'
BY SMT DEF ExecInv, Owned

\* A poll that changes nothing.
LEMMA PollIdle ==
  ASSUME SteadyInv, PlaceInv', poll # None, poll' = None,
         UNCHANGED <<strategy, stop, stops, crashes, hasty, worker, mappings, exec, intents>>,
         UNCHANGED <<sender, exchange, orders, ledger>>
  PROVE  SteadyInv'
<1>1. \A c \in ClientIds : Same(c)
  BY DEF Same, Doing, InDoubt, Known
<1>2. ExecInv' /\ IntentKeys' /\ SlotFree' /\ OneOrderPerSlot' /\ Calm' /\ PollInv'
  BY DEF SteadyInv, ExecInv, IntentKeys, SlotFree, OneOrderPerSlot, Known, Owned, Calm, PollInv
<1>. QED  BY <1>1, <1>2, ClientIdFacts, StepEnds

\* An order in doubt that the exchange does not know failed, and its unit is given back.
LEMMA PollFails ==
  ASSUME SteadyInv, PlaceInv', poll # None, poll' = None,
         UNCHANGED <<strategy, stop, stops, crashes, hasty, worker, mappings, exec, intents>>,
         UNCHANGED <<sender, exchange>>,
         NEW o, o = poll.order, NEW d, d = o.client, ~o.hasId, poll.answer = None,
         NEW f, f = [o EXCEPT !.status = "failed"],
         IF Accepted(orders[<<"client", d>>], f)
         THEN orders' = [orders EXCEPT ![<<"client", d>>] = f] ELSE UNCHANGED orders,
         ledger' = Unlock(ledger, Key("not_found", d))
  PROVE  SteadyInv'
<1>1. /\ d \in ClientIds /\ o \in Tracked /\ o # None /\ o.intent # None
      /\ Doing(d) \in {"idle", "rejected"} \cup Finishing /\ Doing(d) \notin Placing
      /\ Holds(d) /\ ClientOK(d)
      /\ Key("settle", d) \notin ledger.keys /\ Key("not_found", d) \notin ledger.keys
      /\ Key("rejected", d) \notin ledger.keys
      /\ InDoubt(d) = o /\ o.status = "pending_create" /\ ~Owned(Known(d))
  BY PolledFacts
<1>2. Calm /\ exchange[d] = "none"
  BY <1>1 DEF SteadyInv, PollInv
<1>3. /\ f \in Tracked /\ f # None /\ f.client = d /\ ~f.hasId /\ f.intent = o.intent
      /\ f.status = "failed"
  <2>1. f \in Tracked
    BY <1>1 DEF Tracked, Status, Terminal
  <2>. QED  BY <1>1, <2>1, NoneAssumption DEF Tracked
<1>4. Accepted(orders[<<"client", d>>], f)
  BY <1>1, <1>3 DEF InDoubt, Accepted, Accepts, ValidNext
<1>. DEFINE k == <<"client", d>>
<1>5. orders' = [orders EXCEPT ![k] = f] /\ k \in TrackKeys
  BY <1>1, <1>4, ClientIdFacts
<1>. HIDE DEF k
<1>6. /\ orders' \in [TrackKeys -> Tracked \cup {None}]
      /\ \A x \in TrackKeys : orders'[x] = IF x = k THEN f ELSE orders[x]
  BY <1>2, <1>3, <1>5 DEF Calm
<1>7. /\ InDoubt(d)' = f /\ \A c \in ClientIds : Known(c)' = Known(c)
      /\ \A c \in ClientIds : c # d => InDoubt(c)' = InDoubt(c)
      /\ orders'[<<"blank", 0>>] = orders[<<"blank", 0>>]
  BY <1>1, <1>6, ClientIdFacts, TrackKeyFacts DEF InDoubt, Known, k
<1>8. PICK q \in LedgerKeys : q = Key("not_found", d)
  BY <1>1, KeyFacts
<1>9. /\ ledger' \in LedgerType /\ ledger'.locked = ledger.locked - 1
      /\ ledger'.keys = ledger.keys \cup {q}
  BY <1>1, <1>8, UnitBack
<1>10. /\ Key("not_found", d) \in ledger'.keys
       /\ \A w, x : w # "not_found" \/ x # d =>
            (Key(w, x) \in ledger'.keys <=> Key(w, x) \in ledger.keys)
  BY <1>8, <1>9, KeyFacts
<1>11. Doing(d)' = Doing(d) /\ Known(d)' = Known(d) /\ (Owned(Known(d))' <=> Owned(Known(d)))
  BY <1>1, <1>7 DEF Doing, Owned
<1>12. ClientOK(d)'
  <2>1. InDoubtInv(d)'
    BY <1>1, <1>2, <1>3, <1>7, <1>11 DEF ClientOK, InDoubtInv
  <2>2. KnownInv(d)'
    BY <1>1, <1>11 DEF ClientOK, KnownInv
  <2>3. ClientKeys(d)'
    BY <1>1, <1>3, <1>7, <1>10, <1>11 DEF ClientOK, ClientKeys
  <2>4. IntentInv(d)'
    BY <1>1, <1>3, <1>7, <1>10, <1>11 DEF ClientOK, IntentInv
  <2>. QED  BY <2>1, <2>2, <2>3, <2>4 DEF ClientOK
<1>13. ~Holds(d)'
  BY <1>1, <1>3, <1>7, <1>11 DEF Holds
<1>14. exec # None /\ exec.pc = "rejected" => exec.client \in ClientIds
  BY NoClientYet DEF WithClient
<1>15. ExecInv'
  BY <1>7, <1>14, ExecKnows DEF SteadyInv
<1>16. PollInv' /\ OnlyAt(d) /\ Calm'
  BY <1>2, <1>6, <1>7, <1>9, <1>10 DEF PollInv, OnlyAt, Calm
<1>. QED  BY <1>1, <1>2, <1>9, <1>10, <1>12, <1>13, <1>15, <1>16, TrackerStep

\* An order the tracker accepts and that had not ended.
LEMMA UpsertMoves ==
  ASSUME NEW tr \in [TrackKeys -> Tracked \cup {None}], NEW o \in Tracked, NEW k \in TrackKeys,
         k = OrderKey(o), Accepted(tr[k], o), tr[k] = None \/ tr[k].status \notin Terminal,
         o.status \in {"open", "filled", "failed"}, Upsert(tr, o)
  PROVE  /\ orders' \in [TrackKeys -> Tracked \cup {None}]
         /\ \A x \in TrackKeys : orders'[x] = IF x = k THEN o ELSE tr[x]
         /\ ledger' = IF o.status = "filled" THEN Settle(ledger, Key("settle", o.client)) ELSE ledger
<1>1. orders' = [tr EXCEPT ![k] = o] /\ ledger' = ReportEffect(ledger, tr[k], o)
  BY Zenon DEF Upsert
<1>2. ledger' = IF o.status = "filled" THEN Settle(ledger, Key("settle", o.client)) ELSE ledger
  BY <1>1 DEF ReportEffect
<1>. QED  BY <1>1, <1>2

\* An order that the tracker refuses changes nothing but the map it was given.
LEMMA UpsertRefused ==
  ASSUME NEW tr, NEW o, ~Accepted(tr[OrderKey(o)], o), Upsert(tr, o)
  PROVE  orders' = tr /\ ledger' = ledger
BY Zenon DEF Upsert

\* The polled order as the exchange tells it, and the map it is merged into.
Answered(o) == [o EXCEPT !.hasId = TRUE, !.status = Normalize(poll.answer)]
Without(o) == IF ~o.hasId THEN [orders EXCEPT ![OrderKey(o)] = None] ELSE orders

\* What the exchange says of the polled order, when it is not refused: it is tracked by its
\* exchange order id, and paid for when it filled.
LEMMA PollMerges ==
  ASSUME SteadyInv, poll # None, NEW o, o = poll.order, NEW d, d = o.client,
         poll.answer # None, ~o.hasId \/ Known(d) = o,
         NEW n, n = Answered(o), NEW t, t = Without(o), Upsert(t, n)
  PROVE  /\ n \in Tracked /\ n # None /\ n.client = d /\ n.hasId /\ n.intent = o.intent
         /\ n.status = Normalize(poll.answer) /\ n.status \in {"open", "filled", "failed"}
         /\ orders' \in [TrackKeys -> Tracked \cup {None}]
         /\ InDoubt(d)' = None /\ Known(d)' = n
         /\ \A c \in ClientIds : c # d => InDoubt(c)' = InDoubt(c) /\ Known(c)' = Known(c)
         /\ orders'[<<"blank", 0>>] = orders[<<"blank", 0>>]
         /\ ledger' = IF n.status = "filled" THEN Settle(ledger, Key("settle", d)) ELSE ledger
<1>1. /\ d \in ClientIds /\ o \in Tracked /\ o # None /\ o.hasId \in BOOLEAN /\ o.intent # None
      /\ ClientOK(d)
      /\ ~o.hasId => InDoubt(d) = o /\ o.status = "pending_create" /\ ~Owned(Known(d))
      /\ o.hasId => InDoubt(d) = None /\ o.status \in {"pending_create", "open"}
  BY PolledFacts
<1>2. Calm /\ poll.answer \in {"open", "filled", "rejected"}
  BY DEF SteadyInv, PollInv
<1>3. PICK s \in {"open", "filled", "failed"} : s = Normalize(poll.answer)
  BY <1>2 DEF Normalize
<1>4. /\ n \in Tracked /\ n # None /\ n.client = d /\ n.hasId /\ n.intent = o.intent
      /\ n.status = s
  <2>1. s \in Status
    BY <1>3 DEF Status, Terminal, Pollable
  <2>2. n = [o EXCEPT !.hasId = TRUE, !.status = s]
    BY <1>3 DEF Answered
  <2>3. n \in Tracked
    BY <1>1, <2>1, <2>2 DEF Tracked
  <2>. QED  BY <1>1, <2>2, <2>3, NoneAssumption DEF Tracked
<1>. DEFINE k == <<"id", d>>
            j == <<"client", d>>
<1>5. /\ k = OrderKey(n) /\ k \in TrackKeys /\ j \in TrackKeys /\ j # k
      /\ ~o.hasId => j = OrderKey(o)
  BY <1>1, <1>4, ClientIdFacts, TrackKeyFacts DEF OrderKey
<1>6. t = IF ~o.hasId THEN [orders EXCEPT ![j] = None] ELSE orders
  BY <1>5 DEF Without
<1>7. t[k] = Known(d)
  BY <1>2, <1>5, <1>6 DEF Known, Calm
<1>8. Accepted(Known(d), n) /\ (Known(d) = None \/ Known(d).status \notin Terminal)
  <2>1. CASE ~o.hasId
    <3>1. Known(d) # None => Known(d).status = "internal_missing"
      BY <1>1, <2>1 DEF ClientOK, KnownInv, Owned
    <3>. QED  BY <1>4, <3>1 DEF Accepted, Status, Terminal, Pollable
  <2>2. CASE o.hasId
    <3>1. Known(d) = o /\ o.status \in {"pending_create", "open"}
      BY <1>1, <2>2
    <3>. QED  BY <1>4, <3>1 DEF Accepted, Accepts, ValidNext, Terminal
  <2>. QED  BY <1>1, <2>1, <2>2
<1>9. /\ t \in [TrackKeys -> Tracked \cup {None}]
      /\ \A x \in TrackKeys : t[x] = IF x = j /\ ~o.hasId THEN None ELSE orders[x]
  BY <1>1, <1>2, <1>5, <1>6 DEF Calm
<1>. HIDE DEF k, j
<1>10. /\ orders' \in [TrackKeys -> Tracked \cup {None}]
       /\ \A x \in TrackKeys : orders'[x] = IF x = k THEN n ELSE t[x]
       /\ ledger' = IF n.status = "filled" THEN Settle(ledger, Key("settle", d)) ELSE ledger
  <2>1. Accepted(t[k], n) /\ (t[k] = None \/ t[k].status \notin Terminal)
    BY <1>7, <1>8
  <2>2. n \in Tracked /\ n.status \in {"open", "filled", "failed"}
    BY <1>3, <1>4
  <2>3. /\ orders' \in [TrackKeys -> Tracked \cup {None}]
        /\ \A x \in TrackKeys : orders'[x] = IF x = k THEN n ELSE t[x]
        /\ ledger' = IF n.status = "filled" THEN Settle(ledger, Key("settle", n.client)) ELSE ledger
    BY <1>5, <1>9, <2>1, <2>2, UpsertMoves
  <2>4. n.client = d
    BY <1>4
  <2>. QED  BY <2>3, <2>4
<1>11. /\ Known(d)' = n /\ (InDoubt(d)' = IF ~o.hasId THEN None ELSE InDoubt(d))
       /\ \A c \in ClientIds : c # d => InDoubt(c)' = InDoubt(c) /\ Known(c)' = Known(c)
       /\ orders'[<<"blank", 0>>] = orders[<<"blank", 0>>]
  BY <1>1, <1>9, <1>10, ClientIdFacts, TrackKeyFacts DEF InDoubt, Known, k, j
<1>. QED  BY <1>1, <1>3, <1>4, <1>10, <1>11

\* An order the exchange knows is tracked by its exchange order id, and keeps the invariant.
LEMMA PollTracks ==
  ASSUME SteadyInv, PlaceInv', poll # None, poll' = None,
         UNCHANGED <<strategy, stop, stops, crashes, hasty, worker, mappings, exec, intents>>,
         UNCHANGED <<sender, exchange>>,
         NEW o, o = poll.order, NEW d, d = o.client,
         poll.answer # None, ~o.hasId \/ Known(d) = o,
         NEW n, n = Answered(o), NEW t, t = Without(o), Upsert(t, n)
  PROVE  SteadyInv'
<1>1. /\ d \in ClientIds /\ o \in Tracked /\ o # None /\ o.hasId \in BOOLEAN /\ o.intent # None
      /\ Doing(d) \in {"idle", "rejected"} \cup Finishing /\ Doing(d) \notin Placing
      /\ Holds(d) /\ ClientOK(d)
      /\ Key("settle", d) \notin ledger.keys /\ Key("not_found", d) \notin ledger.keys
      /\ Key("rejected", d) \notin ledger.keys
      /\ ~o.hasId => InDoubt(d) = o /\ o.status = "pending_create" /\ ~Owned(Known(d))
      /\ o.hasId => InDoubt(d) = None /\ o.status \in {"pending_create", "open"}
      /\ exec # None /\ exec.pc = "rejected" => exec.client # d
  BY PolledFacts
<1>2. /\ n # None /\ n.client = d /\ n.hasId /\ n.intent = o.intent
      /\ n.status = Normalize(poll.answer) /\ n.status \in {"open", "filled", "failed"}
      /\ orders' \in [TrackKeys -> Tracked \cup {None}]
      /\ InDoubt(d)' = None /\ Known(d)' = n
      /\ \A c \in ClientIds : c # d => InDoubt(c)' = InDoubt(c) /\ Known(c)' = Known(c)
      /\ orders'[<<"blank", 0>>] = orders[<<"blank", 0>>]
      /\ ledger' = IF n.status = "filled" THEN Settle(ledger, Key("settle", d)) ELSE ledger
  BY PollMerges
<1>3. /\ Calm /\ PlaceInv /\ poll.answer \in {"open", "filled", "rejected"} /\ exchange[d] # "none"
      /\ poll.answer # "open" => exchange[d] = poll.answer
  BY DEF SteadyInv, PollInv
<1>4. n.status \in Terminal => exchange[d] # "open"
  BY <1>2, <1>3 DEF Normalize, Terminal
<1>5. /\ ledger' \in LedgerType
      /\ ledger'.locked = IF n.status = "filled" THEN ledger.locked - 1 ELSE ledger.locked
      /\ \A w, x : Key(w, x) \in ledger'.keys <=>
           Key(w, x) \in ledger.keys \/ (n.status = "filled" /\ w = "settle" /\ x = d)
  <2>1. CASE n.status = "filled"
    <3>1. ledger \in LedgerType /\ ledger.locked > 0
      BY <1>1, HeldFacts DEF SteadyInv, Calm, Balance
    <3>2. Key("settle", d) \in LedgerKeys
      BY <1>1, KeyFacts
    <3>3. /\ ledger' \in LedgerType /\ ledger'.locked = ledger.locked - 1
          /\ ledger'.keys = ledger.keys \cup {Key("settle", d)}
      BY <1>1, <1>2, <2>1, <3>1, <3>2, LedgerSteps
    <3>. QED  BY <2>1, <3>3, KeyFacts
  <2>2. CASE n.status # "filled"
    BY <1>2, <1>3, <2>2 DEF Calm
  <2>. QED  BY <2>1, <2>2
<1>6. Doing(d)' = Doing(d) /\ Owned(Known(d))'
  BY <1>1, <1>2 DEF Doing, Owned
<1>7. o.intent = sender[d] /\ (Doing(d) = "idle" => intents[sender[d]].status = "DONE")
  <2>1. sender[d] # None
    BY <1>1, <1>3 DEF PlaceInv, ExchangeInv
  <2>2. CASE ~o.hasId
    BY <1>1, <2>1, <2>2 DEF ClientOK, InDoubtInv, IntentInv
  <2>3. CASE o.hasId
    <3>1. Known(d) = o /\ Owned(Known(d))
      BY <1>1, <2>3 DEF Owned
    <3>. QED  BY <1>1, <3>1 DEF ClientOK, KnownInv, IntentInv
  <2>. QED  BY <1>1, <2>2, <2>3
<1>8. ClientOK(d)'
  <2>1. InDoubtInv(d)'
    BY <1>2 DEF InDoubtInv
  <2>2. KnownInv(d)'
    BY <1>1, <1>2, <1>3, <1>4, <1>6, <1>7 DEF KnownInv
  <2>3. ClientKeys(d)'
    BY <1>1, <1>2, <1>5, <1>6 DEF ClientOK, ClientKeys
  <2>4. IntentInv(d)'
    BY <1>1, <1>2, <1>5, <1>6, <1>7 DEF IntentInv
  <2>. QED  BY <2>1, <2>2, <2>3, <2>4 DEF ClientOK
<1>9. Holds(d)' <=> n.status # "filled"
  BY <1>1, <1>2, <1>5, <1>6 DEF Holds
<1>10. exec # None /\ exec.pc = "rejected" => exec.client \in ClientIds
  BY NoClientYet DEF WithClient
<1>11. ExecInv'
  BY <1>1, <1>2, <1>10, ExecKnows DEF SteadyInv
<1>12. PollInv' /\ OnlyAt(d) /\ Calm'
  BY <1>2, <1>3, <1>5 DEF PollInv, OnlyAt, Calm
<1>. QED  BY <1>1, <1>5, <1>6, <1>8, <1>9, <1>11, <1>12, TrackerStep

\* PollApply.
LEMMA SteadyPollApply == SteadyInv /\ PollApply => SteadyInv'
<1>. SUFFICES ASSUME SteadyInv, PollApply PROVE SteadyInv'
  OBVIOUS
<1>1. PlaceInv' /\ Calm
  BY OthersPreserve, Zenon DEF SteadyInv, Polls
<1>2. /\ UNCHANGED <<strategy, stop, stops, crashes, hasty, worker, mappings, exec, intents>>
      /\ UNCHANGED <<sender, exchange>> /\ poll # None /\ poll' = None
  BY Zenon DEF PollApply, outside
<1>3. PICK o, d : o = poll.order /\ d = o.client
  OBVIOUS
<1>4. /\ o \in Tracked /\ d \in ClientIds /\ o # None /\ o.hasId \in BOOLEAN
      /\ o.hasId => /\ Known(d) = o \/ Known(d) = [o EXCEPT !.status = "external_missing"]
                    /\ poll.answer # None
  BY <1>2, <1>3, PollApart, NoneAssumption DEF SteadyInv, PollInv, Tracked
<1>5. PICK f : f = [o EXCEPT !.status = "failed"]
  OBVIOUS
<1>6. PICK n, t : n = Answered(o) /\ t = Without(o)
  OBVIOUS
<1>7. \/ UNCHANGED <<orders, ledger>>
      \/ /\ poll.answer = None /\ ~o.hasId /\ ledger' = Unlock(ledger, Key("not_found", d))
         /\ IF Accepted(orders[OrderKey(o)], f)
            THEN orders' = [orders EXCEPT ![OrderKey(o)] = f] ELSE UNCHANGED orders
      \/ poll.answer # None /\ Upsert(t, n)
  BY <1>3, <1>5, <1>6, Zenon DEF PollApply, Answered, Without
<1>8. CASE UNCHANGED <<orders, ledger>>
  BY <1>1, <1>2, <1>8, PollIdle
<1>9. CASE /\ poll.answer = None /\ ~o.hasId /\ ledger' = Unlock(ledger, Key("not_found", d))
           /\ IF Accepted(orders[OrderKey(o)], f)
              THEN orders' = [orders EXCEPT ![OrderKey(o)] = f] ELSE UNCHANGED orders
  <2>1. OrderKey(o) = <<"client", d>>
    BY <1>3, <1>9 DEF OrderKey
  <2>2. IF Accepted(orders[<<"client", d>>], f)
        THEN orders' = [orders EXCEPT ![<<"client", d>>] = f] ELSE UNCHANGED orders
    BY <1>9, <2>1
  <2>. QED  BY <1>1, <1>2, <1>3, <1>5, <1>9, <2>2, PollFails
<1>10. CASE poll.answer # None /\ Upsert(t, n)
  <2>1. CASE ~o.hasId \/ Known(d) = o
    BY <1>1, <1>2, <1>3, <1>6, <1>10, <2>1, PollTracks
  <2>2. CASE o.hasId /\ Known(d) = [o EXCEPT !.status = "external_missing"]
    <3>1. t = orders
      BY <1>6, <2>2 DEF Without
    <3>2. OrderKey(n) = <<"id", d>>
      BY <1>3, <1>4, <1>6, <2>2 DEF Answered, OrderKey, Tracked
    <3>3. Known(d).status = "external_missing"
      BY <1>4, <2>2 DEF Tracked
    <3>4. n.status \in {"open", "filled", "failed"}
      <4>1. poll.answer \in {"open", "filled", "rejected"}
        BY <1>2, <1>10 DEF SteadyInv, PollInv
      <4>2. n.status = Normalize(poll.answer)
        BY <1>4, <1>6 DEF Answered, Tracked
      <4>. QED  BY <4>1, <4>2 DEF Normalize
    <3>5. ~Accepted(Known(d), n)
      <4>1. Known(d) # None
        <5>1. Known(d) \in Tracked
          BY <1>4, <2>2 DEF Tracked, Status, Terminal
        <5>. QED  BY <5>1, NoneAssumption
      <4>. QED  BY <3>3, <3>4, <4>1 DEF Accepted, Accepts, ValidNext
    <3>6. ~Accepted(t[OrderKey(n)], n)
      BY <3>1, <3>2, <3>5 DEF Known
    <3>7. orders' = t /\ ledger' = ledger
      BY <1>10, <3>6, UpsertRefused
    <3>. QED  BY <1>1, <1>2, <3>1, <3>7, PollIdle
  <2>. QED  BY <1>4, <2>1, <2>2
<1>. QED  BY <1>7, <1>8, <1>9, <1>10

\* An open order the exchange lacks.
Missed(o) == [o EXCEPT !.status = "external_missing"]

\* The snapshot adds placeholders for open orders it does not know, and misses tracked ones.
LEMMA SnapshotSees ==
  ASSUME Calm, Snapshot
  PROVE  /\ orders' \in [TrackKeys -> Tracked \cup {None}] /\ orders'[<<"blank", 0>>] = None
         /\ \A c \in ClientIds :
              /\ InDoubt(c)' = InDoubt(c)
              /\ \/ Known(c)' = Known(c)
                 \/ /\ Known(c) = None /\ exchange[c] = "open"
                    /\ Known(c)' # None /\ Known(c)'.client = c /\ Known(c)'.hasId
                    /\ Known(c)'.intent = None /\ Known(c)'.status = "internal_missing"
                 \/ /\ Known(c) # None /\ Known(c).status = "open" /\ exchange[c] # "open"
                    /\ Known(c)' = Missed(Known(c))
<1>. DEFINE M == {c \in ClientIds : exchange[c] = "open" /\ orders[<<"id", c>>] = None}
            G == {c \in ClientIds : /\ exchange[c] # "open" /\ orders[<<"id", c>>] # None
                                    /\ orders[<<"id", c>>].status = "open"}
            new == [k \in TrackKeys |->
              CASE k[1] = "id" /\ k[2] \in M -> Order(None, k[2], TRUE, "internal_missing")
                [] k[1] = "id" /\ k[2] \in G -> [orders[k] EXCEPT !.status = "external_missing"]
                [] OTHER -> orders[k]]
<1>1. orders' = new
  BY Zenon DEF Snapshot
<1>2. PICK missing \in SUBSET ClientIds, gone \in SUBSET ClientIds : missing = M /\ gone = G
  OBVIOUS
<1>3. \A c : ~(c \in missing /\ c \in gone)
  BY <1>2
<1>4. \A k \in TrackKeys :
        orders'[k] = CASE k[1] = "id" /\ k[2] \in missing ->
                            [client |-> k[2], hasId |-> TRUE, intent |-> None, status |-> "internal_missing"]
                       [] k[1] = "id" /\ k[2] \in gone -> Missed(orders[k])
                       [] OTHER -> orders[k]
  BY <1>1, <1>2, Zenon DEF Order, Missed
<1>5. \A c \in missing :
        [client |-> c, hasId |-> TRUE, intent |-> None, status |-> "internal_missing"] \in Tracked
  BY DEF Tracked
<1>6. \A o \in Tracked : Missed(o) \in Tracked
  BY DEF Missed, Tracked, Status, Terminal
<1>7. ASSUME NEW k \in TrackKeys PROVE orders'[k] \in Tracked \cup {None}
  <2>1. orders[k] \in Tracked \cup {None}
    BY DEF Calm
  <2>2. CASE k[1] = "id" /\ k[2] \in missing
    <3>1. PICK c \in missing : c = k[2]
      BY <2>2
    <3>2. PICK r \in Tracked : r = [client |-> c, hasId |-> TRUE, intent |-> None,
                                   status |-> "internal_missing"]
      BY <1>5
    <3>3. orders'[k] = r
      BY <1>4, <1>3, <2>2, <3>1, <3>2
    <3>. QED  BY <3>3
  <2>3. CASE k[1] = "id" /\ k[2] \notin missing /\ k[2] \in gone
    <3>1. PICK c \in gone : k = <<"id", c>>
      BY <2>3, TrackKeyCases
    <3>2. orders[k] # None
      BY <1>2, <3>1
    <3>. QED  BY <1>4, <1>6, <2>1, <2>3, <3>2
  <2>4. CASE ~(k[1] = "id" /\ k[2] \in missing \cup gone)
    BY <1>4, <2>1, <2>4
  <2>. QED  BY <2>2, <2>3, <2>4
<1>8. orders' \in [TrackKeys -> Tracked \cup {None}]
  <2>1. orders' = [k \in TrackKeys |-> orders'[k]]
    BY <1>1
  <2>. QED  BY <1>7, <2>1
<1>9. ASSUME NEW c \in ClientIds
      PROVE  /\ InDoubt(c)' = InDoubt(c)
             /\ Known(c)' = IF c \in missing
                            THEN [client |-> c, hasId |-> TRUE, intent |-> None,
                                  status |-> "internal_missing"]
                            ELSE IF c \in gone THEN Missed(Known(c)) ELSE Known(c)
  <2>1. <<"client", c>> \in TrackKeys /\ <<"id", c>> \in TrackKeys
    BY ClientIdFacts
  <2>2. orders'[<<"client", c>>] = orders[<<"client", c>>]
    BY <1>4, <2>1
  <2>3. orders'[<<"id", c>>] =
          IF c \in missing
          THEN [client |-> c, hasId |-> TRUE, intent |-> None, status |-> "internal_missing"]
          ELSE IF c \in gone THEN Missed(orders[<<"id", c>>]) ELSE orders[<<"id", c>>]
    <3>1. PICK k \in TrackKeys : k = <<"id", c>> /\ k[1] = "id" /\ k[2] = c
      BY <2>1
    <3>. QED  BY <1>4, <1>3, <3>1
  <2>. QED  BY <2>2, <2>3 DEF InDoubt, Known
<1>10. orders'[<<"blank", 0>>] = None
  <2>1. orders'[<<"blank", 0>>] = orders[<<"blank", 0>>]
    BY <1>4, TrackKeyFacts
  <2>. QED  BY <2>1 DEF Calm
<1>11. ASSUME NEW c \in ClientIds
      PROVE  \/ Known(c)' = Known(c)
             \/ /\ Known(c) = None /\ exchange[c] = "open"
                /\ Known(c)' # None /\ Known(c)'.client = c /\ Known(c)'.hasId
                /\ Known(c)'.intent = None /\ Known(c)'.status = "internal_missing"
             \/ /\ Known(c) # None /\ Known(c).status = "open" /\ exchange[c] # "open"
                /\ Known(c)' = Missed(Known(c))
  <2>1. CASE c \in missing
    <3>1. PICK r : r = [client |-> c, hasId |-> TRUE, intent |-> None, status |-> "internal_missing"]
      OBVIOUS
    <3>2. r # None /\ r.client = c /\ r.hasId /\ r.intent = None /\ r.status = "internal_missing"
      BY <1>5, <2>1, <3>1, NoneAssumption
    <3>3. Known(c)' = r
      BY <1>9, <2>1, <3>1
    <3>4. Known(c) = None /\ exchange[c] = "open"
      BY <1>2, <2>1 DEF Known
    <3>. QED  BY <3>2, <3>3, <3>4
  <2>2. CASE c \notin missing /\ c \in gone
    <3>1. Known(c) # None /\ Known(c).status = "open" /\ exchange[c] # "open"
      BY <1>2, <2>2 DEF Known
    <3>. QED  BY <1>9, <2>2, <3>1
  <2>3. CASE c \notin missing /\ c \notin gone
    BY <1>9, <2>3
  <2>. QED  BY <2>1, <2>2, <2>3
<1>. QED  BY <1>8, <1>9, <1>10, <1>11

\* One that was missed still holds its unit.
LEMMA SnapshotClient ==
  ASSUME Calm, NEW c \in ClientIds, ClientOK(c), UNCHANGED <<exec, intents, mappings, ledger>>,
         UNCHANGED <<exchange, sender>>, InDoubt(c)' = InDoubt(c),
         \/ Known(c)' = Known(c)
         \/ /\ Known(c) = None /\ exchange[c] = "open"
            /\ Known(c)' # None /\ Known(c)'.client = c /\ Known(c)'.hasId
            /\ Known(c)'.intent = None /\ Known(c)'.status = "internal_missing"
         \/ /\ Known(c) # None /\ Known(c).status = "open" /\ exchange[c] # "open"
            /\ Known(c)' = Missed(Known(c))
  PROVE  ClientOK(c)' /\ (Holds(c)' <=> Holds(c)) /\ (Owned(Known(c))' <=> Owned(Known(c)))
<1>1. CASE Known(c)' = Known(c)
  <2>1. Same(c)
    BY <1>1 DEF Same, Doing
  <2>. QED  BY <1>1, <2>1, SameStays DEF Owned
<1>. DEFINE new == Known(c)'
<1>2. ASSUME /\ Known(c) = None /\ exchange[c] = "open"
             /\ new # None /\ new.client = c /\ new.hasId
             /\ new.intent = None /\ new.status = "internal_missing"
      PROVE  ClientOK(c)' /\ (Holds(c)' <=> Holds(c)) /\ (Owned(Known(c))' <=> Owned(Known(c)))
  <2>1. ~Owned(Known(c)) /\ ~Owned(Known(c))' /\ Doing(c)' = Doing(c)
    BY <1>2 DEF Owned, Doing
  <2>2. InDoubtInv(c)'
    BY <2>1 DEF ClientOK, InDoubtInv
  <2>3. KnownInv(c)'
    BY <1>2 DEF KnownInv
  <2>4. ClientKeys(c)' /\ IntentInv(c)'
    BY <2>1 DEF ClientOK, ClientKeys, IntentInv
  <2>5. Holds(c)' <=> Holds(c)
    BY <2>1 DEF Holds
  <2>. QED  BY <2>1, <2>2, <2>3, <2>4, <2>5 DEF ClientOK
<1>3. ASSUME /\ Known(c) # None /\ Known(c).status = "open" /\ exchange[c] # "open"
             /\ new = Missed(Known(c))
      PROVE  ClientOK(c)' /\ (Holds(c)' <=> Holds(c)) /\ (Owned(Known(c))' <=> Owned(Known(c)))
  <2>1. PICK o \in Tracked : o = Known(c)
    BY <1>3, ClientIdFacts DEF Calm, Known
  <2>2. /\ new \in Tracked /\ new.client = o.client /\ new.hasId = o.hasId
        /\ new.intent = o.intent /\ new.status = "external_missing"
    BY <1>3, <2>1 DEF Missed, Tracked, Status, Terminal
  <2>3. new # None /\ Owned(Known(c)) /\ Owned(Known(c))' /\ Doing(c)' = Doing(c)
    BY <1>3, <2>1, <2>2, NoneAssumption DEF ClientOK, KnownInv, Owned, Doing
  <2>4. InDoubtInv(c)'
    BY <2>3 DEF ClientOK, InDoubtInv
  <2>5. KnownInv(c)'
    BY <1>3, <2>1, <2>2, <2>3 DEF ClientOK, KnownInv, Owned
  <2>6. ClientKeys(c)' /\ IntentInv(c)'
    BY <1>3, <2>3 DEF ClientOK, ClientKeys, IntentInv
  <2>7. Holds(c)' <=> Holds(c)
    BY <1>3, <2>2, <2>3 DEF Holds
  <2>. QED  BY <2>3, <2>4, <2>5, <2>6, <2>7 DEF ClientOK
<1>. QED  BY <1>1, <1>2, <1>3

\* Snapshot.
LEMMA SteadySnapshot == SteadyInv /\ Snapshot => SteadyInv'
<1>. SUFFICES ASSUME SteadyInv, Snapshot PROVE SteadyInv'
  OBVIOUS
<1>1. PlaceInv' /\ Calm /\ \A c \in ClientIds : ClientOK(c)
  BY OthersPreserve, Zenon DEF SteadyInv, Polls
<1>2. /\ UNCHANGED <<strategy, stop, stops, crashes, hasty, worker, mappings, exec, intents>>
      /\ UNCHANGED <<sender, exchange, ledger, poll>>
  BY Zenon DEF Snapshot, outside
<1>3. /\ orders' \in [TrackKeys -> Tracked \cup {None}] /\ orders'[<<"blank", 0>>] = None
      /\ \A c \in ClientIds :
           /\ InDoubt(c)' = InDoubt(c)
           /\ \/ Known(c)' = Known(c)
              \/ /\ Known(c) = None /\ exchange[c] = "open"
                 /\ Known(c)' # None /\ Known(c)'.client = c /\ Known(c)'.hasId
                 /\ Known(c)'.intent = None /\ Known(c)'.status = "internal_missing"
              \/ /\ Known(c) # None /\ Known(c).status = "open" /\ exchange[c] # "open"
                 /\ Known(c)' = Missed(Known(c))
  BY <1>1, SnapshotSees
<1>4. /\ \A c \in ClientIds : ClientOK(c)'
      /\ \A c \in ClientIds : Holds(c)' <=> Holds(c)
      /\ \A c \in ClientIds : Owned(Known(c))' <=> Owned(Known(c))
  BY <1>1, <1>2, <1>3, SnapshotClient
<1>5. Balance'
  <2>1. Cardinality(Held)' = Cardinality(Held)
    BY <1>4, HeldMoves, ClientIdFacts
  <2>. QED  BY <1>2, <2>1 DEF SteadyInv, Balance
<1>6. Covered'
  <2>1. \A c \in ClientIds : Doing(c)' = Doing(c)
    BY <1>2 DEF Doing
  <2>2. ASSUME NEW c \in ClientIds, hasty' = {}, exchange'[c] # "none"
        PROVE  Doing(c)' \in Placing \/ InDoubt(c)' # None \/ Owned(Known(c))'
    <3>1. Doing(c) \in Placing \/ InDoubt(c) # None \/ Owned(Known(c))
      BY <1>2, <2>2 DEF SteadyInv, Covered
    <3>. QED  BY <1>3, <1>4, <2>1, <3>1
  <2>. QED  BY <2>2, Zenon DEF Covered
<1>7. ExecInv'
  <2>1. exec # None /\ exec.pc = "rejected" => exec.client \in ClientIds
    BY NoClientYet DEF WithClient
  <2>2. exec # None /\ exec.pc = "rejected" => Known(exec.client) # None
                                               /\ Known(exec.client).status = "failed"
    BY DEF SteadyInv, ExecInv, Owned
  <2>3. exec # None /\ exec.pc = "rejected" => Known(exec.client)' = Known(exec.client)
    BY <1>2, <1>3, <2>1, <2>2
  <2>. QED  BY <1>2, <2>3, ExecKnows DEF SteadyInv
<1>8. PollInv'
  <2>. SUFFICES ASSUME poll # None PROVE PollInv'
    BY <1>2 DEF PollInv
  <2>1. PICK o, d : o = poll.order /\ d = o.client
    OBVIOUS
  <2>2. /\ d \in ClientIds /\ o \in Tracked /\ o # None
        /\ o.hasId => Known(d) = o \/ Known(d) = Missed(o)
    BY <2>1, PollApart, NoneAssumption DEF SteadyInv, PollInv, Missed
  <2>3. o.hasId => Known(d)' = o \/ Known(d)' = Missed(o)
    <3>1. Missed(o) # None /\ Missed(o).status = "external_missing"
      <4>1. Missed(o) \in Tracked /\ Missed(o).status = "external_missing"
        BY <2>2 DEF Missed, Tracked, Status, Terminal
      <4>. QED  BY <4>1, NoneAssumption
    <3>. QED  BY <1>3, <2>2, <3>1
  <2>4. InDoubt(d)' = InDoubt(d) /\ exchange'[d] = exchange[d] /\ poll' = poll
    BY <1>2, <1>3, <2>2
  <2>. QED  BY <2>1, <2>3, <2>4 DEF SteadyInv, PollInv, Missed
<1>9. IntentKeys' /\ SlotFree' /\ OneOrderPerSlot'
  BY <1>2 DEF SteadyInv, IntentKeys, SlotFree, OneOrderPerSlot
<1>10. Calm'
  BY <1>1, <1>2, <1>3 DEF Calm
<1>. QED  BY <1>1, <1>4, <1>5, <1>6, <1>7, <1>8, <1>9, <1>10, Zenon DEF SteadyInv

\* A steady strategy is not stopped and does not crash.
LEMMA SteadyOnly ==
  ASSUME Steady, SteadyInv
  PROVE  ~(StopBegin \/ StopCancel \/ StopEnd \/ StartAgain \/ CrashAndRestart)
<1>1. Calm
  BY DEF SteadyInv
<1>2. ~StopBegin /\ ~CrashAndRestart
  BY <1>1 DEF Calm, Steady, StopBegin, CrashAndRestart
<1>3. ~StopCancel /\ ~StopEnd /\ ~StartAgain
  BY <1>1 DEF Calm, StopCancel, StopEnd, StartAgain
<1>. QED  BY <1>2, <1>3

\* A query that throws, and a step of nobody.
LEMMA SteadyStutters ==
  SteadyInv /\ ((\E k \in TrackKeys : PollThrows(k)) \/ UNCHANGED vars) => SteadyInv'
<1>. SUFFICES ASSUME SteadyInv, (\E k \in TrackKeys : PollThrows(k)) \/ UNCHANGED vars
              PROVE  SteadyInv'
  OBVIOUS
<1>1. PlaceInv'
  BY OthersPreserve, Zenon DEF SteadyInv, Polls
<1>2. /\ UNCHANGED <<strategy, stop, stops, crashes, hasty, worker, mappings, exec, intents>>
      /\ UNCHANGED <<sender, exchange, ledger, poll, orders>>
  BY Zenon DEF PollThrows, vars, outside, durable
<1>3. \A c \in ClientIds : Same(c)
  BY <1>2 DEF Same, Doing, InDoubt, Known
<1>4. ExecInv' /\ IntentKeys' /\ SlotFree' /\ OneOrderPerSlot' /\ Calm' /\ PollInv'
  BY <1>2 DEF SteadyInv, ExecInv, IntentKeys, SlotFree, OneOrderPerSlot, Known, InDoubt, Owned,
              Calm, PollInv
<1>. QED  BY <1>1, <1>2, <1>3, <1>4, ClientIdFacts, StepEnds

\* At first no unit is held.
LEMMA SteadyInit == Init => SteadyInv
<1>. SUFFICES ASSUME Init PROVE SteadyInv
  OBVIOUS
<1>1. /\ strategy = "running" /\ stop = "idle" /\ stops = 0 /\ crashes = 0
      /\ worker = None /\ exec = None /\ poll = None /\ hasty = {}
      /\ orders = [k \in TrackKeys |-> None] /\ exchange = [c \in ClientIds |-> "none"]
      /\ ledger = [available |-> Funds, locked |-> 0, keys |-> {}]
  BY DEF Init
<1>2. Calm
  BY <1>1, TrackKeyFacts, PlacementAssumption DEF Calm, LedgerType
<1>3. ASSUME NEW c \in ClientIds
      PROVE  InDoubt(c) = None /\ Known(c) = None /\ Doing(c) = "idle" /\ ledger.keys = {}
  BY <1>1, ClientIdFacts DEF InDoubt, Known, Doing
<1>4. \A c \in ClientIds : ClientOK(c) /\ ~Holds(c)
  BY <1>3 DEF ClientOK, InDoubtInv, KnownInv, ClientKeys, IntentInv, Owned, Holds, Placing
<1>5. Balance
  <2>1. Held = {}
    BY <1>4 DEF Held
  <2>. QED  BY <1>1, <2>1, FS_EmptySet DEF Balance
<1>6. ExecInv /\ IntentKeys /\ PollInv /\ Covered /\ SlotFree /\ OneOrderPerSlot
  BY <1>1 DEF ExecInv, IntentKeys, PollInv, Covered, SlotFree, OneOrderPerSlot
<1>. QED  BY <1>2, <1>4, <1>5, <1>6, PlaceInit DEF SteadyInv

-----------------------------------------------------------------------------
(* The theorems about a strategy that runs on. *)

\* The invariant of a steady strategy holds in every state.
LEMMA SteadyInvariance ==
  ASSUME Steady
  PROVE  Spec => []SteadyInv
<1>1. SteadyInv /\ [Next]_vars => SteadyInv'
  <2>. SUFFICES ASSUME SteadyInv, [Next]_vars PROVE SteadyInv'
    OBVIOUS
  <2>1. CASE Publish \/ Worker
    BY <2>1, SteadyPublish, SteadyTake, SteadyDispatch, Zenon DEF Worker
  <2>2. CASE Exec
    BY <2>2, SteadyBegin, SteadySent, SteadyGate, SteadyClientId, SteadyReserve, SteadyCheck,
       SteadySubmit, SteadyReconcile, SteadyRelease, SteadyAttach, SteadyTrack, SteadyRejected,
       SteadyFinish, Zenon DEF Exec
  <2>3. CASE Polls \/ ExchangeMoves
    BY <2>3, SteadyPollAsk, SteadyStutters, SteadyPollApply, SteadySnapshot, SteadyExchange,
       Zenon DEF Polls
  <2>. QED  BY <2>1, <2>2, <2>3, SteadyOnly, SteadyStutters, Zenon DEF Next
<1>. QED  BY <1>1, SteadyInit, PTL DEF Spec

\* The unit an open order may still pay stays locked, unless its placement was given up on a
\* definite error after an attempt that was not answered (consumeIntent, the releases of the
\* tracker and the placements in doubt).
THEOREM LiveOrdersReserved ==
  ASSUME Steady
  PROVE  Spec => []LiveOrderReserved
<1>1. SteadyInv => LiveOrderReserved
  <2>. SUFFICES ASSUME SteadyInv, hasty = {}
                PROVE  Cardinality({c \in ClientIds : exchange[c] \in {"open", "flight"}})
                         <= ledger.locked
    BY DEF LiveOrderReserved
  <2>. DEFINE Live == {c \in ClientIds : exchange[c] \in {"open", "flight"}}
  <2>1. ASSUME NEW c \in ClientIds, exchange[c] \in {"open", "flight"} PROVE Holds(c)
    <3>1. exchange[c] = "open" /\ ClientOK(c)
      BY <2>1 DEF SteadyInv, Calm
    <3>2. CASE Doing(c) \in Placing
      BY <3>2 DEF Holds
    <3>3. CASE InDoubt(c) # None
      BY <3>1, <3>3 DEF ClientOK, InDoubtInv, Holds
    <3>4. CASE Owned(Known(c))
      BY <3>1, <3>4 DEF ClientOK, KnownInv, Owned, Holds, Terminal
    <3>. QED  BY <3>1, <3>2, <3>3, <3>4 DEF SteadyInv, Covered
  <2>2. Live \subseteq Held
    BY <2>1 DEF Held
  <2>. HIDE DEF Live
  <2>3. Cardinality(Live) <= Cardinality(Held)
    BY <2>2, HeldFacts, FS_Subset
  <2>4. ledger.locked = Cardinality(Held)
    BY DEF SteadyInv, Balance
  <2>. QED  BY <2>3, <2>4 DEF Live
<1>. QED  BY <1>1, SteadyInvariance, PTL

\* Two orders of one slot are never open together, with the same exception (the check of the
\* slots in consumeIntent, over tracked orders and placements in doubt).
THEOREM SlotsExclusive ==
  ASSUME Steady
  PROVE  Spec => []OneOrderPerSlot
<1>1. SteadyInv => OneOrderPerSlot
  BY DEF SteadyInv
<1>. QED  BY <1>1, SteadyInvariance, PTL

\* When all has ended, a unit is locked for each order that failed or went missing after its
\* intent was done, and for nothing else: consumeIntent and the tracker gave back every other
\* one, once.
THEOREM OnlyFailedKeep ==
  ASSUME Steady
  PROVE  Spec => []OnlyFailedOrdersKeepFunds
<1>1. SteadyInv => OnlyFailedOrdersKeepFunds
  <2>. DEFINE Kept == {c \in ClientIds :
                         LET o == orders[<<"id", c>>] IN
                           /\ o # None
                           /\ \/ o.status = "external_missing"
                              \/ o.status = "failed" /\ intents[o.intent].status = "DONE"}
  <2>. SUFFICES ASSUME SteadyInv, Quiet PROVE ledger.locked = Cardinality(Kept)
    BY DEF OnlyFailedOrdersKeepFunds
  <2>1. ASSUME NEW c \in ClientIds
        PROVE  /\ Doing(c) = "idle" /\ ClientOK(c)
               /\ InDoubt(c) # None => InDoubt(c).status \in Terminal
               /\ Known(c) # None => Known(c).status \in Terminal
    <3>1. /\ orders[<<"client", c>>] # None => orders[<<"client", c>>] \in TrackedOrders
          /\ orders[<<"id", c>>] # None => orders[<<"id", c>>] \in TrackedOrders
      BY ClientIdFacts DEF TrackedOrders
    <3>. QED  BY <3>1 DEF Quiet, Doing, InDoubt, Known, SteadyInv
  <2>2. ASSUME NEW c \in ClientIds
        PROVE  Holds(c) <=> /\ Known(c) # None
                            /\ \/ Known(c).status = "external_missing"
                               \/ Known(c).status = "failed" /\ intents[Known(c).intent].status = "DONE"
    <3>1. Known(c) # None => Known(c).intent # None
      BY <2>1 DEF ClientOK, KnownInv, Terminal
    <3>2. Known(c) # None =>
            intents[Known(c).intent].status = IF Key("rejected", c) \in ledger.keys THEN "FAILED" ELSE "DONE"
      BY <2>1, <3>1 DEF ClientOK, KnownInv, IntentInv, Owned
    <3>3. Known(c) # None => Known(c).status \notin {"pending_create", "open"}
      BY <2>1 DEF Terminal
    <3>4. InDoubt(c) # None => InDoubt(c).status # "pending_create"
      BY <2>1 DEF Terminal
    <3>. QED  BY <2>1, <3>1, <3>2, <3>3, <3>4 DEF Holds, Owned, Placing
  <2>3. Kept = Held
    BY <2>2 DEF Held, Known
  <2>. HIDE DEF Kept
  <2>. QED  BY <2>3 DEF SteadyInv, Balance
<1>. QED  BY <1>1, SteadyInvariance, PTL
=============================================================================
