----------------------------- MODULE OrderIntent -----------------------------
(***************************************************************************)
(* The order intent of execution/order_intent.py: an immutable record that *)
(* every stage replaces by a copy.  transition_to() checks the graph,      *)
(* takes any fields to change, rebuilds the record and so runs every       *)
(* validator again.                                                        *)
(***************************************************************************)
EXTENDS Integers, Sequences, SequencesExt, FiniteSets

CONSTANTS
    Quantities,    \* the quantities a stage may set, 0 among them
    MaxClock,      \* bound: timestamps
    None

States == {"DRAFT", "SIZED", "RISK_CHECKED", "APPROVED", "SUBMITTED", "REJECTED", "CANCELLED"}
Terminal == {"REJECTED", "CANCELLED"}
Sized == {"SIZED", "RISK_CHECKED", "APPROVED", "SUBMITTED"}

\* _ALLOWED_TRANSITIONS
Allowed == [s \in States |->
    CASE s = "DRAFT" -> {"SIZED", "REJECTED"}
      [] s = "SIZED" -> {"RISK_CHECKED", "REJECTED"}
      [] s = "RISK_CHECKED" -> {"APPROVED", "REJECTED"}
      [] s = "APPROVED" -> {"SUBMITTED", "REJECTED"}
      [] s = "SUBMITTED" -> {"CANCELLED"}
      [] s \in Terminal -> {}]

VARIABLES
    intent,   \* [state, quantity, type, price, reason, history]
    clock,
    copies    \* the earlier copies of the record, oldest first
vars == <<intent, clock, copies>>

\* _validate_consistency and the field validators.
Valid(i) ==
    /\ (i.type = "LIMIT") = (i.price # None)
    /\ i.state \in Sized => i.quantity > 0
    /\ (i.state = "REJECTED") = (i.reason # None)
    /\ \A k \in 2 .. Len(i.history) : i.history[k - 1].at <= i.history[k].at
    /\ i.history # <<>> => Last(i.history).to = i.state

\* A caller builds an intent; a DRAFT, or one in a later state with no history.
Init ==
    /\ intent \in {i \in [state : States \ Terminal, quantity : Quantities,
                          type : {"LIMIT", "MARKET"}, price : {None, 1},
                          reason : {None}, history : {<<>>}] : Valid(i)}
    /\ clock = 0
    /\ copies = <<>>

\* What transition_to(to, at, reason, **updates) returns if it does not raise.
\* The state and the history are set after the caller's updates; a reason is
\* kept for a rejection only.
Updated(i, to, at, reason, updates) ==
    [updates EXCEPT !.state = to, !.reason = IF to = "REJECTED" THEN reason ELSE None,
                    !.history = Append(i.history, [from |-> i.state, to |-> to, at |-> at])]

\* field_updates: the caller may name any field, the state and the history too.
Updates(i) ==
    {[i EXCEPT !.quantity = q] : q \in Quantities}
    \union {[i EXCEPT !.price = p] : p \in {None, 1, 2}}
    \union {[i EXCEPT !.history = <<>>], [i EXCEPT !.state = "SUBMITTED"]}

TransitionTo ==
    \E to \in States, at \in 0 .. clock, reason \in {None, "risk"}, updates \in Updates(intent) :
      LET next == Updated(intent, to, at, reason, updates)
      IN  /\ to \in Allowed[intent.state]
          /\ to = "REJECTED" => reason # None
          /\ intent.history # <<>> => at >= Last(intent.history).at
          /\ Valid(next)
          /\ intent' = next
          /\ copies' = Append(copies, intent)
          /\ UNCHANGED clock

Tick == clock < MaxClock /\ clock' = clock + 1 /\ UNCHANGED <<intent, copies>>

Next == TransitionTo \/ Tick
Spec == Init /\ [][Next]_vars

-----------------------------------------------------------------------------
TypeOK == intent.state \in States /\ clock \in 0 .. MaxClock /\ Valid(intent)

(* The history is what really happened to the record, whatever fields the   *)
(* stages asked to change on the way: one entry for each copy, from the     *)
(* state that copy was in to the state of the next one.                     *)
HistoryIsTrue ==
    LET states == Append([k \in 1 .. Len(copies) |-> copies[k].state], intent.state)
    IN  /\ Len(intent.history) = Len(copies)
        /\ \A k \in 1 .. Len(copies) :
             intent.history[k].from = states[k] /\ intent.history[k].to = states[k + 1]

(* An intent that was sent passed sizing, the risk gate and the approval    *)
(* after it was drafted, and was never rejected on the way.                 *)
SentInOrder ==
    copies # <<>> /\ copies[1].state = "DRAFT" /\ intent.state \in {"SUBMITTED", "CANCELLED"} =>
      SubSeq([k \in 1 .. Len(copies) |-> copies[k].state], 1, 4)
        = <<"DRAFT", "SIZED", "RISK_CHECKED", "APPROVED">>
=============================================================================
