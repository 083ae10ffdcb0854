-------------------------- MODULE ApprovalLifecycle --------------------------
(***************************************************************************)
(* What the approval store promises its clients, stripped of the database, *)
(* of clocks and of calls: one state machine for each approval, walked by  *)
(* atomic steps, in which approval takes two people and permission to      *)
(* execute is given once.  It is the diagram and the guarantees 2, 4 and 7 *)
(* that head src/src/execution/approval_store.py.  ApprovalStore           *)
(* implements this module.                                                 *)
(***************************************************************************)
CONSTANTS ApprovalIds,  \* the identifiers that may be issued
          Actors,       \* people and agents that request, decide and execute
          Nobody        \* no actor: stands for "not asked, decided or executed yet"

VARIABLES phase,      \* ApprovalIds -> where the approval is in its life
          requester,  \* ApprovalIds -> who asked for the action
          decider,    \* ApprovalIds -> who approved, rejected or withdrew it
          executor    \* ApprovalIds -> who was given permission to execute it

vars == <<phase, requester, decider, executor>>

Phases == {"absent", "proposed", "approved", "rejected", "expired",
           "cancelled", "executing", "executed", "exec_failed"}

TypeOK ==
    /\ phase \in [ApprovalIds -> Phases]
    /\ requester \in [ApprovalIds -> Actors \union {Nobody}]
    /\ decider \in [ApprovalIds -> Actors \union {Nobody}]
    /\ executor \in [ApprovalIds -> Actors \union {Nobody}]

Init ==
    /\ phase = [i \in ApprovalIds |-> "absent"]
    /\ requester = [i \in ApprovalIds |-> Nobody]
    /\ decider = [i \in ApprovalIds |-> Nobody]
    /\ executor = [i \in ApprovalIds |-> Nobody]

Propose(i, a) ==
    /\ phase[i] = "absent"
    /\ phase' = [phase EXCEPT ![i] = "proposed"]
    /\ requester' = [requester EXCEPT ![i] = a]
    /\ UNCHANGED <<decider, executor>>

\* A decision on a proposal; only an approval needs a second person.
Decide(i, a, to) ==
    /\ phase[i] = "proposed"
    /\ to = "approved" => a # requester[i]
    /\ phase' = [phase EXCEPT ![i] = to]
    /\ decider' = [decider EXCEPT ![i] = a]
    /\ UNCHANGED <<requester, executor>>

\* The execution window of an approval is entered once, by one actor.
Start(i, a) ==
    /\ phase[i] = "approved"
    /\ phase' = [phase EXCEPT ![i] = "executing"]
    /\ executor' = [executor EXCEPT ![i] = a]
    /\ UNCHANGED <<requester, decider>>

Finish(i, to) ==
    /\ phase[i] = "executing"
    /\ phase' = [phase EXCEPT ![i] = to]
    /\ UNCHANGED <<requester, decider, executor>>

\* Any number of approvals that wait for a person may lapse together.
Expire(S) ==
    /\ \A i \in S : phase[i] \in {"proposed", "approved"}
    /\ phase' = [i \in ApprovalIds |-> IF i \in S THEN "expired" ELSE phase[i]]
    /\ UNCHANGED <<requester, decider, executor>>

Next ==
    \/ \E i \in ApprovalIds, a \in Actors :
          \/ Propose(i, a)
          \/ \E to \in {"approved", "rejected", "cancelled"} : Decide(i, a, to)
          \/ Start(i, a)
    \/ \E i \in ApprovalIds, to \in {"executed", "exec_failed"} : Finish(i, to)
    \/ \E S \in SUBSET ApprovalIds : Expire(S)

Spec == Init /\ [][Next]_vars
=============================================================================
