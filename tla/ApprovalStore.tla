---------------------------- MODULE ApprovalStore ----------------------------
(***************************************************************************)
(* src/src/execution/approval_store.py: the SQLite table of approvals and  *)
(* the operations on it, called by threads of several processes (the MCP   *)
(* server, the execution gateway, scripts/approve_cli.py).                 *)
(*                                                                         *)
(* Every operation reads the clock, THEN waits for the in-process RLock    *)
(* and for SQLite's write lock (BEGIN IMMEDIATE, up to 10 s), and only     *)
(* then acts on the row.  So a call is two steps: Invoke keeps the time in *)
(* calls[c].now, and the operation's own action is the transaction, which  *)
(* is atomic and decides with that time.  A third step, Return, hands the  *)
(* answer back; processes may die between any two.                         *)
(*                                                                         *)
(* Abstracted: payloads, reasons, results, session and trace ids, the file *)
(* and its permissions, argument validation that fails before the clock is *)
(* read.  Time is a counter that never goes back.                          *)
(***************************************************************************)
EXTENDS Naturals
LOCAL INSTANCE TLC

CONSTANTS ApprovalIds,   \* identifiers _generate_approval_id may produce
          UnknownId,     \* an identifier no row has
          Actors,        \* values of requested_by, decided_by, executed_by
          Callers,       \* threads that call the store
          Kinds,         \* action kinds in use
          Modes,         \* "paper" and "live"
          DecisionTTL,   \* approval_ttl_seconds
          KillSwitchTTL, \* kill_switch_ttl_seconds
          ExecuteTTL,    \* execute_ttl_seconds
          MaxClock,      \* bound of the model on the clock
          NULL           \* SQL NULL

ASSUME IdAssumption == UnknownId \notin ApprovalIds
ASSUME NullAssumption == NULL \notin Actors \union Nat
ASSUME KindAssumption ==
    Kinds \subseteq {"submit_order", "cancel_order", "set_capacity", "kill_switch"}
ASSUME TTLAssumption ==
    DecisionTTL \in Nat /\ KillSwitchTTL \in Nat /\ ExecuteTTL \in Nat
ASSUME ClockAssumption == MaxClock \in Nat

VARIABLES records,  \* ApprovalIds -> row of the table
          clock,    \* what _now() returns
          calls,    \* Callers -> the call in progress
          replies   \* Callers -> what the store answered, until it is returned

storeVars == <<records, clock, calls, replies>>
-----------------------------------------------------------------------------
(* Rows and calls *)

States == {"proposed", "approved", "rejected", "expired", "cancelled",
           "executing", "executed", "exec_failed"}

Terminal == {"rejected", "expired", "cancelled", "executed", "exec_failed"}

Times == Nat \union {NULL}
SomeActor == Actors \union {NULL}

Rows == [state : States \union {"absent"},
         kind : Kinds \union {NULL},
         mode : Modes \union {NULL},
         requested_by : SomeActor,
         created_at : Times,
         expires_at : Times,
         decided_by : SomeActor,
         decided_at : Times,
         execute_expires_at : Times,
         executed_by : SomeActor,
         executed_at : Times]

Absent == [state |-> "absent", kind |-> NULL, mode |-> NULL,
           requested_by |-> NULL, created_at |-> NULL, expires_at |-> NULL,
           decided_by |-> NULL, decided_at |-> NULL,
           execute_expires_at |-> NULL,
           executed_by |-> NULL, executed_at |-> NULL]

DecisionOps == {"approve", "reject", "cancel"}
FinishOps == {"mark_executed", "mark_exec_failed"}

\* Every call carries the time at which it was made, a member of T.
RequestsIn(T) ==
    [op : {"create_request"}, by : Actors, kind : Kinds, mode : Modes, now : T]
    \union [op : DecisionOps \union {"mark_executing"},
            id : ApprovalIds \union {UnknownId}, by : Actors, now : T]
    \union [op : FinishOps \union {"get"},
            id : ApprovalIds \union {UnknownId}, now : T]
    \union [op : {"expire_overdue"}, now : T]

Requests == RequestsIn(Nat)

Idle == [op |-> "idle"]

Outcomes == {"ok", "not_found", "state_error", "self_approval", "expired", "db_error"}
Replies == [outcome : Outcomes \union {"none"}, row : Rows]
NoReply == [outcome |-> "none", row |-> Absent]

Issued == {i \in ApprovalIds : records[i].state # "absent"}

TypeOK ==
    /\ records \in [ApprovalIds -> Rows]
    /\ clock \in Nat
    /\ calls \in [Callers -> Requests \union {Idle}]
    /\ replies \in [Callers -> Replies]

Init ==
    /\ records = [i \in ApprovalIds |-> Absent]
    /\ clock = 0
    /\ calls = [c \in Callers |-> Idle]
    /\ replies = [c \in Callers |-> NoReply]
-----------------------------------------------------------------------------
(* Calling *)

\* The arguments are checked and the clock is read before any lock is taken.
\* An id is random, so only one that was issued, or a wrong one, can be named.
Invoke(c, req) ==
    /\ calls[c] = Idle
    /\ req.now = clock
    /\ req.op \notin {"create_request", "expire_overdue"} =>
           req.id \in Issued \union {UnknownId}
    /\ calls' = [calls EXCEPT ![c] = req]
    /\ UNCHANGED <<records, clock, replies>>

Running(c, ops) == calls[c].op \in ops /\ replies[c] = NoReply

Answer(c, outcome, row) ==
    /\ replies' = [replies EXCEPT ![c] = [outcome |-> outcome, row |-> row]]
    /\ UNCHANGED <<clock, calls>>

Refuse(c, outcome) ==
    /\ Answer(c, outcome, Absent)
    /\ UNCHANGED records

Write(c, id, row, outcome) ==
    /\ records' = [records EXCEPT ![id] = row]
    /\ Answer(c, outcome, Absent)

\* Mutant: the last moment of a window already counts as too late.
ElapsedEarly(deadline, now) == deadline # NULL /\ now >= deadline

Elapsed(deadline, now) == deadline # NULL /\ now > deadline

\* Mutant: the sweep forgets "WHERE state = ?".
OverdueAnyState(row, now) ==
    Elapsed(row.expires_at, now) \/ Elapsed(row.execute_expires_at, now)

Overdue(row, now) ==
    \/ row.state = "proposed" /\ Elapsed(row.expires_at, now)
    \/ row.state = "approved" /\ Elapsed(row.execute_expires_at, now)

\* Mutant: a state that is not an ApprovalState is written.
LapsedUnknown(row) == [row EXCEPT !.state = "lapsed"]

Lapsed(row) == [row EXCEPT !.state = "expired"]
-----------------------------------------------------------------------------
(* The operations *)

TTL(kind) == IF kind = "kill_switch" THEN KillSwitchTTL ELSE DecisionTTL

NewRow(call) ==
    [Absent EXCEPT !.state = "proposed", !.kind = call.kind, !.mode = call.mode,
                   !.requested_by = call.by, !.created_at = call.now,
                   !.expires_at = call.now + TTL(call.kind)]

CreateRequest(c) ==
    /\ Running(c, {"create_request"})
    /\ \E id \in ApprovalIds \ Issued : Write(c, id, NewRow(calls[c]), "ok")

\* get() expires what it finds overdue and returns the row it leaves behind.
Get(c) ==
    /\ Running(c, {"get"})
    /\ LET id == calls[c].id IN
       \/ id \notin Issued /\ Refuse(c, "not_found")
       \/ /\ id \in Issued
          /\ LET row == IF Overdue(records[id], calls[c].now)
                        THEN Lapsed(records[id]) ELSE records[id]
             IN  /\ records' = [records EXCEPT ![id] = row]
                 /\ Answer(c, "ok", row)

\* Mutant: the self-approval check is gone.
SelfApprovalUnchecked(row, by) == FALSE

SelfApproval(row, by) == row.requested_by = by

\* _transition, the body of approve, reject and cancel: from PROPOSED only;
\* the decision window is enforced before the self-approval check.
Transition(c, to, extra_check, window) ==
    LET call == calls[c]
        row == records[call.id]
    IN  \/ call.id \notin Issued /\ Refuse(c, "not_found")
        \/ /\ call.id \in Issued
           /\ \/ row.state # "proposed" /\ Refuse(c, "state_error")
              \/ /\ row.state = "proposed" /\ Elapsed(row.expires_at, call.now)
                 /\ Write(c, call.id, Lapsed(row), "expired")
              \/ /\ row.state = "proposed" /\ ~Elapsed(row.expires_at, call.now)
                 /\ extra_check /\ SelfApproval(row, call.by)
                 /\ Refuse(c, "self_approval")
              \/ /\ row.state = "proposed" /\ ~Elapsed(row.expires_at, call.now)
                 /\ ~(extra_check /\ SelfApproval(row, call.by))
                 /\ Write(c, call.id,
                          [row EXCEPT !.state = to, !.decided_by = call.by,
                                      !.decided_at = call.now,
                                      !.execute_expires_at = window], "ok")

Approve(c) ==
    /\ Running(c, {"approve"})
    /\ Transition(c, "approved", TRUE, calls[c].now + ExecuteTTL)

Reject(c) ==
    /\ Running(c, {"reject"})
    /\ Transition(c, "rejected", FALSE, NULL)

Cancel(c) ==
    /\ Running(c, {"cancel"})
    /\ Transition(c, "cancelled", FALSE, NULL)

\* Mutant: the state is not checked before EXECUTING is written.
MarkExecutingUnchecked(c) ==
    /\ Running(c, {"mark_executing"})
    /\ calls[c].id \in Issued
    /\ Write(c, calls[c].id,
             [records[calls[c].id] EXCEPT !.state = "executing",
                                          !.executed_by = calls[c].by], "ok")

\* The single-use guard.  An overdue approval is expired, and the call fails.
MarkExecuting(c) ==
    /\ Running(c, {"mark_executing"})
    /\ LET call == calls[c]
           row == records[call.id]
       IN  \/ call.id \notin Issued /\ Refuse(c, "not_found")
           \/ /\ call.id \in Issued
              /\ \/ row.state # "approved" /\ Refuse(c, "state_error")
                 \/ /\ row.state = "approved"
                    /\ Elapsed(row.execute_expires_at, call.now)
                    /\ Write(c, call.id, Lapsed(row), "expired")
                 \/ /\ row.state = "approved"
                    /\ ~Elapsed(row.execute_expires_at, call.now)
                    /\ Write(c, call.id,
                             [row EXCEPT !.state = "executing",
                                         !.executed_by = call.by], "ok")

\* Mutant: a final mark is accepted from any state.
FinishUnchecked(c, to) ==
    /\ calls[c].id \in Issued
    /\ Write(c, calls[c].id, [records[calls[c].id] EXCEPT !.state = to], "ok")

Finish(c, to) ==
    LET call == calls[c]
        row == records[call.id]
    IN  \/ call.id \notin Issued /\ Refuse(c, "not_found")
        \/ /\ call.id \in Issued
           /\ \/ row.state # "executing" /\ Refuse(c, "state_error")
              \/ /\ row.state = "executing"
                 /\ Write(c, call.id,
                          [row EXCEPT !.state = to, !.executed_at = call.now],
                          "ok")

MarkExecuted(c) ==
    /\ Running(c, {"mark_executed"})
    /\ Finish(c, "executed")

MarkExecFailed(c) ==
    /\ Running(c, {"mark_exec_failed"})
    /\ Finish(c, "exec_failed")

\* One transaction expires every overdue row.
ExpireOverdue(c) ==
    /\ Running(c, {"expire_overdue"})
    /\ records' = [i \in ApprovalIds |-> IF Overdue(records[i], calls[c].now)
                                         THEN Lapsed(records[i]) ELSE records[i]]
    /\ Answer(c, "ok", Absent)
-----------------------------------------------------------------------------
(* Faults, time, and the end of a call *)

\* "database is locked" after the 10 s timeout, a disk error: rolled back.
DbError(c) ==
    /\ calls[c] # Idle /\ replies[c] = NoReply
    /\ Refuse(c, "db_error")

\* The row is SELECTed again after COMMIT; when that fails the caller is told of
\* an error although the transition stands.
RereadFails(c) ==
    /\ calls[c].op \notin {"idle", "expire_overdue"}
    /\ replies[c].outcome = "ok"
    /\ Refuse(c, "db_error")

Return(c) ==
    /\ replies[c] # NoReply
    /\ calls' = [calls EXCEPT ![c] = Idle]
    /\ replies' = [replies EXCEPT ![c] = NoReply]
    /\ UNCHANGED <<records, clock>>

\* A process dies with the calls of its threads; what was committed stays.
Crash(C) ==
    /\ calls' = [c \in Callers |-> IF c \in C THEN Idle ELSE calls[c]]
    /\ replies' = [c \in Callers |-> IF c \in C THEN NoReply ELSE replies[c]]
    /\ UNCHANGED <<records, clock>>

Tick ==
    /\ clock < MaxClock
    /\ clock' = clock + 1
    /\ UNCHANGED <<records, calls, replies>>

Operation(c) ==
    \/ CreateRequest(c)
    \/ Get(c)
    \/ Approve(c)
    \/ Reject(c)
    \/ Cancel(c)
    \/ MarkExecuting(c)
    \/ MarkExecuted(c)
    \/ MarkExecFailed(c)
    \/ ExpireOverdue(c)
    \/ DbError(c)
    \/ RereadFails(c)

Next ==
    \/ \E c \in Callers :
          \/ \E req \in RequestsIn({clock}) : Invoke(c, req)
          \/ Operation(c)
          \/ Return(c)
    \/ \E C \in SUBSET Callers : Crash(C)
    \/ Tick

Spec == Init /\ [][Next]_storeVars
-----------------------------------------------------------------------------
(* What must hold *)

Succeeded(c, op) == calls[c].op = op /\ replies[c].outcome = "ok"

\* Approval takes two people, whichever calls race: whatever may execute, or
\* has, was decided by somebody who is not its requester (guarantee 2), and
\* what executes was handed to a named executor.
FourEyes ==
    \A i \in ApprovalIds :
        records[i].state \in {"approved", "executing", "executed", "exec_failed"} =>
            /\ records[i].decided_by \notin {NULL, records[i].requested_by}
            /\ records[i].state # "approved" => records[i].executed_by # NULL

\* Of the calls that race for the same decision, the same permission to
\* execute or the same final result, one is told that it succeeded.
OneWinner ==
    \A c, d \in Callers :
        \A ops \in {DecisionOps, {"mark_executing"}, FinishOps} :
            /\ calls[c].op \in ops /\ calls[d].op \in ops
            /\ replies[c].outcome = "ok" /\ replies[d].outcome = "ok"
            /\ calls[c].id = calls[d].id
            => c = d

\* What a caller was told stays true until it acts on it, whatever the other
\* callers do: the decision it made is the one recorded, the permission it got
\* is its own, the result it stored is the final state.
AcknowledgedStands ==
    \A c \in Callers :
        LET call == calls[c] row == records[call.id] IN
        /\ Succeeded(c, "approve") =>
              /\ row.decided_by = call.by /\ row.decided_at = call.now
              /\ row.state \notin {"proposed", "rejected", "cancelled"}
        /\ Succeeded(c, "reject") => row.state = "rejected" /\ row.decided_by = call.by
        /\ Succeeded(c, "cancel") => row.state = "cancelled" /\ row.decided_by = call.by
        /\ Succeeded(c, "mark_executing") =>
              /\ row.executed_by = call.by
              /\ row.state \in {"executing", "executed", "exec_failed"}
        /\ Succeeded(c, "mark_executed") => row.state = "executed"
        /\ Succeeded(c, "mark_exec_failed") => row.state = "exec_failed"

\* Decisions are taken inside the window that was opened for them, a start is
\* granted only to a call whose time falls inside the approved row's own
\* window, and an approval is closed as expired only when its window has
\* passed, although every call acts with a time it read before it waited for
\* the database.
WindowsRespected ==
    \A i \in ApprovalIds :
        LET row == records[i] IN
        /\ row.decided_at # NULL =>
              row.created_at <= row.decided_at /\ row.decided_at <= row.expires_at
        /\ row.state = "expired" =>
              IF row.decided_at = NULL THEN clock > row.expires_at
              ELSE clock > row.execute_expires_at
        /\ \A c \in Callers :
              Succeeded(c, "mark_executing") /\ calls[c].id = i =>
                 /\ row.execute_expires_at # NULL
                 /\ calls[c].now <= row.execute_expires_at

\* No call, however late, rewrites what happened to an approval: a terminal
\* row never changes, and a decision or an executor once stored is kept.
HistoryIsFinal ==
    [][\A i \in ApprovalIds :
          /\ records[i].state \in Terminal => records'[i] = records[i]
          /\ records[i].decided_by # NULL =>
                /\ records'[i].decided_by = records[i].decided_by
                /\ records'[i].decided_at = records[i].decided_at
          /\ records[i].executed_by # NULL =>
                records'[i].executed_by = records[i].executed_by]_storeVars

\* The store keeps the promise of ApprovalLifecycle.
Lifecycle == INSTANCE ApprovalLifecycle WITH
    Nobody <- NULL,
    phase <- [i \in ApprovalIds |-> records[i].state],
    requester <- [i \in ApprovalIds |-> records[i].requested_by],
    decider <- [i \in ApprovalIds |-> records[i].decided_by],
    executor <- [i \in ApprovalIds |-> records[i].executed_by]

ImplementsLifecycle == Lifecycle!Spec

\* For TLC: identifiers, actors and callers of one kind are alike.
Interchangeable ==
    Permutations(ApprovalIds) \union Permutations(Actors) \union Permutations(Callers)
=============================================================================
