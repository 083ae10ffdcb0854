------------------------- MODULE ApprovalStoreProofs -------------------------
(***************************************************************************)
(* Proofs about ApprovalStore, for every number of approvals, callers and  *)
(* actors and every length of the windows.  The table changes in five ways *)
(* only (TableStep): a row is proposed, decided, started or finished, or a *)
(* set of rows lapses.  StepsOfTheTable shows that every step of the store *)
(* is one of them; what is said of the rows follows from that.  What the   *)
(* callers are told (WinInv) and when things happen (TimeInv) need the     *)
(* calls too, so for them every operation is taken on its own once more.   *)
(***************************************************************************)
EXTENDS ApprovalStore, TLAPS

Proposes(old, new) ==
    /\ old.state = "absent"
    /\ \E a \in Actors, k \in Kinds, m \in Modes, t \in Nat :
          new = [Absent EXCEPT !.state = "proposed", !.kind = k, !.mode = m,
                               !.requested_by = a, !.created_at = t,
                               !.expires_at = t + TTL(k)]

Decides(old, new) ==
    /\ old.state = "proposed"
    /\ \E a \in Actors, to \in {"approved", "rejected", "cancelled"},
          t \in Nat, window \in Times :
          /\ to = "approved" => a # old.requested_by
          /\ new = [old EXCEPT !.state = to, !.decided_by = a,
                               !.decided_at = t, !.execute_expires_at = window]

Starts(old, new) ==
    /\ old.state = "approved"
    /\ \E a \in Actors : new = [old EXCEPT !.state = "executing", !.executed_by = a]

Finishes(old, new) ==
    /\ old.state = "executing"
    /\ \E to \in {"executed", "exec_failed"}, t \in Nat :
          new = [old EXCEPT !.state = to, !.executed_at = t]

RowStep(old, new) ==
    Proposes(old, new) \/ Decides(old, new) \/ Starts(old, new) \/ Finishes(old, new)

Lapses(S) ==
    /\ \A i \in S : records[i].state \in {"proposed", "approved"}
    /\ records' = [i \in ApprovalIds |->
                      IF i \in S THEN Lapsed(records[i]) ELSE records[i]]

TableStep ==
    \/ \E i \in ApprovalIds :
          \E row : /\ RowStep(records[i], row)
                   /\ records' = [records EXCEPT ![i] = row]
    \/ \E S \in SUBSET ApprovalIds : Lapses(S)
-----------------------------------------------------------------------------
(* Type correctness *)

\* The row a request creates is a row of the table.
LEMMA NewRowType ==
    ASSUME NEW call \in Requests, call.op = "create_request"
    PROVE  /\ NewRow(call) \in Rows
           /\ call.by \in Actors /\ call.kind \in Kinds /\ call.mode \in Modes
           /\ call.now \in Nat
<1>1. call \in [op : {"create_request"}, by : Actors, kind : Kinds, mode : Modes, now : Nat]
  BY DEF Requests, RequestsIn, DecisionOps, FinishOps
<1>2. call.now + TTL(call.kind) \in Nat
  BY <1>1, TTLAssumption DEF TTL
<1> QED
  BY <1>1, <1>2 DEF NewRow, Rows, Absent, States, Times, SomeActor

\* The parts of a request that its operation reads.
LEMMA RequestParts ==
    ASSUME NEW call \in Requests
    PROVE  /\ call.now \in Nat
           /\ call.op \in DecisionOps \union {"mark_executing"} => call.by \in Actors
  BY DEF Requests, RequestsIn, DecisionOps, FinishOps

\* Lapsing keeps a row a row.
LEMMA LapsedType == \A row \in Rows : Lapsed(row) \in Rows
  BY DEF Lapsed, Rows, States

\* A row step leads from rows to rows.
LEMMA RowStepType ==
    ASSUME NEW old \in Rows, NEW new, RowStep(old, new)
    PROVE  new \in Rows
<1>1. CASE Proposes(old, new)
  <2>1. PICK a \in Actors, k \in Kinds, m \in Modes, t \in Nat :
          new = [Absent EXCEPT !.state = "proposed", !.kind = k, !.mode = m,
                               !.requested_by = a, !.created_at = t,
                               !.expires_at = t + TTL(k)]
    BY <1>1 DEF Proposes
  <2>2. t + TTL(k) \in Nat
    BY TTLAssumption DEF TTL
  <2> QED
    BY <2>1, <2>2 DEF Rows, Absent, States, Times, SomeActor
<1>2. CASE Decides(old, new)
  <2>1. PICK a \in Actors, to \in {"approved", "rejected", "cancelled"},
             t \in Nat, window \in Times :
          new = [old EXCEPT !.state = to, !.decided_by = a,
                            !.decided_at = t, !.execute_expires_at = window]
    BY <1>2 DEF Decides
  <2>2. to \in States /\ a \in SomeActor /\ t \in Times
    BY DEF States, SomeActor, Times
  <2> QED
    BY <2>1, <2>2 DEF Rows
<1>3. CASE Starts(old, new)
  BY <1>3 DEF Starts, Rows, States, Times, SomeActor
<1>4. CASE Finishes(old, new)
  BY <1>4 DEF Finishes, Rows, States, Times, SomeActor
<1> QED
  BY <1>1, <1>2, <1>3, <1>4 DEF RowStep
-----------------------------------------------------------------------------
(* Every step of the store is a step of the table *)

\* Lapsing one row is a case of lapsing a set of rows.
LEMMA LapseOne ==
    ASSUME TypeOK, NEW i \in ApprovalIds,
           records[i].state \in {"proposed", "approved"},
           records' = [records EXCEPT ![i] = Lapsed(records[i])]
    PROVE  TableStep
<1>1. Lapses({i})
  BY DEF Lapses, TypeOK
<1> QED
  BY <1>1 DEF TableStep

LEMMA CreateStep ==
    ASSUME TypeOK, NEW c \in Callers, CreateRequest(c)
    PROVE  TableStep
<1> DEFINE call == calls[c]
<1>1. call \in Requests /\ call.op = "create_request"
  BY DEF TypeOK, CreateRequest, Running, Idle
<1>2. PICK i \in ApprovalIds \ Issued : records' = [records EXCEPT ![i] = NewRow(call)]
  BY DEF CreateRequest, Write
<1>3. records[i].state = "absent"
  BY <1>2 DEF Issued
<1>4. /\ call.by \in Actors /\ call.kind \in Kinds
      /\ call.mode \in Modes /\ call.now \in Nat
  BY <1>1, NewRowType
<1>5. Proposes(records[i], NewRow(call))
  BY <1>3, <1>4 DEF Proposes, NewRow
<1> QED
  BY <1>2, <1>5 DEF TableStep, RowStep

LEMMA GetStep ==
    ASSUME TypeOK, NEW c \in Callers, Get(c)
    PROVE  TableStep \/ records' = records
<1> DEFINE i == calls[c].id
<1>1. CASE i \notin Issued
  BY <1>1 DEF Get, Refuse
<1>2. CASE i \in Issued /\ Overdue(records[i], calls[c].now)
  <2>1. /\ i \in ApprovalIds /\ records[i].state \in {"proposed", "approved"}
        /\ records' = [records EXCEPT ![i] = Lapsed(records[i])]
    BY <1>2 DEF Get, Issued, Overdue
  <2> QED
    BY <2>1, LapseOne
<1>3. CASE i \in Issued /\ ~Overdue(records[i], calls[c].now)
  BY <1>3 DEF Get, Issued, TypeOK
<1> QED
  BY <1>1, <1>2, <1>3

\* approve, reject and cancel: a decision, or the lapse that pre-empts it.
LEMMA TransitionStep ==
    ASSUME TypeOK, NEW c \in Callers, calls[c] \in Requests,
           calls[c].op \in DecisionOps,
           NEW to \in {"approved", "rejected", "cancelled"},
           NEW check \in BOOLEAN, to = "approved" => check,
           NEW window \in Times,
           Transition(c, to, check, window)
    PROVE  TableStep \/ records' = records
<1> DEFINE call == calls[c]
           row == records[call.id]
           new == [row EXCEPT !.state = to, !.decided_by = call.by,
                              !.decided_at = call.now,
                              !.execute_expires_at = window]
<1>1. call.by \in Actors /\ call.now \in Nat
  BY RequestParts
<1>2. CASE records' = records
  BY <1>2
<1>3. CASE /\ call.id \in Issued /\ row.state = "proposed"
           /\ records' = [records EXCEPT ![call.id] = Lapsed(row)]
  BY <1>3, LapseOne DEF Issued
<1>4. CASE /\ call.id \in Issued /\ row.state = "proposed"
           /\ ~(check /\ SelfApproval(row, call.by))
           /\ records' = [records EXCEPT ![call.id] = new]
  <2>1. Decides(row, new)
    <3>1. to = "approved" => call.by # row.requested_by
      BY <1>4 DEF SelfApproval
    <3> HIDE DEF row
    <3> QED
      BY <1>1, <1>4, <3>1 DEF Decides
  <2> QED
    BY <1>4, <2>1 DEF TableStep, RowStep, Issued
<1> QED
  BY <1>2, <1>3, <1>4 DEF Transition, Refuse, Write

LEMMA MarkExecutingStep ==
    ASSUME TypeOK, NEW c \in Callers, MarkExecuting(c)
    PROVE  TableStep \/ records' = records
<1> DEFINE call == calls[c]
           row == records[call.id]
           new == [row EXCEPT !.state = "executing", !.executed_by = call.by]
<1>1. call.by \in Actors
  BY RequestParts DEF TypeOK, MarkExecuting, Running, Idle
<1>2. CASE records' = records
  BY <1>2
<1>3. CASE /\ call.id \in Issued /\ row.state = "approved"
           /\ records' = [records EXCEPT ![call.id] = Lapsed(row)]
  BY <1>3, LapseOne DEF Issued
<1>4. CASE /\ call.id \in Issued /\ row.state = "approved"
           /\ records' = [records EXCEPT ![call.id] = new]
  <2>1. Starts(row, new)
    BY <1>1, <1>4 DEF Starts
  <2> QED
    BY <1>4, <2>1 DEF TableStep, RowStep, Issued
<1> QED
  BY <1>2, <1>3, <1>4 DEF MarkExecuting, Refuse, Write

LEMMA FinishStep ==
    ASSUME TypeOK, NEW c \in Callers, calls[c] \in Requests,
           NEW to \in {"executed", "exec_failed"}, Finish(c, to)
    PROVE  TableStep \/ records' = records
<1> DEFINE call == calls[c]
           row == records[call.id]
           new == [row EXCEPT !.state = to, !.executed_at = call.now]
<1>1. call.now \in Nat
  BY RequestParts
<1>2. CASE records' = records
  BY <1>2
<1>3. CASE /\ call.id \in Issued /\ row.state = "executing"
           /\ records' = [records EXCEPT ![call.id] = new]
  <2>1. Finishes(row, new)
    BY <1>1, <1>3 DEF Finishes
  <2> QED
    BY <1>3, <2>1 DEF TableStep, RowStep, Issued
<1> QED
  BY <1>2, <1>3 DEF Finish, Refuse, Write

LEMMA ExpireStep ==
    ASSUME TypeOK, NEW c \in Callers, ExpireOverdue(c)
    PROVE  TableStep
<1> DEFINE S == {i \in ApprovalIds : Overdue(records[i], calls[c].now)}
<1>1. Lapses(S)
  BY DEF Lapses, ExpireOverdue, Overdue
<1> QED
  BY <1>1 DEF TableStep

\* Whatever happens in the store, the table makes one of its five steps or
\* stays as it is.
LEMMA StepsOfTheTable ==
    ASSUME TypeOK, [Next]_storeVars
    PROVE  TableStep \/ records' = records
<1>1. CASE UNCHANGED storeVars
  BY <1>1 DEF storeVars
<1>2. ASSUME NEW c \in Callers, Operation(c)
      PROVE  TableStep \/ records' = records
  <2>1. CASE CreateRequest(c)
    BY <2>1, CreateStep
  <2>2. CASE Get(c)
    BY <2>2, GetStep
  <2>3. CASE Approve(c)
    <3>1. calls[c] \in Requests /\ calls[c].op \in DecisionOps
      BY <2>3 DEF Approve, Running, TypeOK, Idle, DecisionOps
    <3>2. calls[c].now + ExecuteTTL \in Times
      BY <3>1, RequestParts, TTLAssumption DEF Times
    <3> QED
      BY <2>3, <3>1, <3>2, TransitionStep DEF Approve
  <2>4. CASE Reject(c)
    <3>1. calls[c] \in Requests /\ calls[c].op \in DecisionOps
      BY <2>4 DEF Reject, Running, TypeOK, Idle, DecisionOps
    <3> QED
      BY <2>4, <3>1, TransitionStep DEF Reject, Times
  <2>5. CASE Cancel(c)
    <3>1. calls[c] \in Requests /\ calls[c].op \in DecisionOps
      BY <2>5 DEF Cancel, Running, TypeOK, Idle, DecisionOps
    <3> QED
      BY <2>5, <3>1, TransitionStep DEF Cancel, Times
  <2>6. CASE MarkExecuting(c)
    BY <2>6, MarkExecutingStep
  <2>7. CASE MarkExecuted(c)
    <3>1. calls[c] \in Requests
      BY <2>7 DEF MarkExecuted, Running, TypeOK, Idle
    <3> QED
      BY <2>7, <3>1, FinishStep DEF MarkExecuted
  <2>8. CASE MarkExecFailed(c)
    <3>1. calls[c] \in Requests
      BY <2>8 DEF MarkExecFailed, Running, TypeOK, Idle
    <3> QED
      BY <2>8, <3>1, FinishStep DEF MarkExecFailed
  <2>9. CASE ExpireOverdue(c)
    BY <2>9, ExpireStep
  <2>10. CASE DbError(c) \/ RereadFails(c)
    BY <2>10 DEF DbError, RereadFails, Refuse
  <2> QED
    BY <1>2, <2>1, <2>2, <2>3, <2>4, <2>5, <2>6, <2>7, <2>8, <2>9, <2>10
       DEF Operation
<1>3. ASSUME NEW c \in Callers,
             Return(c) \/ \E req \in RequestsIn({clock}) : Invoke(c, req)
      PROVE  records' = records
  BY <1>3 DEF Return, Invoke
<1>4. CASE Tick \/ \E C \in SUBSET Callers : Crash(C)
  BY <1>4 DEF Tick, Crash
<1> QED
  BY <1>1, <1>2, <1>3, <1>4 DEF Next
-----------------------------------------------------------------------------
(* Type correctness *)

LEMMA AbsentType == Absent \in Rows
  BY DEF Absent, Rows, Times, SomeActor

\* Every operation answers its caller, and leaves the clock and the calls alone.
LEMMA OperationAnswers ==
    ASSUME TypeOK, NEW c \in Callers, Operation(c)
    PROVE  \E outcome \in Outcomes, row \in Rows : Answer(c, outcome, row)
<1>1. ASSUME \/ Answer(c, "ok", Absent)
             \/ Answer(c, "expired", Absent)
             \/ Answer(c, "not_found", Absent)
             \/ Answer(c, "state_error", Absent)
             \/ Answer(c, "self_approval", Absent)
             \/ Answer(c, "db_error", Absent)
      PROVE  \E outcome \in Outcomes, row \in Rows : Answer(c, outcome, row)
  BY <1>1, AbsentType DEF Outcomes
<1>2. "ok" \in Outcomes
  BY DEF Outcomes
<1>3. CASE Get(c)
  <2> DEFINE i == calls[c].id
  <2>1. CASE i \notin Issued
    BY <1>1, <1>3, <2>1 DEF Get, Refuse
  <2>2. CASE i \in Issued
    <3> DEFINE row == IF Overdue(records[i], calls[c].now)
                      THEN Lapsed(records[i]) ELSE records[i]
    <3>1. row \in Rows
      BY <2>2, LapsedType DEF Issued, TypeOK
    <3>2. Answer(c, "ok", row)
      BY <1>3, <2>2 DEF Get
    <3> QED
      BY <1>2, <3>1, <3>2
  <2> QED
    BY <2>1, <2>2
<1>4. CASE CreateRequest(c) \/ ExpireOverdue(c) \/ DbError(c) \/ RereadFails(c)
  BY <1>1, <1>4 DEF CreateRequest, ExpireOverdue, DbError, RereadFails, Write, Refuse
<1>5. CASE Approve(c) \/ Reject(c) \/ Cancel(c)
  BY <1>1, <1>5 DEF Approve, Reject, Cancel, Transition, Write, Refuse
<1>6. CASE MarkExecuting(c)
  BY <1>1, <1>6 DEF MarkExecuting, Write, Refuse
<1>7. CASE MarkExecuted(c) \/ MarkExecFailed(c)
  BY <1>1, <1>7 DEF MarkExecuted, MarkExecFailed, Finish, Write, Refuse
<1> QED
  BY <1>3, <1>4, <1>5, <1>6, <1>7 DEF Operation

LEMMA TableStepType ==
    ASSUME TypeOK, TableStep
    PROVE  records' \in [ApprovalIds -> Rows]
<1>1. ASSUME NEW i \in ApprovalIds, NEW row, RowStep(records[i], row),
             records' = [records EXCEPT ![i] = row]
      PROVE  records' \in [ApprovalIds -> Rows]
  <2>1. row \in Rows
    BY <1>1, RowStepType DEF TypeOK
  <2> QED
    BY <1>1, <2>1 DEF TypeOK
<1>2. ASSUME NEW S \in SUBSET ApprovalIds, Lapses(S)
      PROVE  records' \in [ApprovalIds -> Rows]
  BY <1>2, LapsedType DEF Lapses, TypeOK
<1> QED
  BY <1>1, <1>2 DEF TableStep

LEMMA TypeInit == Init => TypeOK
  BY AbsentType DEF Init, TypeOK, Idle, NoReply, Replies

LEMMA TypeStep ==
    ASSUME TypeOK, [Next]_storeVars
    PROVE  TypeOK'
<1>1. records' \in [ApprovalIds -> Rows]
  BY StepsOfTheTable, TableStepType DEF TypeOK
<1>2. NoReply \in Replies
  BY AbsentType DEF NoReply, Replies
<1>3. ASSUME NEW c \in Callers, Operation(c)
      PROVE  clock' \in Nat /\ calls' = calls /\ replies' \in [Callers -> Replies]
  <2>1. PICK outcome \in Outcomes, row \in Rows : Answer(c, outcome, row)
    BY <1>3, OperationAnswers
  <2>2. [outcome |-> outcome, row |-> row] \in Replies
    BY DEF Replies
  <2> QED
    BY <2>1, <2>2 DEF Answer, TypeOK
<1>4. ASSUME NEW c \in Callers, NEW req \in RequestsIn({clock}), Invoke(c, req)
      PROVE  /\ clock' = clock /\ replies' = replies
             /\ calls' \in [Callers -> Requests \union {Idle}]
  <2>1. req \in Requests
    BY DEF Requests, RequestsIn, TypeOK
  <2> QED
    BY <1>4, <2>1 DEF Invoke, TypeOK
<1>5. ASSUME NEW c \in Callers, Return(c)
      PROVE  /\ clock' = clock
             /\ calls' \in [Callers -> Requests \union {Idle}]
             /\ replies' \in [Callers -> Replies]
  BY <1>2, <1>5 DEF Return, TypeOK
<1>6. ASSUME NEW C \in SUBSET Callers, Crash(C)
      PROVE  /\ clock' = clock
             /\ calls' \in [Callers -> Requests \union {Idle}]
             /\ replies' \in [Callers -> Replies]
  BY <1>2, <1>6 DEF Crash, TypeOK
<1>7. CASE Tick
  BY <1>1, <1>7 DEF Tick, TypeOK
<1>8. CASE UNCHANGED storeVars
  BY <1>8 DEF storeVars, TypeOK
<1> QED
  BY <1>1, <1>3, <1>4, <1>5, <1>6, <1>7, <1>8 DEF Next, TypeOK

\* Every variable of the store keeps its type, in every execution: whatever
\* the calls, the rows are rows of the table and every answer is one of the
\* documented outcomes.
THEOREM TypeCorrect == Spec => []TypeOK
<1> QED
  BY TypeInit, TypeStep, PTL DEF Spec
-----------------------------------------------------------------------------
(* What the rows of the table always satisfy *)

\* A row carries exactly what the states it has been through have written.
\* FourEyes alone is not enough to take a step: that an undecided row has no
\* decider, and an unstarted one no executor, is what the other steps need.
RowConsistent(row) ==
    /\ row.state = "absent" => row = Absent
    /\ row.state # "absent" => row.requested_by # NULL
    /\ row.state \in {"absent", "proposed"} => row.decided_by = NULL
    /\ row.state \in {"absent", "proposed", "approved", "rejected",
                      "cancelled", "expired"} => row.executed_by = NULL
    /\ row.state \in {"approved", "executing", "executed", "exec_failed"} =>
          row.decided_by \notin {NULL, row.requested_by}
    /\ row.state \in {"executing", "executed", "exec_failed"} =>
          row.executed_by # NULL

RowsConsistent == \A i \in ApprovalIds : RowConsistent(records[i])

LEMMA RowStepConsistent ==
    ASSUME NEW old \in Rows, NEW new, RowConsistent(old), RowStep(old, new)
    PROVE  RowConsistent(new)
<1>1. CASE Proposes(old, new)
  <2>1. PICK a \in Actors, k \in Kinds, m \in Modes, t \in Nat :
          new = [Absent EXCEPT !.state = "proposed", !.kind = k, !.mode = m,
                               !.requested_by = a, !.created_at = t,
                               !.expires_at = t + TTL(k)]
    BY <1>1 DEF Proposes
  <2>2. /\ new.state = "proposed" /\ new.requested_by = a
        /\ new.decided_by = NULL /\ new.executed_by = NULL
    BY <2>1 DEF Absent
  <2> QED
    BY <2>2, NullAssumption DEF RowConsistent
<1>2. CASE Decides(old, new)
  <2>1. PICK a \in Actors, to \in {"approved", "rejected", "cancelled"},
             t \in Nat, window \in Times :
          /\ to = "approved" => a # old.requested_by
          /\ new = [old EXCEPT !.state = to, !.decided_by = a,
                               !.decided_at = t, !.execute_expires_at = window]
    BY <1>2 DEF Decides
  <2>2. /\ old.state = "proposed" /\ new.state = to /\ new.decided_by = a
        /\ new.requested_by = old.requested_by /\ new.executed_by = old.executed_by
    BY <1>2, <2>1 DEF Decides, Rows
  <2> QED
    BY <2>1, <2>2, NullAssumption DEF RowConsistent
<1>3. CASE Starts(old, new)
  <2>1. PICK a \in Actors : new = [old EXCEPT !.state = "executing", !.executed_by = a]
    BY <1>3 DEF Starts
  <2>2. /\ old.state = "approved" /\ new.state = "executing" /\ new.executed_by = a
        /\ new.requested_by = old.requested_by /\ new.decided_by = old.decided_by
    BY <1>3, <2>1 DEF Starts, Rows
  <2> QED
    BY <2>2, NullAssumption DEF RowConsistent
<1>4. CASE Finishes(old, new)
  <2>1. PICK to \in {"executed", "exec_failed"}, t \in Nat :
          new = [old EXCEPT !.state = to, !.executed_at = t]
    BY <1>4 DEF Finishes
  <2>2. /\ old.state = "executing" /\ new.state = to
        /\ new.requested_by = old.requested_by /\ new.decided_by = old.decided_by
        /\ new.executed_by = old.executed_by
    BY <1>4, <2>1 DEF Finishes, Rows
  <2> QED
    BY <2>2 DEF RowConsistent
<1> QED
  BY <1>1, <1>2, <1>3, <1>4 DEF RowStep

LEMMA LapsedConsistent ==
    ASSUME NEW old \in Rows, RowConsistent(old), old.state \in {"proposed", "approved"}
    PROVE  RowConsistent(Lapsed(old))
<1>1. /\ Lapsed(old).state = "expired"
      /\ Lapsed(old).requested_by = old.requested_by
      /\ Lapsed(old).decided_by = old.decided_by
      /\ Lapsed(old).executed_by = old.executed_by
  BY DEF Lapsed, Rows
<1> QED
  BY <1>1 DEF RowConsistent

LEMMA ConsistentStep ==
    ASSUME TypeOK, RowsConsistent, [Next]_storeVars
    PROVE  RowsConsistent'
<1>1. ASSUME NEW i \in ApprovalIds, NEW row, RowStep(records[i], row),
             records' = [records EXCEPT ![i] = row]
      PROVE  RowsConsistent'
  <2>1. RowConsistent(row)
    BY <1>1, RowStepConsistent DEF TypeOK, RowsConsistent
  <2>2. \A j \in ApprovalIds : records'[j] = IF j = i THEN row ELSE records[j]
    BY <1>1 DEF TypeOK
  <2> QED
    BY <2>1, <2>2 DEF RowsConsistent
<1>2. ASSUME NEW S \in SUBSET ApprovalIds, Lapses(S)
      PROVE  RowsConsistent'
  <2>1. \A j \in ApprovalIds :
           records'[j] = IF j \in S THEN Lapsed(records[j]) ELSE records[j]
    BY <1>2 DEF Lapses
  <2>2. \A j \in S : RowConsistent(Lapsed(records[j]))
    BY <1>2, LapsedConsistent DEF Lapses, TypeOK, RowsConsistent
  <2> QED
    BY <2>1, <2>2 DEF RowsConsistent
<1>3. CASE records' = records
  BY <1>3 DEF RowsConsistent
<1> QED
  BY <1>1, <1>2, <1>3, StepsOfTheTable DEF TableStep

\* The rows are consistent in every execution.
THEOREM Consistent == Spec => [](TypeOK /\ RowsConsistent)
<1>1. RowConsistent(Absent)
  BY DEF RowConsistent, Absent
<1>2. Init => RowsConsistent
  BY <1>1 DEF Init, RowsConsistent
<1> QED
  BY <1>2, TypeInit, TypeStep, ConsistentStep, PTL DEF Spec

\* Guarantee 2, for any number of approvals, clients and actors: what may be
\* executed, or was, was decided by somebody other than its requester.
THEOREM FourEyesAlways == Spec => []FourEyes
<1>1. TypeOK /\ RowsConsistent => FourEyes
  BY DEF RowsConsistent, RowConsistent, FourEyes
<1> QED
  BY <1>1, Consistent, PTL
-----------------------------------------------------------------------------
(* No call rewrites history *)

Final(old, new) ==
    /\ old.state \in Terminal => new = old
    /\ old.decided_by # NULL =>
          new.decided_by = old.decided_by /\ new.decided_at = old.decided_at
    /\ old.executed_by # NULL =>
          /\ new.executed_by = old.executed_by
          /\ new.execute_expires_at = old.execute_expires_at

LEMMA RowStepFinal ==
    ASSUME NEW old \in Rows, NEW new, RowConsistent(old),
           RowStep(old, new) \/ (/\ new = Lapsed(old)
                                 /\ old.state \in {"proposed", "approved"})
    PROVE  Final(old, new)
<1>1. CASE Proposes(old, new)
  BY <1>1 DEF Proposes, Final, RowConsistent, Absent, Terminal
<1>2. CASE Decides(old, new)
  <2>1. old.state = "proposed" /\ old.decided_by = NULL /\ old.executed_by = NULL
    BY <1>2 DEF Decides, RowConsistent
  <2> QED
    BY <2>1 DEF Final, Terminal
<1>3. CASE Starts(old, new)
  <2>1. PICK a \in Actors : new = [old EXCEPT !.state = "executing", !.executed_by = a]
    BY <1>3 DEF Starts
  <2>2. /\ old.state = "approved" /\ old.executed_by = NULL
        /\ new.decided_by = old.decided_by /\ new.decided_at = old.decided_at
    BY <1>3, <2>1 DEF Starts, Rows, RowConsistent
  <2> QED
    BY <2>2 DEF Final, Terminal
<1>4. CASE Finishes(old, new)
  <2>1. PICK to \in {"executed", "exec_failed"}, t \in Nat :
          new = [old EXCEPT !.state = to, !.executed_at = t]
    BY <1>4 DEF Finishes
  <2>2. /\ old.state = "executing" /\ new.executed_by = old.executed_by
        /\ new.execute_expires_at = old.execute_expires_at
        /\ new.decided_by = old.decided_by /\ new.decided_at = old.decided_at
    BY <1>4, <2>1 DEF Finishes, Rows
  <2> QED
    BY <2>2 DEF Final, Terminal
<1>5. CASE new = Lapsed(old) /\ old.state \in {"proposed", "approved"}
  <2>1. /\ new.decided_by = old.decided_by /\ new.decided_at = old.decided_at
        /\ new.executed_by = old.executed_by
        /\ new.execute_expires_at = old.execute_expires_at
    BY <1>5 DEF Lapsed, Rows
  <2> QED
    BY <1>5, <2>1 DEF Final, Terminal
<1> QED
  BY <1>1, <1>2, <1>3, <1>4, <1>5 DEF RowStep

LEMMA FinalStep ==
    ASSUME TypeOK, RowsConsistent, [Next]_storeVars
    PROVE  \A i \in ApprovalIds : Final(records[i], records'[i])
<1>0. \A i \in ApprovalIds : records[i] \in Rows /\ RowConsistent(records[i])
  BY DEF TypeOK, RowsConsistent
<1>1. ASSUME NEW j \in ApprovalIds, NEW row, RowStep(records[j], row),
             records' = [records EXCEPT ![j] = row]
      PROVE  \A i \in ApprovalIds : Final(records[i], records'[i])
  <2>1. Final(records[j], row)
    BY <1>0, <1>1, RowStepFinal
  <2>2. \A i \in ApprovalIds : records'[i] = IF i = j THEN row ELSE records[i]
    BY <1>1 DEF TypeOK
  <2> QED
    BY <2>1, <2>2 DEF Final
<1>2. ASSUME NEW S \in SUBSET ApprovalIds, Lapses(S)
      PROVE  \A i \in ApprovalIds : Final(records[i], records'[i])
  <2>1. \A i \in S : Final(records[i], Lapsed(records[i]))
    BY <1>0, <1>2, RowStepFinal DEF Lapses
  <2>2. \A i \in ApprovalIds :
           records'[i] = IF i \in S THEN Lapsed(records[i]) ELSE records[i]
    BY <1>2 DEF Lapses
  <2> QED
    BY <2>1, <2>2 DEF Final
<1>3. CASE records' = records
  BY <1>3 DEF Final
<1> QED
  BY <1>1, <1>2, <1>3, StepsOfTheTable DEF TableStep

\* Guarantee 4, for every instance: of all the calls that race, or come late
\* with an old time, none changes a terminal row, a decision or an executor.
THEOREM HistoryIsFinalAlways == Spec => HistoryIsFinal
<1>1. TypeOK /\ RowsConsistent /\ [Next]_storeVars =>
        [\A i \in ApprovalIds :
            /\ records[i].state \in Terminal => records'[i] = records[i]
            /\ records[i].decided_by # NULL =>
                  /\ records'[i].decided_by = records[i].decided_by
                  /\ records'[i].decided_at = records[i].decided_at
            /\ records[i].executed_by # NULL =>
                  records'[i].executed_by = records[i].executed_by]_storeVars
  BY FinalStep DEF Final
<1> QED
  BY <1>1, Consistent, PTL DEF Spec, HistoryIsFinal
-----------------------------------------------------------------------------
(* Every race has one winner, and what the winner was told stays true *)

\* An operation runs for a call that has no answer yet, or takes the answer back.
LEMMA OperationFirst ==
    ASSUME TypeOK, NEW c \in Callers, Operation(c)
    PROVE  /\ calls[c] # Idle
           /\ replies'[c].outcome = "ok" => replies[c].outcome # "ok"
<1>1. ASSUME NEW ops, Running(c, ops), "idle" \notin ops
      PROVE  calls[c] # Idle /\ replies[c].outcome # "ok"
  BY <1>1 DEF Running, Idle, NoReply
<1>2. CASE DbError(c) \/ RereadFails(c)
  <2>1. calls[c] # Idle /\ Answer(c, "db_error", Absent)
    BY <1>2 DEF DbError, RereadFails, Refuse, Idle
  <2>2. replies'[c].outcome = "db_error"
    BY <2>1 DEF Answer, TypeOK
  <2> QED
    BY <2>1, <2>2
<1>3. CASE ~(DbError(c) \/ RereadFails(c))
  BY <1>1, <1>3 DEF Operation, CreateRequest, Get, Approve, Reject, Cancel,
                    MarkExecuting, MarkExecuted, MarkExecFailed, ExpireOverdue
<1> QED
  BY <1>2, <1>3

\* The operations that move a row from one state to another for their caller.
Edges == DecisionOps \union {"mark_executing"} \union FinishOps

\* The states an edge starts from, and those a row may be in after it was taken.
Before(op, row) ==
    /\ op \in DecisionOps => row.state = "proposed"
    /\ op = "mark_executing" => row.state = "approved"
    /\ op \in FinishOps => row.state = "executing"

Past(op, row) ==
    /\ op = "approve" => row.state \in {"approved", "executing", "executed",
                                        "exec_failed", "expired"}
    /\ op = "reject" => row.state = "rejected"
    /\ op = "cancel" => row.state = "cancelled"
    /\ op = "mark_executing" => row.state \in {"executing", "executed", "exec_failed"}
    /\ op = "mark_executed" => row.state = "executed"
    /\ op = "mark_exec_failed" => row.state = "exec_failed"

\* The row carries the name and the time of the call that took the edge; a
\* start came before the end of the row's own execution window.
Signed(call, row) ==
    /\ call.op \in DecisionOps => row.decided_by = call.by /\ row.decided_at = call.now
    /\ call.op = "mark_executing" =>
          row.executed_by = call.by /\ ~Elapsed(row.execute_expires_at, call.now)

Won(c) == calls[c].op \in Edges /\ replies[c].outcome = "ok"

Acknowledged(c) ==
    Won(c) => /\ calls[c].id \in ApprovalIds
              /\ Past(calls[c].op, records[calls[c].id])
              /\ Signed(calls[c], records[calls[c].id])

\* Inductive: a second winner would have found the row before the edge that
\* the first winner's row is past.
WinInv ==
    /\ \A c \in Callers : Acknowledged(c) /\ (calls[c] = Idle => replies[c] = NoReply)
    /\ OneWinner

\* An edge, once taken, is never taken back by a later step of the row.
LEMMA PastStays ==
    ASSUME NEW old \in Rows, NEW new, NEW op, op \in Edges, Past(op, old),
           RowStep(old, new) \/ (/\ new = Lapsed(old)
                                 /\ old.state \in {"proposed", "approved"})
    PROVE  Past(op, new)
<1>0. old.state \notin {"absent", "proposed"}
  BY DEF Past, Edges, DecisionOps, FinishOps
<1>1. CASE Proposes(old, new) \/ Decides(old, new)
  BY <1>0, <1>1 DEF Proposes, Decides
<1>2. CASE Starts(old, new)
  <2>1. old.state = "approved" /\ new.state = "executing"
    BY <1>2 DEF Starts, Rows
  <2> QED
    BY <2>1 DEF Past
<1>3. CASE Finishes(old, new)
  <2>1. old.state = "executing" /\ new.state \in {"executed", "exec_failed"}
    BY <1>3 DEF Finishes, Rows
  <2> QED
    BY <2>1 DEF Past
<1>4. CASE new = Lapsed(old) /\ old.state \in {"proposed", "approved"}
  <2>1. old.state = "approved" /\ new.state = "expired"
    BY <1>0, <1>4 DEF Lapsed, Rows
  <2> QED
    BY <2>1 DEF Past
<1> QED
  BY <1>1, <1>2, <1>3, <1>4 DEF RowStep

LEMMA PastStep ==
    ASSUME TypeOK, [Next]_storeVars, NEW i \in ApprovalIds, NEW op, op \in Edges,
           Past(op, records[i])
    PROVE  Past(op, records'[i])
<1>1. ASSUME NEW j \in ApprovalIds, NEW row, RowStep(records[j], row),
             records' = [records EXCEPT ![j] = row]
      PROVE  Past(op, records'[i])
  <2>1. CASE i = j
    <3>1. records'[i] = row /\ records[i] \in Rows
      BY <1>1, <2>1 DEF TypeOK
    <3> QED
      BY <1>1, <2>1, <3>1, PastStays
  <2>2. CASE i # j
    BY <1>1, <2>2 DEF TypeOK
  <2> QED
    BY <2>1, <2>2
<1>2. ASSUME NEW S \in SUBSET ApprovalIds, Lapses(S)
      PROVE  Past(op, records'[i])
  <2>1. records[i] \in Rows
    BY DEF TypeOK
  <2>2. CASE i \in S
    BY <1>2, <2>1, <2>2, PastStays DEF Lapses
  <2>3. CASE i \notin S
    BY <1>2, <2>3 DEF Lapses
  <2> QED
    BY <2>2, <2>3
<1>3. CASE records' = records
  BY <1>3
<1> QED
  BY <1>1, <1>2, <1>3, StepsOfTheTable DEF TableStep

\* A signature is of somebody, so it is kept with the decision or the executor.
LEMMA SignedStep ==
    ASSUME TypeOK, RowsConsistent, [Next]_storeVars,
           NEW call \in Requests, call.op \in Edges, call.id \in ApprovalIds,
           Signed(call, records[call.id])
    PROVE  Signed(call, records'[call.id])
<1>1. Final(records[call.id], records'[call.id])
  BY FinalStep
<1>2. call.op \in DecisionOps \union {"mark_executing"} => call.by # NULL
  BY RequestParts, NullAssumption
<1> QED
  BY <1>1, <1>2 DEF Final, Signed

\* What a successful edge did: it found the row before the edge and signed it.
LEMMA EdgeTaken ==
    ASSUME TypeOK, NEW c \in Callers, Operation(c), calls[c].op \in Edges,
           replies'[c].outcome = "ok", replies[c].outcome # "ok"
    PROVE  /\ calls[c].id \in ApprovalIds
           /\ Before(calls[c].op, records[calls[c].id])
           /\ Past(calls[c].op, records'[calls[c].id])
           /\ Signed(calls[c], records'[calls[c].id])
<1> DEFINE call == calls[c]
           row == records[call.id]
<1>1. ASSUME NEW outcome, NEW answered, Answer(c, outcome, answered)
      PROVE  outcome = "ok"
  BY <1>1 DEF Answer, TypeOK
<1>2. ASSUME NEW ops, Running(c, ops)
      PROVE  call.op \in ops
  BY <1>2 DEF Running
<1>3. ASSUME NEW to, NEW check, NEW window, Transition(c, to, check, window)
      PROVE  /\ call.id \in ApprovalIds /\ row.state = "proposed"
             /\ records'[call.id].state = to
             /\ records'[call.id].decided_by = call.by
             /\ records'[call.id].decided_at = call.now
  <2>1. /\ call.id \in Issued /\ row.state = "proposed"
        /\ records' = [records EXCEPT ![call.id] =
              [row EXCEPT !.state = to, !.decided_by = call.by,
                          !.decided_at = call.now, !.execute_expires_at = window]]
    BY <1>1, <1>3 DEF Transition, Refuse, Write
  <2>2. call.id \in ApprovalIds /\ row \in Rows
    BY <2>1 DEF Issued, TypeOK
  <2> QED
    BY <2>1, <2>2 DEF TypeOK, Rows
<1>4. CASE Approve(c) \/ Reject(c) \/ Cancel(c)
  BY <1>2, <1>3, <1>4 DEF Approve, Reject, Cancel, Before, Past, Signed, DecisionOps,
                          FinishOps
<1>5. CASE MarkExecuting(c)
  <2>1. /\ call.id \in Issued /\ row.state = "approved"
        /\ ~Elapsed(row.execute_expires_at, call.now)
        /\ records' = [records EXCEPT ![call.id] =
              [row EXCEPT !.state = "executing", !.executed_by = call.by]]
    BY <1>1, <1>5 DEF MarkExecuting, Refuse, Write
  <2>2. call.id \in ApprovalIds /\ row \in Rows
    BY <2>1 DEF Issued, TypeOK
  <2>3. /\ records'[call.id].state = "executing" /\ records'[call.id].executed_by = call.by
        /\ records'[call.id].execute_expires_at = row.execute_expires_at
    BY <2>1, <2>2 DEF TypeOK, Rows
  <2>4. call.op = "mark_executing"
    BY <1>2, <1>5 DEF MarkExecuting
  <2> QED
    BY <2>1, <2>2, <2>3, <2>4 DEF Before, Past, Signed, DecisionOps, FinishOps
<1>6. ASSUME NEW to, Finish(c, to)
      PROVE  /\ call.id \in ApprovalIds /\ row.state = "executing"
             /\ records'[call.id].state = to
  <2>1. /\ call.id \in Issued /\ row.state = "executing"
        /\ records' = [records EXCEPT ![call.id] =
              [row EXCEPT !.state = to, !.executed_at = call.now]]
    BY <1>1, <1>6 DEF Finish, Refuse, Write
  <2>2. call.id \in ApprovalIds /\ row \in Rows
    BY <2>1 DEF Issued, TypeOK
  <2> QED
    BY <2>1, <2>2 DEF TypeOK, Rows
<1>7. CASE MarkExecuted(c) \/ MarkExecFailed(c)
  BY <1>2, <1>6, <1>7 DEF MarkExecuted, MarkExecFailed, Before, Past, Signed,
                          DecisionOps, FinishOps
<1>8. CASE CreateRequest(c) \/ Get(c) \/ ExpireOverdue(c)
  BY <1>2, <1>8 DEF CreateRequest, Get, ExpireOverdue, Edges, DecisionOps, FinishOps
<1>9. CASE DbError(c) \/ RereadFails(c)
  BY <1>1, <1>9 DEF DbError, RereadFails, Refuse
<1> QED
  BY <1>4, <1>5, <1>7, <1>8, <1>9 DEF Operation

\* Another caller's operation, or none, leaves what a winner was told true.
LEMMA AcknowledgedStep ==
    ASSUME TypeOK, RowsConsistent, [Next]_storeVars, NEW c \in Callers,
           Acknowledged(c), calls'[c] = calls[c], replies'[c] = replies[c]
    PROVE  Acknowledged(c)'
<1> SUFFICES ASSUME Won(c)'
             PROVE  /\ calls[c].id \in ApprovalIds
                    /\ Past(calls[c].op, records'[calls[c].id])
                    /\ Signed(calls[c], records'[calls[c].id])
  BY DEF Acknowledged
<1>1. /\ calls[c].op \in Edges /\ calls[c].id \in ApprovalIds
      /\ Past(calls[c].op, records[calls[c].id])
      /\ Signed(calls[c], records[calls[c].id])
  BY DEF Won, Acknowledged
<1>2. calls[c] \in Requests
  BY <1>1 DEF TypeOK, Idle, Edges, DecisionOps, FinishOps
<1>3. Past(calls[c].op, records'[calls[c].id])
  BY <1>1, PastStep
<1>4. Signed(calls[c], records'[calls[c].id])
  BY <1>1, <1>2, SignedStep
<1> QED
  BY <1>1, <1>3, <1>4

\* Two calls of one class cannot both have won: after the first the row is no
\* longer where the second would have to find it.
LEMMA NotBoth ==
    ASSUME NEW ops \in {DecisionOps, {"mark_executing"}, FinishOps},
           NEW o1 \in ops, NEW o2 \in ops, NEW row, Before(o1, row)
    PROVE  ~Past(o2, row)
  BY DEF Before, Past, DecisionOps, FinishOps

LEMMA WinOperation ==
    ASSUME TypeOK, RowsConsistent, WinInv, NEW e \in Callers, Operation(e)
    PROVE  WinInv'
<1>1. /\ calls' = calls /\ [Next]_storeVars
      /\ \A c \in Callers \ {e} : replies'[c] = replies[c]
  BY OperationAnswers DEF Answer, TypeOK, Next
<1>2. calls[e] # Idle /\ (replies'[e].outcome = "ok" => replies[e].outcome # "ok")
  BY OperationFirst
<1>3. ASSUME NEW c \in Callers \ {e}
      PROVE  Acknowledged(c)'
  BY <1>1, <1>3, AcknowledgedStep DEF WinInv
<1>4. ASSUME Won(e)'
      PROVE  /\ calls[e].id \in ApprovalIds
             /\ Before(calls[e].op, records[calls[e].id])
             /\ Past(calls[e].op, records'[calls[e].id])
             /\ Signed(calls[e], records'[calls[e].id])
  <2>1. calls[e].op \in Edges /\ replies'[e].outcome = "ok"
    BY <1>1, <1>4 DEF Won
  <2>2. replies[e].outcome # "ok"
    BY <1>2, <2>1
  <2> QED
    BY <2>1, <2>2, EdgeTaken
<1>5. Acknowledged(e)'
  BY <1>1, <1>4 DEF Acknowledged, Won
<1>6. OneWinner'
  <2> SUFFICES ASSUME NEW c \in Callers, NEW d \in Callers,
                      NEW ops \in {DecisionOps, {"mark_executing"}, FinishOps},
                      calls[c].op \in ops, calls[d].op \in ops,
                      replies'[c].outcome = "ok", replies'[d].outcome = "ok",
                      calls[c].id = calls[d].id, c # d
               PROVE  FALSE
    BY <1>1 DEF OneWinner
  <2>0. calls[c].op \in Edges /\ calls[d].op \in Edges
    BY DEF Edges
  <2>1. CASE c # e /\ d # e
    <3>1. replies[c].outcome = "ok" /\ replies[d].outcome = "ok"
      BY <1>1, <2>1
    <3> QED
      BY <3>1 DEF WinInv, OneWinner
  <2>2. ASSUME NEW u \in Callers, NEW v \in Callers, u = e, v # e,
               calls[u].op \in ops, calls[v].op \in ops,
               replies'[u].outcome = "ok", replies'[v].outcome = "ok",
               calls[u].id = calls[v].id
        PROVE  FALSE
    <3>1. calls[u].op \in Edges /\ calls[v].op \in Edges
      BY <2>2 DEF Edges
    <3>2. Before(calls[u].op, records[calls[u].id])
      BY <1>1, <1>4, <2>2, <3>1 DEF Won
    <3>3. Past(calls[v].op, records[calls[v].id])
      BY <1>1, <2>2, <3>1 DEF WinInv, Acknowledged, Won
    <3> QED
      BY <2>2, <3>2, <3>3, NotBoth
  <2> QED
    BY <2>1, <2>2
<1> QED
  BY <1>1, <1>2, <1>3, <1>5, <1>6 DEF WinInv

LEMMA WinStep ==
    ASSUME TypeOK, RowsConsistent, WinInv, [Next]_storeVars
    PROVE  WinInv'
<1>1. ASSUME NEW e \in Callers, Operation(e)
      PROVE  WinInv'
  BY <1>1, WinOperation
\* Every other step leaves the rows alone, and a call with its answer too, or
\* takes the answer away.
<1>2. ASSUME records' = records,
             \A c \in Callers : \/ replies'[c] = NoReply
                                \/ calls'[c] = calls[c] /\ replies'[c] = replies[c]
      PROVE  WinInv'
  <2>1. \A c \in Callers : Won(c)' => /\ Won(c) /\ calls'[c] = calls[c]
                                      /\ replies'[c] = replies[c]
    BY <1>2 DEF Won, NoReply
  <2>2. \A c \in Callers : Acknowledged(c)'
    BY <1>2, <2>1 DEF WinInv, Acknowledged
  <2>3. \A c \in Callers : calls'[c] = Idle => replies'[c] = NoReply
    BY <1>2 DEF WinInv
  <2>4. OneWinner'
    BY <1>2 DEF WinInv, OneWinner, NoReply
  <2> QED
    BY <2>2, <2>3, <2>4 DEF WinInv
<1>3. ASSUME NEW c \in Callers, NEW req, Invoke(c, req)
      PROVE  WinInv'
  <2>1. /\ records' = records /\ replies' = replies
        /\ replies[c] = NoReply
        /\ \A d \in Callers \ {c} : calls'[d] = calls[d]
    BY <1>3 DEF Invoke, WinInv, TypeOK
  <2> QED
    BY <1>2, <2>1
<1>4. ASSUME NEW c \in Callers, Return(c)
      PROVE  WinInv'
  <2>1. /\ records' = records /\ replies'[c] = NoReply
        /\ \A d \in Callers \ {c} : calls'[d] = calls[d] /\ replies'[d] = replies[d]
    BY <1>4 DEF Return, TypeOK
  <2> QED
    BY <1>2, <2>1
<1>5. ASSUME NEW C \in SUBSET Callers, Crash(C)
      PROVE  WinInv'
  BY <1>2, <1>5 DEF Crash
<1>6. CASE Tick
  BY <1>2, <1>6 DEF Tick
<1>7. CASE UNCHANGED storeVars
  BY <1>2, <1>7 DEF storeVars
<1> QED
  BY <1>1, <1>3, <1>4, <1>5, <1>6, <1>7 DEF Next

LEMMA WinInvHolds == Spec => []WinInv
<1>1. Init => WinInv
  BY DEF Init, WinInv, Acknowledged, Won, OneWinner, NoReply
<1> QED
  BY <1>1, WinStep, Consistent, PTL DEF Spec

\* Guarantee 4, as the callers see it: of all that race for one edge of one
\* approval, however many they are, one is told that it took it.
THEOREM OneWinnerAlways == Spec => []OneWinner
<1>1. WinInv => OneWinner
  BY DEF WinInv
<1> QED
  BY <1>1, WinInvHolds, PTL

\* What a caller was told of its decision, its permission or its result stays
\* true of the row, whoever else calls, fails or dies.
THEOREM AcknowledgedStandsAlways == Spec => []AcknowledgedStands
<1>1. WinInv => AcknowledgedStands
  <2> SUFFICES ASSUME WinInv, NEW c \in Callers, calls[c].op \in Edges,
                      replies[c].outcome = "ok"
               PROVE  /\ Past(calls[c].op, records[calls[c].id])
                      /\ Signed(calls[c], records[calls[c].id])
    BY DEF AcknowledgedStands, Succeeded, Edges, Past, Signed, DecisionOps, FinishOps
  <2> QED
    BY DEF WinInv, Acknowledged, Won
<1> QED
  BY <1>1, WinInvHolds, PTL
-----------------------------------------------------------------------------
(* Decisions and expiries keep to the windows *)

\* What an operation that read the time now does to a row that it changes.
Dated(old, new, now) ==
    \/ /\ old.state = "absent"
       /\ new.state = "proposed" /\ new.decided_at = NULL
       /\ new.created_at = now /\ new.expires_at \in Nat
    \/ Overdue(old, now) /\ new = Lapsed(old)
    \/ /\ old.state = "proposed" /\ ~Elapsed(old.expires_at, now)
       /\ new.state \in {"approved", "rejected", "cancelled"}
       /\ new.created_at = old.created_at /\ new.expires_at = old.expires_at
       /\ new.decided_at = now
       /\ new.state = "approved" => new.execute_expires_at \in Nat
    \/ /\ old.state \in {"approved", "executing"}
       /\ new.state \in {"executing", "executed", "exec_failed"}
       /\ new.created_at = old.created_at /\ new.expires_at = old.expires_at
       /\ new.decided_at = old.decided_at
       /\ new.execute_expires_at = old.execute_expires_at

\* Only a decision is dated by its call, and it is about the row it names.
DatedStep(call) ==
    \A i \in ApprovalIds :
        \/ records'[i] = records[i]
        \/ /\ Dated(records[i], records'[i], call.now)
           /\ records[i].state = "proposed" /\ records'[i].state # "expired" =>
                 call.op \in DecisionOps /\ call.id = i

RowInTime(row) ==
    /\ row.state # "absent" =>
          row.created_at \in Nat /\ row.expires_at \in Nat /\ row.created_at <= clock
    /\ row.state \in {"absent", "proposed"} => row.decided_at = NULL
    /\ row.state = "approved" => row.decided_at \in Nat
    /\ row.state \in {"approved", "executing", "executed", "exec_failed"} =>
          row.execute_expires_at \in Nat
    /\ row.decided_at # NULL =>
          row.created_at <= row.decided_at /\ row.decided_at <= row.expires_at
    /\ row.state = "expired" =>
          IF row.decided_at = NULL THEN clock > row.expires_at
          ELSE row.execute_expires_at \in Nat /\ clock > row.execute_expires_at

\* A call's time is not ahead of the clock, nor behind the row it may decide:
\* an id can be named only once its row is in the table.
CallInTime(call) ==
    /\ call # Idle => call.now <= clock
    /\ call.op \in DecisionOps /\ call.id \in ApprovalIds =>
          records[call.id].state # "absent" /\ records[call.id].created_at <= call.now

TimeInv ==
    /\ \A i \in ApprovalIds : RowInTime(records[i])
    /\ \A c \in Callers : CallInTime(calls[c])

LEMMA TransitionDated ==
    ASSUME TypeOK, NEW c \in Callers, calls[c] \in Requests,
           calls[c].op \in DecisionOps,
           NEW to \in {"approved", "rejected", "cancelled"}, NEW check, NEW window,
           to = "approved" => window \in Nat,
           Transition(c, to, check, window)
    PROVE  DatedStep(calls[c])
<1> DEFINE call == calls[c]
           row == records[call.id]
           new == [row EXCEPT !.state = to, !.decided_by = call.by,
                              !.decided_at = call.now,
                              !.execute_expires_at = window]
<1>1. CASE records' = records
  BY <1>1 DEF DatedStep
<1>2. CASE /\ call.id \in Issued /\ row.state = "proposed"
           /\ Elapsed(row.expires_at, call.now)
           /\ records' = [records EXCEPT ![call.id] = Lapsed(row)]
  <2>1. \A i \in ApprovalIds : records'[i] = IF i = call.id THEN Lapsed(row) ELSE records[i]
    BY <1>2 DEF TypeOK
  <2>2. Overdue(row, call.now) /\ Lapsed(row).state = "expired"
    <3>1. row \in Rows
      BY <1>2 DEF Issued, TypeOK
    <3> QED
      BY <1>2, <3>1 DEF Overdue, Lapsed, Rows
  <2> QED
    BY <2>1, <2>2 DEF DatedStep, Dated
<1>3. CASE /\ call.id \in Issued /\ row.state = "proposed"
           /\ ~Elapsed(row.expires_at, call.now)
           /\ records' = [records EXCEPT ![call.id] = new]
  <2>1. \A i \in ApprovalIds : records'[i] = IF i = call.id THEN new ELSE records[i]
    BY <1>3 DEF TypeOK
  <2>2. /\ new.state = to /\ new.decided_at = call.now
        /\ new.created_at = row.created_at /\ new.expires_at = row.expires_at
        /\ new.execute_expires_at = window
    <3>1. row \in Rows
      BY <1>3 DEF Issued, TypeOK
    <3> QED
      BY <3>1 DEF Rows
  <2> HIDE DEF new
  <2>3. Dated(row, new, call.now)
    BY <1>3, <2>2 DEF Dated
  <2> QED
    BY <2>1, <2>3 DEF DatedStep
<1> QED
  BY <1>1, <1>2, <1>3 DEF Transition, Refuse, Write

LEMMA OperationDated ==
    ASSUME TypeOK, NEW c \in Callers, Operation(c)
    PROVE  DatedStep(calls[c])
<1> DEFINE call == calls[c]
<1>0. \A i \in ApprovalIds : records[i] \in Rows
  BY DEF TypeOK
<1>1. CASE records' = records
  BY <1>1 DEF DatedStep
<1>2. ASSUME NEW i \in ApprovalIds, NEW row, Dated(records[i], row, call.now),
             records[i].state # "proposed" \/ row.state = "expired",
             records' = [records EXCEPT ![i] = row]
      PROVE  DatedStep(call)
  <2>1. \A j \in ApprovalIds : records'[j] = IF j = i THEN row ELSE records[j]
    BY <1>2 DEF TypeOK
  <2> QED
    BY <1>2, <2>1 DEF DatedStep
<1>3. \A i \in ApprovalIds : Overdue(records[i], call.now) =>
         Dated(records[i], Lapsed(records[i]), call.now) /\ Lapsed(records[i]).state = "expired"
  BY <1>0 DEF Dated, Lapsed, Rows
<1>4. CASE CreateRequest(c)
  <2>1. call \in Requests /\ call.op = "create_request"
    BY <1>4 DEF TypeOK, CreateRequest, Running, Idle
  <2>2. PICK i \in ApprovalIds \ Issued : records' = [records EXCEPT ![i] = NewRow(call)]
    BY <1>4 DEF CreateRequest, Write
  <2>3. /\ NewRow(call).state = "proposed" /\ NewRow(call).decided_at = NULL
        /\ NewRow(call).created_at = call.now
        /\ NewRow(call).expires_at = call.now + TTL(call.kind)
    BY DEF NewRow, Absent
  <2>4. call.now + TTL(call.kind) \in Nat
    BY <2>1, NewRowType, TTLAssumption DEF TTL
  <2>5. Dated(records[i], NewRow(call), call.now) /\ records[i].state = "absent"
    BY <2>2, <2>3, <2>4 DEF Dated, Issued
  <2> QED
    BY <1>2, <2>2, <2>5
<1>5. CASE Get(c)
  <2>1. \/ records' = records
        \/ /\ call.id \in ApprovalIds /\ Overdue(records[call.id], call.now)
           /\ records' = [records EXCEPT ![call.id] = Lapsed(records[call.id])]
    BY <1>5 DEF Get, Refuse, Issued, TypeOK
  <2> QED
    BY <1>1, <1>2, <1>3, <2>1
<1>6. CASE Approve(c) \/ Reject(c) \/ Cancel(c)
  <2>1. call.op \in DecisionOps
    BY <1>6 DEF Approve, Reject, Cancel, Running, DecisionOps
  <2>2. call \in Requests
    BY <2>1 DEF TypeOK, Idle, DecisionOps
  <2>3. call.now + ExecuteTTL \in Nat
    BY <2>2, RequestParts, TTLAssumption
  <2>4. CASE Approve(c)
    BY <2>1, <2>2, <2>3, <2>4, TransitionDated DEF Approve
  <2>5. CASE Reject(c) \/ Cancel(c)
    BY <2>1, <2>2, <2>5, TransitionDated DEF Reject, Cancel
  <2> QED
    BY <1>6, <2>4, <2>5
<1>7. CASE MarkExecuting(c)
  <2> DEFINE row == records[call.id]
             new == [row EXCEPT !.state = "executing", !.executed_by = call.by]
  <2>1. \/ records' = records
        \/ /\ call.id \in Issued /\ Overdue(row, call.now)
           /\ records' = [records EXCEPT ![call.id] = Lapsed(row)]
        \/ /\ call.id \in Issued /\ row.state = "approved"
           /\ records' = [records EXCEPT ![call.id] = new]
    BY <1>7 DEF MarkExecuting, Refuse, Write, Overdue
  <2>2. ASSUME call.id \in Issued, row.state = "approved"
        PROVE  Dated(row, new, call.now)
    <3>1. row \in Rows
      BY <2>2 DEF Issued, TypeOK
    <3>2. /\ new.state = "executing" /\ new.decided_at = row.decided_at
          /\ new.created_at = row.created_at /\ new.expires_at = row.expires_at
          /\ new.execute_expires_at = row.execute_expires_at
      BY <3>1 DEF Rows
    <3> QED
      BY <2>2, <3>2 DEF Dated
  <2> HIDE DEF new
  <2> QED
    BY <1>1, <1>2, <1>3, <2>1, <2>2 DEF Issued
<1>8. ASSUME NEW to \in {"executed", "exec_failed"}, Finish(c, to)
      PROVE  DatedStep(call)
  <2> DEFINE row == records[call.id]
             new == [row EXCEPT !.state = to, !.executed_at = call.now]
  <2>1. \/ records' = records
        \/ /\ call.id \in Issued /\ row.state = "executing"
           /\ records' = [records EXCEPT ![call.id] = new]
    BY <1>8 DEF Finish, Refuse, Write
  <2>2. ASSUME call.id \in Issued, row.state = "executing"
        PROVE  Dated(row, new, call.now)
    <3>1. row \in Rows
      BY <2>2 DEF Issued, TypeOK
    <3>2. /\ new.state = to /\ new.decided_at = row.decided_at
          /\ new.created_at = row.created_at /\ new.expires_at = row.expires_at
          /\ new.execute_expires_at = row.execute_expires_at
      BY <3>1 DEF Rows
    <3> QED
      BY <2>2, <3>2 DEF Dated
  <2> HIDE DEF new
  <2> QED
    BY <1>1, <1>2, <2>1, <2>2 DEF Issued
<1>9. CASE MarkExecuted(c) \/ MarkExecFailed(c)
  BY <1>8, <1>9 DEF MarkExecuted, MarkExecFailed
<1>10. CASE ExpireOverdue(c)
  <2>1. \A i \in ApprovalIds : records'[i] = IF Overdue(records[i], call.now)
                                             THEN Lapsed(records[i]) ELSE records[i]
    BY <1>10 DEF ExpireOverdue
  <2> QED
    BY <1>3, <2>1 DEF DatedStep
<1>11. CASE DbError(c) \/ RereadFails(c)
  BY <1>1, <1>11 DEF DbError, RereadFails, Refuse
<1> QED
  BY <1>4, <1>5, <1>6, <1>7, <1>9, <1>10, <1>11 DEF Operation

\* One row, under an operation whose call is in time.
LEMMA RowStaysInTime ==
    ASSUME NEW old \in Rows, NEW new \in Rows, RowInTime(old), clock \in Nat,
           NEW now \in Nat, now <= clock, Dated(old, new, now),
           old.state = "proposed" /\ new.state # "expired" => old.created_at <= now
    PROVE  /\ RowInTime(new)
           /\ new.state # "absent"
           /\ old.state # "absent" => new.created_at = old.created_at
<1> USE NullAssumption
<1>1. CASE /\ old.state = "absent"
           /\ new.state = "proposed" /\ new.decided_at = NULL
           /\ new.created_at = now /\ new.expires_at \in Nat
  BY <1>1 DEF RowInTime
<1>2. CASE Overdue(old, now) /\ new = Lapsed(old)
  <2>1. /\ new.state = "expired" /\ new.created_at = old.created_at
        /\ new.expires_at = old.expires_at /\ new.decided_at = old.decided_at
        /\ new.execute_expires_at = old.execute_expires_at
    BY <1>2 DEF Lapsed, Rows
  <2>2. CASE old.state = "proposed"
    BY <1>2, <2>1, <2>2 DEF RowInTime, Overdue, Elapsed
  <2>3. CASE old.state = "approved"
    <3>1. old.execute_expires_at \in Nat /\ clock > old.execute_expires_at
      BY <1>2, <2>3 DEF Overdue, Elapsed, Rows, Times
    <3> QED
      BY <2>1, <2>3, <3>1 DEF RowInTime
  <2> QED
    BY <1>2, <2>2, <2>3 DEF Overdue
<1>3. CASE /\ old.state = "proposed" /\ ~Elapsed(old.expires_at, now)
           /\ new.state \in {"approved", "rejected", "cancelled"}
           /\ new.created_at = old.created_at /\ new.expires_at = old.expires_at
           /\ new.decided_at = now
           /\ new.state = "approved" => new.execute_expires_at \in Nat
  <2>1. old.created_at <= now
    BY <1>3
  <2>2. old.expires_at \in Nat /\ now <= old.expires_at
    BY <1>3 DEF RowInTime, Elapsed
  <2> QED
    BY <1>3, <2>1, <2>2 DEF RowInTime
<1>4. CASE /\ old.state \in {"approved", "executing"}
           /\ new.state \in {"executing", "executed", "exec_failed"}
           /\ new.created_at = old.created_at /\ new.expires_at = old.expires_at
           /\ new.decided_at = old.decided_at
           /\ new.execute_expires_at = old.execute_expires_at
  BY <1>4 DEF RowInTime
<1> QED
  BY <1>1, <1>2, <1>3, <1>4 DEF Dated

LEMMA TimeOperation ==
    ASSUME TypeOK, TypeOK', TimeInv, NEW c \in Callers, Operation(c), calls[c] # Idle
    PROVE  TimeInv'
<1>1. calls' = calls /\ clock' = clock
  BY OperationAnswers DEF Answer
<1>2. calls[c] \in Requests /\ calls[c].now \in Nat /\ calls[c].now <= clock
  BY RequestParts DEF TypeOK, TimeInv, CallInTime
<1>3. ASSUME NEW i \in ApprovalIds, records'[i] # records[i]
      PROVE  /\ RowInTime(records'[i])
             /\ records'[i].state # "absent"
             /\ records[i].state # "absent" => records'[i].created_at = records[i].created_at
  <2>1. /\ Dated(records[i], records'[i], calls[c].now)
        /\ records[i].state = "proposed" /\ records'[i].state # "expired" =>
              calls[c].op \in DecisionOps /\ calls[c].id = i
    BY <1>3, OperationDated DEF DatedStep
  <2>2. /\ records[i] \in Rows /\ records'[i] \in Rows /\ RowInTime(records[i])
        /\ clock \in Nat
    BY DEF TypeOK, TimeInv
  <2>3. records[i].state = "proposed" /\ records'[i].state # "expired" =>
           records[i].created_at <= calls[c].now
    BY <2>1 DEF TimeInv, CallInTime
  <2> QED
    BY <1>2, <2>1, <2>2, <2>3, RowStaysInTime
<1>4. \A i \in ApprovalIds : RowInTime(records[i])'
  BY <1>1, <1>3 DEF TimeInv, RowInTime
<1>5. \A d \in Callers : CallInTime(calls[d])'
  BY <1>1, <1>3 DEF TimeInv, CallInTime
<1> QED
  BY <1>4, <1>5 DEF TimeInv

LEMMA TimeStep ==
    ASSUME TypeOK, TypeOK', TimeInv, [Next]_storeVars
    PROVE  TimeInv'
<1>1. ASSUME NEW c \in Callers, Operation(c)
      PROVE  TimeInv'
  BY <1>1, OperationFirst, TimeOperation
\* The clock may go on, and calls may end.
<1>2. ASSUME records' = records, clock' \in Nat, clock <= clock',
             \A c \in Callers : calls'[c] \in {calls[c], Idle}
      PROVE  TimeInv'
  <2>1. \A i \in ApprovalIds : RowInTime(records[i])'
    <3> SUFFICES ASSUME NEW i \in ApprovalIds
                 PROVE  RowInTime(records[i])'
      OBVIOUS
    <3>1. records[i] \in Rows /\ RowInTime(records[i]) /\ clock \in Nat
      BY DEF TypeOK, TimeInv
    <3>2. records'[i] = records[i]
      BY <1>2
    <3> QED
      BY <1>2, <3>1, <3>2 DEF RowInTime
  <2>2. ASSUME NEW c \in Callers
        PROVE  CallInTime(calls[c])'
    <3>1. CASE calls'[c] = Idle
      BY <3>1 DEF CallInTime, Idle, DecisionOps
    <3>2. CASE calls'[c] = calls[c] /\ calls[c] # Idle
      <4>1. calls[c] \in Requests /\ calls[c].now \in Nat /\ CallInTime(calls[c])
            /\ clock \in Nat
        BY <3>2, RequestParts DEF TypeOK, TimeInv
      <4> QED
        BY <1>2, <3>2, <4>1 DEF CallInTime
    <3> QED
      BY <1>2, <3>1, <3>2
  <2> QED
    BY <2>1, <2>2 DEF TimeInv
<1>3. ASSUME NEW c \in Callers, NEW req \in RequestsIn({clock}), Invoke(c, req)
      PROVE  TimeInv'
  <2>1. /\ records' = records /\ clock' = clock /\ calls'[c] = req
        /\ \A d \in Callers \ {c} : calls'[d] = calls[d]
        /\ req.now = clock /\ clock \in Nat
    BY <1>3 DEF Invoke, TypeOK
  <2>2. req.op \in DecisionOps => req.id \in Issued \union {UnknownId}
    BY <1>3 DEF Invoke, DecisionOps
  <2>3. CallInTime(calls[c])'
    <3>1. req.op \in DecisionOps /\ req.id \in ApprovalIds =>
             records[req.id].state # "absent" /\ records[req.id].created_at <= clock
      BY <2>2, IdAssumption DEF Issued, TimeInv, RowInTime
    <3> QED
      BY <2>1, <3>1 DEF CallInTime
  <2>4. \A d \in Callers \ {c} : CallInTime(calls[d])'
    BY <2>1 DEF TimeInv, CallInTime
  <2>5. \A i \in ApprovalIds : RowInTime(records[i])'
    BY <2>1 DEF TimeInv, RowInTime
  <2> QED
    BY <2>3, <2>4, <2>5 DEF TimeInv
<1>4. ASSUME NEW c \in Callers, Return(c)
      PROVE  TimeInv'
  BY <1>2, <1>4 DEF Return, TypeOK
<1>5. ASSUME NEW C \in SUBSET Callers, Crash(C)
      PROVE  TimeInv'
  BY <1>2, <1>5 DEF Crash, TypeOK
<1>6. CASE Tick
  BY <1>2, <1>6 DEF Tick, TypeOK
<1>7. CASE UNCHANGED storeVars
  BY <1>2, <1>7 DEF storeVars, TypeOK
<1> QED
  BY <1>1, <1>3, <1>4, <1>5, <1>6, <1>7 DEF Next

\* Decisions and starts fall inside their window, and nothing expires before
\* its window has passed, for any lengths of the windows and however long a
\* call waited between reading the clock and getting the database.
THEOREM WindowsRespectedAlways == Spec => []WindowsRespected
<1>1. Init => TimeInv
  BY NullAssumption DEF Init, TimeInv, RowInTime, CallInTime, Absent, Idle, DecisionOps
<1>2. Spec => []TypeOK
  BY TypeCorrect
<1>3. TypeOK /\ TimeInv /\ WinInv => WindowsRespected
  <2> SUFFICES ASSUME TypeOK, TimeInv, WinInv, NEW i \in ApprovalIds
               PROVE  LET row == records[i] IN
                      /\ row.decided_at # NULL =>
                            row.created_at <= row.decided_at /\ row.decided_at <= row.expires_at
                      /\ row.state = "expired" =>
                            IF row.decided_at = NULL THEN clock > row.expires_at
                            ELSE clock > row.execute_expires_at
                      /\ \A c \in Callers :
                            Succeeded(c, "mark_executing") /\ calls[c].id = i =>
                               /\ row.execute_expires_at # NULL
                               /\ calls[c].now <= row.execute_expires_at
    BY DEF WindowsRespected
  <2> DEFINE row == records[i]
  <2>1. RowInTime(row)
    BY DEF TimeInv
  <2>2. ASSUME NEW c \in Callers, Succeeded(c, "mark_executing"), calls[c].id = i
        PROVE  row.execute_expires_at # NULL /\ calls[c].now <= row.execute_expires_at
    <3>1. /\ row.state \in {"executing", "executed", "exec_failed"}
          /\ ~Elapsed(row.execute_expires_at, calls[c].now)
      BY <2>2 DEF WinInv, Acknowledged, Won, Succeeded, Past, Signed, Edges
    <3>2. calls[c] \in Requests /\ calls[c].now \in Nat
      BY <2>2, RequestParts DEF TypeOK, Succeeded, Idle
    <3>3. row.execute_expires_at \in Nat
      BY <2>1, <3>1 DEF RowInTime
    <3> QED
      BY <3>1, <3>2, <3>3, NullAssumption DEF Elapsed
  <2> QED
    BY <2>1, <2>2 DEF RowInTime
<1> QED
  BY <1>1, <1>2, <1>3, TimeStep, WinInvHolds, PTL DEF Spec
-----------------------------------------------------------------------------
(* What a reader was told stays true *)

\* A later state of the row: it is the same approval, and what was final stays.
Follows(old, new) ==
    /\ old.state # "absent" /\ new.state # "absent"
    /\ new.kind = old.kind /\ new.mode = old.mode
    /\ new.requested_by = old.requested_by
    /\ Final(old, new)

LEMMA RowStepFollows ==
    ASSUME NEW old \in Rows, NEW new, RowConsistent(old), old.state # "absent",
           RowStep(old, new) \/ (/\ new = Lapsed(old)
                                 /\ old.state \in {"proposed", "approved"})
    PROVE  Follows(old, new)
<1>1. Final(old, new)
  BY RowStepFinal
<1>2. CASE Proposes(old, new)
  BY <1>2 DEF Proposes
<1>3. CASE Decides(old, new)
  <2>1. PICK a \in Actors, to \in {"approved", "rejected", "cancelled"},
             t \in Nat, window \in Times :
          new = [old EXCEPT !.state = to, !.decided_by = a,
                            !.decided_at = t, !.execute_expires_at = window]
    BY <1>3 DEF Decides
  <2>2. /\ new.state = to /\ new.kind = old.kind /\ new.mode = old.mode
        /\ new.requested_by = old.requested_by
    BY <2>1 DEF Rows
  <2> QED
    BY <1>1, <2>2 DEF Follows
<1>4. CASE Starts(old, new)
  <2>1. /\ new.state = "executing" /\ new.kind = old.kind /\ new.mode = old.mode
        /\ new.requested_by = old.requested_by
    BY <1>4 DEF Starts, Rows
  <2> QED
    BY <1>1, <2>1 DEF Follows
<1>5. CASE Finishes(old, new)
  <2>1. /\ new.state \in {"executed", "exec_failed"}
        /\ new.kind = old.kind /\ new.mode = old.mode
        /\ new.requested_by = old.requested_by
    BY <1>5 DEF Finishes, Rows
  <2> QED
    BY <1>1, <2>1 DEF Follows
<1>6. CASE new = Lapsed(old)
  <2>1. /\ new.state = "expired" /\ new.kind = old.kind /\ new.mode = old.mode
        /\ new.requested_by = old.requested_by
    BY <1>6 DEF Lapsed, Rows
  <2> QED
    BY <1>1, <2>1 DEF Follows
<1> QED
  BY <1>2, <1>3, <1>4, <1>5, <1>6 DEF RowStep

LEMMA FollowsStep ==
    ASSUME TypeOK, RowsConsistent, [Next]_storeVars,
           NEW i \in ApprovalIds, records[i].state # "absent"
    PROVE  Follows(records[i], records'[i])
<1>0. records[i] \in Rows /\ RowConsistent(records[i])
  BY DEF TypeOK, RowsConsistent
<1>1. CASE records'[i] = records[i]
  BY <1>1 DEF Follows, Final
<1>2. ASSUME NEW j \in ApprovalIds, NEW row, RowStep(records[j], row),
             records' = [records EXCEPT ![j] = row]
      PROVE  Follows(records[i], records'[i])
  <2>1. CASE i = j
    <3>1. records'[i] = row
      BY <1>2, <2>1 DEF TypeOK
    <3> QED
      BY <1>0, <1>2, <2>1, <3>1, RowStepFollows
  <2>2. CASE i # j
    BY <1>1, <1>2, <2>2 DEF TypeOK
  <2> QED
    BY <2>1, <2>2
<1>3. ASSUME NEW S \in SUBSET ApprovalIds, Lapses(S)
      PROVE  Follows(records[i], records'[i])
  <2>1. CASE i \in S
    BY <1>0, <1>3, <2>1, RowStepFollows DEF Lapses
  <2>2. CASE i \notin S
    BY <1>1, <1>3, <2>2 DEF Lapses
  <2> QED
    BY <2>1, <2>2
<1> QED
  BY <1>1, <1>2, <1>3, StepsOfTheTable DEF TableStep

LEMMA FollowsTransitive ==
    ASSUME NEW r1, NEW r2, NEW r3, Follows(r1, r2), Follows(r2, r3)
    PROVE  Follows(r1, r3)
  BY DEF Follows, Final

\* The store answers get with the row as it leaves it.
LEMMA GetAnswer ==
    ASSUME TypeOK, NEW c \in Callers, Operation(c), calls[c].op = "get",
           replies'[c].outcome = "ok"
    PROVE  /\ calls[c].id \in ApprovalIds
           /\ records'[calls[c].id].state # "absent"
           /\ replies'[c].row = records'[calls[c].id]
<1> DEFINE i == calls[c].id
           row == IF Overdue(records[i], calls[c].now)
                  THEN Lapsed(records[i]) ELSE records[i]
<1>1. ASSUME NEW outcome, NEW answered, Answer(c, outcome, answered)
      PROVE  outcome = "ok" /\ replies'[c].row = answered
  BY <1>1 DEF Answer, TypeOK
<1>2. ASSUME NEW ops, Running(c, ops), "get" \notin ops
      PROVE  FALSE
  BY <1>2 DEF Running
<1>3. ~(DbError(c) \/ RereadFails(c))
  BY <1>1 DEF DbError, RereadFails, Refuse
<1>4. Get(c)
  BY <1>2, <1>3 DEF Operation, CreateRequest, Approve, Reject, Cancel, MarkExecuting,
                    MarkExecuted, MarkExecFailed, ExpireOverdue
<1>5. i \in Issued /\ records' = [records EXCEPT ![i] = row] /\ Answer(c, "ok", row)
  BY <1>1, <1>4 DEF Get, Refuse
<1>6. i \in ApprovalIds /\ records[i].state # "absent" /\ records[i] \in Rows
  BY <1>5 DEF Issued, TypeOK
<1>7. records'[i] = row /\ replies'[c].row = row
  BY <1>1, <1>5, <1>6 DEF TypeOK
<1>8. row.state # "absent"
  BY <1>6 DEF Lapsed, Rows
<1> QED
  BY <1>6, <1>7, <1>8

Informed(c) ==
    calls[c].op = "get" /\ replies[c].outcome = "ok" =>
        calls[c].id \in ApprovalIds /\ Follows(replies[c].row, records[calls[c].id])

ReadersInformed == \A c \in Callers : Informed(c)

LEMMA InformedStep ==
    ASSUME TypeOK, RowsConsistent, WinInv, ReadersInformed, [Next]_storeVars
    PROVE  ReadersInformed'
<1>1. ASSUME NEW c \in Callers, calls'[c] = calls[c], replies'[c] = replies[c]
      PROVE  Informed(c)'
  <2> SUFFICES ASSUME calls[c].op = "get", replies[c].outcome = "ok"
               PROVE  /\ calls[c].id \in ApprovalIds
                      /\ Follows(replies[c].row, records'[calls[c].id])
    BY <1>1 DEF Informed
  <2>1. calls[c].id \in ApprovalIds /\ Follows(replies[c].row, records[calls[c].id])
    BY DEF ReadersInformed, Informed
  <2>2. Follows(records[calls[c].id], records'[calls[c].id])
    BY <2>1, FollowsStep DEF Follows
  <2> QED
    BY <2>1, <2>2, FollowsTransitive
<1>2. ASSUME NEW c \in Callers, replies'[c] = NoReply
      PROVE  Informed(c)'
  BY <1>2 DEF Informed, NoReply
<1>3. ASSUME NEW e \in Callers, Operation(e)
      PROVE  ReadersInformed'
  <2>1. calls' = calls /\ \A c \in Callers \ {e} : replies'[c] = replies[c]
    BY <1>3, OperationAnswers DEF Answer, TypeOK
  <2>2. Informed(e)'
    <3> SUFFICES ASSUME calls[e].op = "get", replies'[e].outcome = "ok"
                 PROVE  /\ calls[e].id \in ApprovalIds
                        /\ Follows(replies'[e].row, records'[calls[e].id])
      BY <2>1 DEF Informed
    <3> QED
      BY <1>3, GetAnswer DEF Follows, Final
  <2> QED
    BY <1>1, <2>1, <2>2 DEF ReadersInformed
<1>4. ASSUME NEW c \in Callers, NEW req, Invoke(c, req)
      PROVE  ReadersInformed'
  <2>1. replies' = replies /\ replies[c] = NoReply
        /\ \A d \in Callers \ {c} : calls'[d] = calls[d]
    BY <1>4 DEF Invoke, WinInv, TypeOK
  <2> QED
    BY <1>1, <1>2, <2>1 DEF ReadersInformed
<1>5. ASSUME NEW c \in Callers, Return(c)
      PROVE  ReadersInformed'
  <2>1. replies'[c] = NoReply
        /\ \A d \in Callers \ {c} : calls'[d] = calls[d] /\ replies'[d] = replies[d]
    BY <1>5 DEF Return, TypeOK
  <2> QED
    BY <1>1, <1>2, <2>1 DEF ReadersInformed
<1>6. ASSUME NEW C \in SUBSET Callers, Crash(C)
      PROVE  ReadersInformed'
  <2>1. \A c \in Callers : \/ replies'[c] = NoReply
                           \/ calls'[c] = calls[c] /\ replies'[c] = replies[c]
    BY <1>6 DEF Crash
  <2> QED
    BY <1>1, <1>2, <2>1 DEF ReadersInformed
<1>7. CASE Tick \/ UNCHANGED storeVars
  <2>1. calls' = calls /\ replies' = replies
    BY <1>7 DEF Tick, storeVars
  <2> QED
    BY <1>1, <2>1 DEF ReadersInformed
<1> QED
  BY <1>3, <1>4, <1>5, <1>6, <1>7 DEF Next

\* What get answered stays true until its caller acts on it: the approval keeps
\* its kind, its mode and its requester, and whatever was final in the answer
\* (a decision, an executor, a terminal state) is what the row still says.  The
\* gateway and the tools rest on this when they check a row that they read
\* before they call the store again.
THEOREM ReadsStand == Spec => []ReadersInformed
<1>1. Init => ReadersInformed
  BY DEF Init, ReadersInformed, Informed, NoReply
<1> QED
  BY <1>1, InformedStep, Consistent, WinInvHolds, PTL DEF Spec
-----------------------------------------------------------------------------
(* The store implements the abstract life of an approval *)

LEMMA LifecycleInit == Init => Lifecycle!Init
  BY DEF Init, Lifecycle!Init, Absent

\* A step of the table is a step of the abstract machine.
LEMMA LifecycleStep ==
    ASSUME TypeOK, RowsConsistent, TableStep
    PROVE  Lifecycle!Next
<1> DEFINE phase == [i \in ApprovalIds |-> records[i].state]
           requester == [i \in ApprovalIds |-> records[i].requested_by]
           decider == [i \in ApprovalIds |-> records[i].decided_by]
           executor == [i \in ApprovalIds |-> records[i].executed_by]
<1>1. ASSUME NEW i \in ApprovalIds, NEW row, RowStep(records[i], row),
             records' = [records EXCEPT ![i] = row]
      PROVE  Lifecycle!Next
  <2> DEFINE old == records[i]
  <2>0. /\ old \in Rows /\ RowConsistent(old)
        /\ (phase)' = [phase EXCEPT ![i] = row.state]
        /\ (requester)' = [requester EXCEPT ![i] = row.requested_by]
        /\ (decider)' = [decider EXCEPT ![i] = row.decided_by]
        /\ (executor)' = [executor EXCEPT ![i] = row.executed_by]
    BY <1>1 DEF TypeOK, RowsConsistent
  <2>1. CASE Proposes(old, row)
    <3>1. PICK a \in Actors : /\ row.state = "proposed" /\ row.requested_by = a
                              /\ row.decided_by = NULL /\ row.executed_by = NULL
      BY <2>1 DEF Proposes, Absent
    <3>2. old.state = "absent" /\ old.decided_by = NULL /\ old.executed_by = NULL
      <4>1. old.state = "absent" /\ old = Absent
        BY <2>0, <2>1 DEF Proposes, RowConsistent
      <4> QED
        BY <4>1 DEF Absent
    <3>3. (decider)' = decider /\ (executor)' = executor
      <4>1. row.decided_by = old.decided_by /\ row.executed_by = old.executed_by
        BY <3>1, <3>2
      <4> QED
        BY <2>0, <4>1
    <3>4. Lifecycle!Propose(i, a)
      BY <2>0, <3>1, <3>2, <3>3 DEF Lifecycle!Propose
    <3> QED
      BY <3>4 DEF Lifecycle!Next
  <2>2. CASE Decides(old, row)
    <3>1. PICK a \in Actors, to \in {"approved", "rejected", "cancelled"},
               t \in Nat, window \in Times :
            /\ to = "approved" => a # old.requested_by
            /\ row = [old EXCEPT !.state = to, !.decided_by = a,
                                 !.decided_at = t, !.execute_expires_at = window]
      BY <2>2 DEF Decides
    <3>2. /\ old.state = "proposed" /\ row.state = to /\ row.decided_by = a
          /\ row.requested_by = old.requested_by /\ row.executed_by = old.executed_by
      BY <2>0, <2>2, <3>1 DEF Decides, Rows
    <3>3. (requester)' = requester /\ (executor)' = executor
      BY <2>0, <3>2
    <3>4. to = "approved" => a # requester[i]
      BY <3>1
    <3>5. Lifecycle!Decide(i, a, to)
      BY <2>0, <3>2, <3>3, <3>4 DEF Lifecycle!Decide
    <3> QED
      BY <3>5 DEF Lifecycle!Next
  <2>3. CASE Starts(old, row)
    <3>1. PICK a \in Actors : row = [old EXCEPT !.state = "executing", !.executed_by = a]
      BY <2>3 DEF Starts
    <3>2. /\ old.state = "approved" /\ row.state = "executing" /\ row.executed_by = a
          /\ row.requested_by = old.requested_by /\ row.decided_by = old.decided_by
      BY <2>0, <2>3, <3>1 DEF Starts, Rows
    <3>3. Lifecycle!Start(i, a)
      BY <2>0, <3>2 DEF Lifecycle!Start
    <3> QED
      BY <3>3 DEF Lifecycle!Next
  <2>4. CASE Finishes(old, row)
    <3>1. PICK to \in {"executed", "exec_failed"}, t \in Nat :
            row = [old EXCEPT !.state = to, !.executed_at = t]
      BY <2>4 DEF Finishes
    <3>2. /\ old.state = "executing" /\ row.state = to
          /\ row.requested_by = old.requested_by /\ row.decided_by = old.decided_by
          /\ row.executed_by = old.executed_by
      BY <2>0, <2>4, <3>1 DEF Finishes, Rows
    <3>3. Lifecycle!Finish(i, to)
      BY <2>0, <3>2 DEF Lifecycle!Finish
    <3> QED
      BY <3>3 DEF Lifecycle!Next
  <2> QED
    BY <1>1, <2>1, <2>2, <2>3, <2>4 DEF RowStep
<1>2. ASSUME NEW S \in SUBSET ApprovalIds, Lapses(S)
      PROVE  Lifecycle!Next
  <2>1. \A i \in S : /\ Lapsed(records[i]).state = "expired"
                     /\ Lapsed(records[i]).requested_by = records[i].requested_by
                     /\ Lapsed(records[i]).decided_by = records[i].decided_by
                     /\ Lapsed(records[i]).executed_by = records[i].executed_by
    BY DEF Lapsed, Rows, TypeOK
  <2>2. \A i \in ApprovalIds :
           records'[i] = IF i \in S THEN Lapsed(records[i]) ELSE records[i]
    BY <1>2 DEF Lapses
  <2>3. Lifecycle!Expire(S)
    BY <1>2, <2>1, <2>2 DEF Lapses, Lifecycle!Expire
  <2> QED
    BY <2>3 DEF Lifecycle!Next
<1> QED
  BY <1>1, <1>2 DEF TableStep

\* The store, with its clock, its calls, its faults and its lazy expiry,
\* implements the machine that heads approval_store.py.
THEOREM StoreImplementsLifecycle == Spec => ImplementsLifecycle
<1>1. TypeOK /\ RowsConsistent /\ [Next]_storeVars =>
        [Lifecycle!Next]_(Lifecycle!vars)
  <2> SUFFICES ASSUME TypeOK, RowsConsistent, [Next]_storeVars
               PROVE  [Lifecycle!Next]_(Lifecycle!vars)
    OBVIOUS
  <2>1. CASE TableStep
    BY <2>1, LifecycleStep
  <2>2. CASE records' = records
    BY <2>2 DEF Lifecycle!vars
  <2> QED
    BY <2>1, <2>2, StepsOfTheTable
<1> QED
  BY <1>1, LifecycleInit, Consistent, PTL DEF Spec, ImplementsLifecycle, Lifecycle!Spec
=============================================================================
