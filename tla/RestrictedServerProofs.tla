------------------------- MODULE RestrictedServerProofs -----------------------
(***************************************************************************)
(* Proofs about ExecutionGateway and RestrictedServer, for any number of   *)
(* tools, gateways and commands at work, whatever faults are enabled.      *)
(*                                                                         *)
(* First, a gateway and its surroundings use the store only as             *)
(* ApprovalStore allows, so everything proved of the store holds of them,  *)
(* and one approval puts at most one order on the wire, for any number of  *)
(* threads, processes, approvals and clients.                              *)
(*                                                                         *)
(* Second, the server and the operator reach the store only through its    *)
(* operations, and the gateway's own invariants survive the tools around   *)
(* it.  Then what the tools add: an approved effect happens at most once   *)
(* and only after an approval, an answer the server calls final is the     *)
(* state the row keeps, and only the actor that asked for an order         *)
(* withdraws it.                                                           *)
(***************************************************************************)
EXTENDS RestrictedServer, ApprovalStoreProofs

-----------------------------------------------------------------------------
(* The gateway *)

\* Every call the gateway starts is a request of the store.
LEMMA GatewayRequest ==
    ASSUME NEW t \in Threads, NEW op, NEW req,
           \/ /\ op \in FinishOps \union {"get"}
              /\ req = [op |-> op, id |-> task[t], now |-> clock]
           \/ \E a \in Actors :
                 req = [op |-> "mark_executing", id |-> task[t], by |-> a, now |-> clock],
           Invoke(t, req)
    PROVE  Next
<1>1. task[t] \in ApprovalIds \union {UnknownId}
  BY DEF Invoke, Issued, FinishOps
<1>2. req \in RequestsIn({clock})
  BY <1>1 DEF RequestsIn
<1> QED
  BY <1>2, CallersAssumption DEF Next

\* A store operation by any caller is a step of the store.
LEMMA OperationIsNext ==
    ASSUME NEW c \in Callers, StoreWorks(c) \/ StoreFails(c)
    PROVE  Next
  BY DEF StoreWorks, StoreFails, Operation, Next

LEMMA ProceedIsStoreStep ==
    ASSUME NEW t \in Threads, Proceed(t)
    PROVE  Next \/ UNCHANGED storeVars
<1>1. ASSUME Return(t) PROVE Next
  BY <1>1, CallersAssumption DEF Next
<1>2. ASSUME NEW op \in FinishOps, NEW location, FinishWith(t, op, location)
      PROVE  Next
  BY <1>2, GatewayRequest DEF FinishWith
<1>3. CASE LockAndGet(t)
  BY <1>3, GatewayRequest DEF LockAndGet
<1>4. CASE AfterGet(t) \/ AfterMarkExecuting(t) \/ AfterFirstMark(t) \/ AfterLastMark(t)
  BY <1>1, <1>4 DEF AfterGet, AfterMarkExecuting, AfterFirstMark, AfterLastMark
<1>5. CASE \E a \in Actors : AskPermission(t, a)
  BY <1>5, GatewayRequest DEF AskPermission
<1>6. CASE LastCheck(t)
  BY <1>2, <1>6 DEF LastCheck, FinishOps
<1>7. CASE CannotDeserialize(t) \/ Accepted(t) \/ Rejected(t) \/ BrokerRaises(t)
           \/ CloseAsFailed(t)
  BY <1>2, <1>7 DEF CannotDeserialize, Accepted, Rejected, BrokerRaises,
                    CloseAsFailed, FinishOps
<1>8. CASE Submit(t) \/ BadReply(t)
  BY <1>8 DEF Submit, BadReply
<1> QED
  BY <1>3, <1>4, <1>5, <1>6, <1>7, <1>8 DEF Proceed

LEMMA GatewayStepIsStoreStep == [GatewayNext]_vars => [Next]_storeVars
<1> SUFFICES ASSUME [GatewayNext]_vars
             PROVE  Next \/ UNCHANGED storeVars
  OBVIOUS
<1>1. CASE UNCHANGED vars
  BY <1>1 DEF vars
<1>2. ASSUME NEW t \in Threads, Proceed(t)
      PROVE  Next \/ UNCHANGED storeVars
  BY <1>2, ProceedIsStoreStep
<1>3. ASSUME NEW t \in Threads, NEW i, Enter(t, i)
      PROVE  UNCHANGED storeVars
  BY <1>3 DEF Enter
<1>4. ASSUME NEW c \in Callers, StoreWorks(c) \/ StoreFails(c)
      PROVE  Next
  BY <1>4, OperationIsNext
<1>5. ASSUME NEW c \in Clients, ClientStep(c)
      PROVE  Next
  BY <1>5, CallersAssumption DEF ClientStep, ClientRequests, Next
<1>6. ASSUME NEW i \in ApprovalIds, BrokerDecides(i)
      PROVE  UNCHANGED storeVars
  BY <1>6 DEF BrokerDecides
<1>7. ASSUME NEW g \in Gateways, Arm(g) \/ Reset(g) \/ GatewayCrash(g)
      PROVE  Next \/ UNCHANGED storeVars
  <2>1. ThreadsOf(g) \in SUBSET Callers
    BY CallersAssumption DEF ThreadsOf
  <2> QED
    BY <1>7, <2>1 DEF Arm, Reset, GatewayCrash, Next
<1>8. CASE Tick /\ UNCHANGED gatewayVars
  BY <1>8 DEF Next
<1> QED
  BY <1>1, <1>2, <1>3, <1>4, <1>5, <1>6, <1>7, <1>8 DEF GatewayNext

\* Gateways, clients, crashes and the broker together are an instance of the
\* store: its invariants and its abstract specification hold of them.
THEOREM GatewayUsesStore == GatewaySpec => UsesStore
<1>1. GatewayInit => Init
  BY DEF GatewayInit
<1> QED
  BY <1>1, GatewayStepIsStoreStep, PTL DEF GatewaySpec, UsesStore, Spec
-----------------------------------------------------------------------------
(* Type correctness *)

GatewayTypes ==
    /\ pc \in [Threads -> Locations]
    /\ task \in [Threads -> ApprovalIds \union {UnknownId, NULL}]
    /\ gwLock \in [Gateways -> Threads \union {NULL}]
    /\ interrupted \in [Gateways -> BOOLEAN]
    /\ racing \in [Gateways -> SUBSET Threads]
    /\ sends \in [ApprovalIds -> Nat]
    /\ verdict \in [ApprovalIds -> {"none", "pending", "accepted", "refused"}]
    /\ sentBy \in [ApprovalIds -> SUBSET Gateways]
    /\ garbled \in [ApprovalIds -> BOOLEAN]

LEMMA LocationsListed ==
    Locations = {"idle", "entered", "reading", "permit", "marking", "granted",
                 "submit", "await", "storing", "refusing", "closing", "failing"}
  BY DEF Locations, Locked, Owning

LEMMA ProceedTypes ==
    ASSUME GatewayTypes, NEW t \in Threads, Proceed(t)
    PROVE  GatewayTypes'
<1> USE LocationsListed, GatewayAssumption DEF GatewayTypes, Stop, Wire
<1>1. ASSUME NEW location \in Locations, GoTo(t, location)
      PROVE  pc' \in [Threads -> Locations]
  BY <1>1 DEF GoTo
<1>2. ASSUME Leave(t)
      PROVE  /\ pc' \in [Threads -> Locations]
             /\ task' \in [Threads -> ApprovalIds \union {UnknownId, NULL}]
  BY <1>1, <1>2 DEF Leave
<1>3. ASSUME Unlock(t)
      PROVE  gwLock' \in [Gateways -> Threads \union {NULL}]
  BY <1>3 DEF Unlock
<1>4. ASSUME NEW op, NEW location \in Locations, FinishWith(t, op, location)
      PROVE  pc' \in [Threads -> Locations] /\ UNCHANGED <<task, gwLock, Stop>>
  BY <1>1, <1>4 DEF FinishWith
<1>5. CASE LockAndGet(t)
  BY <1>1, <1>5 DEF LockAndGet
<1>6. CASE AfterGet(t)
  BY <1>1, <1>2, <1>3, <1>6 DEF AfterGet
<1>7. CASE \E a \in Actors : AskPermission(t, a)
  BY <1>1, <1>7 DEF AskPermission
<1>8. CASE AfterMarkExecuting(t)
  BY <1>1, <1>2, <1>3, <1>8 DEF AfterMarkExecuting
<1>9. CASE LastCheck(t)
  BY <1>1, <1>4, <1>9 DEF LastCheck
<1>10. CASE CannotDeserialize(t) \/ Accepted(t) \/ Rejected(t) \/ BrokerRaises(t)
            \/ CloseAsFailed(t)
  BY <1>4, <1>10 DEF CannotDeserialize, Accepted, Rejected, BrokerRaises, CloseAsFailed
<1>11. CASE Submit(t)
  <2>1. pc' \in [Threads -> Locations]
    BY <1>1, <1>11 DEF Submit
  <2>2. sends' \in [ApprovalIds -> Nat]
    <3>1. /\ sends \in [ApprovalIds -> Nat]
          /\ sends' = [sends EXCEPT ![task[t]] = sends[task[t]] + 1]
      BY <1>11 DEF Submit
    <3>2. \A i \in ApprovalIds : sends[i] + 1 \in Nat
      BY <3>1
    <3> QED
      BY ONLY <3>1, <3>2
  <2>3. verdict' \in [ApprovalIds -> {"none", "pending", "accepted", "refused"}]
    BY <1>11 DEF Submit
  <2>4. sentBy' \in [ApprovalIds -> SUBSET Gateways]
    BY <1>11 DEF Submit
  <2> QED
    BY <1>11, <2>1, <2>2, <2>3, <2>4 DEF Submit
<1>12. CASE BadReply(t)
  BY <1>2, <1>12 DEF BadReply
<1>13. CASE AfterFirstMark(t) \/ AfterLastMark(t)
  BY <1>1, <1>2, <1>13 DEF AfterFirstMark, AfterLastMark
<1> QED
  BY <1>5, <1>6, <1>7, <1>8, <1>9, <1>10, <1>11, <1>12, <1>13 DEF Proceed

LEMMA GatewayTypesStep ==
    ASSUME GatewayTypes, [GatewayNext]_vars
    PROVE  GatewayTypes'
<1> USE DEF GatewayTypes, Stop, Wire
<1>1. CASE UNCHANGED gatewayVars
  BY <1>1 DEF gatewayVars
<1>2. ASSUME NEW t \in Threads, Proceed(t)
      PROVE  GatewayTypes'
  BY <1>2, ProceedTypes
<1>3. ASSUME NEW t \in Threads, NEW i \in Issued \union {UnknownId}, Enter(t, i)
      PROVE  GatewayTypes'
  <2>1. "entered" \in Locations /\ i \in ApprovalIds \union {UnknownId}
    BY LocationsListed DEF Issued
  <2> QED
    BY <1>3, <2>1 DEF Enter, GoTo
<1>4. ASSUME NEW i \in ApprovalIds, BrokerDecides(i)
      PROVE  GatewayTypes'
  BY <1>4 DEF BrokerDecides
<1>5. ASSUME NEW g \in Gateways, Arm(g) \/ Reset(g)
      PROVE  GatewayTypes'
  <2>1. interrupted' \in [Gateways -> BOOLEAN]
    <3>1. \E b \in BOOLEAN : interrupted' = [interrupted EXCEPT ![g] = b]
      BY <1>5 DEF Arm, Reset
    <3> QED
      BY <3>1
  <2>2. racing' \in [Gateways -> SUBSET Threads]
    <3>1. \E S \in SUBSET Threads : racing' = [racing EXCEPT ![g] = S]
      BY <1>5 DEF Arm, Reset
    <3> QED
      BY <3>1
  <2> QED
    BY <1>5, <2>1, <2>2 DEF Arm, Reset
<1>6. ASSUME NEW g \in Gateways, GatewayCrash(g)
      PROVE  GatewayTypes'
  BY <1>6, LocationsListed DEF GatewayCrash
<1> QED
  BY <1>1, <1>2, <1>3, <1>4, <1>5, <1>6 DEF GatewayNext, ClientStep, vars

\* The variables of the gateway, and of the store under it, keep their types.
THEOREM GatewayTypeCorrect == GatewaySpec => []GatewayTypeOK
<1>1. GatewayInit => GatewayTypes
  BY LocationsListed DEF GatewayInit, GatewayTypes
<1>2. GatewaySpec => []GatewayTypes
  BY <1>1, GatewayTypesStep, PTL DEF GatewaySpec
<1>3. TypeOK /\ GatewayTypes => GatewayTypeOK
  BY DEF GatewayTypes, GatewayTypeOK
<1> QED
  BY <1>2, <1>3, GatewayUsesStore, TypeCorrect, PTL DEF UsesStore
-----------------------------------------------------------------------------
(* Single use *)

Begun == {"executing", "executed", "exec_failed"}

\* Locations where a thread has no call in the store.
Quiet == {"idle", "entered", "permit", "granted", "submit", "await", "closing"}

\* Locations that an owner passes before it has called the broker.
Fresh == {"marking", "granted", "submit"}

\* The call a thread has in the store is the one its location says.
Fits(t) ==
    /\ pc[t] \in Quiet => calls[t] = Idle
    /\ pc[t] \notin Quiet => calls[t].id = task[t]
    /\ pc[t] = "reading" => calls[t].op = "get"
    /\ pc[t] = "marking" => calls[t].op = "mark_executing"
    /\ pc[t] = "storing" => calls[t].op = "mark_executed"
    /\ pc[t] \in {"refusing", "failing"} => calls[t].op = "mark_exec_failed"

\* A thread without a call in the store has no answer waiting.
Answered(t) == calls[t] = Idle => replies[t] = NoReply

\* Answers belong to calls, and the other programs never mark.
CallsFit ==
    /\ \A c \in Callers : Answered(c)
    /\ \A c \in Clients : calls[c].op \notin FinishOps \union {"mark_executing"}
    /\ \A t \in Threads : Fits(t)

\* An owned approval is past APPROVED, so nobody else can get permission.
OwnersBegun ==
    \A t \in Threads :
        Owns(t) => task[t] \in ApprovalIds /\ records[task[t]].state \in Begun

\* So is an approval with an order on the wire.
SentBegun == \A i \in ApprovalIds : sends[i] > 0 => records[i].state \in Begun

\* Before its owner calls the broker nothing was sent for an approval.
FreshUnsent ==
    \A t \in Threads : Owns(t) /\ pc[t] \in Fresh => sends[task[t]] = 0

\* Inductive: SingleUse rests on FreshUnsent, which rests on OneOwner (nobody
\* else sends meanwhile) and on SentBegun (nothing was sent before), and these
\* on the store's single-use guard.
UseInv ==
    CallsFit /\ OwnersBegun /\ OneOwner /\ SentBegun /\ FreshUnsent /\ SingleUse

LEMMA BegunStays ==
    ASSUME TypeOK, [Next]_storeVars, NEW i \in ApprovalIds, records[i].state \in Begun
    PROVE  records'[i].state \in Begun
<1>1. ASSUME NEW j \in ApprovalIds, NEW row, RowStep(records[j], row),
             records' = [records EXCEPT ![j] = row]
      PROVE  records'[i].state \in Begun
  <2>1. CASE i # j
    BY <1>1, <2>1 DEF TypeOK
  <2>2. CASE i = j
    <3>1. Finishes(records[i], row)
      BY <1>1, <2>2 DEF RowStep, Proposes, Decides, Starts, Begun
    <3>2. row.state \in {"executed", "exec_failed"}
      BY <3>1 DEF Finishes, TypeOK, Rows
    <3> QED
      BY <1>1, <2>2, <3>2 DEF TypeOK, Begun
  <2> QED
    BY <2>1, <2>2
<1>2. ASSUME NEW S \in SUBSET ApprovalIds, Lapses(S)
      PROVE  records'[i].state \in Begun
  <2>1. i \notin S
    BY <1>2 DEF Lapses, Begun
  <2> QED
    BY <1>2, <2>1 DEF Lapses
<1>3. CASE records' = records
  BY <1>3
<1> QED
  BY <1>1, <1>2, <1>3, StepsOfTheTable DEF TableStep

\* A store operation answers its own caller only.
LEMMA OnlyOneAnswer ==
    ASSUME TypeOK, NEW c \in Callers, StoreWorks(c) \/ StoreFails(c)
    PROVE  /\ calls' = calls /\ calls[c] # Idle
           /\ \A d \in Callers \ {c} : replies'[d] = replies[d]
<1>1. Operation(c)
  BY DEF StoreWorks, StoreFails, Operation
<1>2. calls[c] # Idle
  <2>1. ASSUME NEW ops, Running(c, ops), "idle" \notin ops
        PROVE  calls[c] # Idle
    BY <2>1 DEF Running, Idle
  <2>2. CASE StoreWorks(c)
    BY <2>1, <2>2 DEF StoreWorks, CreateRequest, Get, Approve, Reject, Cancel,
                      MarkExecuting, MarkExecuted, MarkExecFailed, ExpireOverdue
  <2>3. CASE StoreFails(c)
    BY <2>3 DEF StoreFails, DbError, RereadFails, Idle
  <2> QED
    BY <2>2, <2>3
<1> QED
  BY <1>1, <1>2, OperationAnswers DEF Answer, TypeOK

\* The store says yes to mark_executing only for a row that was APPROVED.
LEMMA PermissionMeansApproved ==
    ASSUME TypeOK, NEW t \in Callers, StoreWorks(t) \/ StoreFails(t),
           calls[t].op = "mark_executing", replies'[t].outcome = "ok"
    PROVE  /\ calls[t].id \in ApprovalIds
           /\ records[calls[t].id].state = "approved"
           /\ records'[calls[t].id].state = "executing"
<1> DEFINE call == calls[t]
           row == records[call.id]
<1>1. ASSUME NEW outcome, Answer(t, outcome, Absent)
      PROVE  replies'[t].outcome = outcome
  BY <1>1 DEF Answer, TypeOK
<1>2. ASSUME DbError(t) \/ RereadFails(t)
      PROVE  FALSE
  <2>1. Answer(t, "db_error", Absent)
    BY <1>2 DEF DbError, RereadFails, Refuse
  <2> QED
    BY <1>1, <2>1
<1>3. ASSUME NEW ops, Running(t, ops), "mark_executing" \notin ops
      PROVE  FALSE
  BY <1>3 DEF Running
<1>4. MarkExecuting(t)
  BY <1>2, <1>3 DEF StoreWorks, StoreFails, CreateRequest, Get, Approve, Reject,
                    Cancel, MarkExecuted, MarkExecFailed, ExpireOverdue
<1>5. /\ call.id \in Issued /\ row.state = "approved"
      /\ records' = [records EXCEPT ![call.id] =
                        [row EXCEPT !.state = "executing", !.executed_by = call.by]]
  BY <1>1, <1>4 DEF MarkExecuting, Refuse, Write
<1> QED
  BY <1>5 DEF Issued, TypeOK, Rows

LEMMA UseInvStore ==
    ASSUME TypeOK, GatewayTypes, UseInv, NEW c \in Callers,
           StoreWorks(c) \/ StoreFails(c), UNCHANGED gatewayVars
    PROVE  UseInv'
<1>1. /\ calls' = calls /\ calls[c] # Idle
      /\ \A d \in Callers \ {c} : replies'[d] = replies[d]
  BY OnlyOneAnswer
<1>2. pc' = pc /\ task' = task /\ sends' = sends
  BY DEF gatewayVars
<1>3. \A i \in ApprovalIds : records[i].state \in Begun => records'[i].state \in Begun
  BY OperationIsNext, BegunStays
<1>4. CallsFit'
  BY <1>1, <1>2 DEF UseInv, CallsFit, Answered, Fits
<1>5. SentBegun' /\ SingleUse'
  BY <1>2, <1>3 DEF UseInv, SentBegun, SingleUse
<1>6. CASE c \in Threads /\ pc[c] = "marking" /\ replies'[c].outcome = "ok"
  <2> DEFINE i == task[c]
  <2>1. calls[c].op = "mark_executing" /\ calls[c].id = i
    BY <1>6 DEF UseInv, CallsFit, Answered, Fits, Quiet
  <2>2. /\ i \in ApprovalIds /\ records[i].state = "approved"
        /\ records'[i].state = "executing"
    BY <1>6, <2>1, PermissionMeansApproved
  <2>3. \A t \in Threads : Owns(t) => task[t] # i
    BY <2>2 DEF UseInv, OwnersBegun, Begun
  <2>4. sends[i] = 0
    BY <2>2 DEF UseInv, SentBegun, GatewayTypes, Begun
  <2>5. \A t \in Threads \ {c} : Owns(t)' <=> Owns(t)
    BY <1>1, <1>2, CallersAssumption DEF Owns
  <2>6. OwnersBegun'
    BY <1>2, <1>3, <2>2, <2>5 DEF UseInv, OwnersBegun, Begun
  <2>7. OneOwner'
    BY <1>2, <2>3, <2>5 DEF UseInv, OneOwner
  <2>8. FreshUnsent'
    BY <1>2, <2>4, <2>5 DEF UseInv, FreshUnsent
  <2> QED
    BY <1>4, <1>5, <2>6, <2>7, <2>8 DEF UseInv
<1>7. CASE ~(c \in Threads /\ pc[c] = "marking" /\ replies'[c].outcome = "ok")
  <2>1. \A t \in Threads : Owns(t)' => Owns(t)
    BY <1>1, <1>2, <1>7, CallersAssumption DEF Owns
  <2> QED
    BY <1>2, <1>3, <1>4, <1>5, <2>1
       DEF UseInv, OwnersBegun, OneOwner, FreshUnsent
<1> QED
  BY <1>6, <1>7

\* What a step of thread t on its own code may do.
LocalStep(t) ==
    /\ records' = records
    /\ \A u \in Threads \ {t} : pc'[u] = pc[u] /\ task'[u] = task[u]
    /\ \A c \in Callers \ {t} : calls'[c] = calls[c] /\ replies'[c] = replies[c]
    /\ Answered(t)'
    /\ Fits(t)'
    /\ Owns(t)' => /\ Owns(t) /\ task'[t] = task[t]
                   /\ pc'[t] \in Fresh => pc[t] \in Fresh
    /\ \/ sends' = sends
       \/ /\ pc[t] = "submit" /\ pc'[t] = "await"
          /\ sends' = [sends EXCEPT ![task[t]] = @ + 1]

LEMMA LocalKeepsInv ==
    ASSUME GatewayTypes, UseInv, NEW t \in Threads, LocalStep(t)
    PROVE  UseInv'
<1>1. CallsFit'
  BY CallersAssumption DEF UseInv, CallsFit, Answered, LocalStep, Fits
<1>2. /\ \A u \in Threads : Owns(u)' => Owns(u) /\ task'[u] = task[u]
      /\ \A u \in Threads : Owns(u)' /\ pc'[u] \in Fresh => pc[u] \in Fresh
  <2>1. \A u \in Threads \ {t} : Owns(u)' <=> Owns(u)
    BY CallersAssumption DEF LocalStep, Owns
  <2> QED
    BY <2>1 DEF LocalStep
<1>3. OwnersBegun' /\ OneOwner'
  BY <1>2 DEF UseInv, OwnersBegun, OneOwner, LocalStep
<1>4. CASE sends' = sends
  <2>1. SentBegun' /\ SingleUse'
    BY <1>4 DEF UseInv, SentBegun, SingleUse, LocalStep
  <2>2. FreshUnsent'
    BY <1>2, <1>4 DEF UseInv, FreshUnsent
  <2> QED
    BY <1>1, <1>3, <2>1, <2>2 DEF UseInv
<1>5. CASE /\ pc[t] = "submit" /\ pc'[t] = "await"
           /\ sends' = [sends EXCEPT ![task[t]] = @ + 1]
  <2> DEFINE i == task[t]
  <2>1. Owns(t)
    BY <1>5 DEF Owns, Owning
  <2>2. i \in ApprovalIds /\ records[i].state \in Begun
    BY <2>1 DEF UseInv, OwnersBegun
  <2>3. sends[i] = 0
    BY <1>5, <2>1 DEF UseInv, FreshUnsent, Fresh
  <2>4. \A j \in ApprovalIds : sends'[j] = IF j = i THEN 1 ELSE sends[j]
    BY <1>5, <2>2, <2>3 DEF GatewayTypes
  <2>5. SentBegun' /\ SingleUse'
    BY <2>2, <2>4 DEF UseInv, SentBegun, SingleUse, LocalStep
  <2>6. ASSUME NEW u \in Threads, Owns(u)', pc'[u] \in Fresh
        PROVE  sends'[task'[u]] = 0
    <3>1. u # t
      BY <1>5, <2>6 DEF Fresh
    <3>2. Owns(u) /\ task'[u] = task[u] /\ pc[u] \in Fresh
      BY <1>2, <2>6
    <3>3. task[u] # i /\ task[u] \in ApprovalIds /\ sends[task[u]] = 0
      BY <2>1, <3>1, <3>2 DEF UseInv, OneOwner, OwnersBegun, FreshUnsent
    <3> QED
      BY <2>4, <3>2, <3>3
  <2>7. FreshUnsent'
    BY <2>6 DEF FreshUnsent
  <2> QED
    BY <1>1, <1>3, <2>5, <2>7 DEF UseInv
<1> QED
  BY <1>4, <1>5 DEF LocalStep

\* What the pieces of execute_approved's actions do to their thread.
LEMMA LocalPieces ==
    ASSUME TypeOK, GatewayTypes, NEW t \in Threads
    PROVE  /\ Return(t) =>
                /\ records' = records /\ calls'[t] = Idle /\ replies'[t] = NoReply
                /\ \A c \in Callers \ {t} : calls'[c] = calls[c] /\ replies'[c] = replies[c]
           /\ \A req : Invoke(t, req) =>
                /\ records' = records /\ calls'[t] = req /\ replies' = replies
                /\ calls[t] = Idle
                /\ \A c \in Callers \ {t} : calls'[c] = calls[c]
           /\ \A location : GoTo(t, location) =>
                pc'[t] = location /\ \A u \in Threads \ {t} : pc'[u] = pc[u]
           /\ Leave(t) =>
                /\ pc'[t] = "idle"
                /\ \A u \in Threads \ {t} : pc'[u] = pc[u] /\ task'[u] = task[u]
  BY CallersAssumption DEF TypeOK, GatewayTypes, Return, Invoke, GoTo, Leave

LEMMA FinishWithLocal ==
    ASSUME TypeOK, GatewayTypes, NEW t \in Threads, Answered(t), NEW op,
           NEW location \in {"storing", "refusing", "failing"},
           op = IF location = "storing" THEN "mark_executed" ELSE "mark_exec_failed",
           pc[t] \in Owning, FinishWith(t, op, location), sends' = sends
    PROVE  LocalStep(t)
<1> DEFINE req == [op |-> op, id |-> task[t], now |-> clock]
<1>1. /\ records' = records /\ calls'[t] = req /\ replies' = replies
      /\ \A c \in Callers \ {t} : calls'[c] = calls[c]
      /\ pc'[t] = location /\ task' = task
      /\ \A u \in Threads \ {t} : pc'[u] = pc[u]
  BY LocalPieces DEF FinishWith
<1>2. Fits(t)' /\ calls'[t] # Idle
  BY <1>1 DEF Fits, Quiet, FinishOps, Idle
<1>3. Owns(t) /\ pc'[t] \notin Fresh
  BY <1>1 DEF Owns, Fresh
<1> QED
  BY <1>1, <1>2, <1>3 DEF LocalStep, Answered

\* A step inside execute_approved that ends a call of the store.
LEMMA ReturnLocal ==
    ASSUME TypeOK, GatewayTypes, NEW t \in Threads, sends' = sends,
           \/ AfterGet(t) \/ AfterMarkExecuting(t)
           \/ AfterFirstMark(t) \/ AfterLastMark(t)
    PROVE  LocalStep(t)
<1>1. /\ records' = records /\ calls'[t] = Idle /\ replies'[t] = NoReply
      /\ \A c \in Callers \ {t} : calls'[c] = calls[c] /\ replies'[c] = replies[c]
  BY LocalPieces DEF AfterGet, AfterMarkExecuting, AfterFirstMark, AfterLastMark
<1>2. \A u \in Threads \ {t} : pc'[u] = pc[u] /\ task'[u] = task[u]
  BY LocalPieces DEF AfterGet, AfterMarkExecuting, AfterFirstMark, AfterLastMark
<1>3. /\ pc'[t] \in Quiet
      /\ pc'[t] \in Owning => /\ Owns(t) /\ task'[t] = task[t]
                              /\ pc'[t] \in Fresh => pc[t] \in Fresh
  <2>1. CASE AfterGet(t)
    <3>1. pc'[t] \in {"permit", "idle"}
      BY <2>1, LocalPieces DEF AfterGet
    <3> QED
      BY <3>1 DEF Quiet, Owning
  <2>2. CASE AfterMarkExecuting(t)
    <3>1. CASE replies[t].outcome = "ok"
      BY <2>2, <3>1, LocalPieces DEF AfterMarkExecuting, Quiet, Owns, Fresh
    <3>2. CASE replies[t].outcome # "ok"
      <4>1. pc'[t] = "idle"
        BY <2>2, <3>2, LocalPieces DEF AfterMarkExecuting
      <4> QED
        BY <4>1 DEF Quiet, Owning
    <3> QED
      BY <3>1, <3>2
  <2>3. CASE AfterFirstMark(t) \/ AfterLastMark(t)
    <3>1. /\ pc'[t] = "idle" \/ (pc'[t] = "closing" /\ task' = task)
          /\ pc[t] \in Owning
      BY <2>3, LocalPieces DEF AfterFirstMark, AfterLastMark, Owning
    <3> QED
      BY <3>1 DEF Quiet, Owning, Owns, Fresh
  <2> QED
    BY <2>1, <2>2, <2>3
<1>4. Fits(t)'
  BY <1>1, <1>3 DEF Fits, Quiet
<1>5. Owns(t)' => pc'[t] \in Owning
  BY <1>1, <1>3 DEF Owns, Quiet
<1> QED
  BY <1>1, <1>2, <1>3, <1>4, <1>5 DEF LocalStep, Answered

LEMMA ProceedLocal ==
    ASSUME TypeOK, GatewayTypes, NEW t \in Threads, Fits(t), Answered(t), Proceed(t)
    PROVE  LocalStep(t)
<1> USE DEF Answered
<1>1. CASE LockAndGet(t)
  <2>1. /\ records' = records /\ replies' = replies /\ calls[t] = Idle
        /\ calls'[t] = [op |-> "get", id |-> task[t], now |-> clock]
        /\ \A c \in Callers \ {t} : calls'[c] = calls[c]
        /\ pc'[t] = "reading" /\ task' = task /\ sends' = sends
        /\ \A u \in Threads \ {t} : pc'[u] = pc[u]
    BY <1>1, LocalPieces DEF LockAndGet, Wire
  <2>2. Fits(t)' /\ calls'[t] # Idle /\ ~Owns(t)'
    BY <2>1 DEF Fits, Quiet, Idle, Owns, Owning
  <2> QED
    BY <2>1, <2>2 DEF LocalStep
<1>2. CASE AfterGet(t) \/ AfterMarkExecuting(t) \/ AfterFirstMark(t) \/ AfterLastMark(t)
  <2>1. sends' = sends
    BY <1>2 DEF AfterGet, AfterMarkExecuting, AfterFirstMark, AfterLastMark, Wire
  <2> QED
    BY <1>2, <2>1, ReturnLocal
<1>3. ASSUME NEW a \in Actors, AskPermission(t, a)
      PROVE  LocalStep(t)
  <2>1. /\ records' = records /\ replies' = replies /\ calls[t] = Idle
        /\ calls'[t] = [op |-> "mark_executing", id |-> task[t], by |-> a, now |-> clock]
        /\ \A c \in Callers \ {t} : calls'[c] = calls[c]
        /\ pc'[t] = "marking" /\ task' = task /\ sends' = sends
        /\ \A u \in Threads \ {t} : pc'[u] = pc[u]
    BY <1>3, LocalPieces DEF AskPermission, Wire
  <2>2. replies'[t].outcome # "ok"
    BY <2>1 DEF NoReply
  <2>3. Fits(t)' /\ calls'[t] # Idle /\ ~Owns(t)'
    BY <2>1, <2>2 DEF Fits, Quiet, Idle, Owns, Owning
  <2> QED
    BY <2>1, <2>3 DEF LocalStep
<1>4. CASE LastCheck(t)
  <2>1. CASE /\ PassesCheck(t) /\ GoTo(t, "submit")
             /\ UNCHANGED <<storeVars, task, gwLock, Stop>>
    <3>1. /\ records' = records /\ replies' = replies /\ calls' = calls
          /\ pc[t] = "granted" /\ pc'[t] = "submit" /\ task' = task /\ sends' = sends
          /\ \A u \in Threads \ {t} : pc'[u] = pc[u]
      BY <1>4, <2>1, LocalPieces DEF LastCheck, Wire, storeVars
    <3>2. Fits(t)' /\ Owns(t) /\ pc[t] \in Fresh
      BY <3>1 DEF Fits, Quiet, Owns, Owning, Fresh
    <3> QED
      BY <3>1, <3>2 DEF LocalStep
  <2>2. CASE FinishWith(t, "mark_exec_failed", "failing")
    BY <1>4, <2>2, FinishWithLocal DEF LastCheck, Wire, Owning, FinishOps
  <2> QED
    BY <1>4, <2>1, <2>2 DEF LastCheck
<1>5. CASE CannotDeserialize(t) \/ Accepted(t) \/ Rejected(t) \/ BrokerRaises(t)
           \/ CloseAsFailed(t)
  BY <1>5, FinishWithLocal DEF CannotDeserialize, Accepted, Rejected, BrokerRaises,
                               CloseAsFailed, Wire, Owning, FinishOps
<1>6. CASE Submit(t)
  <2>1. /\ records' = records /\ replies' = replies /\ calls' = calls
        /\ pc[t] = "submit" /\ pc'[t] = "await" /\ task' = task
        /\ sends' = [sends EXCEPT ![task[t]] = @ + 1]
        /\ \A u \in Threads \ {t} : pc'[u] = pc[u]
    BY <1>6, LocalPieces DEF Submit, storeVars
  <2>2. Fits(t)' /\ Owns(t) /\ pc[t] \in Fresh
    BY <2>1 DEF Fits, Quiet, Owns, Owning, Fresh
  <2> QED
    BY <2>1, <2>2 DEF LocalStep
<1>7. CASE BadReply(t)
  <2>1. /\ records' = records /\ replies' = replies /\ calls' = calls
        /\ pc[t] = "await" /\ pc'[t] = "idle" /\ sends' = sends
        /\ \A u \in Threads \ {t} : pc'[u] = pc[u] /\ task'[u] = task[u]
    BY <1>7, LocalPieces DEF BadReply, Wire, storeVars
  <2>2. Fits(t)' /\ ~Owns(t)'
    BY <2>1 DEF Fits, Quiet, Owns, Owning
  <2> QED
    BY <2>1, <2>2 DEF LocalStep
<1> QED
  BY <1>1, <1>2, <1>3, <1>4, <1>5, <1>6, <1>7 DEF Proceed

LEMMA CrashKeepsInv ==
    ASSUME TypeOK, GatewayTypes, UseInv, NEW g \in Gateways, GatewayCrash(g)
    PROVE  UseInv'
<1>1. /\ records' = records /\ sends' = sends
      /\ \A c \in Callers :
            \/ calls'[c] = Idle /\ replies'[c] = NoReply
            \/ c \notin ThreadsOf(g) /\ calls'[c] = calls[c] /\ replies'[c] = replies[c]
      /\ \A t \in ThreadsOf(g) : pc'[t] = "idle" /\ calls'[t] = Idle
      /\ \A t \in Threads \ ThreadsOf(g) : pc'[t] = pc[t] /\ task'[t] = task[t]
  BY CallersAssumption DEF GatewayCrash, Crash, Wire, ThreadsOf
<1>2. \A t \in ThreadsOf(g) : Fits(t)' /\ ~Owns(t)'
  BY <1>1 DEF Fits, Quiet, Owns, Owning
<1>3. \A t \in Threads \ ThreadsOf(g) : calls'[t] = calls[t] /\ replies'[t] = replies[t]
  BY CallersAssumption DEF GatewayCrash, Crash
<1>4. \A t \in Threads \ ThreadsOf(g) : Fits(t)' /\ (Owns(t)' <=> Owns(t))
  BY <1>1, <1>3 DEF UseInv, CallsFit, Fits, Owns
<1>5. CallsFit'
  <2>1. \A c \in Clients : calls'[c].op \notin FinishOps \union {"mark_executing"}
    BY <1>1, CallersAssumption DEF UseInv, CallsFit, Idle, FinishOps
  <2> QED
    BY <1>1, <1>2, <1>4, <2>1 DEF UseInv, CallsFit, Answered
<1>6. OwnersBegun' /\ OneOwner' /\ FreshUnsent'
  BY <1>1, <1>2, <1>4 DEF UseInv, OwnersBegun, OneOwner, FreshUnsent
<1>7. SentBegun' /\ SingleUse'
  BY <1>1 DEF UseInv, SentBegun, SingleUse
<1> QED
  BY <1>5, <1>6, <1>7 DEF UseInv

LEMMA ClientKeepsInv ==
    ASSUME TypeOK, GatewayTypes, UseInv, NEW c \in Clients, ClientStep(c)
    PROVE  UseInv'
<1>1. /\ records' = records /\ sends' = sends /\ pc' = pc /\ task' = task
      /\ \A d \in Callers \ {c} : calls'[d] = calls[d] /\ replies'[d] = replies[d]
  BY CallersAssumption DEF ClientStep, gatewayVars, Return, Crash, Invoke, TypeOK
<1>2. /\ calls'[c] = Idle => replies'[c] = NoReply
      /\ calls'[c].op \notin FinishOps \union {"mark_executing"}
  <2>1. CASE Return(c) \/ Crash({c})
    <3>1. calls'[c] = Idle /\ replies'[c] = NoReply
      BY <2>1, CallersAssumption DEF Return, Crash, TypeOK
    <3> QED
      BY <3>1 DEF Idle, FinishOps
  <2>2. ASSUME NEW req \in ClientRequests, Invoke(c, req)
        PROVE  /\ calls'[c] = Idle => replies'[c] = NoReply
               /\ calls'[c].op \notin FinishOps \union {"mark_executing"}
    <3>1. calls'[c] = req /\ replies' = replies /\ replies[c] = NoReply
      BY <2>2, CallersAssumption DEF Invoke, TypeOK, UseInv, CallsFit, Answered
    <3>2. req.op \in {"create_request", "get", "expire_overdue"} \union DecisionOps
      BY ClientOpsAssumption DEF ClientRequests
    <3> QED
      BY <3>1, <3>2 DEF DecisionOps, FinishOps
  <2> QED
    BY <2>1, <2>2 DEF ClientStep
<1>3. \A t \in Threads : Fits(t)' /\ (Owns(t)' <=> Owns(t))
  BY <1>1, CallersAssumption DEF UseInv, CallsFit, Fits, Owns
<1>4. CallsFit'
  BY <1>1, <1>2, <1>3, CallersAssumption DEF UseInv, CallsFit, Answered
<1> QED
  BY <1>1, <1>3, <1>4
     DEF UseInv, OwnersBegun, OneOwner, SentBegun, FreshUnsent, SingleUse

LEMMA EnterKeepsInv ==
    ASSUME GatewayTypes, UseInv, NEW t \in Threads, NEW i, Enter(t, i)
    PROVE  UseInv'
<1>1. /\ UNCHANGED storeVars /\ sends' = sends
      /\ pc[t] = "idle" /\ pc'[t] = "entered"
      /\ \A u \in Threads \ {t} : pc'[u] = pc[u] /\ task'[u] = task[u]
  BY DEF Enter, GoTo, Wire, GatewayTypes
<1>2. /\ records' = records /\ calls' = calls /\ replies' = replies
  BY <1>1 DEF storeVars
<1>3. Fits(t)' /\ ~Owns(t)'
  BY <1>1, <1>2 DEF UseInv, CallsFit, Fits, Quiet, Owns, Owning
<1>4. LocalStep(t)
  BY <1>1, <1>2, <1>3, CallersAssumption DEF LocalStep, UseInv, CallsFit, Answered
<1> QED
  BY <1>4, LocalKeepsInv

LEMMA UseInvStep ==
    ASSUME TypeOK, GatewayTypes, UseInv, [GatewayNext]_vars
    PROVE  UseInv'
<1>1. ASSUME NEW t \in Threads, Proceed(t)
      PROVE  UseInv'
  <2>1. Fits(t) /\ Answered(t)
    BY CallersAssumption DEF UseInv, CallsFit
  <2> QED
    BY <1>1, <2>1, ProceedLocal, LocalKeepsInv
<1>2. ASSUME NEW t \in Threads, NEW i, Enter(t, i)
      PROVE  UseInv'
  BY <1>2, EnterKeepsInv
<1>3. ASSUME NEW c \in Callers, StoreWorks(c) \/ StoreFails(c), UNCHANGED gatewayVars
      PROVE  UseInv'
  BY <1>3, UseInvStore
<1>4. ASSUME NEW c \in Clients, ClientStep(c)
      PROVE  UseInv'
  BY <1>4, ClientKeepsInv
<1>5. ASSUME UNCHANGED <<records, calls, replies, pc, task, sends>>
      PROVE  UseInv'
  BY <1>5 DEF UseInv, CallsFit, Answered, Fits, OwnersBegun, OneOwner, SentBegun, FreshUnsent,
              SingleUse, Owns
<1>6. ASSUME NEW g \in Gateways, GatewayCrash(g)
      PROVE  UseInv'
  BY <1>6, CrashKeepsInv
<1>7. CASE \/ \E i \in ApprovalIds : BrokerDecides(i)
           \/ \E g \in Gateways : Arm(g) \/ Reset(g)
           \/ Tick /\ UNCHANGED gatewayVars
           \/ UNCHANGED vars
  BY <1>5, <1>7 DEF BrokerDecides, Arm, Reset, Tick, vars, storeVars, gatewayVars, Wire
<1> QED
  BY <1>1, <1>2, <1>3, <1>4, <1>6, <1>7 DEF GatewayNext

LEMMA UseInvHolds == GatewaySpec => []UseInv
<1>1. GatewayInit => UseInv
  <2> SUFFICES ASSUME GatewayInit
               PROVE  UseInv
    OBVIOUS
  <2>1. /\ \A c \in Callers : calls[c] = Idle /\ replies[c] = NoReply
        /\ \A t \in Threads : pc[t] = "idle"
        /\ \A i \in ApprovalIds : sends[i] = 0
    BY DEF GatewayInit, Init
  <2>2. \A t \in Threads : Fits(t) /\ ~Owns(t)
    BY <2>1, CallersAssumption DEF Fits, Quiet, Owns, Owning
  <2>3. CallsFit
    BY <2>1, <2>2, CallersAssumption DEF CallsFit, Answered, Idle, FinishOps
  <2> QED
    BY <2>1, <2>2, <2>3
       DEF UseInv, OwnersBegun, OneOwner, SentBegun, FreshUnsent, SingleUse
<1>2. GatewaySpec => [](TypeOK /\ GatewayTypes)
  <2>1. GatewayTypeOK => TypeOK /\ GatewayTypes
    BY DEF GatewayTypeOK, GatewayTypes
  <2> QED
    BY <2>1, GatewayTypeCorrect, PTL
<1> QED
  BY <1>1, <1>2, UseInvStep, PTL DEF GatewaySpec

\* Guarantee 7, for any number of approvals, threads, gateways and clients and
\* under every fault: one approval, at most one order on the wire.
THEOREM SingleUseAlways == GatewaySpec => []SingleUse
<1>1. UseInv => SingleUse
  BY DEF UseInv
<1> QED
  BY <1>1, UseInvHolds, PTL

\* And from permission to final mark an approval has one owner.
THEOREM OneOwnerAlways == GatewaySpec => []OneOwner
<1>1. UseInv => OneOwner
  BY DEF UseInv
<1> QED
  BY <1>1, UseInvHolds, PTL
-----------------------------------------------------------------------------
(* What is proved of the store, under the gateway *)

StoreInv == TypeOK /\ RowsConsistent /\ WinInv /\ ReadersInformed

LEMMA StoreInvHolds == Spec => []StoreInv
  BY Consistent, WinInvHolds, ReadsStand, PTL DEF StoreInv

LEMMA GatewayInvHolds == GatewaySpec => [](StoreInv /\ GatewayTypes /\ UseInv)
<1>1. GatewayTypeOK => GatewayTypes
  BY DEF GatewayTypeOK, GatewayTypes
<1> QED
  BY <1>1, GatewayUsesStore, StoreInvHolds, GatewayTypeCorrect, UseInvHolds, PTL
     DEF UsesStore
-----------------------------------------------------------------------------
(* Only what was approved goes on the wire *)

\* Where a thread has seen that the record is of its gateway's mode.
Cleared == {"permit", "marking"} \union Owning

ModeFits(i, g) ==
    i \in ApprovalIds /\ records[i].state # "absent" /\ records[i].mode = GatewayMode[g]

\* Inductive together with StoreInv and UseInv.  The mode was read before the
\* permission was asked for: it still fits because no step of the table changes
\* the mode of a row.
ModeInv ==
    /\ \A t \in Threads : pc[t] \in Cleared => ModeFits(task[t], GatewayOf[t])
    /\ \A i \in ApprovalIds : \A g \in sentBy[i] : ModeFits(i, g)
    /\ \A i \in ApprovalIds : sentBy[i] # {} => sends[i] > 0

LEMMA ModeStays ==
    ASSUME TypeOK, RowsConsistent, [Next]_storeVars, NEW i, NEW g, ModeFits(i, g)
    PROVE  ModeFits(i, g)'
  BY FollowsStep DEF ModeFits, Follows

\* The steps of a thread: where it gets to, and what it puts on the wire.
LEMMA ModeProceed ==
    ASSUME StoreInv, GatewayTypes, UseInv, ModeInv, NEW t \in Threads, Proceed(t)
    PROVE  /\ \A u \in Threads \ {t} : pc'[u] = pc[u] /\ task'[u] = task[u]
           /\ pc'[t] \in Cleared => /\ task'[t] = task[t]
                                    /\ ModeFits(task[t], GatewayOf[t])
           /\ \/ sentBy' = sentBy /\ sends' = sends
              \/ /\ task[t] \in ApprovalIds /\ ModeFits(task[t], GatewayOf[t])
                 /\ sentBy' = [sentBy EXCEPT ![task[t]] = @ \union {GatewayOf[t]}]
                 /\ sends' = [sends EXCEPT ![task[t]] = @ + 1]
<1> USE DEF StoreInv
<1>1. Fits(t) /\ Answered(t)
  BY CallersAssumption DEF UseInv, CallsFit
<1>2. \A u \in Threads \ {t} : pc'[u] = pc[u] /\ task'[u] = task[u]
  BY <1>1, ProceedLocal DEF LocalStep
<1>3. pc[t] \in Cleared => ModeFits(task[t], GatewayOf[t])
  BY DEF ModeInv
<1>4. ASSUME NEW op, NEW location, FinishWith(t, op, location)
      PROVE  task' = task
  BY <1>4 DEF FinishWith
<1>5. CASE LockAndGet(t)
  <2>1. pc'[t] = "reading"
    BY <1>5, LocalPieces DEF LockAndGet
  <2> QED
    BY <1>2, <1>5, <2>1 DEF LockAndGet, Wire, Cleared, Owning
<1>6. CASE AfterGet(t)
  <2>1. sentBy' = sentBy /\ sends' = sends
    BY <1>6 DEF AfterGet, Wire
  <2>2. ASSUME pc'[t] \in Cleared
        PROVE  task'[t] = task[t] /\ ModeFits(task[t], GatewayOf[t])
    <3>1. /\ replies[t].outcome = "ok" /\ task' = task
          /\ replies[t].row.mode = GatewayMode[GatewayOf[t]]
      BY <1>6, <2>2, LocalPieces DEF AfterGet, Cleared, Owning
    <3>2. calls[t].op = "get" /\ calls[t].id = task[t]
      BY <1>1, <1>6 DEF AfterGet, Fits, Quiet
    <3>3. task[t] \in ApprovalIds /\ Follows(replies[t].row, records[task[t]])
      BY <3>1, <3>2, CallersAssumption DEF ReadersInformed, Informed
    <3> QED
      BY <3>1, <3>3 DEF ModeFits, Follows
  <2> QED
    BY <1>2, <2>1, <2>2
<1>7. CASE \/ AfterMarkExecuting(t) \/ AfterFirstMark(t) \/ AfterLastMark(t)
           \/ LastCheck(t) \/ CannotDeserialize(t) \/ Accepted(t) \/ Rejected(t)
           \/ BrokerRaises(t) \/ CloseAsFailed(t) \/ BadReply(t)
           \/ \E a \in Actors : AskPermission(t, a)
  <2>1. sentBy' = sentBy /\ sends' = sends /\ pc[t] \in Cleared
    BY <1>7 DEF AfterMarkExecuting, AfterFirstMark, AfterLastMark, LastCheck,
                CannotDeserialize, Accepted, Rejected, BrokerRaises, CloseAsFailed,
                BadReply, AskPermission, Wire, Cleared, Owning
  <2>2. pc'[t] = "idle" \/ task' = task
    BY <1>4, <1>7, LocalPieces
       DEF AfterMarkExecuting, AfterFirstMark, AfterLastMark, LastCheck,
           CannotDeserialize, Accepted, Rejected, BrokerRaises, CloseAsFailed,
           BadReply, AskPermission
  <2> QED
    BY <1>2, <1>3, <2>1, <2>2 DEF Cleared, Owning
<1>8. CASE Submit(t)
  <2>1. pc[t] \in Cleared /\ task' = task
    BY <1>8 DEF Submit, Cleared, Owning
  <2> QED
    BY <1>2, <1>3, <1>8, <2>1 DEF Submit, ModeFits
<1> QED
  BY <1>5, <1>6, <1>7, <1>8 DEF Proceed

LEMMA ModeStep ==
    ASSUME StoreInv, GatewayTypes, UseInv, ModeInv, [GatewayNext]_vars
    PROVE  ModeInv'
<1> USE DEF StoreInv
<1>0. \A i, g : ModeFits(i, g) => ModeFits(i, g)'
  BY GatewayStepIsStoreStep, ModeStays
<1>1. ASSUME \A u \in Threads : pc'[u] \in Cleared => pc[u] \in Cleared /\ task'[u] = task[u],
             sentBy' = sentBy, sends' = sends
      PROVE  ModeInv'
  BY <1>0, <1>1 DEF ModeInv
<1>2. ASSUME NEW t \in Threads, Proceed(t)
      PROVE  ModeInv'
  <2>1. \A u \in Threads : pc'[u] \in Cleared => ModeFits(task[u], GatewayOf[u])'
    BY <1>0, <1>2, ModeProceed DEF ModeInv
  <2>2. CASE sentBy' = sentBy /\ sends' = sends
    BY <1>0, <2>1, <2>2 DEF ModeInv
  <2>3. CASE /\ task[t] \in ApprovalIds /\ ModeFits(task[t], GatewayOf[t])
             /\ sentBy' = [sentBy EXCEPT ![task[t]] = @ \union {GatewayOf[t]}]
             /\ sends' = [sends EXCEPT ![task[t]] = @ + 1]
    <3> DEFINE j == task[t]
    <3>1. \A i \in ApprovalIds :
             /\ sentBy'[i] = IF i = j THEN sentBy[i] \union {GatewayOf[t]} ELSE sentBy[i]
             /\ sends'[i] = IF i = j THEN sends[i] + 1 ELSE sends[i]
      BY <2>3 DEF GatewayTypes
    <3>2. sends[j] \in Nat
      BY <2>3 DEF GatewayTypes
    <3>3. \A i \in ApprovalIds : \A g \in sentBy'[i] : ModeFits(i, g)'
      BY <1>0, <2>3, <3>1 DEF ModeInv
    <3>4. \A i \in ApprovalIds : sentBy'[i] # {} => sends'[i] > 0
      <4> TAKE i \in ApprovalIds
      <4>1. CASE i = j
        <5>1. sends'[i] = sends[j] + 1
          BY <3>1, <4>1
        <5>2. \A n \in Nat : n + 1 > 0
          OBVIOUS
        <5> HIDE DEF j
        <5> QED
          BY <3>2, <5>1, <5>2
      <4>2. CASE i # j
        <5>1. sentBy'[i] = sentBy[i] /\ sends'[i] = sends[i]
          BY <3>1, <4>2
        <5> QED
          BY <5>1 DEF ModeInv
      <4> QED
        BY <4>1, <4>2
    <3> QED
      BY <2>1, <3>3, <3>4 DEF ModeInv
  <2> QED
    BY <1>2, <2>2, <2>3, ModeProceed
<1>3. ASSUME NEW t \in Threads, NEW i, Enter(t, i)
      PROVE  ModeInv'
  <2>1. /\ pc'[t] = "entered" /\ sentBy' = sentBy /\ sends' = sends
        /\ \A u \in Threads \ {t} : pc'[u] = pc[u] /\ task'[u] = task[u]
    BY <1>3 DEF Enter, GoTo, GatewayTypes, Wire
  <2> QED
    BY <1>1, <2>1 DEF Cleared, Owning
<1>4. ASSUME NEW g \in Gateways, GatewayCrash(g)
      PROVE  ModeInv'
  <2>1. /\ \A u \in Threads : pc'[u] = "idle" \/ (pc'[u] = pc[u] /\ task'[u] = task[u])
        /\ sentBy' = sentBy /\ sends' = sends
    BY <1>4 DEF GatewayCrash, Wire
  <2> QED
    BY <1>1, <2>1 DEF Cleared, Owning
<1>5. CASE UNCHANGED <<pc, task, sends, sentBy>>
  BY <1>1, <1>5
<1> QED
  BY <1>2, <1>3, <1>4, <1>5
     DEF GatewayNext, ClientStep, BrokerDecides, Arm, Reset, gatewayVars, vars, Wire

\* Guarantees 2, 3 and 7 as the broker sees them: an order on the wire was
\* approved by a second person, can be neither withdrawn nor expired any more,
\* and is of the mode of every gateway that sent it, for any number of
\* processes and under every fault.
THEOREM OnlyApprovedOnWireAlways == GatewaySpec => []OnlyApprovedOnWire
<1>1. GatewayInit => ModeInv
  BY DEF GatewayInit, ModeInv, Cleared, Owning
<1>2. RowsConsistent /\ UseInv /\ ModeInv => OnlyApprovedOnWire
  BY DEF RowsConsistent, RowConsistent, UseInv, SentBegun, Begun, ModeInv, ModeFits,
         OnlyApprovedOnWire
<1> QED
  BY <1>1, <1>2, ModeStep, GatewayInvHolds, PTL DEF GatewaySpec, StoreInv
-----------------------------------------------------------------------------
(* The interrupt and the kill switch *)

\* The only way to the broker call is through the last check.
LEMMA ProceedToSubmit ==
    ASSUME GatewayTypes, NEW t \in Threads, Proceed(t)
    PROVE  /\ interrupted' = interrupted /\ racing' = racing
           /\ \A u \in Threads \ {t} : pc'[u] = pc[u]
           /\ pc'[t] = "submit" => PassesCheck(t)
<1> USE DEF GatewayTypes, Stop, GoTo, Leave
<1>1. ASSUME NEW op, NEW location \in {"storing", "refusing", "failing"},
             FinishWith(t, op, location)
      PROVE  /\ interrupted' = interrupted /\ racing' = racing
             /\ \A u \in Threads \ {t} : pc'[u] = pc[u]
             /\ pc'[t] # "submit"
  BY <1>1 DEF FinishWith
<1>2. CASE LockAndGet(t) \/ \E a \in Actors : AskPermission(t, a)
  BY <1>2 DEF LockAndGet, AskPermission
<1>3. CASE AfterGet(t)
  BY <1>3 DEF AfterGet
<1>4. CASE AfterMarkExecuting(t)
  BY <1>4 DEF AfterMarkExecuting
<1>5. CASE AfterFirstMark(t) \/ AfterLastMark(t)
  BY <1>5 DEF AfterFirstMark, AfterLastMark
<1>6. CASE LastCheck(t)
  BY <1>1, <1>6 DEF LastCheck
<1>7. CASE CannotDeserialize(t) \/ Accepted(t) \/ Rejected(t) \/ BrokerRaises(t)
           \/ CloseAsFailed(t)
  BY <1>1, <1>7 DEF CannotDeserialize, Accepted, Rejected, BrokerRaises, CloseAsFailed
<1>8. CASE Submit(t) \/ BadReply(t)
  BY <1>8 DEF Submit, BadReply
<1> QED
  BY <1>2, <1>3, <1>4, <1>5, <1>6, <1>7, <1>8 DEF Proceed

LEMMA StopStep ==
    ASSUME GatewayTypes, StopHolds, "callback" \notin Faults, [GatewayNext]_vars
    PROVE  StopHolds'
<1>1. ASSUME NEW t \in Threads, Proceed(t)
      PROVE  StopHolds'
  BY <1>1, ProceedToSubmit DEF StopHolds, PassesCheck
<1>2. ASSUME NEW t \in Threads, NEW i, Enter(t, i)
      PROVE  StopHolds'
  BY <1>2 DEF Enter, GoTo, Stop, GatewayTypes, StopHolds
<1>3. ASSUME NEW g \in Gateways, Arm(g)
      PROVE  StopHolds'
  BY <1>3, GatewayAssumption DEF Arm, GatewayTypes, StopHolds
<1>4. ASSUME NEW g \in Gateways, Reset(g)
      PROVE  StopHolds'
  BY <1>4, GatewayAssumption DEF Reset, GatewayTypes, StopHolds
<1>5. ASSUME NEW g \in Gateways, GatewayCrash(g)
      PROVE  StopHolds'
  <2> SUFFICES ASSUME NEW t \in Threads, interrupted'[GatewayOf[t]], pc'[t] = "submit"
               PROVE  t \in racing'[GatewayOf[t]]
    BY DEF StopHolds
  <2>2. CASE GatewayOf[t] = g
    BY <1>5, <2>2, GatewayAssumption DEF GatewayCrash, GatewayTypes
  <2>3. CASE GatewayOf[t] # g
    BY <1>5, <2>3, GatewayAssumption
       DEF GatewayCrash, ThreadsOf, GatewayTypes, StopHolds
  <2> QED
    BY <2>2, <2>3
<1>6. CASE UNCHANGED <<pc, interrupted, racing>>
  BY <1>6 DEF StopHolds
<1> QED
  BY <1>1, <1>2, <1>3, <1>4, <1>5, <1>6
     DEF GatewayNext, ClientStep, BrokerDecides, gatewayVars, vars, Stop

\* Unless the callback itself is broken, an interrupted gateway lets nobody
\* else through to the broker, for any number of threads and processes.  The
\* assumption is the code's: _check_interrupt drops a callback's own exception.
THEOREM StopHoldsAlways ==
    ASSUME "callback" \notin Faults
    PROVE  GatewaySpec => []StopHolds
<1>1. GatewayInit => StopHolds
  BY DEF GatewayInit, StopHolds
<1>2. GatewayTypes /\ StopHolds /\ [GatewayNext]_vars => StopHolds'
  BY StopStep
<1> QED
  BY <1>1, <1>2, GatewayInvHolds, PTL DEF GatewaySpec
-----------------------------------------------------------------------------
(* EXECUTED is written for accepted orders only *)

\* A row becomes EXECUTED by the call that marks it so.
LEMMA ExecutedByItsMark ==
    ASSUME TypeOK, NEW c \in Callers, Operation(c), NEW i \in ApprovalIds,
           records[i].state # "executed", records'[i].state = "executed"
    PROVE  /\ calls[c].op = "mark_executed" /\ calls[c].id = i
           /\ records[i].state = "executing"
<1>1. ASSUME NEW id, NEW row, records' = [records EXCEPT ![id] = row],
             row.state # "executed"
      PROVE  FALSE
  BY <1>1 DEF TypeOK
<1>2. \A row \in Rows : Lapsed(row).state = "expired"
  BY DEF Lapsed, Rows
<1>3. \A j \in ApprovalIds : records[j] \in Rows
  BY DEF TypeOK
<1>4. CASE CreateRequest(c)
  BY <1>1, <1>4 DEF CreateRequest, Write, NewRow, Absent
<1>5. CASE Get(c)
  <2> DEFINE id == calls[c].id
  <2>1. CASE records' = [records EXCEPT ![id] = Lapsed(records[id])] /\ id \in ApprovalIds
    BY <1>1, <1>2, <1>3, <2>1
  <2>2. CASE records' = [records EXCEPT ![id] = records[id]] \/ records' = records
    BY <2>2 DEF TypeOK
  <2> QED
    BY <1>5, <2>1, <2>2 DEF Get, Refuse, Issued
<1>6. ASSUME NEW to \in {"approved", "rejected", "cancelled"}, NEW check, NEW window,
             Transition(c, to, check, window)
      PROVE  FALSE
  <2> DEFINE id == calls[c].id
  <2>1. CASE records' = records
    BY <2>1
  <2>2. CASE id \in Issued /\ records' = [records EXCEPT ![id] = Lapsed(records[id])]
    BY <1>1, <1>2, <1>3, <2>2 DEF Issued
  <2>3. CASE /\ id \in Issued
             /\ records' = [records EXCEPT ![id] =
                   [records[id] EXCEPT !.state = to, !.decided_by = calls[c].by,
                                       !.decided_at = calls[c].now,
                                       !.execute_expires_at = window]]
    <3>1. records[id] \in Rows
      BY <1>3, <2>3 DEF Issued
    <3> QED
      BY <1>1, <2>3, <3>1 DEF Rows
  <2> QED
    BY <1>6, <2>1, <2>2, <2>3 DEF Transition, Refuse, Write
<1>7. CASE Approve(c) \/ Reject(c) \/ Cancel(c)
  BY <1>6, <1>7 DEF Approve, Reject, Cancel
<1>8. CASE MarkExecuting(c)
  <2> DEFINE id == calls[c].id
  <2>1. CASE records' = records
    BY <2>1
  <2>2. CASE id \in Issued /\ records' = [records EXCEPT ![id] = Lapsed(records[id])]
    BY <1>1, <1>2, <1>3, <2>2 DEF Issued
  <2>3. CASE /\ id \in Issued
             /\ records' = [records EXCEPT ![id] =
                   [records[id] EXCEPT !.state = "executing", !.executed_by = calls[c].by]]
    <3>1. records[id] \in Rows
      BY <1>3, <2>3 DEF Issued
    <3> QED
      BY <1>1, <2>3, <3>1 DEF Rows
  <2> QED
    BY <1>8, <2>1, <2>2, <2>3 DEF MarkExecuting, Refuse, Write
<1>9. CASE MarkExecFailed(c)
  <2> DEFINE id == calls[c].id
  <2>1. CASE records' = records
    BY <2>1
  <2>2. CASE /\ id \in Issued
             /\ records' = [records EXCEPT ![id] =
                   [records[id] EXCEPT !.state = "exec_failed", !.executed_at = calls[c].now]]
    <3>1. records[id] \in Rows
      BY <1>3, <2>2 DEF Issued
    <3> QED
      BY <1>1, <2>2, <3>1 DEF Rows
  <2> QED
    BY <1>9, <2>1, <2>2 DEF MarkExecFailed, Finish, Refuse, Write
<1>10. CASE MarkExecuted(c)
  <2>1. calls[c].op = "mark_executed"
    BY <1>10 DEF MarkExecuted, Running
  <2>2. \E row : /\ records' = [records EXCEPT ![calls[c].id] = row]
                 /\ records[calls[c].id].state = "executing"
    BY <1>10 DEF MarkExecuted, Finish, Refuse, Write
  <2>3. calls[c].id = i
    BY <2>2 DEF TypeOK
  <2> QED
    BY <2>1, <2>2, <2>3
<1>11. CASE ExpireOverdue(c)
  BY <1>2, <1>3, <1>11 DEF ExpireOverdue
<1>12. CASE DbError(c) \/ RereadFails(c)
  BY <1>12 DEF DbError, RereadFails, Refuse
<1> QED
  BY <1>4, <1>5, <1>7, <1>8, <1>9, <1>10, <1>11, <1>12 DEF Operation

\* A gateway that sent the order may take its answer for an acceptance.
Answers(g, i) == g \in sentBy[i] /\ (BrokerStyle[g] = "dict" \/ verdict[i] = "accepted")

\* A thread that awaits an answer has sent the order, and one that is about to
\* store EXECUTED has an answer that counts.
Hears(t) ==
    /\ pc[t] = "await" => GatewayOf[t] \in sentBy[task[t]]
    /\ pc[t] = "storing" => Answers(GatewayOf[t], task[t])

AcceptInv == ExecutedMeansAccepted /\ \A t \in Threads : Hears(t)

\* Nothing that was sent or accepted is taken back.
WireGrows ==
    \A i \in ApprovalIds : /\ sentBy[i] \subseteq sentBy'[i]
                           /\ verdict[i] = "accepted" => verdict'[i] = "accepted"

\* Who waits for the broker, or has heard of it, has an approval.
Waiters ==
    \A t \in Threads : pc[t] \in {"submit", "await", "storing"} => task[t] \in ApprovalIds

\* A thread only adds to the wire, and hears of what it sent.
LEMMA ProceedHears ==
    ASSUME GatewayTypes, Waiters, NEW t \in Threads, Hears(t), Proceed(t)
    PROVE  WireGrows /\ Hears(t)'
<1> USE DEF GatewayTypes, GoTo, Leave, Wire
<1>1. ASSUME UNCHANGED Wire, pc'[t] \notin {"await", "storing"}
      PROVE  WireGrows /\ Hears(t)'
  BY <1>1 DEF WireGrows, Hears
<1>2. ASSUME NEW op, NEW location, FinishWith(t, op, location)
      PROVE  pc'[t] = location /\ task' = task
  BY <1>2 DEF FinishWith
<1>3. CASE LockAndGet(t) \/ AfterGet(t) \/ \E a \in Actors : AskPermission(t, a)
  BY <1>1, <1>3 DEF LockAndGet, AfterGet, AskPermission
<1>4. CASE AfterMarkExecuting(t) \/ AfterFirstMark(t) \/ AfterLastMark(t)
  BY <1>1, <1>4 DEF AfterMarkExecuting, AfterFirstMark, AfterLastMark
<1>5. CASE LastCheck(t)
  BY <1>1, <1>2, <1>5 DEF LastCheck
<1>6. CASE CannotDeserialize(t) \/ Rejected(t) \/ BrokerRaises(t) \/ CloseAsFailed(t)
  BY <1>1, <1>2, <1>6 DEF CannotDeserialize, Rejected, BrokerRaises, CloseAsFailed
<1>7. CASE Accepted(t)
  <2>1. pc'[t] = "storing" /\ task' = task /\ verdict' = verdict /\ sentBy' = sentBy
    BY <1>2, <1>7 DEF Accepted
  <2>2. Answers(GatewayOf[t], task[t])
    BY <1>7 DEF Accepted, Hears, Answers
  <2> QED
    BY <2>1, <2>2 DEF WireGrows, Hears, Answers
<1>8. CASE Submit(t)
  <2>1. pc'[t] = "await" /\ task' = task /\ task[t] \in ApprovalIds
    BY <1>8 DEF Submit, Waiters
  <2>2. /\ verdict' = [verdict EXCEPT ![task[t]] = IF @ = "none" THEN "pending" ELSE @]
        /\ sentBy' = [sentBy EXCEPT ![task[t]] = @ \union {GatewayOf[t]}]
    BY <1>8 DEF Submit
  <2>3. GatewayOf[t] \in sentBy'[task[t]]
    BY <2>1, <2>2
  <2>4. WireGrows
    BY <2>1, <2>2 DEF WireGrows
  <2> QED
    BY <2>1, <2>3, <2>4 DEF Hears
<1>9. CASE BadReply(t)
  BY <1>9 DEF BadReply, WireGrows, Hears
<1> QED
  BY <1>3, <1>4, <1>5, <1>6, <1>7, <1>8, <1>9 DEF Proceed

\* A step that writes no row: every thread hears as before, or anew.
LEMMA AcceptKept ==
    ASSUME AcceptInv, Waiters, records' = records, WireGrows,
           \A t \in Threads : Hears(t)' \/ (pc'[t] = pc[t] /\ task'[t] = task[t])
    PROVE  AcceptInv'
<1>1. ExecutedMeansAccepted'
  <2>1. \A i \in ApprovalIds : \A g : Answers(g, i) => Answers(g, i)'
    BY DEF Answers, WireGrows
  <2> QED
    BY <2>1 DEF AcceptInv, ExecutedMeansAccepted, Answers
<1>2. ASSUME NEW t \in Threads
      PROVE  Hears(t)'
  BY <1>2 DEF AcceptInv, Hears, Answers, WireGrows, Waiters
<1> QED
  BY <1>1, <1>2 DEF AcceptInv

\* A store operation finds the verdict its mark stands for.
LEMMA AcceptStore ==
    ASSUME StoreInv, AcceptInv, [Next]_storeVars, NEW c \in Callers, Operation(c),
           calls[c].op = "mark_executed" =>
               \/ c \in Threads /\ pc[c] = "storing" /\ task[c] = calls[c].id
               \/ records[calls[c].id].kind # "submit_order",
           UNCHANGED <<pc, task, verdict, sentBy>>
    PROVE  AcceptInv'
<1>1. ASSUME NEW i \in ApprovalIds, records'[i].kind = "submit_order",
             records'[i].state = "executed"
      PROVE  \E g \in sentBy[i] : Answers(g, i)
  <2>1. CASE records[i].state = "executed"
    <3>1. records'[i] = records[i]
      BY <2>1, FinalStep DEF StoreInv, Final, Terminal
    <3> QED
      BY <1>1, <2>1, <3>1 DEF AcceptInv, ExecutedMeansAccepted, Answers
  <2>2. CASE records[i].state # "executed"
    <3>1. /\ calls[c].op = "mark_executed" /\ calls[c].id = i
          /\ records[i].state = "executing"
      BY <1>1, <2>2, ExecutedByItsMark DEF StoreInv
    <3>2. records'[i].kind = records[i].kind
      BY <3>1, FollowsStep DEF StoreInv, Follows
    <3> QED
      BY <1>1, <3>1, <3>2 DEF AcceptInv, Hears, Answers
  <2> QED
    BY <2>1, <2>2
<1>2. \A t \in Threads : Hears(t)'
  BY DEF AcceptInv, Hears, Answers
<1> QED
  BY <1>1, <1>2 DEF AcceptInv, ExecutedMeansAccepted, Answers

\* Who waits has an approval, since a thread in possession of one has.
LEMMA WaitersHaveTask == UseInv => Waiters
  BY DEF UseInv, OwnersBegun, Owns, Owning, Waiters

LEMMA AcceptStep ==
    ASSUME StoreInv, GatewayTypes, UseInv, AcceptInv, [GatewayNext]_vars
    PROVE  AcceptInv'
<1>1. Waiters
  BY WaitersHaveTask
<1>2. ASSUME records' = records, UNCHANGED <<verdict, sentBy>>,
             \A t \in Threads : \/ pc'[t] \notin {"await", "storing"}
                                \/ pc'[t] = pc[t] /\ task'[t] = task[t]
      PROVE  AcceptInv'
  BY <1>1, <1>2, AcceptKept DEF WireGrows, Hears
<1>3. ASSUME NEW t \in Threads, Proceed(t)
      PROVE  AcceptInv'
  <2>1. LocalStep(t)
    BY <1>3, ProceedLocal, CallersAssumption DEF StoreInv, UseInv, CallsFit
  <2>2. WireGrows /\ Hears(t)'
    BY <1>1, <1>3, ProceedHears DEF AcceptInv
  <2> QED
    BY <1>1, <2>1, <2>2, AcceptKept DEF LocalStep
<1>4. ASSUME NEW t \in Threads, NEW i, Enter(t, i)
      PROVE  AcceptInv'
  BY <1>2, <1>4 DEF Enter, GoTo, Wire, storeVars, GatewayTypes
<1>5. ASSUME NEW c \in Callers, StoreWorks(c) \/ StoreFails(c), UNCHANGED gatewayVars
      PROVE  AcceptInv'
  <2>1. Operation(c) /\ [Next]_storeVars
    BY <1>5, OperationIsNext DEF StoreWorks, StoreFails, Operation
  <2>2. calls[c].op = "mark_executed" =>
            c \in Threads /\ pc[c] = "storing" /\ task[c] = calls[c].id
    <3>1. ASSUME calls[c].op = "mark_executed"
          PROVE  c \in Threads /\ pc[c] \in Locations
      BY <3>1, CallersAssumption DEF UseInv, CallsFit, FinishOps, GatewayTypes
    <3>2. ASSUME calls[c].op = "mark_executed"
          PROVE  pc[c] = "storing" /\ task[c] = calls[c].id
      BY <3>1, <3>2, LocationsListed DEF UseInv, CallsFit, Fits, Quiet, Idle
    <3> QED
      BY <3>1, <3>2
  <2> QED
    BY <1>5, <2>1, <2>2, AcceptStore DEF gatewayVars
<1>6. ASSUME NEW c \in Clients, ClientStep(c)
      PROVE  AcceptInv'
  BY <1>2, <1>6 DEF ClientStep, gatewayVars, Invoke, Return, Crash
<1>7. ASSUME NEW i \in ApprovalIds, BrokerDecides(i)
      PROVE  AcceptInv'
  <2>1. WireGrows /\ records' = records /\ pc' = pc /\ task' = task
    BY <1>7 DEF BrokerDecides, GatewayTypes, storeVars, WireGrows
  <2> QED
    BY <1>1, <2>1, AcceptKept
<1>8. ASSUME NEW g \in Gateways, GatewayCrash(g)
      PROVE  AcceptInv'
  BY <1>2, <1>8 DEF GatewayCrash, Crash, Wire
<1>9. CASE UNCHANGED <<records, pc, task, verdict, sentBy>>
  BY <1>2, <1>9
<1> QED
  BY <1>3, <1>4, <1>5, <1>6, <1>7, <1>8, <1>9
     DEF GatewayNext, Arm, Reset, Tick, Wire, storeVars, gatewayVars, vars

\* Whatever the broker, the network and the other programs do, a record of an
\* order says EXECUTED only if a gateway sent it, and heard the broker accept it
\* or got a dict for an answer.
THEOREM ExecutedMeansAcceptedAlways == GatewaySpec => []ExecutedMeansAccepted
<1>1. GatewayInit => AcceptInv
  BY DEF GatewayInit, Init, Absent, AcceptInv, ExecutedMeansAccepted, Hears
<1>2. AcceptInv => ExecutedMeansAccepted
  BY DEF AcceptInv
<1> QED
  BY <1>1, <1>2, AcceptStep, GatewayInvHolds, PTL DEF GatewaySpec
-----------------------------------------------------------------------------
(* What a process is doing *)

\* Where a tool of a server can be, and where a command of the operator can be.
ToolSteps ==
    {"idle", "creating", "checking", "cancelling", "cancelled", "dispatching",
     "gateway", "granted", "marking", "telling", "recording", "recorded",
     "undoing", "undone", "rereading", "reporting"}
CommandSteps == {"idle", "showing", "deciding", "decided"}

Jobs == [tool : {"none", "propose", "withdraw", "execute"} \union Commands,
         id : ApprovalIds \union {NULL},
         by : Actors \union {NULL},
         at : ToolSteps \union CommandSteps]

\* A process at work has an actor, and an approval unless it makes one.
JobFits(p) ==
    /\ job[p] \in Jobs
    /\ job[p].at # "idle" => job[p].by \in Actors
    /\ job[p].at \notin {"idle", "creating"} => job[p].id \in ApprovalIds
    /\ p \in Threads => job[p].at \in ToolSteps
    /\ p \in Clients => /\ job[p].at \in CommandSteps
                        /\ job[p].at # "idle" => job[p].tool \in Commands

JobInv ==
    /\ job \in [Callers -> Jobs]
    /\ \A p \in Callers : JobFits(p)

\* A process without work fits.
LEMMA NoJobFits == NoJob \in Jobs /\ NoJob.at = "idle"
  BY DEF NoJob, Jobs, ToolSteps, CommandSteps

\* What a step does to the job of its process, and that it touches no other.
LEMMA JobPieces ==
    ASSUME JobInv, NEW p \in Callers
    PROVE  /\ \A step \in ToolSteps \union CommandSteps : MoveTo(p, step) =>
                /\ job'[p] = [job[p] EXCEPT !.at = step]
                /\ job'[p] \in Jobs /\ job' \in [Callers -> Jobs]
                /\ job'[p].tool = job[p].tool /\ job'[p].id = job[p].id
                /\ job'[p].by = job[p].by /\ job'[p].at = step
                /\ \A q \in Callers \ {p} : job'[q] = job[q]
           /\ \A j \in Jobs : job' = [job EXCEPT ![p] = j] =>
                /\ job'[p] = j
                /\ job' \in [Callers -> Jobs]
                /\ \A q \in Callers \ {p} : job'[q] = job[q]
<1>1. ASSUME NEW j \in Jobs, job' = [job EXCEPT ![p] = j]
      PROVE  /\ job'[p] = j /\ job' \in [Callers -> Jobs]
             /\ \A q \in Callers \ {p} : job'[q] = job[q]
  BY <1>1 DEF JobInv
<1>2. ASSUME NEW step \in ToolSteps \union CommandSteps, MoveTo(p, step)
      PROVE  /\ job'[p] = [job[p] EXCEPT !.at = step]
             /\ job'[p] \in Jobs /\ job' \in [Callers -> Jobs]
             /\ job'[p].tool = job[p].tool /\ job'[p].id = job[p].id
             /\ job'[p].by = job[p].by /\ job'[p].at = step
             /\ \A q \in Callers \ {p} : job'[q] = job[q]
  <2> DEFINE j == [job[p] EXCEPT !.at = step]
  <2>1. job' = [job EXCEPT ![p] = j]
    BY <1>2 DEF MoveTo, JobInv
  <2>2. j \in Jobs /\ j.tool = job[p].tool /\ j.id = job[p].id /\ j.by = job[p].by /\ j.at = step
    BY DEF JobInv, Jobs
  <2> QED
    BY <1>1, <2>1, <2>2
<1> QED
  BY <1>1, <1>2

\* A step that changes one job, which fits after it, keeps the others.
LEMMA JobKept ==
    ASSUME JobInv, NEW p \in Callers, job' \in [Callers -> Jobs],
           \A q \in Callers \ {p} : job'[q] = job[q], JobFits(p)'
    PROVE  JobInv'
  BY DEF JobInv, JobFits

\* A process that goes on keeps its job, one that is done has none.
LEMMA JobMoves ==
    ASSUME JobInv, NEW p \in Callers, NEW step, MoveTo(p, step),
           job[p].at # "idle", step # "idle", step # "creating", job[p].at # "creating",
           p \in Threads => step \in ToolSteps,
           p \in Clients => step \in CommandSteps
    PROVE  JobInv'
<1>1. step \in ToolSteps \union CommandSteps
  BY CallersAssumption
<1>2. JobFits(p)'
  BY <1>1, JobPieces DEF JobInv, JobFits
<1> QED
  BY <1>1, <1>2, JobPieces, JobKept

\* A process that ends its job fits again.
LEMMA JobEnds ==
    ASSUME JobInv, NEW p \in Callers, job' = [job EXCEPT ![p] = NoJob]
    PROVE  JobInv'
<1>1. JobFits(p)'
  BY NoJobFits, JobPieces DEF JobFits, ToolSteps, CommandSteps
<1> QED
  BY <1>1, NoJobFits, JobPieces, JobKept

LEMMA JobBegins ==
    ASSUME JobInv, NEW p \in Callers, NEW tool, NEW i, NEW a \in Actors, NEW step,
           Begin(p, tool, i, a, step),
           \/ /\ p \in Threads
              /\ \/ tool = "propose" /\ i = NULL /\ step = "creating"
                 \/ tool = "withdraw" /\ i \in ApprovalIds /\ step = "checking"
                 \/ tool = "execute" /\ i \in ApprovalIds /\ step = "dispatching"
           \/ p \in Clients /\ tool \in Commands /\ i \in ApprovalIds /\ step = "showing"
    PROVE  JobInv'
<1> DEFINE j == [tool |-> tool, id |-> i, by |-> a, at |-> step]
<1>1. job' = [job EXCEPT ![p] = j] /\ j \in Jobs
  BY DEF Begin, Jobs, ToolSteps, CommandSteps
<1>2. JobFits(p)'
  BY <1>1, JobPieces, CallersAssumption DEF JobFits, ToolSteps, CommandSteps
<1> QED
  BY <1>1, <1>2, JobPieces, JobKept

\* No tool and no command is ever where it cannot be.
LEMMA JobStep == JobInv /\ [ServerNext]_allVars => JobInv'
<1> SUFFICES ASSUME JobInv, [ServerNext]_allVars
             PROVE  JobInv'
  OBVIOUS
<1>1. ASSUME NEW t \in Threads, NEW a \in Actors, NEW kind, Propose(t, kind, a)
      PROVE  JobInv'
  BY <1>1, JobBegins, CallersAssumption DEF Propose
<1>2. ASSUME NEW t \in Threads, NEW a \in Actors, NEW i \in Issued,
             Withdraw(t, i, a) \/ Execute(t, i, a)
      PROVE  JobInv'
  <2>1. i \in ApprovalIds
    BY DEF Issued
  <2> QED
    BY <1>2, <2>1, JobBegins, CallersAssumption DEF Withdraw, Execute
<1>3. ASSUME NEW t \in Threads, ToolStep(t)
      PROVE  JobInv'
  <2> t \in Callers
    BY CallersAssumption
  <2> USE DEF At, Finished, Fails
  <2>1. CASE Proposed(t) \/ GatewayInterrupted(t) \/ MarkedFailed(t) \/ Report(t)
    BY <2>1, JobEnds DEF Proposed, GatewayInterrupted, MarkedFailed, Report
  <2>2. CASE CheckWithdrawal(t) \/ Cancelled(t)
    BY <2>2, JobEnds, JobMoves, CallersAssumption DEF CheckWithdrawal, Cancelled, ToolSteps
  <2>3. CASE Dispatch(t)
    <3>1. Route(Kind(t)) \in {"gateway", "granted"}
      BY DEF Route
    <3> QED
      BY <2>3, <3>1, JobEnds, JobMoves, CallersAssumption DEF Dispatch, ToolSteps
  <2>4. CASE \/ CancelRecord(t) \/ MarkExecutingHere(t) \/ RecordEffect(t)
             \/ MarkFailedHere(t) \/ Reread(t)
    BY <2>4, JobMoves, CallersAssumption
       DEF CancelRecord, MarkExecutingHere, RecordEffect, MarkFailedHere, Reread,
           CallStore, ToolSteps
  <2>5. CASE Marked(t) \/ Recorded(t)
    BY <2>5, JobEnds, JobMoves, CallersAssumption DEF Marked, Recorded, ToolSteps
  <2>6. CASE TellBroker(t)
    BY <2>6, JobMoves, CallersAssumption DEF TellBroker, ToolSteps
  <2>7. CASE EnterGateway(t)
    BY <2>7 DEF EnterGateway, serverVars, JobInv, JobFits
  <2>8. CASE GatewayWorks(t)
    <3>1. CASE job' = job
      BY <3>1 DEF JobInv, JobFits
    <3> QED
      BY <2>8, <3>1, JobEnds DEF GatewayWorks
  <2> QED
    BY <1>3, <2>1, <2>2, <2>3, <2>4, <2>5, <2>6, <2>7, <2>8 DEF ToolStep
<1>4. ASSUME NEW c \in Clients, NEW command \in Commands, NEW i \in Issued,
             NEW a \in Actors, Open(c, command, i, a)
      PROVE  JobInv'
  <2>1. i \in ApprovalIds
    BY DEF Issued
  <2> QED
    BY <1>4, <2>1, JobBegins, CallersAssumption DEF Open
<1>5. ASSUME NEW c \in Clients, Show(c) \/ Decide(c) \/ DecisionPrinted(c)
      PROVE  JobInv'
  BY <1>5, JobEnds, JobMoves, CallersAssumption
     DEF Show, Decide, DecisionPrinted, CallStore, At, CommandSteps
<1>6. ASSUME NEW g \in Gateways, ServerCrash(g)
      PROVE  JobInv'
  <2>1. job' = [p \in Callers |-> IF p \in ThreadsOf(g) THEN NoJob ELSE job[p]]
    BY <1>6, CallersAssumption DEF ServerCrash
  <2>2. job' \in [Callers -> Jobs]
    BY <2>1, NoJobFits DEF JobInv
  <2>3. \A p \in Callers : JobFits(p)'
    BY <2>1, NoJobFits DEF JobInv, JobFits, ToolSteps, CommandSteps
  <2> QED
    BY <2>2, <2>3 DEF JobInv
<1>7. CASE job' = job
  BY <1>7 DEF JobInv, JobFits
<1> QED
  BY <1>1, <1>2, <1>3, <1>4, <1>5, <1>6, <1>7
     DEF ServerNext, StoreCall, Signal, serverVars, allVars

-----------------------------------------------------------------------------
(* Servers and commands use the store as it allows *)

\* Every call that a tool or a command starts is a request of the store.
LEMMA ServerRequest ==
    ASSUME JobInv, NEW p \in Callers, NEW from, from \notin {"idle", "creating"},
           NEW op \in Edges \union {"get"}, NEW step,
           CallStore(p, from, op, step)
    PROVE  Next
<1>1. job[p].id \in ApprovalIds /\ job[p].by \in Actors
  BY DEF CallStore, At, JobInv, JobFits
<1>2. PICK req : /\ Invoke(p, req)
                 /\ \/ /\ op \in DecisionOps \union {"mark_executing"}
                       /\ req = [op |-> op, id |-> job[p].id, by |-> job[p].by, now |-> clock]
                    \/ /\ op \in FinishOps \union {"get"}
                       /\ req = [op |-> op, id |-> job[p].id, now |-> clock]
  BY DEF CallStore, Edges
<1>3. req \in RequestsIn({clock})
  BY <1>1, <1>2 DEF RequestsIn
<1> QED
  BY <1>2, <1>3 DEF Next

LEMMA GetIsRequest ==
    ASSUME NEW p \in Callers, NEW i \in ApprovalIds,
           Invoke(p, [op |-> "get", id |-> i, now |-> clock])
    PROVE  Next
<1>1. [op |-> "get", id |-> i, now |-> clock] \in RequestsIn({clock})
  BY DEF RequestsIn
<1> QED
  BY <1>1 DEF Next

\* The table is reached by the operations of the store only.
LEMMA ServerStepIsStoreStep == JobInv /\ [ServerNext]_allVars => [Next]_storeVars
<1> SUFFICES ASSUME JobInv, [ServerNext]_allVars
             PROVE  Next \/ UNCHANGED storeVars
  OBVIOUS
<1>1. ASSUME NEW p \in Callers, Return(p)
      PROVE  Next
  BY <1>1 DEF Next
<1>2. ASSUME NEW t \in Threads, NEW a \in Actors, NEW kind \in Kinds, Propose(t, kind, a)
      PROVE  Next
  <2> DEFINE req == [op |-> "create_request", by |-> a, kind |-> kind,
                     mode |-> GatewayMode[GatewayOf[t]], now |-> clock]
  <2>1. req \in RequestsIn({clock})
    BY GatewayAssumption DEF RequestsIn
  <2> QED
    BY <1>2, <2>1, CallersAssumption DEF Propose, Next
<1>3. ASSUME NEW p \in Callers, NEW a, NEW command, NEW i \in Issued,
             Withdraw(p, i, a) \/ Execute(p, i, a) \/ Open(p, command, i, a)
      PROVE  Next
  BY <1>3, GetIsRequest DEF Withdraw, Execute, Open, Issued
<1>4. ASSUME NEW t \in Threads, ToolStep(t)
      PROVE  Next \/ UNCHANGED storeVars
  <2> t \in Callers
    BY CallersAssumption
  <2>1. CASE \/ Proposed(t) \/ CheckWithdrawal(t) \/ Cancelled(t) \/ Dispatch(t) \/ Marked(t)
             \/ Recorded(t) \/ MarkedFailed(t) \/ Report(t)
    BY <1>1, <2>1 DEF Proposed, CheckWithdrawal, Cancelled, Dispatch, Marked, Recorded,
                      MarkedFailed, Report
  <2>2. CASE \/ CancelRecord(t) \/ MarkExecutingHere(t) \/ RecordEffect(t)
             \/ MarkFailedHere(t) \/ Reread(t)
    BY <2>2, ServerRequest
       DEF CancelRecord, MarkExecutingHere, RecordEffect, MarkFailedHere, Reread,
           Edges, DecisionOps, FinishOps
  <2>3. CASE EnterGateway(t) \/ GatewayInterrupted(t) \/ TellBroker(t)
    BY <2>3 DEF EnterGateway, Enter, GatewayInterrupted, TellBroker, vars
  <2>4. CASE GatewayWorks(t)
    BY <2>4, ProceedIsStoreStep DEF GatewayWorks
  <2> QED
    BY <1>4, <2>1, <2>2, <2>3, <2>4 DEF ToolStep
<1>5. ASSUME NEW c \in Clients, Show(c) \/ Decide(c) \/ DecisionPrinted(c)
      PROVE  Next
  <2>1. c \in Callers
    BY CallersAssumption
  <2>2. CASE Show(c) \/ DecisionPrinted(c)
    BY <1>1, <2>1, <2>2 DEF Show, DecisionPrinted
  <2>3. CASE Decide(c)
    <3>1. job[c].tool \in Edges
      BY <2>1, <2>3 DEF Decide, CallStore, At, JobInv, JobFits, Commands, Edges, DecisionOps
    <3> QED
      BY <2>1, <2>3, <3>1, ServerRequest DEF Decide
  <2> QED
    BY <1>5, <2>2, <2>3
<1>6. ASSUME NEW p \in Callers, StoreCall(p)
      PROVE  Next
  BY <1>6, OperationIsNext DEF StoreCall
<1>7. ASSUME NEW g \in Gateways, ServerCrash(g)
      PROVE  Next
  <2>1. ThreadsOf(g) \in SUBSET Callers
    BY CallersAssumption DEF ThreadsOf
  <2> QED
    BY <1>7, <2>1 DEF ServerCrash, GatewayCrash, Next
<1>8. CASE \/ \E i \in ApprovalIds : BrokerDecides(i)
           \/ \E g \in Gateways : Signal(g)
           \/ UNCHANGED allVars
  BY <1>8 DEF BrokerDecides, Signal, Arm, allVars, vars
<1>9. CASE Tick
  BY <1>9 DEF Next
<1> QED
  BY <1>2, <1>3, <1>4, <1>5, <1>6, <1>7, <1>8, <1>9, CallersAssumption DEF ServerNext

\* It holds at the start and every step keeps it.
LEMMA JobInvHolds == ServerSpec => []JobInv
<1>1. ServerInit => JobInv
  BY NoJobFits, CallersAssumption
     DEF ServerInit, JobInv, JobFits, ToolSteps, CommandSteps
<1> QED
  BY <1>1, JobStep, PTL DEF ServerSpec

\* The servers, the operator's command and their faults take only the steps
\* that the store allows: what is proved of the store holds under them too.
THEOREM ServerUsesStore == ServerSpec => UsesStore
<1>1. ServerInit => Init
  BY DEF ServerInit, GatewayInit
<1> QED
  BY <1>1, JobInvHolds, ServerStepIsStoreStep, PTL DEF ServerSpec, UsesStore, Spec

\* The gateway's variables keep their types under the tools around it.
LEMMA ServerGatewayTypes ==
    ASSUME JobInv, GatewayTypes, [ServerNext]_allVars
    PROVE  GatewayTypes'
<1> USE DEF GatewayTypes, Stop, Wire
<1>1. CASE UNCHANGED gatewayVars
  BY <1>1 DEF gatewayVars
<1>2. ASSUME NEW t \in Threads, ToolStep(t)
      PROVE  GatewayTypes'
  <2>1. CASE EnterGateway(t)
    <3>1. job[t].id \in ApprovalIds
      BY <2>1, CallersAssumption DEF EnterGateway, At, JobInv, JobFits
    <3> QED
      BY <2>1, <3>1, LocationsListed DEF EnterGateway, Enter, GoTo
  <2>2. CASE GatewayWorks(t)
    BY <2>2, ProceedTypes DEF GatewayWorks
  <2>3. CASE ~EnterGateway(t) /\ ~GatewayWorks(t)
    BY <1>1, <1>2, <2>3
       DEF ToolStep, Proposed, CheckWithdrawal, CancelRecord, Cancelled, Dispatch,
           GatewayInterrupted, MarkExecutingHere, Marked, TellBroker, RecordEffect,
           Recorded, MarkFailedHere, MarkedFailed, Reread, Report, CallStore, vars
  <2> QED
    BY <2>1, <2>2, <2>3
<1>3. ASSUME NEW i \in ApprovalIds, BrokerDecides(i)
      PROVE  GatewayTypes'
  BY <1>3, GatewayTypesStep DEF GatewayNext
<1>4. ASSUME NEW g \in Gateways, Arm(g) \/ GatewayCrash(g)
      PROVE  GatewayTypes'
  BY <1>4, GatewayTypesStep DEF GatewayNext
<1> QED
  BY <1>1, <1>2, <1>3, <1>4
     DEF ServerNext, Propose, Withdraw, Execute, Open, Show, Decide, DecisionPrinted,
         CallStore, StoreCall, Signal, ServerCrash, vars, allVars

-----------------------------------------------------------------------------
(* A process and its call in the store *)

\* What a process does by itself, which is everything except the transactions.
Acts(p) ==
    \/ /\ p \in Threads
       /\ \/ \E a \in Actors :
                \/ \E kind \in Kinds : Propose(p, kind, a)
                \/ \E i \in Issued : Withdraw(p, i, a) \/ Execute(p, i, a)
          \/ ToolStep(p)
    \/ /\ p \in Clients
       /\ \/ \E command \in Commands, i \in Issued, a \in Actors : Open(p, command, i, a)
          \/ Show(p) \/ Decide(p) \/ DecisionPrinted(p)

\* It leaves the table and the other processes alone.
Alone(p) ==
    /\ records' = records
    /\ \A q \in Callers \ {p} :
          calls'[q] = calls[q] /\ replies'[q] = replies[q] /\ job'[q] = job[q]
    /\ \A q \in Threads \ {p} :
          pc'[q] = pc[q] /\ task'[q] = task[q] /\ answer'[q] = answer[q]

\* The call a process has in the store is the one its step says.
Place(p) ==
    /\ job[p].at \in {"idle", "cancelling", "granted", "telling", "recording",
                      "undoing", "rereading", "deciding"} => calls[p] = Idle
    /\ job[p].at = "creating" => calls[p].op = "create_request"
    /\ job[p].at \in {"checking", "dispatching", "reporting", "showing"} =>
          calls[p].op = "get" /\ calls[p].id = job[p].id
    /\ job[p].at = "cancelled" =>
          calls[p].op = "cancel" /\ calls[p].id = job[p].id /\ calls[p].by = job[p].by
    /\ job[p].at = "marking" => calls[p].op = "mark_executing" /\ calls[p].id = job[p].id
    /\ job[p].at = "recorded" => calls[p].op = "mark_executed" /\ calls[p].id = job[p].id
    /\ job[p].at = "undone" => calls[p].op = "mark_exec_failed" /\ calls[p].id = job[p].id
    /\ job[p].at = "decided" => calls[p].op \in DecisionOps
    /\ job[p].at = "gateway" => /\ Fits(p)
                                /\ pc[p] # "idle" => task[p] = job[p].id
    /\ p \in Threads /\ job[p].at # "gateway" => pc[p] = "idle"

PlaceInv == \A p \in Callers : Place(p)

\* Every server has a last answer.
LEMMA AnswersStep == DOMAIN answer = Threads /\ [ServerNext]_allVars => DOMAIN answer' = Threads
<1> SUFFICES ASSUME DOMAIN answer = Threads, [ServerNext]_allVars
             PROVE  DOMAIN answer' = Threads
  OBVIOUS
<1>1. ASSUME NEW p, NEW tool, NEW i, NEW a, NEW step, Begin(p, tool, i, a, step)
      PROVE  DOMAIN answer' = Threads
  BY <1>1 DEF Begin
<1>2. ASSUME NEW t, NEW state, Finished(t, state)
      PROVE  DOMAIN answer' = Threads
  BY <1>2 DEF Finished
<1>3. ASSUME NEW t \in Threads, ToolStep(t)
      PROVE  DOMAIN answer' = Threads
  BY <1>2, <1>3
     DEF ToolStep, Proposed, CheckWithdrawal, CancelRecord, Cancelled, Dispatch,
         EnterGateway, GatewayInterrupted, GatewayWorks, MarkExecutingHere, Marked,
         TellBroker, RecordEffect, Recorded, MarkFailedHere, MarkedFailed, Reread, Report,
         CallStore, Fails, serverVars
<1> QED
  BY <1>1, <1>2, <1>3
     DEF ServerNext, Propose, Withdraw, Execute, Open, Show, Decide, DecisionPrinted,
         CallStore, StoreCall, Signal, ServerCrash, serverVars, allVars

LEMMA AnswerPieces ==
    ASSUME DOMAIN answer = Threads, NEW t \in Threads, NEW v
    PROVE  answer' = [answer EXCEPT ![t] = v] =>
              /\ DOMAIN answer' = Threads /\ answer'[t] = v
              /\ \A u \in Threads \ {t} : answer'[u] = answer[u]
  OBVIOUS

LEMMA BeginPieces ==
    ASSUME JobInv, NEW p \in Callers, NEW tool, NEW i, NEW a, NEW step, Begin(p, tool, i, a, step)
    PROVE  /\ job[p].at = "idle"
           /\ job'[p] = [tool |-> tool, id |-> i, by |-> a, at |-> step]
           /\ \A q \in Callers \ {p} : job'[q] = job[q]
           /\ \A u \in Threads \ {p} : answer'[u] = answer[u]
  BY NoJobFits DEF Begin, JobInv

\* A process at work touches its own call, job, location and answer only.
LEMMA ActsAlone ==
    ASSUME TypeOK, GatewayTypes, JobInv, DOMAIN answer = Threads, NEW p \in Callers,
           Place(p), Answered(p), Acts(p)
    PROVE  Alone(p)
<1> USE CallersAssumption DEF At
<1>1. /\ Return(p) => /\ records' = records
                      /\ \A q \in Callers \ {p} : calls'[q] = calls[q] /\ replies'[q] = replies[q]
      /\ \A req : Invoke(p, req) =>
              /\ records' = records /\ replies' = replies
              /\ \A q \in Callers \ {p} : calls'[q] = calls[q]
  BY DEF Return, Invoke, TypeOK
<1>2. gatewayVars' = gatewayVars =>
          \A q \in Threads \ {p} : pc'[q] = pc[q] /\ task'[q] = task[q]
  BY DEF gatewayVars
<1>3. ASSUME NEW state, Finished(p, state), p \in Threads
      PROVE  /\ \A q \in Callers \ {p} : job'[q] = job[q]
             /\ \A u \in Threads \ {p} : answer'[u] = answer[u]
  BY <1>3, NoJobFits, JobPieces, AnswerPieces DEF Finished
<1>4. ASSUME NEW step, MoveTo(p, step)
      PROVE  \A q \in Callers \ {p} : job'[q] = job[q]
  BY <1>4 DEF MoveTo, JobInv
<1>5. ASSUME job' = [job EXCEPT ![p] = NoJob]
      PROVE  \A q \in Callers \ {p} : job'[q] = job[q]
  BY <1>5 DEF JobInv
<1>6. ASSUME NEW tool, NEW i, NEW a, NEW step, Begin(p, tool, i, a, step),
             NEW req, Invoke(p, req), gatewayVars' = gatewayVars
      PROVE  Alone(p)
  <2>1. /\ \A q \in Callers \ {p} : job'[q] = job[q]
        /\ \A u \in Threads \ {p} : answer'[u] = answer[u]
    BY <1>6, BeginPieces
  <2> QED
    BY <1>1, <1>2, <1>6, <2>1 DEF Alone
<1>7. ASSUME NEW command, NEW a, NEW i, NEW kind,
             \/ Propose(p, kind, a) \/ Withdraw(p, i, a)
             \/ Execute(p, i, a) \/ Open(p, command, i, a)
      PROVE  Alone(p)
  <2>1. gatewayVars' = gatewayVars
    BY <1>7 DEF Propose, Withdraw, Execute, Open
  <2>2. \E tool, j, step : Begin(p, tool, j, a, step)
    BY <1>7 DEF Propose, Withdraw, Execute, Open
  <2>3. \E req : Invoke(p, req)
    BY <1>7 DEF Propose, Withdraw, Execute, Open
  <2> QED
    BY <1>6, <2>1, <2>2, <2>3
<1>8. ASSUME NEW from, NEW op, NEW step, CallStore(p, from, op, step)
      PROVE  Alone(p)
  BY <1>1, <1>2, <1>4, <1>8 DEF CallStore, Alone
<1>9. CASE p \in Threads /\ ToolStep(p)
  <2>1. CASE Proposed(p) \/ MarkedFailed(p) \/ Report(p)
    BY <1>1, <1>2, <1>3, <1>5, <1>9, <2>1 DEF Proposed, MarkedFailed, Report, Fails, Alone
  <2>2. CASE CheckWithdrawal(p) \/ Cancelled(p)
    BY <1>1, <1>2, <1>3, <1>4, <1>9, <2>2 DEF CheckWithdrawal, Cancelled, Fails, Alone
  <2>3. CASE Dispatch(p)
    BY <1>1, <1>2, <1>3, <1>4, <1>9, <2>3 DEF Dispatch, Fails, Alone
  <2>4. CASE Marked(p) \/ Recorded(p)
    BY <1>1, <1>2, <1>3, <1>4, <1>9, <2>4 DEF Marked, Recorded, Fails, Alone
  <2>5. CASE \/ CancelRecord(p) \/ MarkExecutingHere(p) \/ RecordEffect(p)
             \/ MarkFailedHere(p) \/ Reread(p)
    BY <1>8, <2>5 DEF CancelRecord, MarkExecutingHere, RecordEffect, MarkFailedHere, Reread
  <2>6. CASE TellBroker(p)
    BY <1>2, <1>4, <2>6 DEF TellBroker, vars, storeVars, Alone
  <2>7. CASE GatewayInterrupted(p)
    BY <1>2, <1>3, <1>9, <2>7 DEF GatewayInterrupted, Fails, vars, storeVars, Alone
  <2>8. CASE EnterGateway(p)
    BY <2>8 DEF EnterGateway, Enter, GoTo, serverVars, storeVars, GatewayTypes, Alone
  <2>9. CASE GatewayWorks(p)
    <3>1. /\ records' = records
          /\ \A q \in Callers \ {p} : calls'[q] = calls[q] /\ replies'[q] = replies[q]
          /\ \A u \in Threads \ {p} : pc'[u] = pc[u] /\ task'[u] = task[u]
      BY <1>9, <2>9, ProceedLocal DEF GatewayWorks, Place, LocalStep
    <3> QED
      BY <1>3, <1>9, <2>9, <3>1 DEF GatewayWorks, Alone
  <2> QED
    BY <1>9, <2>1, <2>2, <2>3, <2>4, <2>5, <2>6, <2>7, <2>8, <2>9 DEF ToolStep
<1>10. CASE Show(p) \/ DecisionPrinted(p)
  BY <1>1, <1>2, <1>4, <1>5, <1>10 DEF Show, DecisionPrinted, Alone
<1> QED
  BY <1>7, <1>8, <1>9, <1>10 DEF Acts, Decide

\* Only the end of the call takes a thread's approval away from it.
LEMMA ProceedKeepsTask ==
    ASSUME GatewayTypes, NEW t \in Threads, Proceed(t)
    PROVE  pc[t] # "idle" /\ (pc'[t] # "idle" => task'[t] = task[t])
<1> USE DEF GatewayTypes, GoTo, Leave
<1>1. ASSUME NEW op, NEW location, FinishWith(t, op, location)
      PROVE  task' = task
  BY <1>1 DEF FinishWith
<1>2. CASE LockAndGet(t) \/ \E a \in Actors : AskPermission(t, a)
  BY <1>2 DEF LockAndGet, AskPermission
<1>3. CASE AfterGet(t) \/ AfterMarkExecuting(t) \/ AfterFirstMark(t) \/ AfterLastMark(t)
  BY <1>3 DEF AfterGet, AfterMarkExecuting, AfterFirstMark, AfterLastMark
<1>4. CASE \/ LastCheck(t) \/ CannotDeserialize(t) \/ Accepted(t) \/ Rejected(t)
           \/ BrokerRaises(t) \/ CloseAsFailed(t)
  BY <1>1, <1>4 DEF LastCheck, CannotDeserialize, Accepted, Rejected, BrokerRaises,
                    CloseAsFailed
<1>5. CASE Submit(t) \/ BadReply(t)
  BY <1>5 DEF Submit, BadReply
<1> QED
  BY <1>2, <1>3, <1>4, <1>5 DEF Proceed

\* Each step of a tool or a command makes the call that its next place waits for.
LEMMA ActsPlace ==
    ASSUME TypeOK, GatewayTypes, JobInv, NEW p \in Callers,
           Place(p), Answered(p), Acts(p)
    PROVE  Place(p)'
<1> USE DEF At
<1>1. /\ Return(p) => calls'[p] = Idle
      /\ \A req : Invoke(p, req) => calls'[p] = req
  BY DEF Return, Invoke, TypeOK
<1>2. gatewayVars' = gatewayVars /\ p \in Threads => pc'[p] = pc[p] /\ task'[p] = task[p]
  BY DEF gatewayVars
<1>3. /\ \A step \in ToolSteps \union CommandSteps : MoveTo(p, step) =>
             /\ job'[p].at = step /\ job'[p].id = job[p].id /\ job'[p].by = job[p].by
      /\ job' = [job EXCEPT ![p] = NoJob] => job'[p].at = "idle"
      /\ \A state : Finished(p, state) => job'[p].at = "idle"
  BY JobPieces, NoJobFits DEF Finished
<1>4. ASSUME NEW from, NEW op \in Edges \union {"get"}, NEW step, CallStore(p, from, op, step)
      PROVE  /\ calls'[p].op = op /\ calls'[p].id = job[p].id
             /\ op = "cancel" => calls'[p].by = job[p].by
             /\ gatewayVars' = gatewayVars /\ MoveTo(p, step)
  BY <1>1, <1>4 DEF CallStore, DecisionOps
\* The processes that are not in the gateway, before and after.
<1>5. ASSUME job[p].at # "gateway", gatewayVars' = gatewayVars, job'[p].at # "gateway",
             \/ job'[p].at \in {"idle", "cancelling", "granted", "telling", "recording",
                                "undoing", "rereading", "deciding"} /\ calls'[p] = Idle
             \/ job'[p].at = "creating" /\ calls'[p].op = "create_request"
             \/ /\ job'[p].at \in {"checking", "dispatching", "reporting", "showing"}
                /\ calls'[p].op = "get" /\ calls'[p].id = job'[p].id
             \/ /\ job'[p].at = "cancelled" /\ calls'[p].op = "cancel"
                /\ calls'[p].id = job'[p].id /\ calls'[p].by = job'[p].by
             \/ /\ job'[p].at = "marking" /\ calls'[p].op = "mark_executing"
                /\ calls'[p].id = job'[p].id
             \/ /\ job'[p].at = "recorded" /\ calls'[p].op = "mark_executed"
                /\ calls'[p].id = job'[p].id
             \/ /\ job'[p].at = "undone" /\ calls'[p].op = "mark_exec_failed"
                /\ calls'[p].id = job'[p].id
             \/ job'[p].at = "decided" /\ calls'[p].op \in DecisionOps
      PROVE  Place(p)'
  BY <1>2, <1>5 DEF Place
<1>6. ASSUME NEW tool, NEW i, NEW a, NEW step, Begin(p, tool, i, a, step),
             gatewayVars' = gatewayVars,
             \/ step = "creating" /\ calls'[p].op = "create_request"
             \/ /\ step \in {"checking", "dispatching", "showing"}
                /\ calls'[p].op = "get" /\ calls'[p].id = i
      PROVE  Place(p)'
  <2>1. job[p].at = "idle" /\ job'[p] = [tool |-> tool, id |-> i, by |-> a, at |-> step]
    BY <1>6, BeginPieces
  <2> QED
    BY <1>5, <1>6, <2>1
<1>7. ASSUME NEW command, NEW a, NEW i, NEW kind,
             \/ Propose(p, kind, a) \/ Withdraw(p, i, a)
             \/ Execute(p, i, a) \/ Open(p, command, i, a)
      PROVE  Place(p)'
  <2>1. CASE Propose(p, kind, a)
    <3>1. calls'[p].op = "create_request"
      BY <1>1, <2>1 DEF Propose
    <3> QED
      BY <1>6, <2>1, <3>1 DEF Propose
  <2>2. CASE Withdraw(p, i, a) \/ Execute(p, i, a) \/ Open(p, command, i, a)
    <3>1. calls'[p].op = "get" /\ calls'[p].id = i
      BY <1>1, <2>2 DEF Withdraw, Execute, Open
    <3> QED
      BY <1>6, <2>2, <3>1 DEF Withdraw, Execute, Open
  <2> QED
    BY <1>7, <2>1, <2>2
<1>8. CASE p \in Threads /\ ToolStep(p)
  <2> USE DEF ToolSteps
  <2>1. CASE Proposed(p) \/ MarkedFailed(p) \/ Report(p)
    BY <1>1, <1>3, <1>5, <2>1 DEF Proposed, MarkedFailed, Report, Fails
  <2>2. CASE CheckWithdrawal(p) \/ Cancelled(p)
    BY <1>1, <1>3, <1>5, <2>2 DEF CheckWithdrawal, Cancelled, Fails
  <2>3. CASE Dispatch(p)
    <3>1. calls'[p] = Idle /\ gatewayVars' = gatewayVars /\ job[p].at = "dispatching"
      BY <1>1, <2>3 DEF Dispatch
    <3>2. job'[p].at \in {"gateway", "granted", "idle"}
      BY <1>3, <2>3 DEF Dispatch, Fails, Route
    <3>3. CASE job'[p].at = "gateway"
      <4>1. pc'[p] = "idle" /\ job'[p].at = "gateway"
        BY <1>2, <1>8, <3>1, <3>3 DEF Place
      <4> QED
        BY <3>1, <4>1 DEF Place, Fits, Quiet
    <3>4. CASE job'[p].at # "gateway"
      BY <1>5, <3>1, <3>2, <3>4
    <3> QED
      BY <3>3, <3>4
  <2>4. CASE Marked(p) \/ Recorded(p)
    BY <1>1, <1>3, <1>5, <2>4 DEF Marked, Recorded, Fails
  <2>5. CASE CancelRecord(p)
    <3>1. /\ calls'[p].op = "cancel" /\ calls'[p].id = job[p].id /\ calls'[p].by = job[p].by
          /\ gatewayVars' = gatewayVars /\ MoveTo(p, "cancelled")
      BY <1>4, <2>5 DEF CancelRecord, Edges, DecisionOps
    <3> QED
      BY <1>3, <1>5, <2>5, <3>1 DEF CancelRecord, CallStore
  <2>6. CASE MarkExecutingHere(p) \/ RecordEffect(p) \/ MarkFailedHere(p)
    <3>1. /\ calls'[p].id = job[p].id /\ gatewayVars' = gatewayVars
          /\ \/ calls'[p].op = "mark_executing" /\ MoveTo(p, "marking")
             \/ calls'[p].op = "mark_executed" /\ MoveTo(p, "recorded")
             \/ calls'[p].op = "mark_exec_failed" /\ MoveTo(p, "undone")
      BY <1>4, <2>6 DEF MarkExecutingHere, RecordEffect, MarkFailedHere, Edges, FinishOps
    <3>2. job[p].at # "gateway"
      BY <2>6 DEF MarkExecutingHere, RecordEffect, MarkFailedHere, CallStore
    <3> QED
      BY <1>3, <1>5, <3>1, <3>2
  <2>7. CASE Reread(p)
    BY <1>3, <1>4, <1>5, <2>7 DEF Reread, CallStore
  <2>8. CASE TellBroker(p)
    <3>1. calls' = calls /\ gatewayVars' = gatewayVars /\ calls[p] = Idle
      BY <2>8 DEF TellBroker, vars, storeVars, Place
    <3> QED
      BY <1>3, <1>5, <2>8, <3>1 DEF TellBroker
  <2>9. CASE GatewayInterrupted(p)
    <3>1. /\ calls' = calls /\ gatewayVars' = gatewayVars /\ calls[p] = Idle
          /\ pc[p] = "idle" /\ job'[p].at = "idle"
      BY <1>3, <2>9 DEF GatewayInterrupted, Fails, vars, storeVars, Place, Fits, Quiet
    <3> QED
      BY <1>2, <3>1 DEF Place
  <2>10. CASE EnterGateway(p)
    <3>1. /\ calls' = calls /\ job' = job /\ job[p].at = "gateway"
          /\ pc[p] = "idle" /\ pc'[p] = "entered" /\ task'[p] = job[p].id
      BY <1>8, <2>10 DEF EnterGateway, Enter, GoTo, serverVars, storeVars, GatewayTypes
    <3> QED
      BY <3>1 DEF Place, Fits, Quiet
  <2>11. CASE GatewayWorks(p)
    <3>1. Fits(p) /\ LocalStep(p) /\ job[p].at = "gateway"
      BY <1>8, <2>11, ProceedLocal DEF GatewayWorks, Place
    <3>2. CASE pc'[p] # "idle" /\ job' = job
      <4>1. task'[p] = task[p] /\ pc[p] # "idle"
        BY <1>8, <2>11, <3>1, <3>2, ProceedKeepsTask DEF GatewayWorks
      <4> QED
        BY <3>1, <3>2, <4>1 DEF Place, LocalStep
    <3>3. CASE pc'[p] = "idle" /\ job'[p].at = "idle"
      BY <3>1, <3>3 DEF Place, LocalStep, Fits, Quiet
    <3> QED
      BY <1>3, <2>11, <3>2, <3>3 DEF GatewayWorks
  <2> QED
    BY <1>8, <2>1, <2>2, <2>3, <2>4, <2>5, <2>6, <2>7, <2>8, <2>9, <2>10, <2>11 DEF ToolStep
<1>9. CASE p \in Clients /\ (Show(p) \/ DecisionPrinted(p))
  BY <1>1, <1>3, <1>5, <1>9 DEF Show, DecisionPrinted, CommandSteps
<1>10. CASE p \in Clients /\ Decide(p)
  <2>1. job[p].tool \in DecisionOps /\ job[p].tool \in Edges
    BY <1>10 DEF Decide, CallStore, JobInv, JobFits, Commands, DecisionOps, Edges
  <2> QED
    BY <1>3, <1>4, <1>5, <1>10, <2>1 DEF Decide, CallStore, CommandSteps
<1> QED
  BY <1>7, <1>8, <1>9, <1>10 DEF Acts

\* The steps of the system: a process acts, the store works for one, a server
\* dies, or something else moves that no process holds.
LEMMA ServerCases ==
    ASSUME [ServerNext]_allVars
    PROVE  \/ \E p \in Callers : Acts(p)
           \/ \E p \in Callers : StoreCall(p)
           \/ \E g \in Gateways : ServerCrash(g)
           \/ \E i \in ApprovalIds : BrokerDecides(i) /\ UNCHANGED serverVars
           \/ UNCHANGED <<records, calls, replies, pc, task, sends, verdict, sentBy, serverVars>>
<1>1. CASE \/ \E t \in Threads, a \in Actors :
                 \/ \E kind \in Kinds : Propose(t, kind, a)
                 \/ \E i \in Issued : Withdraw(t, i, a) \/ Execute(t, i, a)
           \/ \E t \in Threads : ToolStep(t)
  BY <1>1, CallersAssumption DEF Acts
<1>2. CASE \/ \E c \in Clients, command \in Commands, i \in Issued, a \in Actors :
                 Open(c, command, i, a)
           \/ \E c \in Clients : Show(c) \/ Decide(c) \/ DecisionPrinted(c)
  BY <1>2, CallersAssumption DEF Acts
<1>3. CASE \/ \E g \in Gateways : Signal(g)
           \/ Tick /\ UNCHANGED <<gatewayVars, serverVars>>
           \/ UNCHANGED allVars
  BY <1>3 DEF Signal, Arm, Tick, allVars, vars, storeVars, gatewayVars, Wire
<1> QED
  BY <1>1, <1>2, <1>3 DEF ServerNext

\* The other steps, of the store, of crashes and of the clock, move nobody.
LEMMA PlaceStep ==
    ASSUME TypeOK, GatewayTypes, JobInv, PlaceInv, DOMAIN answer = Threads,
           \A p \in Callers : Answered(p), [ServerNext]_allVars
    PROVE  PlaceInv'
<1>1. ASSUME NEW p \in Callers, Acts(p)
      PROVE  PlaceInv'
  <2>1. Alone(p) /\ Place(p)'
    BY <1>1, ActsAlone, ActsPlace DEF PlaceInv
  <2>2. ASSUME NEW q \in Callers, q # p
        PROVE  Place(q)'
    <3>1. /\ calls'[q] = calls[q] /\ job'[q] = job[q]
          /\ q \in Threads => pc'[q] = pc[q] /\ task'[q] = task[q]
      BY <2>1, <2>2 DEF Alone
    <3>2. q \in Clients => job[q].at # "gateway"
      BY DEF JobInv, JobFits, CommandSteps
    <3> QED
      BY <2>2, <3>1, <3>2, CallersAssumption DEF PlaceInv, Place, Fits
  <2> QED
    BY <2>1, <2>2 DEF PlaceInv
<1>2. ASSUME calls' = calls, pc' = pc, task' = task, job' = job
      PROVE  PlaceInv'
  BY <1>2 DEF PlaceInv, Place, Fits
<1>3. ASSUME NEW p \in Callers, StoreCall(p)
      PROVE  PlaceInv'
  BY <1>2, <1>3, OnlyOneAnswer DEF StoreCall, gatewayVars, serverVars
<1>4. ASSUME NEW g \in Gateways, ServerCrash(g)
      PROVE  PlaceInv'
  <2> SUFFICES ASSUME NEW p \in Callers
               PROVE  Place(p)'
    BY DEF PlaceInv
  <2>1. CASE p \in ThreadsOf(g)
    <3>1. calls'[p] = Idle /\ job'[p] = NoJob /\ pc'[p] = "idle"
      BY <1>4, <2>1, CallersAssumption DEF ServerCrash, GatewayCrash, Crash, ThreadsOf
    <3> QED
      BY <3>1, NoJobFits DEF Place
  <2>2. CASE p \notin ThreadsOf(g)
    <3>1. /\ calls'[p] = calls[p] /\ job'[p] = job[p]
          /\ p \in Threads => pc'[p] = pc[p] /\ task'[p] = task[p]
      BY <1>4, <2>2, CallersAssumption DEF ServerCrash, GatewayCrash, Crash
    <3>2. p \in Clients => job[p].at # "gateway"
      BY DEF JobInv, JobFits, CommandSteps
    <3> QED
      BY <3>1, <3>2, CallersAssumption DEF PlaceInv, Place, Fits
  <2> QED
    BY <2>1, <2>2
<1>5. CASE \E i \in ApprovalIds : BrokerDecides(i) /\ UNCHANGED serverVars
  BY <1>2, <1>5 DEF BrokerDecides, storeVars, serverVars
<1>6. CASE UNCHANGED <<records, calls, replies, pc, task, sends, verdict, sentBy, serverVars>>
  BY <1>2, <1>6 DEF serverVars
<1> QED
  BY <1>1, <1>3, <1>4, <1>5, <1>6, ServerCases

\* What every step of a server can rely on.
ServerBase ==
    /\ StoreInv /\ GatewayTypes
    /\ JobInv /\ PlaceInv
    /\ DOMAIN answer = Threads
    /\ cancels \in [ApprovalIds -> Nat]

\* Cancellations at the broker are counted in natural numbers.
LEMMA CancelsStep ==
    ASSUME JobInv, cancels \in [ApprovalIds -> Nat], [ServerNext]_allVars
    PROVE  cancels' \in [ApprovalIds -> Nat]
<1>1. ASSUME NEW t \in Threads, TellBroker(t)
      PROVE  cancels' \in [ApprovalIds -> Nat]
  <2>1. \/ cancels' = cancels
        \/ cancels' = [cancels EXCEPT ![job[t].id] = cancels[job[t].id] + 1]
    BY <1>1 DEF TellBroker, Effects
  <2>2. \A i \in ApprovalIds : cancels[i] + 1 \in Nat
    OBVIOUS
  <2> QED
    BY <2>1, <2>2
<1>2. CASE cancels' = cancels
  BY <1>2
<1>3. ASSUME NEW t \in Threads, ToolStep(t), ~TellBroker(t)
      PROVE  cancels' = cancels
  BY <1>3
     DEF ToolStep, Proposed, CheckWithdrawal, CancelRecord, Cancelled, Dispatch,
         EnterGateway, GatewayInterrupted, GatewayWorks, MarkExecutingHere, Marked,
         RecordEffect, Recorded, MarkFailedHere, MarkedFailed, Reread, Report,
         CallStore, Effects, serverVars
<1> QED
  BY <1>1, <1>2, <1>3
     DEF ServerNext, Propose, Withdraw, Execute, Open, Show, Decide, DecisionPrinted,
         CallStore, StoreCall, Signal, ServerCrash, Effects, serverVars, allVars

\* The store's invariants, the gateway's types, the jobs and their places, together.
LEMMA ServerBaseHolds == ServerSpec => []ServerBase
<1>1. ServerInit => /\ GatewayTypes /\ PlaceInv
                    /\ DOMAIN answer = Threads /\ cancels \in [ApprovalIds -> Nat]
  <2> SUFFICES ASSUME ServerInit
               PROVE  /\ GatewayTypes /\ PlaceInv
                      /\ DOMAIN answer = Threads /\ cancels \in [ApprovalIds -> Nat]
    OBVIOUS
  <2>1. GatewayTypes
    BY LocationsListed DEF ServerInit, GatewayInit, GatewayTypes
  <2>2. \A p \in Callers : Place(p)
    BY NoJobFits, CallersAssumption DEF ServerInit, GatewayInit, Init, Place
  <2> QED
    BY <2>1, <2>2 DEF ServerInit, PlaceInv
<1>2. StoreInv => TypeOK /\ \A p \in Callers : Answered(p)
  BY DEF StoreInv, WinInv, Answered
<1>3. ServerSpec => []StoreInv
  BY ServerUsesStore, StoreInvHolds, PTL DEF UsesStore
<1>4. ServerSpec => [](JobInv /\ StoreInv)
  BY <1>3, JobInvHolds, PTL
<1>5. ServerSpec => [](GatewayTypes /\ DOMAIN answer = Threads /\ cancels \in [ApprovalIds -> Nat])
  <2> DEFINE T == GatewayTypes /\ DOMAIN answer = Threads /\ cancels \in [ApprovalIds -> Nat]
  <2>1. JobInv /\ T /\ [ServerNext]_allVars => T'
    BY ServerGatewayTypes, AnswersStep, CancelsStep
  <2>2. ServerInit => T
    BY <1>1
  <2> HIDE DEF T
  <2>3. ServerSpec => []T
    BY <1>4, <2>1, <2>2, PTL DEF ServerSpec
  <2> QED
    BY <2>3 DEF T
<1>6. ServerSpec => []PlaceInv
  BY <1>1, <1>2, <1>4, <1>5, PlaceStep, PTL DEF ServerSpec
<1> QED
  BY <1>4, <1>5, <1>6, PTL DEF ServerBase

-----------------------------------------------------------------------------
(* What a tool knows of its approval *)

\* Where a tool executes an approval that is not an order.
Here == {"granted", "marking", "telling", "recording", "recorded", "undoing", "undone"}

\* Read or written before, and still true: nothing of it is ever taken back.
Knows(t) ==
    LET row == records[job[t].id] IN
    /\ job[t].at \in {"gateway", "cancelling", "cancelled"} \union Here => row.state # "absent"
    /\ job[t].at = "gateway" => row.kind = "submit_order"
    /\ job[t].at \in Here => row.kind # "submit_order"
    /\ job[t].at = "telling" => row.kind = "cancel_order"
    /\ job[t].at \in {"cancelling", "cancelled"} => job[t].by \in {row.requested_by, OperatorId}
    /\ job[t].at \in {"rereading", "reporting"} => row.state \in Terminal
    /\ job[t].at = "reporting" /\ Got(t) => replies[t].row.state \in Terminal

KnowInv == \A t \in Threads : Knows(t)

\* What a reply of the store says of the table.
LEMMA HeardOfRow ==
    ASSUME ServerBase, NEW t \in Threads, Got(t)
    PROVE  /\ job[t].at \in {"checking", "dispatching", "reporting"} =>
                Follows(replies[t].row, records[job[t].id])
           /\ job[t].at = "cancelled" => records[job[t].id].state = "cancelled"
           /\ job[t].at = "marking" => records[job[t].id].state \in Begun
           /\ job[t].at = "recorded" => records[job[t].id].state = "executed"
<1>1. Place(t) /\ Informed(t) /\ Acknowledged(t)
  BY CallersAssumption DEF ServerBase, PlaceInv, StoreInv, ReadersInformed, WinInv
<1>2. job[t].at \in {"checking", "dispatching", "reporting"} =>
          Follows(replies[t].row, records[job[t].id])
  BY <1>1 DEF Got, Place, Informed
<1>3. ASSUME calls[t].op \in Edges, calls[t].id = job[t].id
      PROVE  Past(calls[t].op, records[job[t].id])
  BY <1>1, <1>3 DEF Got, Acknowledged, Won
<1>4. job[t].at = "cancelled" => records[job[t].id].state = "cancelled"
  BY <1>1, <1>3 DEF Place, Past, Edges, DecisionOps
<1>5. job[t].at = "marking" => records[job[t].id].state \in Begun
  BY <1>1, <1>3 DEF Place, Past, Edges, Begun
<1>6. job[t].at = "recorded" => records[job[t].id].state = "executed"
  BY <1>1, <1>3 DEF Place, Past, Edges, FinishOps
<1> QED
  BY <1>2, <1>4, <1>5, <1>6

\* What a tool has read or been told is what its next place relies on.
LEMMA ActsKnows ==
    ASSUME ServerBase, NEW t \in Threads, Knows(t), Acts(t)
    PROVE  Knows(t)'
<1> USE DEF At
<1>0. t \in Callers /\ t \notin Clients
  BY CallersAssumption
<1>1. records' = records
  BY <1>0, ActsAlone DEF ServerBase, StoreInv, WinInv, Answered, PlaceInv, Alone
<1>2. JobInv
  BY DEF ServerBase
<1>3. /\ \A step \in ToolSteps : MoveTo(t, step) =>
             /\ job'[t].at = step /\ job'[t].id = job[t].id /\ job'[t].by = job[t].by
      /\ job' = [job EXCEPT ![t] = NoJob] => job'[t].at = "idle"
      /\ \A state : Finished(t, state) => job'[t].at = "idle"
  BY <1>0, <1>2, JobPieces, NoJobFits DEF Finished
<1>4. CASE job'[t].at \in {"idle", "creating", "checking", "dispatching"}
  BY <1>4 DEF Knows, Here
<1>5. CASE ToolStep(t) /\ job'[t].at \notin {"idle", "creating", "checking", "dispatching"}
  <2> USE DEF ToolSteps
  <2>1. CASE Proposed(t) \/ MarkedFailed(t) \/ Report(t) \/ GatewayInterrupted(t)
    BY <1>3, <1>5, <2>1 DEF Proposed, MarkedFailed, Report, GatewayInterrupted, Fails
  <2>2. CASE CheckWithdrawal(t)
    <3>1. Got(t) /\ MayCancel(t) /\ job[t].at = "checking" /\ MoveTo(t, "cancelling")
      BY <1>3, <1>5, <2>2 DEF CheckWithdrawal, Fails
    <3>2. Follows(replies[t].row, records[job[t].id])
      BY <3>1, HeardOfRow
    <3> QED
      BY <1>1, <1>3, <3>1, <3>2 DEF Knows, Here, MayCancel, Follows
  <2>3. CASE Cancelled(t)
    <3>1. Got(t) /\ job[t].at = "cancelled" /\ MoveTo(t, "rereading")
      BY <1>3, <1>5, <2>3 DEF Cancelled, Fails
    <3>2. records[job[t].id].state = "cancelled"
      BY <3>1, HeardOfRow
    <3> QED
      BY <1>1, <1>3, <3>1, <3>2 DEF Knows, Here, Terminal
  <2>4. CASE Dispatch(t)
    <3>1. /\ Got(t) /\ job[t].at = "dispatching"
          /\ \/ Kind(t) = "submit_order" /\ MoveTo(t, "gateway")
             \/ Kind(t) # "submit_order" /\ MoveTo(t, "granted")
      BY <1>3, <1>5, <2>4 DEF Dispatch, Fails, Route
    <3>2. Follows(replies[t].row, records[job[t].id])
      BY <3>1, HeardOfRow
    <3> QED
      BY <1>1, <1>3, <3>1, <3>2 DEF Knows, Here, Kind, Follows
  <2>5. CASE Marked(t)
    <3>1. /\ job[t].at = "marking"
          /\ \/ records[job[t].id].kind = "cancel_order" /\ MoveTo(t, "telling")
             \/ MoveTo(t, "recording")
      BY <1>3, <1>5, <2>5 DEF Marked, Fails
    <3> QED
      BY <1>1, <1>3, <3>1 DEF Knows, Here
  <2>6. CASE Recorded(t)
    <3>1. /\ job[t].at = "recorded"
          /\ \/ Got(t) /\ MoveTo(t, "rereading")
             \/ MoveTo(t, "undoing")
      BY <1>3, <1>5, <2>6 DEF Recorded, Fails
    <3>2. CASE Got(t) /\ MoveTo(t, "rereading")
      <4>1. records[job[t].id].state = "executed"
        BY <3>1, <3>2, HeardOfRow
      <4> QED
        BY <1>1, <1>3, <3>2, <4>1 DEF Knows, Here, Terminal
    <3>3. CASE MoveTo(t, "undoing")
      BY <1>1, <1>3, <3>1, <3>3 DEF Knows, Here
    <3> QED
      BY <3>1, <3>2, <3>3
  <2>7. CASE \/ CancelRecord(t) \/ MarkExecutingHere(t) \/ RecordEffect(t)
             \/ MarkFailedHere(t)
    BY <1>1, <1>3, <2>7
       DEF CancelRecord, MarkExecutingHere, RecordEffect, MarkFailedHere, CallStore,
           Knows, Here
  <2>8. CASE TellBroker(t)
    <3>1. job[t].at = "telling" /\ (MoveTo(t, "recording") \/ MoveTo(t, "undoing"))
      BY <2>8 DEF TellBroker
    <3> QED
      BY <1>1, <1>3, <3>1 DEF Knows, Here
  <2>9. CASE Reread(t)
    <3>1. /\ job[t].at = "rereading" /\ MoveTo(t, "reporting")
          /\ replies' = replies /\ calls[t] = Idle
      BY <2>9 DEF Reread, CallStore, Invoke
    <3>2. replies'[t].outcome # "ok"
      BY <1>0, <3>1 DEF ServerBase, StoreInv, WinInv, NoReply
    <3> QED
      BY <1>1, <1>3, <3>1, <3>2 DEF Knows, Here, Got
  <2>10. CASE EnterGateway(t)
    <3>1. job' = job /\ job[t].at = "gateway"
      BY <2>10 DEF EnterGateway, serverVars
    <3> QED
      BY <1>1, <3>1 DEF Knows, Here
  <2>11. CASE GatewayWorks(t)
    <3>1. job' = job /\ job[t].at = "gateway"
      BY <1>3, <1>5, <2>11 DEF GatewayWorks
    <3> QED
      BY <1>1, <3>1 DEF Knows, Here
  <2> QED
    BY <1>5, <2>1, <2>2, <2>3, <2>4, <2>5, <2>6, <2>7, <2>8, <2>9, <2>10, <2>11 DEF ToolStep
<1>6. CASE ~ToolStep(t)
  <2>1. PICK tool, i, a, step : /\ step \in {"creating", "checking", "dispatching"}
                                /\ Begin(t, tool, i, a, step)
    BY <1>0, <1>6 DEF Acts, Propose, Withdraw, Execute
  <2>2. job'[t] = [tool |-> tool, id |-> i, by |-> a, at |-> step]
    BY <1>0, <1>2, <2>1, BeginPieces
  <2> QED
    BY <1>4, <2>1, <2>2
<1> QED
  BY <1>4, <1>5, <1>6

\* The table moves on under a tool, and what the tool knows stays true.
LEMMA TableKnows ==
    ASSUME ServerBase, NEW t \in Threads, Knows(t), NEW p \in Callers, StoreCall(p),
           [Next]_storeVars
    PROVE  Knows(t)'
<1> DEFINE i == job[t].id
<1>0. t \in Callers
  BY CallersAssumption
<1>1. job' = job /\ Operation(p)
  BY DEF StoreCall, StoreWorks, StoreFails, Operation, serverVars
<1>2. CASE job[t].at \in {"gateway", "cancelling", "cancelled"} \union Here
  <2>1. i \in ApprovalIds /\ records[i].state # "absent"
    BY <1>0, <1>2 DEF ServerBase, JobInv, JobFits, Knows, Here
  <2>2. Follows(records[i], records'[i])
    BY <2>1, FollowsStep DEF ServerBase, StoreInv
  <2> QED
    BY <1>1, <1>2, <2>2 DEF Knows, Here, Follows
<1>3. CASE job[t].at \in {"rereading", "reporting"}
  <2>1. i \in ApprovalIds /\ records[i].state \in Terminal
    BY <1>0, <1>3 DEF ServerBase, JobInv, JobFits, Knows
  <2>2. records'[i] = records[i]
    BY <2>1, FinalStep DEF ServerBase, StoreInv, Final
  <2>3. ASSUME job[t].at = "reporting", replies'[t].outcome = "ok"
        PROVE  replies'[t].row.state \in Terminal
    <3>1. calls[t].op = "get" /\ calls[t].id = i
      BY <1>0, <2>3 DEF ServerBase, PlaceInv, Place
    <3>2. CASE p = t
      BY <1>1, <2>1, <2>2, <2>3, <3>1, <3>2, GetAnswer DEF ServerBase, StoreInv
    <3>3. CASE p # t
      <4>1. replies'[t] = replies[t]
        BY <1>0, <3>3, OnlyOneAnswer DEF StoreCall, ServerBase, StoreInv
      <4> QED
        BY <2>3, <4>1 DEF Knows, Got
    <3> QED
      BY <3>2, <3>3
  <2> QED
    BY <1>1, <1>3, <2>1, <2>2, <2>3 DEF Knows, Here, Got
<1>4. CASE job[t].at \in {"idle", "creating", "checking", "dispatching"}
  BY <1>1, <1>4 DEF Knows, Here
<1> QED
  BY <1>0, <1>2, <1>3, <1>4 DEF ServerBase, JobInv, JobFits, ToolSteps, Here

\* Nothing that a tool relies on is taken back by anybody.
LEMMA KnowStep ==
    ASSUME ServerBase, KnowInv, [ServerNext]_allVars
    PROVE  KnowInv'
<1>1. ASSUME NEW t \in Threads, records' = records,
             job'[t] = job[t], replies'[t] = replies[t]
      PROVE  Knows(t)'
  BY <1>1 DEF KnowInv, Knows, Got
<1>2. ASSUME NEW p \in Callers, Acts(p)
      PROVE  KnowInv'
  <2>1. Alone(p)
    BY <1>2, ActsAlone DEF ServerBase, StoreInv, WinInv, Answered, PlaceInv
  <2>2. \A t \in Threads \ {p} : Knows(t)'
    BY <1>1, <2>1, CallersAssumption DEF Alone
  <2>3. p \in Threads => Knows(p)'
    BY <1>2, ActsKnows DEF KnowInv
  <2> QED
    BY <2>2, <2>3 DEF KnowInv
<1>3. ASSUME NEW p \in Callers, StoreCall(p)
      PROVE  KnowInv'
  <2>1. [Next]_storeVars
    BY <1>3, OperationIsNext DEF StoreCall
  <2> QED
    BY <1>3, <2>1, TableKnows DEF KnowInv
<1>4. ASSUME NEW g \in Gateways, ServerCrash(g)
      PROVE  KnowInv'
  <2> SUFFICES ASSUME NEW t \in Threads
               PROVE  Knows(t)'
    BY DEF KnowInv
  <2>1. CASE t \in ThreadsOf(g)
    <3>1. job'[t].at = "idle"
      BY <1>4, <2>1, NoJobFits DEF ServerCrash
    <3> QED
      BY <3>1 DEF Knows, Here
  <2>2. CASE t \notin ThreadsOf(g)
    BY <1>1, <1>4, <2>2, CallersAssumption DEF ServerCrash, GatewayCrash, Crash
  <2> QED
    BY <2>1, <2>2
<1>5. CASE \/ \E i \in ApprovalIds : BrokerDecides(i) /\ UNCHANGED serverVars
           \/ UNCHANGED <<records, calls, replies, pc, task, sends, verdict, sentBy, serverVars>>
  BY <1>1, <1>5 DEF BrokerDecides, storeVars, serverVars, KnowInv
<1> QED
  BY <1>2, <1>3, <1>4, <1>5, ServerCases

\* It holds at the start and every step keeps it.
LEMMA KnowInvHolds == ServerSpec => []KnowInv
<1>1. ServerInit => KnowInv
  BY NoJobFits DEF ServerInit, KnowInv, Knows, Here
<1> QED
  BY <1>1, KnowStep, ServerBaseHolds, PTL DEF ServerSpec

\* An agent's tool withdraws only what its actor proposed, or as the operator:
\* the row was read before the cancellation, and its requester never changes.
THEOREM OnlyOwnersWithdrawAlways == ServerSpec => []OnlyOwnersWithdraw
<1>1. ServerBase /\ KnowInv => OnlyOwnersWithdraw
  <2> SUFFICES ASSUME ServerBase, KnowInv, NEW t \in Threads, calls[t].op = "cancel"
               PROVE  calls[t].by \in {records[calls[t].id].requested_by, OperatorId}
    BY DEF OnlyOwnersWithdraw
  <2>1. t \in Callers /\ Place(t) /\ job[t].at \in ToolSteps /\ pc[t] \in Locations
    BY CallersAssumption DEF ServerBase, PlaceInv, JobInv, JobFits, GatewayTypes
  <2>2. job[t].at = "cancelled"
    <3>1. job[t].at # "gateway"
      BY <2>1, LocationsListed DEF Place, Fits, Quiet, Idle
    <3> QED
      BY <2>1, <3>1 DEF Place, ToolSteps, Idle
  <2> QED
    BY <2>1, <2>2 DEF Place, KnowInv, Knows
<1> QED
  BY <1>1, ServerBaseHolds, KnowInvHolds, PTL

-----------------------------------------------------------------------------
(* One approval, one effect *)

\* The tool has permission to execute its approval, by either path.
Executes(t) ==
    \/ job[t].at = "gateway" /\ Owns(t)
    \/ job[t].at = "marking" /\ Got(t)
    \/ job[t].at \in {"telling", "recording", "recorded", "undoing", "undone"}

\* It has not told the broker yet.
Holding(t) ==
    \/ job[t].at = "gateway" /\ Owns(t) /\ pc[t] \in Fresh
    \/ job[t].at = "marking" /\ Got(t)
    \/ job[t].at = "telling"

ExecutorsBegun == \A t \in Threads : Executes(t) => records[job[t].id].state \in Begun

OneExecutor ==
    \A t, u \in Threads : Executes(t) /\ Executes(u) /\ job[t].id = job[u].id => t = u

HoldersUnheard ==
    \A t \in Threads : Holding(t) => sends[job[t].id] = 0 /\ cancels[job[t].id] = 0

\* What the broker heard of is an approval that was started, of the right kind.
Heard ==
    \A i \in ApprovalIds :
        /\ sends[i] > 0 => records[i].state \in Begun /\ records[i].kind = "submit_order"
        /\ cancels[i] > 0 => records[i].state \in Begun /\ records[i].kind = "cancel_order"

\* Inductive: the two paths share the store's single-use guard, so an approval
\* has one executor whichever of them it takes, and the broker hears of it from
\* that one only, while it is still unheard of.
EffectInv == ExecutorsBegun /\ OneExecutor /\ HoldersUnheard /\ Heard /\ OneEffect

\* What a process may do about permissions and effects.
EffectStep(t) ==
    /\ Executes(t)' => Executes(t) /\ job'[t].id = job[t].id
    /\ Holding(t)' => Holding(t)
    /\ \/ sends' = sends /\ cancels' = cancels
       \/ /\ job[t].at = "gateway" /\ Holding(t) /\ ~Holding(t)' /\ cancels' = cancels
          /\ sends' = [sends EXCEPT ![job[t].id] = sends[job[t].id] + 1]
       \/ /\ job[t].at = "telling" /\ ~Holding(t)' /\ sends' = sends
          /\ cancels' = [cancels EXCEPT ![job[t].id] = cancels[job[t].id] + 1]

\* Inside the gateway a tool sends at most once, while it holds the permission.
LEMMA GatewayEffect ==
    ASSUME ServerBase, NEW t \in Threads, GatewayWorks(t)
    PROVE  EffectStep(t)
<1> t \in Callers
  BY CallersAssumption
<1>1. Place(t) /\ Answered(t) /\ job[t].at = "gateway" /\ Proceed(t) /\ cancels' = cancels
  BY DEF ServerBase, StoreInv, PlaceInv, WinInv, Answered, GatewayWorks, At, Effects
<1>2. Fits(t) /\ LocalStep(t)
  BY <1>1, ProceedLocal DEF ServerBase, StoreInv, Place
<1>3. \/ job' = job
      \/ job'[t].at = "idle"
  BY NoJobFits, JobPieces DEF GatewayWorks, Finished, ServerBase
<1>4. Executes(t)' => Executes(t) /\ job'[t].id = job[t].id
  BY <1>1, <1>2, <1>3 DEF Executes, LocalStep
<1>5. Holding(t)' => Holding(t)
  BY <1>1, <1>2, <1>3 DEF Holding, LocalStep
<1>6. CASE sends' = sends
  BY <1>1, <1>4, <1>5, <1>6 DEF EffectStep
<1>7. CASE pc[t] = "submit" /\ pc'[t] = "await" /\ sends' = [sends EXCEPT ![task[t]] = @ + 1]
  <2>1. task[t] = job[t].id
    BY <1>1, <1>7 DEF Place
  <2>2. Holding(t)
    BY <1>1, <1>7 DEF Holding, Owns, Owning, Fresh
  <2>3. ~Holding(t)'
    BY <1>1, <1>3, <1>7 DEF Holding, Fresh
  <2> QED
    BY <1>1, <1>4, <1>5, <1>7, <2>1, <2>2, <2>3 DEF EffectStep
<1> QED
  BY <1>2, <1>6, <1>7 DEF LocalStep

\* A tool sends or cancels only while it holds a permission, and then gives it up.
LEMMA ActsEffect ==
    ASSUME ServerBase, NEW t \in Threads, Acts(t)
    PROVE  EffectStep(t)
<1> USE DEF At
<1>0. t \in Callers /\ t \notin Clients /\ JobInv
  BY CallersAssumption DEF ServerBase
<1>1. /\ \A step \in ToolSteps : MoveTo(t, step) =>
             /\ job'[t].at = step /\ job'[t].id = job[t].id
      /\ job' = [job EXCEPT ![t] = NoJob] => job'[t].at = "idle"
      /\ \A state : Finished(t, state) => job'[t].at = "idle"
  BY <1>0, JobPieces, NoJobFits DEF Finished
<1>2. gatewayVars' = gatewayVars => pc'[t] = pc[t] /\ sends' = sends
  BY DEF gatewayVars
<1>3. ASSUME sends' = sends, cancels' = cancels, Executes(t)' => FALSE
      PROVE  EffectStep(t)
  <2>1. Holding(t)' => Executes(t)'
    BY DEF Holding, Executes
  <2> QED
    BY <1>3, <2>1 DEF EffectStep
<1>4. job[t].at # "gateway" => pc[t] = "idle"
  BY <1>0 DEF ServerBase, PlaceInv, Place
<1>5. CASE ToolStep(t)
  <2> USE DEF ToolSteps
  <2>1. CASE \/ Proposed(t) \/ CheckWithdrawal(t) \/ CancelRecord(t) \/ Cancelled(t)
             \/ Reread(t) \/ Report(t) \/ MarkedFailed(t)
    <3>1. job'[t].at \in {"idle", "cancelling", "cancelled", "rereading", "reporting"}
      BY <1>1, <2>1
         DEF Proposed, CheckWithdrawal, CancelRecord, Cancelled, Reread, Report,
             MarkedFailed, CallStore, Fails
    <3>2. sends' = sends /\ cancels' = cancels
      BY <1>2, <2>1
         DEF Proposed, CheckWithdrawal, CancelRecord, Cancelled, Reread, Report,
             MarkedFailed, CallStore, Effects
    <3> QED
      BY <1>3, <3>1, <3>2 DEF Executes
  <2>2. CASE Dispatch(t)
    <3>1. /\ job'[t].at \in {"idle", "gateway", "granted"} /\ job[t].at = "dispatching"
          /\ gatewayVars' = gatewayVars /\ sends' = sends /\ cancels' = cancels
      BY <1>1, <1>2, <2>2 DEF Dispatch, Fails, Route, Effects
    <3>2. pc'[t] = "idle"
      BY <1>2, <1>4, <3>1
    <3> QED
      BY <1>3, <3>1, <3>2 DEF Executes, Owns, Owning
  <2>3. CASE EnterGateway(t)
    <3>1. /\ pc'[t] = "entered" /\ sends' = sends /\ cancels' = cancels
          /\ job'[t].at = "gateway"
      BY <2>3 DEF EnterGateway, Enter, GoTo, Wire, serverVars, ServerBase, GatewayTypes
    <3> QED
      BY <1>3, <3>1 DEF Executes, Owns, Owning
  <2>4. CASE GatewayInterrupted(t)
    <3>1. job'[t].at = "idle" /\ sends' = sends /\ cancels' = cancels
      BY <1>1, <2>4 DEF GatewayInterrupted, Fails, Effects, vars, gatewayVars
    <3> QED
      BY <1>3, <3>1 DEF Executes
  <2>5. CASE GatewayWorks(t)
    BY <2>5, GatewayEffect
  <2>6. CASE MarkExecutingHere(t)
    <3>1. /\ job'[t].at = "marking" /\ sends' = sends /\ cancels' = cancels
          /\ replies' = replies /\ calls[t] = Idle
      BY <1>1, <1>2, <2>6 DEF MarkExecutingHere, CallStore, Invoke, Effects
    <3>2. replies'[t].outcome # "ok"
      BY <1>0, <3>1 DEF ServerBase, StoreInv, WinInv, NoReply
    <3> QED
      BY <1>3, <3>1, <3>2 DEF Executes, Got
  <2>7. CASE Marked(t)
    <3>1. /\ job[t].at = "marking" /\ sends' = sends /\ cancels' = cancels
          /\ \/ job'[t].at = "idle"
             \/ /\ Got(t) /\ job'[t].at \in {"telling", "recording"}
                /\ job'[t].id = job[t].id
      BY <1>1, <1>2, <2>7 DEF Marked, Fails, Effects
    <3> QED
      BY <3>1 DEF EffectStep, Executes, Holding
  <2>8. CASE TellBroker(t)
    <3>1. /\ job[t].at = "telling" /\ job'[t].at \in {"recording", "undoing"}
          /\ job'[t].id = job[t].id /\ sends' = sends
          /\ \/ cancels' = cancels
             \/ cancels' = [cancels EXCEPT ![job[t].id] = cancels[job[t].id] + 1]
      BY <1>1, <2>8 DEF TellBroker, Effects, vars, gatewayVars
    <3> QED
      BY <3>1 DEF EffectStep, Executes, Holding
  <2>9. CASE RecordEffect(t) \/ Recorded(t) \/ MarkFailedHere(t)
    <3>1. /\ sends' = sends /\ cancels' = cancels
          /\ job[t].at \in {"recording", "recorded", "undoing"}
          /\ \/ job'[t].at \in {"idle", "rereading"}
             \/ job'[t].at \in {"recorded", "undoing", "undone"} /\ job'[t].id = job[t].id
      BY <1>1, <1>2, <2>9 DEF RecordEffect, Recorded, MarkFailedHere, CallStore, Fails, Effects
    <3> QED
      BY <3>1 DEF EffectStep, Executes, Holding
  <2> QED
    BY <1>5, <2>1, <2>2, <2>3, <2>4, <2>5, <2>6, <2>7, <2>8, <2>9 DEF ToolStep
<1>6. CASE ~ToolStep(t)
  <2>1. PICK tool, i, a, step : /\ step \in {"creating", "checking", "dispatching"}
                                /\ Begin(t, tool, i, a, step)
                                /\ gatewayVars' = gatewayVars /\ cancels' = cancels
    BY <1>0, <1>6 DEF Acts, Propose, Withdraw, Execute, Effects
  <2>2. job'[t] = [tool |-> tool, id |-> i, by |-> a, at |-> step]
    BY <1>0, <2>1, BeginPieces
  <2> QED
    BY <1>2, <1>3, <2>1, <2>2 DEF Executes
<1> QED
  BY <1>5, <1>6

\* Such a step keeps one effect for every approval.
LEMMA ActsKeepEffects ==
    ASSUME ServerBase, KnowInv, EffectInv, NEW t \in Threads, Acts(t)
    PROVE  EffectInv'
<1> DEFINE i == job[t].id
<1>1. Alone(t) /\ EffectStep(t)
  BY ActsAlone, ActsEffect, CallersAssumption
     DEF ServerBase, StoreInv, WinInv, Answered, PlaceInv
<1>2. \A u \in Threads \ {t} : /\ Executes(u)' <=> Executes(u)
                               /\ Holding(u)' <=> Holding(u)
                               /\ job'[u] = job[u]
  BY <1>1, CallersAssumption DEF Alone, Executes, Holding, Owns, Got
<1>3. \A u \in Threads : /\ Executes(u)' => Executes(u) /\ job'[u].id = job[u].id
                         /\ Holding(u)' => Holding(u)
                         /\ Holding(u) => Executes(u)
  BY <1>1, <1>2 DEF EffectStep, Executes, Holding
<1>4. \A u \in Threads : Holding(u)' => Executes(u)'
  BY DEF Holding, Executes
<1>5. ExecutorsBegun' /\ OneExecutor'
  BY <1>1, <1>3 DEF EffectInv, ExecutorsBegun, OneExecutor, Alone
<1>6. CASE sends' = sends /\ cancels' = cancels
  <2>1. HoldersUnheard'
    BY <1>3, <1>4, <1>6 DEF EffectInv, HoldersUnheard
  <2>2. Heard' /\ OneEffect'
    BY <1>1, <1>6 DEF EffectInv, Heard, OneEffect, Alone
  <2> QED
    BY <1>5, <2>1, <2>2 DEF EffectInv
\* The broker hears of the approval, from its only executor, the first time.
<1>7. CASE Holding(t) /\ ~Holding(t)' /\ \/ /\ job[t].at = "gateway" /\ cancels' = cancels
                                            /\ sends' = [sends EXCEPT ![i] = sends[i] + 1]
                                         \/ /\ job[t].at = "telling" /\ sends' = sends
                                            /\ cancels' = [cancels EXCEPT ![i] = cancels[i] + 1]
  <2>1. i \in ApprovalIds
    BY <1>7, CallersAssumption DEF ServerBase, JobInv, JobFits
  <2>2. records[i].state \in Begun /\ sends[i] = 0 /\ cancels[i] = 0
    BY <1>3, <1>7 DEF EffectInv, ExecutorsBegun, HoldersUnheard
  <2>3. \A j \in ApprovalIds \ {i} : sends'[j] = sends[j] /\ cancels'[j] = cancels[j]
    BY <1>7 DEF ServerBase, GatewayTypes
  <2>4. \/ sends'[i] = 1 /\ cancels'[i] = 0 /\ records[i].kind = "submit_order"
        \/ sends'[i] = 0 /\ cancels'[i] = 1 /\ records[i].kind = "cancel_order"
    <3>1. CASE job[t].at = "gateway"
      <4>1. records[i].kind = "submit_order"
        BY <3>1 DEF KnowInv, Knows
      <4> QED
        BY <1>7, <2>1, <2>2, <3>1, <4>1 DEF ServerBase, GatewayTypes
    <3>2. CASE job[t].at = "telling"
      <4>1. records[i].kind = "cancel_order"
        BY <3>2 DEF KnowInv, Knows
      <4> QED
        BY <1>7, <2>1, <2>2, <3>2, <4>1 DEF ServerBase
    <3> QED
      BY <1>7, <3>1, <3>2
  <2>5. HoldersUnheard'
    <3> SUFFICES ASSUME NEW u \in Threads, Holding(u)'
                 PROVE  sends'[job'[u].id] = 0 /\ cancels'[job'[u].id] = 0
      BY DEF HoldersUnheard
    <3>1. u # t
      BY <1>7
    <3>2. Holding(u) /\ job'[u] = job[u] /\ Executes(u) /\ Executes(t)
      BY <1>2, <1>3, <1>7, <3>1
    <3>3. job[u].id # i
      BY <3>1, <3>2 DEF EffectInv, OneExecutor
    <3>4. job[u].id \in ApprovalIds
      BY <3>2, CallersAssumption DEF ServerBase, JobInv, JobFits, Holding
    <3> QED
      BY <2>3, <3>2, <3>3, <3>4 DEF EffectInv, HoldersUnheard
  <2>6. Heard' /\ OneEffect'
    <3> SUFFICES ASSUME NEW j \in ApprovalIds
                 PROVE  /\ sends'[j] > 0 => records[j].state \in Begun /\ records[j].kind = "submit_order"
                        /\ cancels'[j] > 0 => records[j].state \in Begun /\ records[j].kind = "cancel_order"
                        /\ sends'[j] + cancels'[j] <= 1
      BY <1>1 DEF Heard, OneEffect, Alone
    <3>1. CASE j = i
      BY <2>2, <2>4, <3>1
    <3>2. CASE j # i
      BY <2>3, <3>2 DEF EffectInv, Heard, OneEffect
    <3> QED
      BY <3>1, <3>2
  <2> QED
    BY <1>5, <2>5, <2>6 DEF EffectInv
<1> QED
  <2>1. job[t].at = "telling" => Holding(t)
    BY DEF Holding
  <2> QED
    BY <1>1, <1>6, <1>7, <2>1 DEF EffectStep

\* A transaction of the store gives one permission, for an approval nobody executes.
LEMMA TableKeepsEffects ==
    ASSUME ServerBase, KnowInv, EffectInv, NEW p \in Callers, StoreCall(p), [Next]_storeVars
    PROVE  EffectInv'
<1>1. /\ pc' = pc /\ task' = task /\ job' = job /\ sends' = sends /\ cancels' = cancels
      /\ \A q \in Callers \ {p} : replies'[q] = replies[q]
  BY OnlyOneAnswer DEF StoreCall, gatewayVars, serverVars, ServerBase, StoreInv
<1>2. \A i \in ApprovalIds :
        /\ records[i].state \in Begun => records'[i].state \in Begun
        /\ records[i].state # "absent" => records'[i].kind = records[i].kind
  BY BegunStays, FollowsStep DEF ServerBase, StoreInv, Follows
<1>3. Heard' /\ OneEffect'
  BY <1>1, <1>2 DEF EffectInv, Heard, OneEffect, Begun
<1>4. \A t \in Threads : job[t].at \notin {"idle", "creating"} => job[t].id \in ApprovalIds
  BY CallersAssumption DEF ServerBase, JobInv, JobFits
<1>5. \A t \in Threads : Executes(t) => job[t].id \in ApprovalIds
  BY <1>4 DEF Executes
<1>6. CASE \A t \in Threads : (Executes(t)' => Executes(t)) /\ (Holding(t)' => Holding(t))
  <2>1. ExecutorsBegun' /\ OneExecutor'
    BY <1>1, <1>2, <1>5, <1>6 DEF EffectInv, ExecutorsBegun, OneExecutor
  <2>2. HoldersUnheard'
    BY <1>1, <1>6 DEF EffectInv, HoldersUnheard
  <2> QED
    BY <1>3, <2>1, <2>2 DEF EffectInv
\* A tool is given permission, by either path: the row was APPROVED.
<1>7. CASE /\ p \in Threads /\ Got(p)'
           /\ job[p].at = "marking" \/ (job[p].at = "gateway" /\ pc[p] = "marking")
  <2> DEFINE i == job[p].id
  <2>1. calls[p].op = "mark_executing" /\ calls[p].id = i
    BY <1>7 DEF ServerBase, PlaceInv, Place, Fits, Quiet
  <2>2. i \in ApprovalIds /\ records[i].state = "approved" /\ records'[i].state = "executing"
    BY <1>7, <2>1, PermissionMeansApproved DEF StoreCall, ServerBase, StoreInv, Got
  <2>3. \A t \in Threads : Executes(t) => job[t].id # i
    BY <2>2 DEF EffectInv, ExecutorsBegun, Begun
  <2>4. sends[i] = 0 /\ cancels[i] = 0
    BY <2>2 DEF EffectInv, Heard, Begun, ServerBase, GatewayTypes
  <2>5. \A t \in Threads \ {p} : (Executes(t)' <=> Executes(t)) /\ (Holding(t)' <=> Holding(t))
    BY <1>1, CallersAssumption DEF Executes, Holding, Owns, Got
  <2>6. ExecutorsBegun'
    BY <1>1, <1>2, <1>5, <2>2, <2>5 DEF EffectInv, ExecutorsBegun, Begun
  <2>7. OneExecutor'
    BY <1>1, <2>3, <2>5 DEF EffectInv, OneExecutor
  <2>8. HoldersUnheard'
    BY <1>1, <2>4, <2>5 DEF EffectInv, HoldersUnheard
  <2> QED
    BY <1>3, <2>6, <2>7, <2>8 DEF EffectInv
<1>8. CASE ~(/\ p \in Threads /\ Got(p)'
             /\ job[p].at = "marking" \/ (job[p].at = "gateway" /\ pc[p] = "marking"))
  <2>1. \A t \in Threads : (Executes(t)' => Executes(t)) /\ (Holding(t)' => Holding(t))
    BY <1>1, <1>8, CallersAssumption DEF Executes, Holding, Owns, Got
  <2> QED
    BY <1>6, <2>1
<1> QED
  BY <1>7, <1>8

\* Every step of the servers, the operator and their faults keeps it.
LEMMA EffectInvStep ==
    ASSUME ServerBase, KnowInv, EffectInv, [ServerNext]_allVars
    PROVE  EffectInv'
<1>1. ASSUME records' = records, sends' = sends, cancels' = cancels,
             \A t \in Threads : /\ Executes(t)' => Executes(t) /\ job'[t].id = job[t].id
                                /\ Holding(t)' => Holding(t)
      PROVE  EffectInv'
  <2>1. \A t \in Threads : Holding(t)' => Executes(t)'
    BY DEF Holding, Executes
  <2> QED
    BY <1>1, <2>1
       DEF EffectInv, ExecutorsBegun, OneExecutor, HoldersUnheard, Heard, OneEffect
<1>2. ASSUME NEW t \in Threads, job'[t] = job[t], pc'[t] = pc[t], replies'[t] = replies[t]
      PROVE  (Executes(t)' <=> Executes(t)) /\ (Holding(t)' <=> Holding(t))
  BY <1>2 DEF Executes, Holding, Owns, Got
<1>3. ASSUME NEW p \in Callers, Acts(p)
      PROVE  EffectInv'
  <2>1. CASE p \in Threads
    BY <1>3, <2>1, ActsKeepEffects
  <2>2. CASE p \in Clients
    <3>1. Alone(p)
      BY <1>3, ActsAlone DEF ServerBase, StoreInv, WinInv, Answered, PlaceInv
    <3>2. sends' = sends /\ cancels' = cancels
      BY <1>3, <2>2, CallersAssumption
         DEF Acts, Open, Show, Decide, DecisionPrinted, CallStore, Effects, gatewayVars
    <3> QED
      BY <1>1, <1>2, <2>2, <3>1, <3>2, CallersAssumption DEF Alone
  <2> QED
    BY <2>1, <2>2, CallersAssumption
<1>4. ASSUME NEW p \in Callers, StoreCall(p)
      PROVE  EffectInv'
  <2>1. [Next]_storeVars
    BY <1>4, OperationIsNext DEF StoreCall
  <2> QED
    BY <1>4, <2>1, TableKeepsEffects
<1>5. ASSUME NEW g \in Gateways, ServerCrash(g)
      PROVE  EffectInv'
  <2>1. records' = records /\ sends' = sends /\ cancels' = cancels
    BY <1>5 DEF ServerCrash, GatewayCrash, Crash, Wire, Effects
  <2>2. ASSUME NEW t \in Threads
        PROVE  /\ Executes(t)' => Executes(t) /\ job'[t].id = job[t].id
               /\ Holding(t)' => Holding(t)
    <3>1. CASE t \in ThreadsOf(g)
      <4>1. job'[t].at = "idle"
        BY <1>5, <3>1, NoJobFits DEF ServerCrash
      <4> QED
        BY <4>1 DEF Executes, Holding
    <3>2. CASE t \notin ThreadsOf(g)
      BY <1>2, <1>5, <3>2, CallersAssumption DEF ServerCrash, GatewayCrash, Crash
    <3> QED
      BY <3>1, <3>2
  <2> QED
    BY <1>1, <2>1, <2>2
<1>6. CASE \/ \E i \in ApprovalIds : BrokerDecides(i) /\ UNCHANGED serverVars
           \/ UNCHANGED <<records, calls, replies, pc, task, sends, verdict, sentBy, serverVars>>
  <2>1. /\ records' = records /\ replies' = replies /\ pc' = pc /\ job' = job
        /\ sends' = sends /\ cancels' = cancels
    BY <1>6 DEF BrokerDecides, storeVars, serverVars
  <2> QED
    BY <1>1, <1>2, <2>1
<1> QED
  BY <1>3, <1>4, <1>5, <1>6, ServerCases

\* It holds at the start and every step keeps it.
LEMMA EffectInvHolds == ServerSpec => []EffectInv
<1>1. ServerInit => EffectInv
  <2> SUFFICES ASSUME ServerInit
               PROVE  EffectInv
    OBVIOUS
  <2>1. \A t \in Threads : ~Executes(t) /\ ~Holding(t)
    BY NoJobFits DEF ServerInit, Executes, Holding
  <2>2. \A i \in ApprovalIds : sends[i] = 0 /\ cancels[i] = 0
    BY DEF ServerInit, GatewayInit
  <2> QED
    BY <2>1, <2>2
       DEF EffectInv, ExecutorsBegun, OneExecutor, HoldersUnheard, Heard, OneEffect
<1> QED
  BY <1>1, EffectInvStep, KnowInvHolds, ServerBaseHolds, PTL DEF ServerSpec

\* However many servers execute an approval, however often, and by whichever of
\* the two paths, the broker hears of it at most once.
THEOREM OneEffectAlways == ServerSpec => []OneEffect
<1>1. EffectInv => OneEffect
  BY DEF EffectInv
<1> QED
  BY <1>1, EffectInvHolds, PTL

\* And what it hears is what two people agreed on: an order for an approved
\* order, a cancellation for an approved cancellation, nothing else.
THEOREM EffectIsApprovedAlways == ServerSpec => []EffectIsApproved
<1>1. ServerBase /\ EffectInv => EffectIsApproved
  <2> SUFFICES ASSUME ServerBase, EffectInv, NEW i \in ApprovalIds
               PROVE  /\ sends[i] > 0 => records[i].kind = "submit_order"
                      /\ cancels[i] > 0 => records[i].kind = "cancel_order"
                      /\ sends[i] + cancels[i] > 0 =>
                            /\ records[i].decided_by \notin {NULL, records[i].requested_by}
                            /\ records[i].state \in {"executing", "executed", "exec_failed"}
    BY DEF EffectIsApproved
  <2>1. sends[i] \in Nat /\ cancels[i] \in Nat
    BY DEF ServerBase, GatewayTypes
  <2>2. sends[i] + cancels[i] > 0 => sends[i] > 0 \/ cancels[i] > 0
    BY <2>1
  <2>3. RowConsistent(records[i])
    BY DEF ServerBase, StoreInv, RowsConsistent
  <2> QED
    BY <2>2, <2>3 DEF EffectInv, Heard, Begun, RowConsistent
<1> QED
  BY <1>1, EffectInvHolds, ServerBaseHolds, PTL

-----------------------------------------------------------------------------
(* What a tool answered *)

\* An answer that says how an approval ended says what the table says.
TrueAnswer(v) ==
    /\ v.state \in Terminal => v.id \in ApprovalIds /\ records[v.id].state = v.state
    /\ v.state # "executing"

AnswerInv == \A t \in Threads : TrueAnswer(answer[t])

\* An error and no answer promise nothing.
LEMMA ErrorIsTrue ==
    \A i : TrueAnswer([id |-> i, state |-> "error"]) /\ TrueAnswer(NoAnswer)
  BY DEF TrueAnswer, NoAnswer, Terminal

\* A job that ends answers for its own approval.
LEMMA FinishedAnswers ==
    ASSUME ServerBase, NEW t \in Threads, NEW state, Finished(t, state)
    PROVE  answer'[t] = [id |-> job[t].id, state |-> state]
  BY DEF Finished, ServerBase

\* The result of execute_approved is the final mark it made.
LEMMA GatewayAnswer ==
    ASSUME ServerBase, NEW t \in Threads, job[t].at = "gateway"
    PROVE  TrueAnswer([id |-> job[t].id, state |-> GatewayResult(t)])
<1>1. CASE pc[t] \in {"storing", "refusing"} /\ Got(t)
  <2>1. Place(t) /\ Acknowledged(t) /\ job[t].id \in ApprovalIds
    BY CallersAssumption DEF ServerBase, PlaceInv, StoreInv, WinInv, JobInv, JobFits
  <2>2. task[t] = job[t].id /\ calls[t].id = job[t].id
    BY <1>1, <2>1 DEF Place, Fits, Quiet
  <2>3. /\ pc[t] = "storing" => calls[t].op = "mark_executed"
        /\ pc[t] = "refusing" => calls[t].op = "mark_exec_failed"
    BY <2>1 DEF Place, Fits
  <2>4. records[job[t].id].state = IF pc[t] = "storing" THEN "executed" ELSE "exec_failed"
    BY <1>1, <2>1, <2>2, <2>3 DEF Acknowledged, Won, Got, Edges, FinishOps, Past
  <2>5. GatewayResult(t) = IF pc[t] = "storing" THEN "executed" ELSE "exec_failed"
    BY <1>1 DEF GatewayResult
  <2> QED
    BY <2>1, <2>4, <2>5 DEF TrueAnswer
<1>2. CASE ~(pc[t] \in {"storing", "refusing"} /\ Got(t))
  BY <1>2, ErrorIsTrue DEF GatewayResult
<1> QED
  BY <1>1, <1>2

\* What a step of a tool answers is what it read or stored.
LEMMA ActsAnswer ==
    ASSUME ServerBase, KnowInv, NEW t \in Threads, TrueAnswer(answer[t]), Acts(t)
    PROVE  TrueAnswer(answer'[t])
<1> USE DEF At, Fails
<1>0. t \in Callers /\ t \notin Clients
  BY CallersAssumption
<1>1. ASSUME NEW state, Finished(t, state), TrueAnswer([id |-> job[t].id, state |-> state])
      PROVE  TrueAnswer(answer'[t])
  BY <1>1, FinishedAnswers
<1>2. ASSUME Finished(t, "error")
      PROVE  TrueAnswer(answer'[t])
  BY <1>1, <1>2, ErrorIsTrue
<1>3. CASE answer' = answer
  BY <1>3
<1>4. CASE ToolStep(t)
  <2>1. CASE \/ Proposed(t) \/ CheckWithdrawal(t) \/ CancelRecord(t) \/ Cancelled(t)
             \/ EnterGateway(t) \/ GatewayInterrupted(t) \/ MarkExecutingHere(t) \/ Marked(t)
             \/ TellBroker(t) \/ RecordEffect(t) \/ Recorded(t) \/ MarkFailedHere(t)
             \/ MarkedFailed(t) \/ Reread(t)
    BY <1>2, <1>3, <2>1
       DEF Proposed, CheckWithdrawal, CancelRecord, Cancelled, EnterGateway,
           GatewayInterrupted, MarkExecutingHere, Marked, TellBroker, RecordEffect,
           Recorded, MarkFailedHere, MarkedFailed, Reread, CallStore, serverVars
  <2>2. CASE GatewayWorks(t)
    <3>1. job[t].at = "gateway" /\ (answer' = answer \/ Finished(t, GatewayResult(t)))
      BY <2>2 DEF GatewayWorks
    <3> QED
      BY <1>1, <1>3, <3>1, GatewayAnswer
  <2>3. CASE Dispatch(t) \/ Report(t)
    <3>1. \/ answer' = answer
          \/ Finished(t, "error")
          \/ /\ Got(t) /\ Finished(t, replies[t].row.state)
             /\ job[t].at = "reporting" \/ (/\ job[t].at = "dispatching"
                                            /\ replies[t].row.state \in {"executed", "exec_failed"})
      BY <2>3 DEF Dispatch, Report
    <3>2. CASE /\ Got(t) /\ Finished(t, replies[t].row.state)
               /\ job[t].at = "reporting" \/ (/\ job[t].at = "dispatching"
                                              /\ replies[t].row.state \in {"executed", "exec_failed"})
      <4>1. replies[t].row.state \in Terminal
        BY <3>2 DEF KnowInv, Knows, Terminal
      <4>2. Follows(replies[t].row, records[job[t].id]) /\ job[t].id \in ApprovalIds
        BY <1>0, <3>2, HeardOfRow DEF ServerBase, JobInv, JobFits
      <4>3. records[job[t].id].state = replies[t].row.state
        BY <4>1, <4>2 DEF Follows, Final
      <4>4. TrueAnswer([id |-> job[t].id, state |-> replies[t].row.state])
        BY <4>1, <4>2, <4>3 DEF TrueAnswer, Terminal
      <4> QED
        BY <1>1, <3>2, <4>4
    <3> QED
      BY <1>2, <1>3, <3>1, <3>2
  <2> QED
    BY <1>4, <2>1, <2>2, <2>3 DEF ToolStep
<1>5. CASE ~ToolStep(t)
  <2>1. answer'[t] = NoAnswer
    BY <1>0, <1>5 DEF Acts, Propose, Withdraw, Execute, Begin
  <2> QED
    BY <2>1, ErrorIsTrue
<1> QED
  BY <1>4, <1>5

\* What was answered is final in the table, so no later step makes it false.
LEMMA AnswerStep ==
    ASSUME ServerBase, KnowInv, AnswerInv, [ServerNext]_allVars
    PROVE  AnswerInv'
<1>1. ASSUME NEW t \in Threads, records' = records, TrueAnswer(answer'[t])
      PROVE  TrueAnswer(answer[t])'
  BY <1>1 DEF TrueAnswer
<1>2. ASSUME NEW p \in Callers, Acts(p)
      PROVE  AnswerInv'
  <2>1. Alone(p)
    BY <1>2, ActsAlone DEF ServerBase, StoreInv, WinInv, Answered, PlaceInv
  <2>2. \A t \in Threads : TrueAnswer(answer'[t])
    BY <1>2, <2>1, ActsAnswer DEF AnswerInv, Alone
  <2> QED
    BY <1>1, <2>1, <2>2 DEF AnswerInv, Alone
<1>3. ASSUME NEW p \in Callers, StoreCall(p)
      PROVE  AnswerInv'
  <2>1. [Next]_storeVars /\ answer' = answer
    BY <1>3, OperationIsNext DEF StoreCall, serverVars
  <2>2. \A i \in ApprovalIds : records[i].state \in Terminal => records'[i] = records[i]
    BY <2>1, FinalStep DEF ServerBase, StoreInv, Final
  <2> QED
    BY <2>1, <2>2 DEF AnswerInv, TrueAnswer
<1>4. ASSUME NEW g \in Gateways, ServerCrash(g)
      PROVE  AnswerInv'
  <2>1. records' = records /\ \A t \in Threads : answer'[t] \in {NoAnswer, answer[t]}
    BY <1>4 DEF ServerCrash, GatewayCrash, Crash
  <2> QED
    BY <1>1, <2>1, ErrorIsTrue DEF AnswerInv
<1>5. CASE \/ \E i \in ApprovalIds : BrokerDecides(i) /\ UNCHANGED serverVars
           \/ UNCHANGED <<records, calls, replies, pc, task, sends, verdict, sentBy, serverVars>>
  BY <1>5 DEF BrokerDecides, storeVars, serverVars, AnswerInv, TrueAnswer
<1> QED
  BY <1>2, <1>3, <1>4, <1>5, ServerCases

\* What a tool says about the end of an approval stays true for good, whatever
\* servers, operators and sweeps do later, and no tool answers "executing".
THEOREM FinalAnswersHoldAlways == ServerSpec => []FinalAnswersHold
<1>1. ServerInit => AnswerInv
  BY ErrorIsTrue DEF ServerInit, AnswerInv
<1>2. AnswerInv => FinalAnswersHold
  BY DEF AnswerInv, TrueAnswer, FinalAnswersHold
<1> QED
  BY <1>1, <1>2, AnswerStep, KnowInvHolds, ServerBaseHolds, PTL DEF ServerSpec
-----------------------------------------------------------------------------
(* EXECUTED is written for accepted orders and told cancellations only *)

\* Who waits for the broker inside a tool executes the tool's approval.
LEMMA ServerWaiters ==
    ASSUME ServerBase
    PROVE  /\ Waiters
           /\ \A t \in Threads : pc[t] = "storing" => job[t].at = "gateway"
  BY CallersAssumption DEF ServerBase, PlaceInv, Place, JobInv, JobFits, Waiters

\* The tool whose mark the store is about to write.
LEMMA MarkOfTool ==
    ASSUME ServerBase, NEW p \in Callers, calls[p].op = "mark_executed"
    PROVE  /\ p \in Threads
           /\ \/ /\ job[p].at = "gateway" /\ job[p].id = calls[p].id
                 /\ pc[p] = "storing" /\ task[p] = calls[p].id
              \/ job[p].at = "recorded" /\ job[p].id = calls[p].id
<1>1. Place(p) /\ JobFits(p) /\ (p \in Threads => pc[p] \in Locations)
  BY DEF ServerBase, PlaceInv, JobInv, GatewayTypes
<1>2. job[p].at \in {"gateway", "recorded"}
  BY <1>1, CallersAssumption DEF Place, JobFits, ToolSteps, CommandSteps, DecisionOps, Idle
<1>3. p \in Threads
  BY <1>1, <1>2, CallersAssumption DEF JobFits, CommandSteps
<1>4. CASE job[p].at = "gateway"
  BY <1>1, <1>3, <1>4, LocationsListed DEF Place, Fits, Quiet, Idle
<1>5. CASE job[p].at = "recorded"
  BY <1>1, <1>3, <1>5 DEF Place
<1> QED
  BY <1>2, <1>3, <1>4, <1>5

\* The tools store EXECUTED for no order: that is left to the gateway.
LEMMA ServerAcceptStep ==
    ASSUME ServerBase, KnowInv, EffectInv, AcceptInv, [ServerNext]_allVars
    PROVE  AcceptInv'
<1>1. Waiters
  BY ServerWaiters
<1>2. ASSUME records' = records, UNCHANGED <<verdict, sentBy>>,
             \A t \in Threads : \/ pc'[t] \notin {"await", "storing"}
                                \/ pc'[t] = pc[t] /\ task'[t] = task[t]
      PROVE  AcceptInv'
  BY <1>1, <1>2, AcceptKept DEF WireGrows, Hears
<1>3. ASSUME NEW p \in Callers, Acts(p)
      PROVE  AcceptInv'
  <2>1. Alone(p)
    BY <1>3, ActsAlone DEF ServerBase, StoreInv, WinInv, Answered, PlaceInv
  <2>2. CASE p \in Threads /\ GatewayWorks(p)
    <3>1. WireGrows /\ Hears(p)'
      BY <1>1, <2>2, ProceedHears DEF GatewayWorks, ServerBase, AcceptInv
    <3> QED
      BY <1>1, <2>1, <3>1, AcceptKept DEF Alone
  <2>3. CASE p \in Threads /\ EnterGateway(p)
    <3>1. UNCHANGED <<verdict, sentBy>> /\ pc'[p] = "entered"
      BY <2>3 DEF EnterGateway, Enter, GoTo, Wire, ServerBase, GatewayTypes
    <3> QED
      BY <1>2, <2>1, <3>1 DEF Alone
  <2>4. CASE \/ p \in Clients
             \/ p \in Threads /\ ~GatewayWorks(p) /\ ~EnterGateway(p)
    <3>1. gatewayVars' = gatewayVars
      BY <1>3, <2>4, CallersAssumption
         DEF Acts, Propose, Withdraw, Execute, Open, Show, Decide, DecisionPrinted,
             CallStore, ToolStep, Proposed, CheckWithdrawal, CancelRecord, Cancelled,
             Dispatch, GatewayInterrupted, MarkExecutingHere, Marked, TellBroker,
             RecordEffect, Recorded, MarkFailedHere, MarkedFailed, Reread, Report, vars
    <3> QED
      BY <1>2, <2>1, <3>1 DEF Alone, gatewayVars
  <2> QED
    BY <2>2, <2>3, <2>4, CallersAssumption
<1>4. ASSUME NEW p \in Callers, StoreCall(p)
      PROVE  AcceptInv'
  <2>1. Operation(p) /\ [Next]_storeVars /\ UNCHANGED <<pc, task, verdict, sentBy>>
    BY <1>4, OperationIsNext DEF StoreCall, StoreWorks, StoreFails, Operation, gatewayVars
  <2>2. ASSUME calls[p].op = "mark_executed"
        PROVE  \/ p \in Threads /\ pc[p] = "storing" /\ task[p] = calls[p].id
               \/ records[calls[p].id].kind # "submit_order"
    BY <2>2, MarkOfTool DEF KnowInv, Knows, Here
  <2> QED
    BY <2>1, <2>2, AcceptStore DEF ServerBase
<1>5. ASSUME NEW i \in ApprovalIds, BrokerDecides(i)
      PROVE  AcceptInv'
  <2>1. WireGrows /\ records' = records /\ pc' = pc /\ task' = task
    BY <1>5 DEF BrokerDecides, ServerBase, GatewayTypes, storeVars, WireGrows
  <2> QED
    BY <1>1, <2>1, AcceptKept
<1>6. ASSUME NEW g \in Gateways, ServerCrash(g)
      PROVE  AcceptInv'
  BY <1>2, <1>6 DEF ServerCrash, GatewayCrash, Crash, Wire
<1>7. CASE UNCHANGED <<records, calls, replies, pc, task, sends, verdict, sentBy, serverVars>>
  BY <1>2, <1>7
<1> QED
  BY <1>3, <1>4, <1>5, <1>6, <1>7, ServerCases

\* A broker that takes the cancellation was told of it.
Told(i) == \E g \in cancelledAt[i] : BrokerStyle[g] = "dict"

\* Who records a cancellation has told the broker, and so has who recorded one.
ToldInv ==
    /\ DOMAIN cancelledAt = ApprovalIds
    /\ \A t \in Threads :
          /\ job[t].at \in {"recording", "recorded"}
          /\ records[job[t].id].kind = "cancel_order"
          => Told(job[t].id)
    /\ \A i \in ApprovalIds :
          records[i].kind = "cancel_order" /\ records[i].state = "executed" => Told(i)

\* A process tells more and takes nothing back; it records what it told.
LEMMA ActsTold ==
    ASSUME ServerBase, ToldInv, NEW p \in Callers, Acts(p)
    PROVE  /\ DOMAIN cancelledAt' = ApprovalIds
           /\ \A i \in ApprovalIds : Told(i) => Told(i)'
           /\ /\ p \in Threads
              /\ job'[p].at \in {"recording", "recorded"}
              /\ records[job'[p].id].kind = "cancel_order"
              => Told(job[p].id)'
<1> USE DEF At
<1>0. JobInv
  BY DEF ServerBase
<1>1. ASSUME cancelledAt' = cancelledAt,
             p \in Threads => job'[p].at \notin {"recording", "recorded"}
      PROVE  /\ DOMAIN cancelledAt' = ApprovalIds
             /\ \A i \in ApprovalIds : Told(i) => Told(i)'
             /\ p \in Threads => job'[p].at \notin {"recording", "recorded"}
  BY <1>1 DEF ToldInv, Told
<1>2. /\ \A step \in ToolSteps : p \in Threads /\ MoveTo(p, step) =>
             /\ job'[p].at = step /\ job'[p].id = job[p].id
      /\ job' = [job EXCEPT ![p] = NoJob] => job'[p].at = "idle"
      /\ \A state : Finished(p, state) => job'[p].at = "idle"
  BY <1>0, JobPieces, NoJobFits DEF Finished
<1>3. CASE p \in Threads /\ ToolStep(p)
  <2> USE DEF ToolSteps
  <2>1. CASE \/ Proposed(p) \/ CheckWithdrawal(p) \/ CancelRecord(p) \/ Cancelled(p)
             \/ Reread(p) \/ Report(p) \/ MarkedFailed(p) \/ Dispatch(p)
             \/ GatewayInterrupted(p) \/ MarkExecutingHere(p)
             \/ Recorded(p) \/ MarkFailedHere(p)
    <3>1. job'[p].at \notin {"recording", "recorded"}
      BY <1>2, <1>3, <2>1
         DEF Proposed, CheckWithdrawal, CancelRecord, Cancelled, Reread, Report,
             MarkedFailed, Dispatch, GatewayInterrupted, MarkExecutingHere, Recorded,
             MarkFailedHere, CallStore, Fails, Route
    <3>2. cancelledAt' = cancelledAt
      BY <2>1
         DEF Proposed, CheckWithdrawal, CancelRecord, Cancelled, Reread, Report,
             MarkedFailed, Dispatch, GatewayInterrupted, MarkExecutingHere, Recorded,
             MarkFailedHere, CallStore, Effects
    <3> QED
      BY <1>1, <3>1, <3>2
  <2>2. CASE EnterGateway(p) \/ GatewayWorks(p)
    <3>1. job[p].at = "gateway" /\ cancelledAt' = cancelledAt
      BY <2>2 DEF EnterGateway, GatewayWorks, serverVars, Effects
    <3>2. job'[p].at \in {"gateway", "idle"}
      BY <1>2, <2>2, <3>1 DEF EnterGateway, GatewayWorks, serverVars
    <3> QED
      BY <1>1, <3>1, <3>2
  <2>3. CASE Marked(p)
    <3>1. /\ cancelledAt' = cancelledAt
          /\ job'[p].at = "recording" =>
                /\ job'[p].id = job[p].id
                /\ records[job[p].id].kind # "cancel_order"
          /\ job'[p].at # "recorded"
      BY <1>2, <1>3, <2>3 DEF Marked, Effects, Fails
    <3> QED
      BY <3>1 DEF ToldInv, Told
  <2>4. CASE TellBroker(p)
    <3>1. job'[p].at \in {"recording", "undoing"} /\ job'[p].id = job[p].id
      BY <1>2, <1>3, <2>4 DEF TellBroker
    <3>2. CASE UNCHANGED Effects /\ job'[p].at = "undoing"
      BY <3>2 DEF ToldInv, Told, Effects
    <3>3. CASE /\ BrokerStyle[GatewayOf[p]] = "dict"
               /\ cancelledAt' = [cancelledAt EXCEPT ![job[p].id] = @ \union {GatewayOf[p]}]
      <4>1. job[p].id \in ApprovalIds
        BY <1>0, <1>3, <2>4, CallersAssumption DEF TellBroker, JobInv, JobFits
      <4> QED
        BY <3>1, <3>3, <4>1 DEF ToldInv, Told
    <3> QED
      BY <1>2, <1>3, <2>4, <3>2, <3>3 DEF TellBroker
  <2>5. CASE RecordEffect(p)
    <3>1. /\ cancelledAt' = cancelledAt /\ job[p].at = "recording"
          /\ job'[p].at = "recorded" /\ job'[p].id = job[p].id
      BY <1>2, <1>3, <2>5 DEF RecordEffect, CallStore, Effects
    <3> QED
      BY <1>3, <3>1 DEF ToldInv, Told
  <2> QED
    BY <1>3, <2>1, <2>2, <2>3, <2>4, <2>5 DEF ToolStep
<1>4. CASE p \in Clients
  BY <1>1, <1>4, CallersAssumption
     DEF Acts, Open, Show, Decide, DecisionPrinted, CallStore, Effects
<1>5. CASE p \in Threads /\ ~ToolStep(p)
  <2>1. PICK tool, i, a, step : /\ step \in {"creating", "checking", "dispatching"}
                                /\ Begin(p, tool, i, a, step)
                                /\ cancelledAt' = cancelledAt
    BY <1>5, CallersAssumption DEF Acts, Propose, Withdraw, Execute, Effects
  <2>2. job'[p] = [tool |-> tool, id |-> i, by |-> a, at |-> step]
    BY <1>0, <2>1, BeginPieces
  <2> QED
    BY <1>1, <2>1, <2>2
<1> QED
  BY <1>3, <1>4, <1>5, CallersAssumption

LEMMA ToldStep ==
    ASSUME ServerBase, KnowInv, ToldInv, [ServerNext]_allVars
    PROVE  ToldInv'
<1>1. ASSUME NEW p \in Callers, Acts(p)
      PROVE  ToldInv'
  <2>1. Alone(p)
    BY <1>1, ActsAlone DEF ServerBase, StoreInv, WinInv, Answered, PlaceInv
  <2>2. \A t \in Threads : job[t].at \in {"recording", "recorded"} => job[t].id \in ApprovalIds
    BY CallersAssumption DEF ServerBase, JobInv, JobFits
  <2>3. ASSUME NEW t \in Threads, job'[t].at \in {"recording", "recorded"},
               records[job'[t].id].kind = "cancel_order"
        PROVE  Told(job[t].id)'
    <3>1. CASE t = p
      BY <1>1, <2>3, <3>1, ActsTold
    <3>2. CASE t # p
      <4>1. job'[t] = job[t]
        BY <2>1, <3>2, CallersAssumption DEF Alone
      <4>2. Told(job[t].id) /\ job[t].id \in ApprovalIds
        BY <2>2, <2>3, <4>1 DEF ToldInv
      <4> QED
        BY <1>1, <4>1, <4>2, ActsTold
    <3> QED
      BY <3>1, <3>2
  <2>4. /\ DOMAIN cancelledAt' = ApprovalIds
        /\ \A i \in ApprovalIds : Told(i) => Told(i)'
    BY <1>1, ActsTold
  <2>5. records' = records
    BY <2>1 DEF Alone
  <2> QED
    BY <2>3, <2>4, <2>5 DEF ToldInv
<1>2. ASSUME NEW p \in Callers, StoreCall(p)
      PROVE  ToldInv'
  <2>1. Operation(p) /\ [Next]_storeVars /\ UNCHANGED serverVars
    BY <1>2, OperationIsNext DEF StoreCall, StoreWorks, StoreFails, Operation
  <2>2. \A i : Told(i)' <=> Told(i)
    BY <2>1 DEF serverVars, Told
  <2>3. \A i \in ApprovalIds :
            records[i].state # "absent" => records'[i].kind = records[i].kind
    BY <2>1, FollowsStep DEF ServerBase, StoreInv, Follows
  <2>4. ASSUME NEW t \in Threads, job[t].at \in {"recording", "recorded"},
               records'[job[t].id].kind = "cancel_order"
        PROVE  Told(job[t].id)
    <3>1. job[t].id \in ApprovalIds /\ records[job[t].id].state # "absent"
      BY <2>4, CallersAssumption DEF ServerBase, JobInv, JobFits, KnowInv, Knows, Here
    <3> QED
      BY <2>3, <2>4, <3>1 DEF ToldInv
  <2>5. ASSUME NEW i \in ApprovalIds, records'[i].kind = "cancel_order",
               records'[i].state = "executed"
        PROVE  Told(i)
    <3>1. CASE records[i].state = "executed"
      BY <2>3, <2>5, <3>1 DEF ToldInv
    <3>2. CASE records[i].state # "executed"
      <4>1. /\ calls[p].op = "mark_executed" /\ calls[p].id = i
            /\ records[i].state = "executing"
        BY <2>1, <2>5, <3>2, ExecutedByItsMark DEF ServerBase, StoreInv
      <4>2. records[i].kind = "cancel_order"
        BY <2>3, <2>5, <4>1
      <4> QED
        BY <4>1, <4>2, MarkOfTool DEF KnowInv, Knows, ToldInv
    <3> QED
      BY <3>1, <3>2
  <2> QED
    BY <2>1, <2>2, <2>4, <2>5 DEF ToldInv, serverVars
<1>3. ASSUME NEW g \in Gateways, ServerCrash(g)
      PROVE  ToldInv'
  <2>1. /\ records' = records /\ cancelledAt' = cancelledAt
        /\ \A t \in Threads : job'[t] = job[t] \/ job'[t].at = "idle"
    BY <1>3, NoJobFits, CallersAssumption DEF ServerCrash, GatewayCrash, Crash, Effects
  <2> QED
    BY <2>1 DEF ToldInv, Told
<1>4. CASE \/ \E i \in ApprovalIds : BrokerDecides(i) /\ UNCHANGED serverVars
           \/ UNCHANGED <<records, calls, replies, pc, task, sends, verdict, sentBy, serverVars>>
  BY <1>4 DEF BrokerDecides, storeVars, serverVars, ToldInv, Told
<1> QED
  BY <1>1, <1>2, <1>3, <1>4, ServerCases

\* The two writers of EXECUTED, the gateway and the handlers, keep apart: it is
\* written of an order only after its gateway sent it and had an answer, and of
\* a cancellation only after a broker was told.
THEOREM ExecutedMeansDoneAlways == ServerSpec => []ExecutedMeansDone
<1>1. ServerInit => AcceptInv /\ ToldInv
  BY CallersAssumption, NoJobFits
     DEF ServerInit, GatewayInit, Init, Absent, AcceptInv, ExecutedMeansAccepted, Hears, ToldInv
<1>2. AcceptInv /\ ToldInv => ExecutedMeansDone
  BY DEF AcceptInv, ToldInv, Told, ExecutedMeansDone
<1> QED
  BY <1>1, <1>2, ServerAcceptStep, ToldStep, EffectInvHolds, KnowInvHolds, ServerBaseHolds, PTL
     DEF ServerSpec
===============================================================================
