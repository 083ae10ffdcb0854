--------------------------- MODULE ExecutionGateway ---------------------------
(***************************************************************************)
(* src/src/execution/execution_gateway.py: the only way from an approved   *)
(* record to a broker.  Threads of one or more gateways (one gateway per   *)
(* process) run execute_approved against the shared table of ApprovalStore,*)
(* while other clients propose, decide and sweep.  Every access to the     *)
(* table is a call of the store: its start, its transaction and its return *)
(* are steps of their own, so two gateways interleave at each of them.     *)
(*                                                                         *)
(* The broker is external: an order that was put on the wire is accepted   *)
(* or refused at any later time, whatever became of the thread that sent   *)
(* it; the thread may get the answer, an error, or nothing it can use.     *)
(*                                                                         *)
(* Faults selects what may go wrong in an instance:                        *)
(*   "db_error"  a store operation raises sqlite3.OperationalError         *)
(*   "transport" the broker call fails although the order may have arrived *)
(*   "bad_reply" a dict-style broker answers with something else           *)
(*   "interrupt" Ctrl-C, ESC or the kill switch                            *)
(*   "callback"  interrupt_check raises an ordinary exception              *)
(*   "crash"     a gateway's process dies and is started again             *)
(***************************************************************************)
EXTENDS ApprovalStore

CONSTANTS Threads,      \* threads that run execute_approved
          Clients,      \* threads of the other programs that use the store
          Gateways,
          GatewayOf,    \* Threads -> Gateways
          GatewayMode,  \* Gateways -> Modes, the mode fixed at construction
          BrokerStyle,  \* Gateways -> "dict" (submit_order) or "order" (place_order)
          ClientOps,    \* bound: the store operations clients use in an instance
          Faults

ASSUME CallersAssumption ==
    Callers = Threads \union Clients /\ Threads \cap Clients = {}
ASSUME GatewayAssumption ==
    /\ GatewayOf \in [Threads -> Gateways]
    /\ GatewayMode \in [Gateways -> Modes]
    /\ BrokerStyle \in [Gateways -> {"dict", "order"}]
ASSUME ClientOpsAssumption ==
    ClientOps \subseteq {"create_request", "get", "expire_overdue"} \union DecisionOps
ASSUME NoThreadAssumption == NULL \notin Threads \union ApprovalIds \union {UnknownId}

VARIABLES pc,           \* Threads -> where the thread is in execute_approved
          task,         \* Threads -> the approval it was called with
          gwLock,       \* Gateways -> the thread that holds self._lock
          interrupted,  \* Gateways -> the interrupt or the kill switch is on
          racing,       \* history: past the last check when that happened
          sends,        \* ApprovalIds -> how many orders went on the wire
          verdict,      \* ApprovalIds -> what the broker made of the order
          sentBy,       \* history: ApprovalIds -> gateways that sent it
          garbled       \* history: ApprovalIds -> its broker did not answer a dict

gatewayVars == <<pc, task, gwLock, interrupted, racing, sends, verdict, sentBy, garbled>>
vars == <<storeVars, gatewayVars>>

\* The locations of execute_approved, in the order they are passed.
Locked == {"reading", "permit", "marking"}
Owning == {"granted", "submit", "await", "storing", "refusing", "closing", "failing"}
Locations == {"idle", "entered"} \union Locked \union Owning

GatewayTypeOK ==
    /\ TypeOK
    /\ pc \in [Threads -> Locations]
    /\ task \in [Threads -> ApprovalIds \union {UnknownId, NULL}]
    /\ gwLock \in [Gateways -> Threads \union {NULL}]
    /\ interrupted \in [Gateways -> BOOLEAN]
    /\ racing \in [Gateways -> SUBSET Threads]
    /\ sends \in [ApprovalIds -> Nat]
    /\ verdict \in [ApprovalIds -> {"none", "pending", "accepted", "refused"}]
    /\ sentBy \in [ApprovalIds -> SUBSET Gateways]
    /\ garbled \in [ApprovalIds -> BOOLEAN]

GatewayInit ==
    /\ Init
    /\ pc = [t \in Threads |-> "idle"]
    /\ task = [t \in Threads |-> NULL]
    /\ gwLock = [g \in Gateways |-> NULL]
    /\ interrupted = [g \in Gateways |-> FALSE]
    /\ racing = [g \in Gateways |-> {}]
    /\ sends = [i \in ApprovalIds |-> 0]
    /\ verdict = [i \in ApprovalIds |-> "none"]
    /\ sentBy = [i \in ApprovalIds |-> {}]
    /\ garbled = [i \in ApprovalIds |-> FALSE]
-----------------------------------------------------------------------------
(* execute_approved, up to the permission to execute *)

\* _check_interrupt lets the thread pass: the flag is off, or the callback
\* raises an exception of another kind, which is logged and dropped.
PassesCheck(t) == ~interrupted[GatewayOf[t]] \/ "callback" \in Faults

GoTo(t, location) == pc' = [pc EXCEPT ![t] = location]

\* The call ends, with a result or with an exception.
Leave(t) ==
    /\ GoTo(t, "idle")
    /\ task' = [task EXCEPT ![t] = NULL]

Unlock(t) == gwLock' = [gwLock EXCEPT ![GatewayOf[t]] = NULL]

Wire == <<sends, verdict, sentBy, garbled>>
Stop == <<interrupted, racing>>

Enter(t, i) ==
    /\ pc[t] = "idle"
    /\ PassesCheck(t)
    /\ GoTo(t, "entered")
    /\ task' = [task EXCEPT ![t] = i]
    /\ UNCHANGED <<storeVars, gwLock, Stop, Wire>>

LockAndGet(t) ==
    /\ pc[t] = "entered"
    /\ gwLock[GatewayOf[t]] = NULL
    /\ gwLock' = [gwLock EXCEPT ![GatewayOf[t]] = t]
    /\ Invoke(t, [op |-> "get", id |-> task[t], now |-> clock])
    /\ GoTo(t, "reading")
    /\ UNCHANGED <<task, Stop, Wire>>

\* Mutant: the mode of the record is not compared with the gateway's.
AfterGetAnyMode(t) ==
    /\ pc[t] = "reading"
    /\ Return(t)
    /\ \/ /\ replies[t].outcome = "ok" /\ replies[t].row.state = "approved"
          /\ GoTo(t, "permit") /\ UNCHANGED <<task, gwLock>>
       \/ /\ replies[t].outcome # "ok" \/ replies[t].row.state # "approved"
          /\ Leave(t) /\ Unlock(t)
    /\ UNCHANGED <<Stop, Wire>>

\* Mutant: an early exit forgets to release the lock.
AfterGetKeepsLock(t) ==
    /\ pc[t] = "reading"
    /\ Return(t)
    /\ \/ /\ replies[t].outcome = "ok" /\ replies[t].row.state = "approved"
          /\ GoTo(t, "permit") /\ UNCHANGED <<task, gwLock>>
       \/ /\ replies[t].outcome # "ok" \/ replies[t].row.state # "approved"
          /\ Leave(t) /\ UNCHANGED gwLock
    /\ UNCHANGED <<Stop, Wire>>

\* Only an approved record of this gateway's mode goes on; every other answer
\* of get raises an exception that releases the lock.
AfterGet(t) ==
    /\ pc[t] = "reading"
    /\ Return(t)
    /\ \/ /\ replies[t].outcome = "ok"
          /\ replies[t].row.state = "approved"
          /\ replies[t].row.mode = GatewayMode[GatewayOf[t]]
          /\ GoTo(t, "permit")
          /\ UNCHANGED <<task, gwLock>>
       \/ /\ \/ replies[t].outcome # "ok"
             \/ replies[t].row.state # "approved"
             \/ replies[t].row.mode # GatewayMode[GatewayOf[t]]
          /\ Leave(t)
          /\ Unlock(t)
    /\ UNCHANGED <<Stop, Wire>>

AskPermission(t, a) ==
    /\ pc[t] = "permit"
    /\ Invoke(t, [op |-> "mark_executing", id |-> task[t], by |-> a, now |-> clock])
    /\ GoTo(t, "marking")
    /\ UNCHANGED <<task, gwLock, Stop, Wire>>

\* Mutant: the refusal of mark_executing is swallowed.
AfterMarkExecutingIgnored(t) ==
    /\ pc[t] = "marking"
    /\ Return(t)
    /\ GoTo(t, "granted")
    /\ Unlock(t)
    /\ UNCHANGED <<task, Stop, Wire>>

AfterMarkExecuting(t) ==
    /\ pc[t] = "marking"
    /\ Return(t)
    /\ \/ /\ replies[t].outcome = "ok"
          /\ GoTo(t, "granted")
          /\ UNCHANGED task
       \/ /\ replies[t].outcome # "ok"
          /\ Leave(t)
    /\ Unlock(t)
    /\ UNCHANGED <<Stop, Wire>>
-----------------------------------------------------------------------------
(* execute_approved, outside the lock: the broker call and its outcome *)

FinishWith(t, op, location) ==
    /\ Invoke(t, [op |-> op, id |-> task[t], now |-> clock])
    /\ GoTo(t, location)
    /\ UNCHANGED <<task, gwLock, Stop>>

\* Mutant: no check between the permission and the broker call.
LastCheckDropped(t) ==
    /\ pc[t] = "granted"
    /\ GoTo(t, "submit")
    /\ UNCHANGED <<storeVars, task, gwLock, Stop, Wire>>

LastCheck(t) ==
    /\ pc[t] = "granted"
    /\ \/ /\ PassesCheck(t)
          /\ GoTo(t, "submit")
          /\ UNCHANGED <<storeVars, task, gwLock, Stop>>
       \/ /\ interrupted[GatewayOf[t]]
          /\ FinishWith(t, "mark_exec_failed", "failing")
    /\ UNCHANGED Wire

\* _deserialize_order_request raises on a payload that is not an order's.
CannotDeserialize(t) ==
    /\ pc[t] = "submit"
    /\ BrokerStyle[GatewayOf[t]] = "order"
    /\ FinishWith(t, "mark_exec_failed", "failing")
    /\ UNCHANGED Wire

\* The broker is called; the action kind of the record is never looked at, but
\* only an order's payload survives the conversion to an OrderRequest.
Submit(t) ==
    /\ pc[t] = "submit"
    /\ BrokerStyle[GatewayOf[t]] = "order" => records[task[t]].kind = "submit_order"
    /\ sends' = [sends EXCEPT ![task[t]] = @ + 1]
    /\ verdict' = [verdict EXCEPT ![task[t]] = IF @ = "none" THEN "pending" ELSE @]
    /\ sentBy' = [sentBy EXCEPT ![task[t]] = @ \union {GatewayOf[t]}]
    /\ GoTo(t, "await")
    /\ UNCHANGED <<storeVars, task, gwLock, Stop, garbled>>

\* External: the broker decides about an order that has arrived.
BrokerDecides(i) ==
    /\ verdict[i] = "pending"
    /\ \E v \in {"accepted", "refused"} : verdict' = [verdict EXCEPT ![i] = v]
    /\ UNCHANGED <<storeVars, pc, task, gwLock, Stop, sends, sentBy, garbled>>

\* Mutant: every answer that is not a clear refusal counts as accepted.
AcceptedUnlessRefused(t) ==
    /\ pc[t] = "await"
    /\ verdict[task[t]] # "refused"
    /\ FinishWith(t, "mark_executed", "storing")
    /\ UNCHANGED Wire

\* The adapter answers success once the broker has accepted.  A dict is presumed
\* to be an acceptance unless its status says otherwise: no status, or PENDING,
\* counts as accepted whatever the broker makes of the order.
Accepted(t) ==
    /\ pc[t] = "await"
    /\ verdict[task[t]] = "accepted" \/ BrokerStyle[GatewayOf[t]] = "dict"
    /\ FinishWith(t, "mark_executed", "storing")
    /\ UNCHANGED Wire

\* The answer says no: a rejection, or a transport error that the adapter
\* reports as one whatever became of the order.
Rejected(t) ==
    /\ pc[t] = "await"
    /\ verdict[task[t]] = "refused" \/ "transport" \in Faults
    /\ FinishWith(t, "mark_exec_failed", "refusing")
    /\ UNCHANGED Wire

\* Mutant: an exception of the broker leaves the record as it is.
BrokerRaisesUnmarked(t) ==
    /\ pc[t] = "await"
    /\ verdict[task[t]] = "refused" \/ "transport" \in Faults
    /\ Leave(t)
    /\ UNCHANGED <<storeVars, gwLock, Stop, Wire>>

\* submit_order or place_order raises, or its answer cannot be normalized.
BrokerRaises(t) ==
    /\ pc[t] = "await"
    /\ verdict[task[t]] = "refused" \/ "transport" \in Faults
    /\ FinishWith(t, "mark_exec_failed", "failing")
    /\ UNCHANGED Wire

\* A non-dict answer is a GatewayError, which is re-raised without a mark.
BadReply(t) ==
    /\ pc[t] = "await"
    /\ "bad_reply" \in Faults /\ BrokerStyle[GatewayOf[t]] = "dict"
    /\ garbled' = [garbled EXCEPT ![task[t]] = TRUE]
    /\ Leave(t)
    /\ UNCHANGED <<storeVars, gwLock, Stop, sends, verdict, sentBy>>

\* A mark that fails here falls into "except Exception", which marks again.
AfterFirstMark(t) ==
    /\ pc[t] \in {"storing", "refusing"}
    /\ Return(t)
    /\ \/ replies[t].outcome = "ok" /\ Leave(t)
       \/ replies[t].outcome # "ok" /\ GoTo(t, "closing") /\ UNCHANGED task
    /\ UNCHANGED <<gwLock, Stop, Wire>>

CloseAsFailed(t) ==
    /\ pc[t] = "closing"
    /\ FinishWith(t, "mark_exec_failed", "failing")
    /\ UNCHANGED Wire

\* Inside an except clause an error of the mark leaves execute_approved.
AfterLastMark(t) ==
    /\ pc[t] = "failing"
    /\ Return(t)
    /\ Leave(t)
    /\ UNCHANGED <<gwLock, Stop, Wire>>
-----------------------------------------------------------------------------
(* The surroundings *)

\* Ctrl-C, ESC, the monitor or an operator raises the flag.
Arm(g) ==
    /\ "interrupt" \in Faults
    /\ ~interrupted[g]
    /\ interrupted' = [interrupted EXCEPT ![g] = TRUE]
    /\ racing' = [racing EXCEPT ![g] = {t \in Threads : pc[t] = "submit"}]
    /\ UNCHANGED <<storeVars, pc, task, gwLock, Wire>>

Reset(g) ==
    /\ interrupted[g]
    /\ interrupted' = [interrupted EXCEPT ![g] = FALSE]
    /\ racing' = [racing EXCEPT ![g] = {}]
    /\ UNCHANGED <<storeVars, pc, task, gwLock, Wire>>

ThreadsOf(g) == {t \in Threads : GatewayOf[t] = g}

\* Mutant: a restart offers what was executing for execution again.
GatewayCrashReopens(g) ==
    /\ "crash" \in Faults
    /\ pc' = [t \in Threads |-> IF t \in ThreadsOf(g) THEN "idle" ELSE pc[t]]
    /\ records' = [i \in ApprovalIds |-> IF records[i].state = "executing"
                      THEN [records[i] EXCEPT !.state = "approved"] ELSE records[i]]
    /\ UNCHANGED <<clock, calls, replies, task, gwLock, Stop, Wire>>

\* Mutant: a restarted gateway has no value for its flag.
GatewayCrashNoFlag(g) ==
    /\ "crash" \in Faults
    /\ Crash(ThreadsOf(g))
    /\ pc' = [t \in Threads |-> IF t \in ThreadsOf(g) THEN "idle" ELSE pc[t]]
    /\ task' = [t \in Threads |-> IF t \in ThreadsOf(g) THEN NULL ELSE task[t]]
    /\ gwLock' = [gwLock EXCEPT ![g] = NULL]
    /\ interrupted' = [interrupted EXCEPT ![g] = NULL]
    /\ racing' = [racing EXCEPT ![g] = {}]
    /\ UNCHANGED Wire

\* The process dies; the table and the orders on the wire are left as they are.
GatewayCrash(g) ==
    /\ "crash" \in Faults
    /\ Crash(ThreadsOf(g))
    /\ pc' = [t \in Threads |-> IF t \in ThreadsOf(g) THEN "idle" ELSE pc[t]]
    /\ task' = [t \in Threads |-> IF t \in ThreadsOf(g) THEN NULL ELSE task[t]]
    /\ gwLock' = [gwLock EXCEPT ![g] = NULL]
    /\ interrupted' = [interrupted EXCEPT ![g] = FALSE]
    /\ racing' = [racing EXCEPT ![g] = {}]
    /\ UNCHANGED Wire

\* propose_order, approve_cli and the MCP tools: everything except the marks.
ClientRequests ==
    {req \in RequestsIn({clock}) : req.op \in ClientOps}

StoreWorks(c) ==
    \/ CreateRequest(c)
    \/ Get(c)
    \/ Approve(c)
    \/ Reject(c)
    \/ Cancel(c)
    \/ MarkExecuting(c)
    \/ MarkExecuted(c)
    \/ MarkExecFailed(c)
    \/ ExpireOverdue(c)

StoreFails(c) == "db_error" \in Faults /\ (DbError(c) \/ RereadFails(c))

ClientStep(c) ==
    /\ \/ \E req \in ClientRequests : Invoke(c, req)
       \/ Return(c)
       \/ Crash({c})
    /\ UNCHANGED gatewayVars

\* What a thread does once it is inside execute_approved.
Proceed(t) ==
    \/ LockAndGet(t)
    \/ AfterGet(t)
    \/ \E a \in Actors : AskPermission(t, a)
    \/ AfterMarkExecuting(t)
    \/ LastCheck(t)
    \/ CannotDeserialize(t)
    \/ Submit(t)
    \/ Accepted(t)
    \/ Rejected(t)
    \/ BrokerRaises(t)
    \/ BadReply(t)
    \/ AfterFirstMark(t)
    \/ CloseAsFailed(t)
    \/ AfterLastMark(t)

GatewayNext ==
    \/ \E t \in Threads :
          \/ \E i \in Issued \union {UnknownId} : Enter(t, i)
          \/ Proceed(t)
    \/ \E c \in Callers :
          (StoreWorks(c) \/ StoreFails(c)) /\ UNCHANGED gatewayVars
    \/ \E c \in Clients : ClientStep(c)
    \/ \E i \in ApprovalIds : BrokerDecides(i)
    \/ \E g \in Gateways : Arm(g) \/ Reset(g) \/ GatewayCrash(g)
    \/ Tick /\ UNCHANGED gatewayVars

GatewaySpec == GatewayInit /\ [][GatewayNext]_vars
-----------------------------------------------------------------------------
(* Fairness.  A thread that is scheduled and whose calls return goes on: the  *)
(* store answers or times out after 10 s, the broker call has a timeout.      *)
(* Nothing obliges anybody to propose, decide, enter, arm or crash.           *)

Fairness ==
    /\ \A t \in Threads : WF_vars(Proceed(t))
    /\ \A t \in Threads :
          WF_vars((StoreWorks(t) \/ StoreFails(t)) /\ UNCHANGED gatewayVars)

GatewayFairSpec == GatewaySpec /\ Fairness
-----------------------------------------------------------------------------
(* What must hold *)

\* The thread has, or has just been sent, permission to execute its approval.
Owns(t) ==
    \/ pc[t] \in Owning
    \/ pc[t] = "marking" /\ replies[t].outcome = "ok"

\* Between the permission and the final mark an approval belongs to one
\* thread, of all the threads of all the processes.
OneOwner ==
    \A t, u \in Threads : Owns(t) /\ Owns(u) /\ task[t] = task[u] => t = u

\* Guarantee 7: however many threads, processes, retries, crashes and expiries,
\* one approval puts at most one order on the wire.
SingleUse == \A i \in ApprovalIds : sends[i] <= 1

\* An order on the wire stands for an approval by a second person, of the mode
\* of the gateway that sent it, which can be neither withdrawn nor expired any
\* more; the broker is never called for anything else.
OnlyApprovedOnWire ==
    \A i \in ApprovalIds :
        sends[i] > 0 =>
            /\ records[i].decided_by \notin {NULL, records[i].requested_by}
            /\ records[i].state \in {"executing", "executed", "exec_failed"}
            /\ \A g \in sentBy[i] : records[i].mode = GatewayMode[g]

\* EXECUTED is only ever written for an order that some gateway sent, and that
\* the broker accepted, unless the sender's broker answers in dicts: there the
\* gateway takes any answer that names no other status for an acceptance.
ExecutedMeansAccepted ==
    \A i \in ApprovalIds :
        records[i].kind = "submit_order" /\ records[i].state = "executed" =>
            \E g \in sentBy[i] : BrokerStyle[g] = "dict" \/ verdict[i] = "accepted"

\* Once a gateway is interrupted no thread passes its last check: only those
\* that had already passed it can still be about to call the broker.
StopHolds ==
    \A t \in Threads :
        interrupted[GatewayOf[t]] /\ pc[t] = "submit" => t \in racing[GatewayOf[t]]

\* A gateway does to the table only what ApprovalStore allows.
UsesStore == Spec

\* The state of an approval after its execution (docs/PHASE2A_CHANGES.md:58).
Ended(i) == records[i].state \in {"executed", "exec_failed"}

\* While nothing fails but the broker, whatever started to execute gets a final
\* state, on every return and every exception but one: only an answer that is
\* no dict leaves the record behind, EXECUTING for good.
ExecutionSettles ==
    \A i \in ApprovalIds : records[i].state = "executing" ~> Ended(i) \/ garbled[i]

\* docs/PHASE2A_CHANGES.md:58: executing an APPROVED record takes it to EXECUTING
\* and from there to EXECUTED or EXEC_FAILED.
ExecutionEnds == \A i \in ApprovalIds : records[i].state = "executing" ~> Ended(i)

\* The gateway's lock is given back, whatever the store answered.
LockIsReleased ==
    \A t \in Threads : pc[t] \in Locked ~> gwLock[GatewayOf[t]] # t
=============================================================================
