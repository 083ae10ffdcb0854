--------------------------- MODULE RestrictedServer ---------------------------
(***************************************************************************)
(* src/src/mcp_servers/restricted_server.py and _write_handlers.py: the    *)
(* tools an agent may call, and scripts/approve_cli.py, the operator's     *)
(* side of the same table.  A server runs one tool at a time; an order is  *)
(* handed to its ExecutionGateway, the other kinds are executed by the     *)
(* handlers themselves, with no lock and no check but the state machine of *)
(* ApprovalStore.                                                          *)
(*                                                                         *)
(* A thread of ExecutionGateway is a server here, and a client is a run of *)
(* approve_cli.  A tool that has raised answers "error" whatever the kind  *)
(* of the exception; nothing of it reaches the transport.                  *)
(***************************************************************************)
EXTENDS ExecutionGateway, FiniteSets

CONSTANT OperatorId    \* the operator's actor id (JCPR_OPERATOR_ID)

ASSUME OperatorAssumption == OperatorId \in Actors

VARIABLES job,         \* Threads \union Clients -> what it is doing, and where
          cancels,     \* ApprovalIds -> how often the broker was told to cancel
          cancelledAt, \* history: ApprovalIds -> gateways that told it
          answer       \* Threads -> what the last tool said of its approval

serverVars == <<job, cancels, cancelledAt, answer>>
allVars == <<vars, serverVars>>

NoJob == [tool |-> "none", id |-> NULL, by |-> NULL, at |-> "idle"]
NoAnswer == [id |-> NULL, state |-> "none"]

Commands == {"approve", "reject", "cancel"}

ServerInit ==
    /\ GatewayInit
    /\ job = [p \in Threads \union Clients |-> NoJob]
    /\ cancels = [i \in ApprovalIds |-> 0]
    /\ cancelledAt = [i \in ApprovalIds |-> {}]
    /\ answer = [t \in Threads |-> NoAnswer]
-----------------------------------------------------------------------------
(* How a tool goes from one call of the store to the next *)

At(p, step) == job[p].at = step
MoveTo(p, step) == job' = [job EXCEPT ![p].at = step]

Begin(p, tool, i, a, step) ==
    /\ job[p] = NoJob
    /\ answer' = [t \in Threads |-> IF t = p THEN NoAnswer ELSE answer[t]]
    /\ job' = [job EXCEPT ![p] = [tool |-> tool, id |-> i, by |-> a, at |-> step]]

\* The tool answers with the state of a record, or with an error.
Finished(t, state) ==
    /\ job' = [job EXCEPT ![t] = NoJob]
    /\ answer' = [answer EXCEPT ![t] = [id |-> job[t].id, state |-> state]]

Fails(t) == Finished(t, "error")

Effects == <<cancels, cancelledAt>>

\* The next call of the store: by the tool's actor, for the tool's approval.
CallStore(p, from, op, step) ==
    /\ At(p, from)
    /\ IF op \in DecisionOps \union {"mark_executing"}
       THEN Invoke(p, [op |-> op, id |-> job[p].id, by |-> job[p].by, now |-> clock])
       ELSE Invoke(p, [op |-> op, id |-> job[p].id, now |-> clock])
    /\ MoveTo(p, step)
    /\ UNCHANGED <<gatewayVars, Effects, answer>>

Got(p) == replies[p].outcome = "ok"
Kind(t) == replies[t].row.kind
-----------------------------------------------------------------------------
(* The tools that propose and withdraw *)

\* request_submit_order, request_cancel_order, request_set_capacity and
\* request_kill_switch; the record gets the mode of the server.  (Bound: no
\* more proposals at a time than there are identifiers left.)
Propose(t, kind, a) ==
    /\ Cardinality({u \in Threads : At(u, "creating")}) < Cardinality(ApprovalIds \ Issued)
    /\ Begin(t, "propose", NULL, a, "creating")
    /\ Invoke(t, [op |-> "create_request", by |-> a, kind |-> kind,
                  mode |-> GatewayMode[GatewayOf[t]], now |-> clock])
    /\ UNCHANGED <<gatewayVars, Effects>>

Proposed(t) ==
    /\ At(t, "creating")
    /\ Return(t)
    /\ job' = [job EXCEPT ![t] = NoJob]
    /\ UNCHANGED <<gatewayVars, Effects, answer>>

\* cancel_proposed_action reads the record first.
Withdraw(t, i, a) ==
    /\ Begin(t, "withdraw", i, a, "checking")
    /\ Invoke(t, [op |-> "get", id |-> i, now |-> clock])
    /\ UNCHANGED <<gatewayVars, Effects>>

MayCancel(t) == job[t].by \in {replies[t].row.requested_by, OperatorId}

CheckWithdrawal(t) ==
    /\ At(t, "checking")
    /\ Return(t)
    /\ \/ /\ Got(t) /\ replies[t].row.state = "proposed" /\ MayCancel(t)
          /\ MoveTo(t, "cancelling")
          /\ UNCHANGED answer
       \/ /\ ~(Got(t) /\ replies[t].row.state = "proposed" /\ MayCancel(t))
          /\ Fails(t)
    /\ UNCHANGED <<gatewayVars, Effects>>

CancelRecord(t) == CallStore(t, "cancelling", "cancel", "cancelled")

Cancelled(t) ==
    /\ At(t, "cancelled")
    /\ Return(t)
    /\ \/ Got(t) /\ MoveTo(t, "rereading") /\ UNCHANGED answer
       \/ ~Got(t) /\ Fails(t)
    /\ UNCHANGED <<gatewayVars, Effects>>
-----------------------------------------------------------------------------
(* execute_approved_action *)

Execute(t, i, a) ==
    /\ Begin(t, "execute", i, a, "dispatching")
    /\ Invoke(t, [op |-> "get", id |-> i, now |-> clock])
    /\ UNCHANGED <<gatewayVars, Effects>>

\* Mutant: every approved record is handed to the gateway.
RouteAllToGateway(kind) == "gateway"

Route(kind) == IF kind = "submit_order" THEN "gateway" ELSE "granted"

\* What was executed before is answered from the record; only an approved
\* record is executed, by the gateway or here, as its kind says.
Dispatch(t) ==
    /\ At(t, "dispatching")
    /\ Return(t)
    /\ \/ /\ Got(t) /\ replies[t].row.state = "approved"
          /\ MoveTo(t, Route(Kind(t)))
          /\ UNCHANGED answer
       \/ /\ Got(t) /\ replies[t].row.state \in {"executed", "exec_failed"}
          /\ Finished(t, replies[t].row.state)
       \/ /\ ~(Got(t) /\ replies[t].row.state \in {"approved", "executed", "exec_failed"})
          /\ Fails(t)
    /\ UNCHANGED <<gatewayVars, Effects>>

EnterGateway(t) ==
    /\ At(t, "gateway") /\ pc[t] = "idle"
    /\ Enter(t, job[t].id)
    /\ UNCHANGED serverVars

\* execute_approved is interrupted at its door.
GatewayInterrupted(t) ==
    /\ At(t, "gateway") /\ pc[t] = "idle"
    /\ interrupted[GatewayOf[t]]
    /\ Fails(t)
    /\ UNCHANGED <<vars, Effects>>

\* The gateway's result is read from the mark it made last.
GatewayResult(t) ==
    IF pc[t] \in {"storing", "refusing"} /\ Got(t)
    THEN IF pc[t] = "storing" THEN "executed" ELSE "exec_failed"
    ELSE "error"

GatewayWorks(t) ==
    /\ At(t, "gateway")
    /\ Proceed(t)
    /\ \/ pc'[t] # "idle" /\ UNCHANGED <<job, answer>>
       \/ pc'[t] = "idle" /\ Finished(t, GatewayResult(t))
    /\ UNCHANGED Effects

MarkExecutingHere(t) == CallStore(t, "granted", "mark_executing", "marking")

\* Mutant: a cancellation is recorded before the broker is told of it.
MarkedUntold(t) ==
    /\ At(t, "marking")
    /\ Return(t)
    /\ \/ Got(t) /\ MoveTo(t, "recording") /\ UNCHANGED answer
       \/ ~Got(t) /\ Fails(t)
    /\ UNCHANGED <<gatewayVars, Effects>>

Marked(t) ==
    /\ At(t, "marking")
    /\ Return(t)
    /\ \/ /\ Got(t)
          /\ MoveTo(t, IF records[job[t].id].kind = "cancel_order"
                       THEN "telling" ELSE "recording")
          /\ UNCHANGED answer
       \/ ~Got(t) /\ Fails(t)
    /\ UNCHANGED <<gatewayVars, Effects>>

\* _execute_cancel_order calls the broker.  It passes symbol=, which only a
\* dict-style broker takes: the adapter's cancel_order raises TypeError first.
TellBroker(t) ==
    /\ At(t, "telling")
    /\ \/ /\ BrokerStyle[GatewayOf[t]] = "dict"
          /\ cancels' = [cancels EXCEPT ![job[t].id] = @ + 1]
          /\ cancelledAt' = [cancelledAt EXCEPT ![job[t].id] = @ \union {GatewayOf[t]}]
          /\ \/ MoveTo(t, "recording")
             \/ "transport" \in Faults /\ MoveTo(t, "undoing")
       \/ /\ BrokerStyle[GatewayOf[t]] = "order"
          /\ MoveTo(t, "undoing")
          /\ UNCHANGED Effects
    /\ UNCHANGED <<vars, answer>>

RecordEffect(t) == CallStore(t, "recording", "mark_executed", "recorded")

\* The mark of a cancellation is inside the try: if it fails, the other mark
\* follows.  Of set_capacity and kill_switch it is not.
Recorded(t) ==
    /\ At(t, "recorded")
    /\ Return(t)
    /\ \/ Got(t) /\ MoveTo(t, "rereading") /\ UNCHANGED answer
       \/ /\ ~Got(t) /\ records[job[t].id].kind = "cancel_order"
          /\ MoveTo(t, "undoing") /\ UNCHANGED answer
       \/ ~Got(t) /\ records[job[t].id].kind # "cancel_order" /\ Fails(t)
    /\ UNCHANGED <<gatewayVars, Effects>>

MarkFailedHere(t) == CallStore(t, "undoing", "mark_exec_failed", "undone")

MarkedFailed(t) ==
    /\ At(t, "undone")
    /\ Return(t)
    /\ Fails(t)
    /\ UNCHANGED <<gatewayVars, Effects>>

\* Mutant: the record is not read again; the tool answers with an earlier one.
RereadSkipped(t) ==
    /\ At(t, "rereading")
    /\ Finished(t, IF job[t].tool = "withdraw" THEN "proposed" ELSE "executing")
    /\ UNCHANGED <<vars, Effects>>

Reread(t) == CallStore(t, "rereading", "get", "reporting")

Report(t) ==
    /\ At(t, "reporting")
    /\ Return(t)
    /\ Finished(t, IF Got(t) THEN replies[t].row.state ELSE "error")
    /\ UNCHANGED <<gatewayVars, Effects>>
-----------------------------------------------------------------------------
(* scripts/approve_cli.py: approve, reject and cancel *)

Open(c, command, i, a) ==
    /\ Begin(c, command, i, a, "showing")
    /\ Invoke(c, [op |-> "get", id |-> i, now |-> clock])
    /\ UNCHANGED <<gatewayVars, Effects>>

\* Only a proposed record is shown for a decision.  The command may still end
\* here: a live record without --yes-i-mean-live, or an answer other than y.
Show(c) ==
    /\ At(c, "showing")
    /\ Return(c)
    /\ \/ Got(c) /\ replies[c].row.state = "proposed" /\ MoveTo(c, "deciding")
       \/ job' = [job EXCEPT ![c] = NoJob]
    /\ UNCHANGED <<gatewayVars, Effects, answer>>

Decide(c) == CallStore(c, "deciding", job[c].tool, "decided")

DecisionPrinted(c) ==
    /\ At(c, "decided")
    /\ Return(c)
    /\ job' = [job EXCEPT ![c] = NoJob]
    /\ UNCHANGED <<gatewayVars, Effects, answer>>
-----------------------------------------------------------------------------
(* The surroundings *)

\* SIGINT or SIGTERM: the flag is set for good, until the process ends.
Signal(g) == Arm(g) /\ UNCHANGED serverVars

ServerCrash(g) ==
    /\ GatewayCrash(g)
    /\ job' = [p \in Threads \union Clients |-> IF p \in ThreadsOf(g) THEN NoJob ELSE job[p]]
    /\ answer' = [t \in Threads |-> IF t \in ThreadsOf(g) THEN NoAnswer ELSE answer[t]]
    /\ UNCHANGED Effects

ToolStep(t) ==
    \/ Proposed(t)
    \/ CheckWithdrawal(t) \/ CancelRecord(t) \/ Cancelled(t)
    \/ Dispatch(t) \/ EnterGateway(t) \/ GatewayInterrupted(t) \/ GatewayWorks(t)
    \/ MarkExecutingHere(t) \/ Marked(t) \/ TellBroker(t)
    \/ RecordEffect(t) \/ Recorded(t) \/ MarkFailedHere(t) \/ MarkedFailed(t)
    \/ Reread(t) \/ Report(t)

StoreCall(p) ==
    /\ StoreWorks(p) \/ StoreFails(p)
    /\ UNCHANGED <<gatewayVars, serverVars>>

ServerNext ==
    \/ \E t \in Threads, a \in Actors :
          \/ \E kind \in Kinds : Propose(t, kind, a)
          \/ \E i \in Issued : Withdraw(t, i, a) \/ Execute(t, i, a)
    \/ \E t \in Threads : ToolStep(t)
    \/ \E c \in Clients, command \in Commands, i \in Issued, a \in Actors :
          Open(c, command, i, a)
    \/ \E c \in Clients : Show(c) \/ Decide(c) \/ DecisionPrinted(c)
    \/ \E p \in Callers : StoreCall(p)
    \/ \E i \in ApprovalIds : BrokerDecides(i) /\ UNCHANGED serverVars
    \/ \E g \in Gateways : Signal(g) \/ ServerCrash(g)
    \/ Tick /\ UNCHANGED <<gatewayVars, serverVars>>

ServerSpec == ServerInit /\ [][ServerNext]_allVars
-----------------------------------------------------------------------------
(* What must hold *)

\* One approval has one effect: whichever servers execute it, however often,
\* and by whichever of the two paths, the broker hears of it at most once.
OneEffect == \A i \in ApprovalIds : sends[i] + cancels[i] <= 1

\* The broker is told only what two people agreed on, in the words of the
\* record: an order for an approved order, a cancellation for an approved
\* cancellation, nothing for the other kinds.
EffectIsApproved ==
    \A i \in ApprovalIds :
        /\ sends[i] > 0 => records[i].kind = "submit_order"
        /\ cancels[i] > 0 => records[i].kind = "cancel_order"
        /\ sends[i] + cancels[i] > 0 =>
               /\ records[i].decided_by \notin {NULL, records[i].requested_by}
               /\ records[i].state \in {"executing", "executed", "exec_failed"}

\* What a tool said about the end of an approval stays true, whatever other
\* servers, operators and sweeps do afterwards; and a tool never says
\* "executing": an execution it answers for has ended.
FinalAnswersHold ==
    \A t \in Threads :
        /\ answer[t].state \in Terminal => records[answer[t].id].state = answer[t].state
        /\ answer[t].state # "executing"

\* An agent withdraws its own proposals only, through however many servers;
\* the check is made on a row read before the cancellation.
OnlyOwnersWithdraw ==
    \A t \in Threads :
        calls[t].op = "cancel" =>
            calls[t].by \in {records[calls[t].id].requested_by, OperatorId}

\* EXECUTED is only ever written of an order as ExecutedMeansAccepted says, and
\* of a cancellation only after a broker was told of it; the adapter cannot be
\* told, so it was one that answers in dicts.
ExecutedMeansDone ==
    /\ ExecutedMeansAccepted
    /\ \A i \in ApprovalIds :
          records[i].kind = "cancel_order" /\ records[i].state = "executed" =>
              \E g \in cancelledAt[i] : BrokerStyle[g] = "dict"
-----------------------------------------------------------------------------
(* Small instances, for the configurations *)

\* A server for each thread, or one server.
TwoServers == CHOOSE f \in [Threads -> Gateways] : \A t, u \in Threads : f[t] = f[u] => t = u
OneServer == [t \in Threads |-> CHOOSE g \in Gateways : TRUE]
AllPaper == [g \in Gateways |-> "paper"]

\* One server has a dict-style broker, the other the KIS adapter.
BothStyles == CHOOSE f \in [Gateways -> {"dict", "order"}] : \E g, h \in Gateways : f[g] # f[h]
DictStyle == [g \in Gateways |-> "dict"]
=============================================================================
