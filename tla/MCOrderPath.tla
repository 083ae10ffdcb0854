---------------------------- MODULE MCOrderPath ----------------------------
(* An order's way to the broker: who approves it, how the desk stops, how   *)
(* requests and tokens leave.  The components share no state; an execution  *)
(* runs the one that part names, the others stay as they were built.        *)
(* Elsewhere none of them runs (MCDesk).  Constants of one name serve two   *)
(* components where they may be the same.                                   *)
EXTENDS Integers, Sequences, FiniteSets

CONSTANTS
    None,
    Requests, Ask, Windows, Limits, Chains, Pipelines, MaxTyped,          \* ApprovalProviders
    MaxHour,
    Hooks,                                                                \* EmergencyStop
    OrderCalls, Queries, Rate, Second, MaxWait, Margin, Lifetime, MaxTime,    \* KisClient
    Signers, Processes, ProcessOf, ModeOf, TokenLife, Buffer, MinInterval \* KisTokens

VARIABLES
    part,
    windows, wall, chain, asking, asked, matched, decision, readers,
    typed, box, replied, lines,
    halted, first, stateLock, hooks, frame, todo, ran, switchFile, key,
    sigints,
    clock, live, stamps, permits, request, waitFrom, until, attempts,
    refreshed, token, header, posted, arrived, result,
    tick, memory, file, tmp, issuedAt, tokenLock, signing, read,
    issued, held, own, needless

approval == <<windows, wall, chain, asking, asked, matched, decision, readers,
              typed, box, replied, lines>>
stop == <<halted, first, stateLock, hooks, frame, todo, ran, switchFile, key,
          sigints>>
client == <<clock, live, stamps, permits, request, waitFrom, until, attempts,
            refreshed, token, header, posted, arrived, result>>
tokens == <<tick, memory, file, tmp, issuedAt, tokenLock, signing, read,
            issued, held, own, needless>>
vars == <<part, approval, stop, client, tokens>>

Providers == INSTANCE ApprovalProviders WITH
    MaxClock <- MaxHour, now <- wall, at <- asking, answered <- replied

Stopping == INSTANCE EmergencyStop WITH
    stopped <- halted, lock <- stateLock, at <- frame,
    killFile <- switchFile

Client == INSTANCE KisClient WITH
    Orders <- OrderCalls, MaxClock <- MaxTime, at <- request, waitUntil <- until, sent <- posted

Tokens == INSTANCE KisTokens WITH
    Threads <- Signers, Lifetime <- TokenLife, MaxClock <- MaxHour,
    clock <- tick, lock <- tokenLock, at <- signing, now <- read, new <- issued

-----------------------------------------------------------------------------
\* A chain of providers that does not run is built in one way only.
Init ==
    /\ part \in {"approval", "stop", "client", "tokens", "elsewhere"}
    /\ Providers!Init /\ Stopping!Init /\ Client!Init /\ Tokens!Init
    /\ part # "approval" => chain = CHOOSE c \in Chains : TRUE

Approval == part = "approval" /\ Providers!Next /\ UNCHANGED <<part, stop, client, tokens>>
Stop == part = "stop" /\ Stopping!Next /\ UNCHANGED <<part, approval, client, tokens>>
Broker == part = "client" /\ Client!Next /\ UNCHANGED <<part, approval, stop, tokens>>
Token == part = "tokens" /\ Tokens!Next /\ UNCHANGED <<part, approval, stop, client>>

Next == Approval \/ Stop \/ Broker \/ Token

Spec == Init /\ [][Next]_vars

-----------------------------------------------------------------------------
(* approval_preapproval.py, approval_cli.py, approval_composite.py: a       *)
(* window approves no more orders than it was opened for, only such as it   *)
(* covers, and a live order passes only with the operator's consent, however *)
(* executions, revocations and late answers interleave.                     *)
ApprovalsAreCovered == part = "approval" => Providers!ApprovalsAreCovered

(* risk/_state.py, kill_switch.py, shutdown.py: hooks run at most once and  *)
(* in order whoever asks for the stop, and whoever waits for its lock gets  *)
(* it, but for a SIGINT handler on top of the frame that holds it.          *)
OneStopForAll == part = "stop" => Stopping!OneStopForAll

(* What was decided is not taken back: once revoke has returned the window  *)
(* approves nothing more, not even an execution that had matched it before, *)
(* and the reason of the first stop request is never replaced by a later    *)
(* one, nor is the stop ever seen without its reason.                       *)
DecisionsStand == Providers!RevokedIsFinal /\ Stopping!FirstReasonStands

(* brokers/kis/client.py: threads share the rate, an order leaves at most   *)
(* once and is called accepted only if it arrived, with a token that is     *)
(* valid by the clock that was read.                                        *)
OrdersLeaveOnce == part = "client" => Client!OrdersLeaveOnce

(* brokers/kis_adapter.py: threads and processes that share a token file    *)
(* sign with a usable token of their own environment and issue no token     *)
(* that was not needed.                                                     *)
TokensAreShared == part = "tokens" => Tokens!TokensAreShared

-----------------------------------------------------------------------------
(* Small instances, for the configuration *)

\* One order on paper and a larger one for money.
PaperAndLive == [e \in Requests |-> [symbol |-> "A", quantity |-> e, live |-> e = 2]]
TwoLimits ==
    {[symbol |-> "A", quantity |-> 2, live |-> FALSE, orders |-> 2, seconds |-> 1],
     [symbol |-> None, quantity |-> 2, live |-> TRUE, orders |-> 1, seconds |-> 1]}
ThreeChains == {<<"pre", "cli">>, <<"auto", "human">>, <<"deny", "auto", "cli">>}

\* Two threads of the paper process, one of the other.
TwoAndOne == [t \in Signers |-> IF t = 3 THEN 2 ELSE 1]
PaperAndProd == [p \in Processes |-> IF p = 1 THEN "paper" ELSE "prod"]
=============================================================================
