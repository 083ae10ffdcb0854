-------------------------- MODULE ApprovalProviders ---------------------------
(***************************************************************************)
(* src/src/execution/approval*.py: the providers that the signal pipeline  *)
(* asks before it submits an order.  CompositeApprovalProvider tries them  *)
(* in order; a pre-approval window spends one of its orders; the terminal  *)
(* prompt starts a thread that calls input() and waits for it with a       *)
(* timeout.                                                                *)
(*                                                                         *)
(* A window is matched under the manager's lock and consumed under the     *)
(* same lock, taken a second time; the time was read before both.  A       *)
(* prompt that timed out leaves its reader thread behind: readers hold the *)
(* terminal one after the other, so the oldest takes the next line.        *)
(***************************************************************************)
EXTENDS Integers, Sequences, FiniteSets, Functions

CONSTANTS Requests,     \* executions that need an approval
          Ask,          \* Requests -> [symbol, quantity, live]
          Windows,      \* window identifiers
          Limits,       \* the limits add_window may be called with
          Chains,       \* the provider sequences a composite may be built with
          Pipelines,    \* how many executions may be under way at once
          MaxTyped,     \* bound: lines the operator types
          MaxClock,     \* bound on the clock
          None

VARIABLES windows,      \* Windows -> [limit, until, used, revoked] or None
          now,          \* the wall clock
          chain,        \* the providers of the composite
          at,           \* Requests -> index of the provider being asked, 0 before
          asked,        \* Requests -> the time its provider read
          matched,      \* Requests -> the window that was found
          decision,     \* Requests -> [approved, by]
          readers,      \* reader threads waiting for a line, oldest first
          typed,        \* lines typed and not read yet
          box,          \* Requests -> the line its reader received
          answered,     \* history: Requests with a line typed at their prompt
          lines         \* how many lines were typed

vars == <<windows, now, chain, at, asked, matched, decision, readers, typed,
          box, answered, lines>>
prompt == <<readers, typed, box, answered, lines>>

Undecided == [approved |-> FALSE, by |-> "nobody"]

TypeOK ==
    /\ \A w \in Windows : windows[w] # None =>
           /\ windows[w].limit \in Limits
           /\ windows[w].used \in 0 .. windows[w].limit.orders
    /\ \A e \in Requests :
           /\ at[e] \in 0 .. Len(chain)
           /\ matched[e] \in Windows \union {None}
           /\ decision[e].by \in
                  {"nobody", "composite", "pre_approval", "auto_approve", "deny_all", "cli_human"}

Init ==
    /\ windows = [w \in Windows |-> None]
    /\ now = 0
    /\ chain \in Chains
    /\ at = [e \in Requests |-> 0]
    /\ asked = [e \in Requests |-> 0]
    /\ matched = [e \in Requests |-> None]
    /\ decision = [e \in Requests |-> Undecided]
    /\ readers = <<>>
    /\ typed = <<>>
    /\ box = [e \in Requests |-> None]
    /\ answered = {}
    /\ lines = 0

Decided(e) == decision[e] # Undecided
Provider(e) == IF at[e] = 0 \/ Decided(e) THEN "none" ELSE chain[at[e]]
-----------------------------------------------------------------------------
(* CompositeApprovalProvider *)

\* request_approval is called: the first provider reads the clock.
Begin(e) ==
    /\ at[e] = 0
    /\ Cardinality({f \in Requests : at[f] > 0 /\ ~Decided(f)}) < Pipelines
    /\ at' = [at EXCEPT ![e] = 1]
    /\ asked' = [asked EXCEPT ![e] = now]
    /\ UNCHANGED <<windows, now, chain, matched, decision, prompt>>

Approved(e, by) == decision' = [decision EXCEPT ![e] = [approved |-> TRUE, by |-> by]]

\* A refusal, or an exception, hands the request to the next provider; after
\* the last one the composite refuses, in the name of the last that answered.
Refused(e, by) ==
    /\ matched' = [matched EXCEPT ![e] = None]
    /\ IF at[e] < Len(chain)
       THEN /\ at' = [at EXCEPT ![e] = @ + 1]
            /\ asked' = [asked EXCEPT ![e] = now]
            /\ UNCHANGED decision
       ELSE /\ decision' = [decision EXCEPT ![e] = [approved |-> FALSE, by |-> by]]
            /\ UNCHANGED <<at, asked>>

\* AutoApproveProvider never approves an order that would really be sent.
AutoApprove(e) ==
    /\ Provider(e) = "auto"
    /\ IF Ask[e].live
       THEN Refused(e, "auto_approve")
       ELSE Approved(e, "auto_approve") /\ UNCHANGED <<at, asked, matched>>
    /\ UNCHANGED <<windows, now, chain, prompt>>

DenyAll(e) ==
    /\ Provider(e) = "deny"
    /\ Refused(e, "deny_all")
    /\ UNCHANGED <<windows, now, chain, prompt>>

\* HumanApprovalProvider is not implemented: it raises.
Raises(e) ==
    /\ Provider(e) = "human"
    /\ Refused(e, "composite")
    /\ UNCHANGED <<windows, now, chain, prompt>>
-----------------------------------------------------------------------------
(* PreApprovalManager and PreApprovalProvider *)

AddWindow(w, limit) ==
    /\ windows[w] = None
    /\ windows' = [windows EXCEPT ![w] = [limit |-> limit, until |-> now + limit.seconds,
                                          used |-> 0, revoked |-> FALSE]]
    /\ UNCHANGED <<now, chain, at, asked, matched, decision, prompt>>

Open == {w \in Windows : windows[w] # None}

\* revoke(w), or revoke_all for all of them.
Revoke(W) ==
    /\ W # {} /\ \E w \in W : ~windows[w].revoked
    /\ windows' = [w \in Windows |->
                      IF w \in W THEN [windows[w] EXCEPT !.revoked = TRUE] ELSE windows[w]]
    /\ UNCHANGED <<now, chain, at, asked, matched, decision, prompt>>

Matches(w, e) ==
    /\ ~windows[w].revoked
    /\ asked[e] < windows[w].until
    /\ windows[w].used < windows[w].limit.orders
    /\ windows[w].limit.symbol \in {None, Ask[e].symbol}
    /\ Ask[e].quantity <= windows[w].limit.quantity
    /\ Ask[e].live => windows[w].limit.live

\* A window for one symbol goes before a window for any.
Specificity(w) == IF windows[w].limit.symbol = None THEN 0 ELSE 4

FindMatchingWindow(e) ==
    /\ Provider(e) = "pre" /\ matched[e] = None
    /\ LET candidates == {w \in Open : Matches(w, e)} IN
       \/ /\ candidates = {}
          /\ Refused(e, "pre_approval")
       \/ /\ \E w \in candidates :
                /\ \A v \in candidates : Specificity(v) <= Specificity(w)
                /\ matched' = [matched EXCEPT ![e] = w]
          /\ UNCHANGED <<at, asked, decision>>
    /\ UNCHANGED <<windows, now, chain, prompt>>

\* Mutant: what was found is spent without a second look.
SpendableIfOpen(w) == windows[w] # None

Spendable(w) == ~windows[w].revoked /\ windows[w].used < windows[w].limit.orders

Consume(e) ==
    /\ Provider(e) = "pre" /\ matched[e] # None
    /\ LET w == matched[e] IN
       \/ /\ Spendable(w)
          /\ windows' = [windows EXCEPT ![w].used = @ + 1]
          /\ Approved(e, "pre_approval")
          /\ UNCHANGED <<at, asked, matched>>
       \/ /\ ~Spendable(w)
          /\ Refused(e, "pre_approval")
          /\ UNCHANGED windows
    /\ UNCHANGED <<now, chain, prompt>>
-----------------------------------------------------------------------------
(* CLIApprovalProvider *)

Prompting(e) == Provider(e) = "cli" /\ (e \in Range(readers) \/ box[e] # None)
Fresh(e) == Provider(e) = "cli" /\ ~Prompting(e)

\* The request is shown, and a daemon thread calls input().
ShowPrompt(e) ==
    /\ Fresh(e)
    /\ readers' = Append(readers, e)
    /\ UNCHANGED <<windows, now, chain, at, asked, matched, decision, typed, box,
                   answered, lines>>

\* External: the operator types a line, at a prompt or ahead of one.
TypeLine(says) ==
    /\ lines < MaxTyped
    /\ lines' = lines + 1
    /\ typed' = Append(typed, says)
    /\ answered' = answered \union {e \in Requests : Prompting(e)}
    /\ UNCHANGED <<windows, now, chain, at, asked, matched, decision, readers, box>>

\* The oldest reader gets the line, and puts it into the box of its own call.
ReaderTakes ==
    /\ readers # <<>> /\ typed # <<>>
    /\ box' = [box EXCEPT ![Head(readers)] = Head(typed)]
    /\ readers' = Tail(readers)
    /\ typed' = Tail(typed)
    /\ UNCHANGED <<windows, now, chain, at, asked, matched, decision, answered, lines>>

\* _classify_response with require_explicit_yes: no shortcut, no empty line.
SaysYes(line) == line = "approve"

Classify(e) ==
    /\ Provider(e) = "cli" /\ box[e] # None
    /\ \/ /\ SaysYes(box[e])
          /\ Approved(e, "cli_human")
          /\ UNCHANGED <<at, asked, matched>>
       \/ /\ ~SaysYes(box[e])
          /\ Refused(e, "cli_human")
    /\ UNCHANGED <<windows, now, chain, prompt>>

\* join(timeout) ends with the reader still alive, or Ctrl-C ends it: the
\* request is refused and the reader stays.
GivesUp(e) ==
    /\ Provider(e) = "cli" /\ box[e] = None /\ e \in Range(readers)
    /\ Refused(e, "cli_human")
    /\ UNCHANGED <<windows, now, chain, prompt>>

Tick ==
    /\ now < MaxClock
    /\ now' = now + 1
    /\ UNCHANGED <<windows, chain, at, asked, matched, decision, prompt>>

Next ==
    \/ \E e \in Requests :
          \/ Begin(e) \/ AutoApprove(e) \/ DenyAll(e) \/ Raises(e)
          \/ FindMatchingWindow(e) \/ Consume(e)
          \/ ShowPrompt(e) \/ Classify(e) \/ GivesUp(e)
    \/ \E w \in Windows, limit \in Limits : AddWindow(w, limit)
    \/ \E w \in Open : Revoke({w})
    \/ Revoke(Open)
    \/ \E says \in {"approve", "ok", "no"} : TypeLine(says)
    \/ ReaderTakes
    \/ Tick

Spec == Init /\ [][Next]_vars
-----------------------------------------------------------------------------
(* What must hold *)

ApprovedBy(w) ==
    {e \in Requests : decision[e].approved /\ decision[e].by = "pre_approval" /\ matched[e] = w}

\* A window approves as many orders as it was opened for and counts each of
\* them, however many executions matched it at the same time.
QuotaHolds ==
    \A w \in Open :
        /\ windows[w].used = Cardinality(ApprovedBy(w))
        /\ windows[w].used <= windows[w].limit.orders

\* What a window approved is what the operator opened it for: the symbol, the
\* size and the environment; the order was asked for before the window ended.
WindowCovers ==
    \A w \in Open : \A e \in ApprovedBy(w) :
        /\ windows[w].limit.symbol \in {None, Ask[e].symbol}
        /\ Ask[e].quantity <= windows[w].limit.quantity
        /\ Ask[e].live => windows[w].limit.live
        /\ asked[e] < windows[w].until

\* Once revoke has returned, the window approves nothing more, not even an
\* execution that had matched it before.
RevokedIsFinal ==
    [][\A w \in Open : windows[w].revoked => windows'[w].used = windows[w].used]_vars

\* A live order passes only by a window opened for live orders or by a line of
\* the operator that says so in full.
LiveNeedsConsent ==
    \A e \in Requests :
        Ask[e].live /\ decision[e].approved =>
            \/ decision[e].by = "cli_human" /\ box[e] = "approve"
            \/ decision[e].by = "pre_approval" /\ windows[matched[e]].limit.live

\* What an approval stands on, whoever gave it.
ApprovalsAreCovered == TypeOK /\ QuotaHolds /\ WindowCovers /\ LiveNeedsConsent
=============================================================================
