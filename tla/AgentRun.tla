------------------------------ MODULE AgentRun ------------------------------
(* agent/_agent_runner.py, _mcp_client.py, _llm_client.py, prompts/_audit.py *)
(* and market_agent.py: one run of the market analyst, from the rendered    *)
(* prompts through the tools to the model's answer or the fallback, and     *)
(* what it leaves in the audit trail beside another process that writes.    *)
(*                                                                          *)
(* The audit trail (observability/audit_writer.py, audit_indexer.py,        *)
(* trace_context.py): one line of JSON for each event, in a file for each   *)
(* day, appended by several processes and searched by time or by trace.  A  *)
(* write stamps its event first and appends it later.  The writer's lock is *)
(* of its process only; what keeps the lines of two processes apart is that *)
(* open("a") and one write of the text hand the line, however long, to the  *)
(* system in one call.  A write that fails may leave part of a line, and    *)
(* the next append continues that line; the part may end within a character *)
(* (ensure_ascii is off), and then the file no longer decodes.              *)
EXTENDS Integers, Sequences, FiniteSets, FiniteSetsExt
CONSTANTS None, Writers, Days, DayLength, MaxLost

VARIABLES clock,    \* hours, as the writers read them
          files,    \* per day, the lines of its file
          writing,  \* per process, the event it has stamped and not appended
          told,     \* the events a write returned True for
          lost,     \* the writes that returned False
          torn,     \* of these, the ones that left part of a line
          cut       \* the days whose file has part of a character

trail == <<clock, files, writing, told, lost, torn, cut>>

MaxClock == Days * DayLength - 1
Torn == [kind |-> "torn"]
Garbage == [kind |-> "garbage"]    \* part of a line and the event after it

DayOf(t) == t \div DayLength + 1

\* TraceContext: a root span has no parent, child_span has its maker's.
Span(trace, id, parent) == [trace |-> trace, id |-> id, parent |-> parent]

Put(lines, line) ==
    IF lines # <<>> /\ lines[Len(lines)] = Torn
    THEN IF line = Torn THEN lines ELSE [lines EXCEPT ![Len(lines)] = Garbage]
    ELSE Append(lines, line)

TrailInit ==
    /\ clock = 0
    /\ files = [d \in 1 .. Days |-> <<>>]
    /\ writing = [w \in Writers |-> None]
    /\ told = {} /\ lost = 0 /\ torn = 0 /\ cut = {}

-----------------------------------------------------------------------------
\* write: the time is read when the event is made, and names the file.
FileFor(e) == DayOf(e.at)

Stamp(w, span, kind, note) ==
    /\ writing[w] = None
    /\ writing' = [writing EXCEPT ![w] = [span |-> span, kind |-> kind, note |-> note, at |-> clock]]
    /\ UNCHANGED <<clock, files, told, lost, torn, cut>>

Appended(w) ==
    LET e == writing[w]
        d == FileFor(e)
    IN  /\ e # None
        /\ files' = [files EXCEPT ![d] = Put(@, e)]
        /\ writing' = [writing EXCEPT ![w] = None]
        /\ told' = told \union {e}
        /\ UNCHANGED <<clock, lost, torn, cut>>

\* fail_silently: the disk refuses the line, or takes a part of it.
AppendFails(w) ==
    LET d == FileFor(writing[w])
    IN  /\ writing[w] # None /\ lost < MaxLost
        /\ \/ UNCHANGED <<files, torn, cut>>
           \/ /\ files' = [files EXCEPT ![d] = Put(@, Torn)]
              /\ torn' = torn + 1
              /\ cut' \in {cut, cut \union {d}}
        /\ writing' = [writing EXCEPT ![w] = None]
        /\ lost' = lost + 1
        /\ UNCHANGED <<clock, told>>

Hour == clock < MaxClock /\ clock' = clock + 1
        /\ UNCHANGED <<files, writing, told, lost, torn, cut>>

-----------------------------------------------------------------------------
\* list_files: the names between the two dates; _iter_events: what parses.
Listed(since, until) == {d \in 1 .. Days : DayOf(since) <= d /\ d <= DayOf(until)}

Events(d) == {files[d][i] : i \in {j \in DOMAIN files[d] : files[d][j] \notin {Torn, Garbage}}}

\* A file that does not decode: UnicodeDecodeError is no OSError and no
\* JSONDecodeError, so it ends the search and not this file's part of it.
Raises(since, until) == Listed(since, until) \intersect cut # {}

\* What a search gives unless it raises.
Search(since, until) ==
    {e \in UNION {Events(d) : d \in Listed(since, until)} : since <= e.at /\ e.at <= until}

FindByTrace(trace) == {e \in Search(0, MaxClock) : e.span.trace = trace}

\* build_trace_tree: under the earliest root, each span under its parent's; a
\* span's event is its first.  Without a root span there is no tree.
Earliest(E) == {e \in E : \A f \in E : e.at <= f.at}
ParentOf(E) == [s \in {e.span.id : e \in E} |-> (CHOOSE e \in E : e.span.id = s).span.parent]

Children(parentOf, tree) == {s \in DOMAIN parentOf : parentOf[s] \in tree}
Build(parentOf, root) ==
    FoldSet(LAMBDA n, tree : tree \union Children(parentOf, tree), {root}, DOMAIN parentOf)

Roots(E) == Earliest({e \in E : ParentOf(E)[e.span.id] = None})
TraceTree(trace) ==
    LET found == FindByTrace(trace)
    IN  IF Roots(found) = {} THEN {}
        ELSE Build(ParentOf(found), (CHOOSE e \in Roots(found) : TRUE).span.id)

\* trace_summary and list_traces: one summary for each trace that is found.
SummaryOf(E) ==
    [events |-> Cardinality(E), spans |-> Cardinality({e.span.id : e \in E}),
     start |-> (CHOOSE e \in Earliest(E) : TRUE).at,
     exceptions |-> \E e \in E : e.kind = "exception"]
ListTraces(since, until, onlyExceptions) ==
    LET found == Search(since, until)
        Of(t) == SummaryOf({e \in found : e.span.trace = t})
    IN  {<<t, Of(t)>> : t \in {u \in {e.span.trace : e \in found} :
                                onlyExceptions => Of(u).exceptions}}

-----------------------------------------------------------------------------
(* One run *)

CONSTANTS Tools,       \* the sequence in which the collector calls them
          MaxOthers    \* events of the other process

VARIABLES step,     \* what the run does next
          results,  \* the tools whose answers go to the model: tool and success
          called,   \* every tool call made, with its span and answer
          answer,   \* the model's: usable, or unusable (raised, not parsed, not valid)
          outcome,  \* the AgentRunResult
          spans,    \* child spans made
          others

agent == <<step, results, called, answer, outcome, spans, others>>
vars == <<trail, agent>>

Root == Span("run", 0, None)
Child(n) == Span("run", n, 0)

Init == /\ TrailInit
        /\ step = [at |-> "render", tool |-> 1]
        /\ results = <<>> /\ called = <<>> /\ answer = None /\ outcome = None
        /\ spans = 0 /\ others = 0

At(place) == step.at = place
Go(place) == step' = [step EXCEPT !.at = place]

\* A write of the agent begins: on the next child span, or on the same one.
Tell(span, kind, note, next) ==
    Stamp("agent", span, kind, note) /\ Go(next)

\* The agent goes on when its write is over, whatever write returned.
Free == writing["agent"] = None

-----------------------------------------------------------------------------
\* _run_impl: a prompt that does not render ends the run with an exception.
Render ==
    /\ At("render") /\ Free
    /\ Go("tools")
    /\ UNCHANGED <<trail, results, called, answer, outcome, spans, others>>

RenderFails ==
    /\ At("render") /\ Free
    /\ Tell(Root, "exception", [tool |-> None], "done")
    /\ outcome' = [success |-> FALSE, fallback |-> FALSE, tools |-> 0]
    /\ UNCHANGED <<results, called, answer, spans, others>>

\* _call: a child span, the call, the handler's answer, its result.
CallTool ==
    /\ At("tools") /\ Free /\ step.tool <= Len(Tools)
    /\ spans' = spans + 1
    /\ Tell(Child(spans + 1), "mcp_tool_call", [tool |-> Tools[step.tool]], "handler")
    /\ UNCHANGED <<results, called, answer, outcome, others>>

ToolAnswers ==
    /\ At("handler") /\ Free
    /\ \E ok \in BOOLEAN :
         Tell(Child(spans), "mcp_tool_result", [tool |-> Tools[step.tool], ok |-> ok], "collect")
         /\ called' = Append(called, [tool |-> Tools[step.tool], ok |-> ok, span |-> Child(spans)])
    /\ UNCHANGED <<results, answer, outcome, spans, others>>

ToolRaises ==
    /\ At("handler") /\ Free
    /\ Tell(Child(spans), "exception", [tool |-> Tools[step.tool]], "raised")
    /\ UNCHANGED <<results, called, answer, outcome, spans, others>>

ErrorAnswered ==
    /\ At("raised") /\ Free
    /\ Tell(Child(spans), "mcp_tool_result", [tool |-> Tools[step.tool], ok |-> FALSE], "collect")
    /\ called' = Append(called, [tool |-> Tools[step.tool], ok |-> FALSE, span |-> Child(spans)])
    /\ UNCHANGED <<results, answer, outcome, spans, others>>

\* _collect_market_tools: an answer is kept; one of get_rejection_summary only
\* when it succeeded and found something.
Kept(c) == c.tool # "get_rejection_summary" \/ c.ok
Collect ==
    /\ At("collect") /\ Free
    /\ LET c == called[Len(called)]
       IN  \/ Kept(c) /\ results' = Append(results, c)
           \/ c.tool = "get_rejection_summary" /\ UNCHANGED results
    /\ step' = [at |-> "tools", tool |-> step.tool + 1]
    /\ UNCHANGED <<trail, called, answer, outcome, spans, others>>

\* Both prompts, on a child span each.
Prompt ==
    /\ Free
    /\ \/ At("tools") /\ step.tool > Len(Tools)
          /\ Tell(Child(spans + 1), "agent_prompt", [template |-> "system"], "prompt")
       \/ At("prompt") /\ Tell(Child(spans + 1), "agent_prompt", [template |-> "user"], "invoke")
    /\ spans' = spans + 1
    /\ UNCHANGED <<results, called, answer, outcome, others>>

\* invoke, and the response as is_success judges it.
Invoke ==
    /\ At("invoke") /\ Free
    /\ answer' \in {"usable", "unusable"}
    /\ spans' = spans + 1
    /\ Tell(Child(spans + 1), "agent_response", [validated |-> answer' = "usable"], "decide")
    /\ UNCHANGED <<results, called, outcome, others>>

IsSuccessIfAny == answer # None
IsSuccess == answer = "usable"

\* A fallback that answers counts as a success of the run.
Decide ==
    /\ At("decide") /\ Free
    /\ \E built \in BOOLEAN :
         /\ IsSuccess => built
         /\ outcome' = [success |-> built, fallback |-> built /\ ~IsSuccess, tools |-> Len(results)]
         /\ Tell(Child(spans + 1), "agent_decision",
                 [fallback |-> built /\ ~IsSuccess, tools |-> Len(results)], "done")
    /\ spans' = spans + 1
    /\ UNCHANGED <<results, called, answer, others>>

Writes(w) == (Appended(w) \/ AppendFails(w)) /\ UNCHANGED agent

Other ==
    /\ others < MaxOthers /\ others' = others + 1
    /\ Stamp("other", Span("session", 0, None), "system_event", [number |-> others])
    /\ UNCHANGED <<step, results, called, answer, outcome, spans>>

Next ==
    \/ Render \/ RenderFails \/ CallTool \/ ToolAnswers \/ ToolRaises
    \/ ErrorAnswered \/ Collect \/ Prompt \/ Invoke \/ Decide \/ Other
    \/ \E w \in Writers : Writes(w)
    \/ Hour /\ UNCHANGED agent

Spec == Init /\ [][Next]_vars

-----------------------------------------------------------------------------
TypeOK ==
    /\ clock \in 0 .. MaxClock /\ torn <= lost /\ lost <= MaxLost
    /\ step.tool \in 1 .. Len(Tools) + 1
    /\ spans <= Len(Tools) + 4 /\ others <= MaxOthers
    /\ Len(results) <= Len(called)

(* What write acknowledged is found by its time and by its trace, across    *)
(* midnight and beside another writer, but for what torn lines take with    *)
(* them: each hides one acknowledged event at most or, cut within a         *)
(* character, fails every search of its day and every search by trace.      *)
AcknowledgedIsFound ==
    LET hidden == {e \in told : ~Raises(e.at, e.at) /\ e \notin Search(e.at, e.at)}
    IN  /\ Cardinality(hidden) + Cardinality(cut) <= torn
        /\ ~Raises(0, MaxClock) => \A e \in told \ hidden : e \in FindByTrace(e.span.trace)

Done == At("done") /\ Free

(* When every write succeeded, a run that is over can be told from the      *)
(* trail: whether it failed before it began, each tool it called and what   *)
(* that answered, and whether its answer is the model's or the fallback's.  *)
TrailTellsTheRun ==
    Done /\ lost = 0 =>
      LET found == FindByTrace("run")
          decisions == {e \in found : e.kind = "agent_decision"}
      IN  /\ (decisions = {}) <=> (\E e \in found : e.span = Root /\ e.kind = "exception")
          /\ \A e \in decisions :
               e.note.fallback = outcome.fallback /\ e.note.tools = outcome.tools
          /\ \A e \in found : e.kind = "agent_response" =>
               (e.note.validated <=> (outcome.success /\ ~outcome.fallback))
          /\ \A c \in {called[i] : i \in DOMAIN called} :
               \E e \in found : /\ e.span = c.span /\ e.kind = "mcp_tool_result"
                                /\ e.note = [tool |-> c.tool, ok |-> c.ok]
          /\ Cardinality({e \in found : e.kind = "mcp_tool_call"}) = Len(called)
          /\ outcome.tools <= Len(called)

(* When a run is over and its trail decodes, the views of it agree: the     *)
(* list of traces has the summary of every trace that is found, a part of   *)
(* the day never more than the whole, and the tree of a trace has spans of  *)
(* that trace only, all of the other process's one.  The agent writes on    *)
(* child spans of a run that has no event of its own unless a prompt fails: *)
(* a run that answered has no tree.                                         *)
ViewsAgree ==
    Done /\ ~Raises(0, MaxClock) =>
    LET whole == ListTraces(0, MaxClock, FALSE)
        Trees(t) == TraceTree(t)
    IN  /\ \A v \in whole : v[2] = SummaryOf(FindByTrace(v[1]))
        /\ \A e \in Search(0, MaxClock) : \E v \in whole : v[1] = e.span.trace
        /\ ListTraces(0, MaxClock, TRUE) \subseteq whole
        /\ \A part \in ListTraces(0, clock, FALSE) :
             \E v \in whole : /\ v[1] = part[1]
                              /\ part[2].events <= v[2].events /\ part[2].spans <= v[2].spans
        /\ \A v \in whole :
             /\ Trees(v[1]) \subseteq {e.span.id : e \in FindByTrace(v[1])}
             /\ v[1] = "session" => Trees("session") = {0}
             /\ v[1] = "run" => Trees("run") \subseteq {0}
        /\ outcome.success => Trees("run") = {}
=============================================================================
