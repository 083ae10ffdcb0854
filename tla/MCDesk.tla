------------------------------- MODULE MCDesk -------------------------------
(* The order path, and what the desk keeps and computes beside it: what an  *)
(* agent's run leaves behind, the stored market data, the shared prompts    *)
(* and the pure computations, on small instances.  An execution runs the    *)
(* part of the order path that part names or, elsewhere, what beside names; *)
(* the others stay as they were built.                                      *)
EXTENDS MCOrderPath
CONSTANTS
    Writers, Days, DayLength, MaxLost, Tools, MaxOthers,                  \* AgentRun
    Savers, MasterOf, Code, Ranges, Base, Change, Pressure, Volume,
    Captures, MaxAge, MaxMoment,                                          \* MarketData
    Readers, MaxEdition, MaxMade,                                         \* PromptCache
    MaxPerOrder, MinPerOrder, MaxPctOfEquity, MaxIterations               \* MCAlgorithms

VARIABLES beside,
          hour, files, writing, told, lost, torn, cut, step, results, called,
          answer, outcome, spans, others,
          table, saver, master, bars, quotes, depth, late, moment,
          edition, registry, made, resets, cached, promptLock, caller, using, loaded,
          forgotten, flying,
          call

run == <<hour, files, writing, told, lost, torn, cut, step, results, called,
         answer, outcome, spans, others>>
data == <<table, saver, master, bars, quotes, depth, late, moment>>
prompts == <<edition, registry, made, resets, cached, promptLock, caller, using, loaded,
             forgotten, flying>>
desk == <<beside, run, data, prompts, call>>

Analyst == INSTANCE AgentRun WITH clock <- hour

Data == INSTANCE MarketData WITH MaxClock <- MaxMoment, now <- moment

Shared == INSTANCE PromptCache WITH
    Threads <- Readers, cache <- cached, lock <- promptLock, thread <- caller

Calls == INSTANCE MCAlgorithms

DeskInit ==
    /\ Init
    /\ beside \in IF part = "elsewhere" THEN {"agent", "data", "prompts", "calls"}
                                       ELSE {"nothing"}
    /\ Analyst!Init /\ Data!Init /\ Shared!Init /\ Calls!Init

OrderPath == Next /\ UNCHANGED desk
Agent == beside = "agent" /\ Analyst!Next /\ UNCHANGED <<vars, beside, data, prompts, call>>
Market == beside = "data" /\ Data!Next /\ UNCHANGED <<vars, beside, run, prompts, call>>
Prompt == beside = "prompts" /\ Shared!Next /\ UNCHANGED <<vars, beside, run, data, call>>
Compute == beside = "calls" /\ Calls!Next /\ UNCHANGED <<vars, beside, run, data, prompts>>

DeskNext == OrderPath \/ Agent \/ Market \/ Prompt \/ Compute

DeskSpec == DeskInit /\ [][DeskNext]_<<vars, desk>>

-----------------------------------------------------------------------------
(* observability and agent/: an event whose write was acknowledged is found *)
(* by its time and its trace, the trail of a run tells the tools it called, *)
(* what they answered and whose answer it gave; the threads share one       *)
(* registry of prompts, which after clear_cache gives the file as it was    *)
(* then or later, unless a thread had read it before.                       *)
TrailIsComplete ==
    /\ beside = "agent" => /\ Analyst!TypeOK
                         /\ Analyst!AcknowledgedIsFound /\ Analyst!TrailTellsTheRun
                         /\ Analyst!ViewsAgree
    /\ beside = "prompts" => /\ Shared!TypeOK
                           /\ Shared!ClearedIsReadAgain /\ Shared!RegistryIsShared

(* data/: a load of the symbol master never mixes masters that share a code, *)
(* bars add up and show their gaps whatever was ingested over what, a quote *)
(* that is fresh is found, and two calendars, a tool and the dashboard that *)
(* are kept apart agree on the hours wherever their files do.               *)
DataIsHonest ==
    /\ beside = "data" => /\ Data!TypeOK
                        /\ Data!MasterIsWhole /\ Data!BarsAddUp /\ Data!FreshQuotesAreFound
    /\ beside = "calls" => Calls!CalendarsTellTheHours

(* execution/sizing.py, tick_size.py, strategies/capital_allocator.py: an   *)
(* order is on the tick on the right side of its price and as large as, but *)
(* no larger than, the limits of one order allow (what was used today is    *)
(* not among them); capital split among strategies stays within each one's  *)
(* cap and is not left over while one has room.                             *)
OrdersAndCapitalFit == beside = "calls" => Calls!OrdersAndCapitalFit

(* risk/portfolio_risk.py, capacity_advisor.py, agent/risk_agent.py,        *)
(* market_agent.py and pnl_agent.py: what is said of a portfolio, a day or  *)
(* a breach agrees with the other things said of it, and a worse day never  *)
(* earns a better answer.                                                   *)
RiskAnswersAgree == beside = "calls" => Calls!RiskAnswersAgree

(* signals/: a cycle lets through no expired, doubled or contradictory      *)
(* signal and gives capital by priority, and the strategy asks only for     *)
(* what an indicator asks for.                                              *)
SignalsAreSound == beside = "calls" => Calls!SignalsAreSound

-----------------------------------------------------------------------------
(* Small instances, for the configuration *)

TwoTools == <<"get_positions", "get_rejection_summary">>

\* Two masters that share a code and differ in its status, and one that shares
\* none with the first.
Row(code, status) == [code |-> code, status |-> status]
ThreeMasters == <<{Row("A", "active"), Row("B", "halted")}, {Row("A", "halted"), Row("C", "active")},
                  {Row("C", "halted")}>>
FourRanges == {<<1, 2>>, <<2, 3>>, <<4, 4>>, <<1, 4>>}
UpDownUp == <<1, -1, 0, 1>>
Pressures == <<100, 0, 33, 50>>
=============================================================================
