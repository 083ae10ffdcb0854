---------------------------- MODULE AgentReports ----------------------------
(* agent/risk_agent.py and pnl_agent.py: what the two explaining agents     *)
(* compute from the answers of their tools when the model gives no usable   *)
(* answer: breaches, severities and suggested actions; the parts of profit  *)
(* and loss and what is attributed to strategies and symbols.  Money is in  *)
(* tenths of a won, and reports round it to the won.                        *)
EXTENDS Integers, Sequences, SequencesExt, FiniteSetsExt, Decimals

Levels == <<"info", "low", "medium", "high", "critical">>
Rank(level) == CHOOSE i \in DOMAIN Levels : Levels[i] = level

MaxCandidates == 5

Routes == [position_limit_breach |-> <<"request_flatten_position", "request_cancel_order">>,
           exposure_limit_breach |-> <<"request_flatten_position", "request_strategy_pause">>,
           drawdown_breach |-> <<"request_kill_switch_engage", "request_strategy_pause">>,
           concentration_breach |-> <<"request_flatten_position", "request_capacity_reduce">>,
           rejection_spike |-> <<"request_strategy_pause", "request_capacity_reduce">>,
           var_breach |-> <<"request_capacity_reduce", "request_strategy_pause">>]
Chain(type) == IF type \in DOMAIN Routes THEN Routes[type] ELSE <<>>

\* _classify_breach: a ratio in tenths of the limit.
Classify(ratio) ==
    CASE ratio >= 20 -> "critical" [] ratio >= 15 -> "high" [] ratio >= 12 -> "medium"
      [] ratio >= 10 -> "low" [] OTHER -> "info"

\* _extract_breaches_from_tools: those the portfolio tool names, then the
\* orders that were rejected for a limit.
Breaches(portfolio, rejected) ==
    [i \in DOMAIN portfolio |->
       [type |-> portfolio[i].type,
        severity |-> IF portfolio[i].severity # "none" THEN portfolio[i].severity
                     ELSE Classify(portfolio[i].ratio)]]
    \o [i \in DOMAIN rejected |-> [type |-> rejected[i], severity |-> "medium"]]

\* sorted(..., reverse=True) keeps the order of equals.
WorstFirst(breaches) ==
    FlattenSeq([i \in 1 .. Len(Levels) |->
      SelectSeq(breaches, LAMBDA b : Rank(b.severity) = Len(Levels) + 1 - i)])

ToolsOf(candidates) == {candidates[i].tool : i \in DOMAIN candidates}

\* ActionCandidate: a suggestion, which a person approves and executes.
Candidate(tool, severity) == [tool |-> tool, severity |-> severity, executed |-> FALSE]

\* One breach adds the tools of its chain that are not suggested yet.
Suggest(candidates, breach) ==
    FoldLeft(LAMBDA c, tool :
               IF tool \in ToolsOf(c) \/ Len(c) >= MaxCandidates THEN c
               ELSE Append(c, Candidate(tool, breach.severity)),
             candidates, Chain(breach.type))

SpikeSeverity(rejections) == IF rejections > 20 THEN "high" ELSE "medium"

\* _build_action_candidates
Routed(breaches) == FoldLeft(Suggest, <<>>, WorstFirst(breaches))
Candidates(breaches, rejections) ==
    LET routed == Routed(breaches)
    IN  IF /\ rejections > 5 /\ "request_strategy_pause" \notin ToolsOf(routed)
           /\ Len(routed) < MaxCandidates
        THEN Append(routed, Candidate("request_strategy_pause", SpikeSeverity(rejections)))
        ELSE routed

\* _build_risk_fallback with _max_severity
Overall(breaches, rejections) ==
    Levels[Max({1} \union {Rank(breaches[i].severity) : i \in DOMAIN breaches}
               \union (IF rejections > 5 THEN {Rank(SpikeSeverity(rejections))} ELSE {}))]

\* _extract_candidates and ActionCandidate.__post_init__: of what a payload
\* suggests, only known tools with a known severity among the first ones; what
\* it claims was executed is overwritten.
Suggestable == {"request_cancel_order", "request_flatten_position", "request_strategy_pause",
                "request_capacity_reduce", "request_kill_switch_engage"}
ExtractCandidates(items) ==
    LET valid == SelectSeq(SubSeq(items, 1, Min({MaxCandidates, Len(items)})),
                           LAMBDA c : c.tool \in Suggestable /\ c.severity \in Range(Levels))
    IN  [i \in DOMAIN valid |-> Candidate(valid[i].tool, valid[i].severity)]

\* _collect_risk_tools and _collect_pnl_tools: a result for each tool, in
\* order; a call that raises is a result that failed.
RiskTools == <<"get_market_status", "get_portfolio_risk", "get_rejection_summary",
               "get_positions", "get_pnl_snapshot">>
PnlTools == <<"get_market_status", "get_pnl_snapshot", "get_recent_fills", "get_positions",
              "get_strategy_registry">>
Collect(tools, answers) ==
    [i \in DOMAIN tools |->
       IF tools[i] \in DOMAIN answers
       THEN [tool |-> tools[i], success |-> TRUE, data |-> answers[tools[i]]]
       ELSE [tool |-> tools[i], success |-> FALSE]]
Told(results, tool, nothing) ==
    LET of == SelectSeq(results, LAMBDA r : r.tool = tool /\ r.success)
    IN  IF of = <<>> THEN nothing ELSE Last(of).data

\* _build_risk_fallback, and the report explain_risk makes of a payload.  The
\* summary speaks of the first breach, of the rejections or of neither.
RiskFallback(results) ==
    LET summary == Told(results, "get_rejection_summary", [rejected |-> <<>>, count |-> 0])
        breaches == Breaches(Told(results, "get_portfolio_risk", <<>>), summary.rejected)
    IN  [overall |-> Overall(breaches, summary.count), breaches |-> Len(breaches),
         rejections |-> summary.count,
         summary |-> IF breaches # <<>> THEN breaches[1].severity
                     ELSE IF summary.count > 5 THEN "rejections" ELSE "normal",
         candidates |-> Candidates(breaches, summary.count)]
Field(payload, name, default) == IF name \in DOMAIN payload THEN payload[name] ELSE default
RiskReport(payload) ==
    [overall |-> Field(payload, "overall", "info"), breaches |-> Field(payload, "breaches", 0),
     rejections |-> Field(payload, "rejections", 0),
     summary |-> Field(payload, "summary", "none"),
     candidates |-> ExtractCandidates(Field(payload, "candidates", <<>>))]

-----------------------------------------------------------------------------
\* _extract_decomposition: the snapshot's slippage, unless it is absent or 0.
FillCost(fill) ==
    IF 0 \in {fill.arrival, fill.price, fill.qty} THEN 0
    ELSE IF fill.side = "buy" THEN (fill.price - fill.arrival) * fill.qty
         ELSE (fill.arrival - fill.price) * fill.qty
Slippage(snapshot, fills) ==
    LET computed == FoldLeft(LAMBDA a, f : a + FillCost(f), 0, fills)
    IN  IF snapshot.slippage = 0 /\ computed # 0 THEN computed ELSE snapshot.slippage

Won(x) == RoundHalfEven(x, 10)
Decomposition(snapshot, fills) ==
    LET slip == Slippage(snapshot, fills)
        gross == snapshot.realized + snapshot.unrealized
    IN  [realized |-> Won(snapshot.realized), unrealized |-> Won(snapshot.unrealized),
         fees |-> Won(snapshot.fees), slippage |-> Won(slip), gross |-> Won(gross),
         net |-> Won(gross - snapshot.fees - slip)]

\* _build_attribution and _finalize_attribution, before the rows are cut: each
\* fill and each position goes to the bucket that key names.
Rows(entries, key) ==
    LET Of(k) == SelectSeq(entries, LAMBDA e : e[key] = k)
        SumOf(k) == FoldLeft(LAMBDA a, e : a + e.amount, 0, Of(k))
    IN  [k \in {entries[i][key] : i \in DOMAIN entries} |->
           [net |-> Won(SumOf(k)),
            trades |-> Len(SelectSeq(Of(k), LAMBDA e : e.fill /\ e.amount # 0))]]
ByStrategy(entries) == Rows(entries, "strategy")
BySymbol(entries) == Rows(entries, "symbol")

\* _classify_materiality and _finalize_attribution: the biggest movers first,
\* equals in the order of their first entry, and no more than max of them.
Magnitude(x) == IF x < 0 THEN - x ELSE x
Material(tenths) ==
    LET m == Magnitude(tenths)
    IN  CASE m >= 10000000 -> "high" [] m >= 1000000 /\ m < 10000000 -> "medium"
          [] m >= 100000 /\ m < 1000000 -> "low" [] OTHER -> "info"
Class(m) == CHOOSE i \in 1 .. 4 : <<"info", "low", "medium", "high">>[i] = m
InOrder(entries, key) ==
    FoldLeft(LAMBDA ks, e : IF e[key] \in Range(ks) THEN ks ELSE Append(ks, e[key]), <<>>, entries)
Finalized(entries, key, max) ==
    LET keys == InOrder(entries, key)
        NetOf(k) == FoldLeft(LAMBDA a, e : IF e[key] = k THEN a + e.amount ELSE a, 0, entries)
        rows == [i \in DOMAIN keys |->
                   [key |-> keys[i], net |-> Won(NetOf(keys[i])), materiality |-> Material(NetOf(keys[i]))]]
        sorted == SortSeq(rows, LAMBDA a, b : Magnitude(a.net) > Magnitude(b.net))
    IN  SubSeq(sorted, 1, Min({max, Len(sorted)}))

\* _extract_attribution_rows: rows without a key are dropped after the cut.
ExtractRows(items, max) ==
    SelectSeq(SubSeq(items, 1, Min({max, Len(items)})), LAMBDA r : r.key # "")

\* _mask_order_id: an id is its letters that are shown, and dots if it was cut.
MaskLength == 8
Mask(id) == IF id.shown + (IF id.dots THEN 3 ELSE 0) <= MaskLength THEN id
            ELSE [shown |-> Min({MaskLength, id.shown}), dots |-> TRUE]

\* _extract_notable_events, here and again when the payload is read.
MaxEvents == 10
Events(items) ==
    LET first == SubSeq(items, 1, Min({MaxEvents, Len(items)}))
    IN  [i \in DOMAIN first |-> [impact |-> first[i].impact, order |-> Mask(first[i].order)]]

\* _build_pnl_fallback, and _build_report of a payload.
MaxStrategyRows == 10
MaxSymbolRows == 15
NoSnapshot == [realized |-> 0, unrealized |-> 0, fees |-> 0, slippage |-> 0, events |-> <<>>]
Explained(d, strategies, symbols, events) ==
    [materiality |-> Material(10 * d.net),
     direction |-> IF d.net > 0 THEN "profit" ELSE IF d.net < 0 THEN "loss" ELSE "flat",
     top |-> IF strategies = <<>> THEN "none" ELSE strategies[1].key,
     decomposition |-> d, strategies |-> strategies, symbols |-> symbols, events |-> events]
PnlFallback(results) ==
    LET snapshot == Told(results, "get_pnl_snapshot", NoSnapshot)
        fills == Told(results, "get_recent_fills", <<>>)
        entries == fills \o Told(results, "get_positions", <<>>)
    IN  Explained(Decomposition(snapshot, fills),
                  Finalized(entries, "strategy", MaxStrategyRows),
                  Finalized(entries, "symbol", MaxSymbolRows), Events(snapshot.events))
PnlReport(payload) ==
    [materiality |-> Field(payload, "materiality", "info"),
     decomposition |-> Field(payload, "decomposition", Decomposition(NoSnapshot, <<>>)),
     strategies |-> ExtractRows(Field(payload, "strategies", <<>>), MaxStrategyRows),
     symbols |-> ExtractRows(Field(payload, "symbols", <<>>), MaxSymbolRows),
     events |-> Events(Field(payload, "events", <<>>))]

\* market_agent.py: _collect_market_tools and _build_market_fallback; a
\* rejection summary is kept only when there were rejections.
MarketTools == <<"get_market_status", "get_positions", "get_pnl_snapshot",
                 "get_rejection_summary", "get_strategy_registry">>
CollectMarket(answers) ==
    LET all == [i \in DOMAIN MarketTools |-> [tool |-> MarketTools[i]] @@ answers[i]]
    IN  SelectSeq(all, LAMBDA r : r.tool = "get_rejection_summary" => r.success /\ r.count > 0)
MarketFindings(results) ==
    LET told == SelectSeq(results, LAMBDA r : ~r.success \/ r.tool # "get_rejection_summary" \/ r.count > 0)
    IN  [i \in DOMAIN told |-> [source |-> told[i].tool,
                               confidence |-> IF told[i].success THEN "high" ELSE "low"]]

-----------------------------------------------------------------------------
(* Each tool is suggested at most once, for the worst of the breaches that  *)
(* lead to it, and nothing is suggested as more severe than the report.     *)
WorstBreachDecides(breaches, rejections) ==
    LET c == Candidates(breaches, rejections)
    IN  /\ IsInjective([i \in DOMAIN c |-> c[i].tool])
        /\ \A i \in DOMAIN c :
             LET causes == {b \in {breaches[j] : j \in DOMAIN breaches} :
                              \E k \in DOMAIN Chain(b.type) : Chain(b.type)[k] = c[i].tool}
             IN  /\ causes # {} =>
                      Rank(c[i].severity) = Max({Rank(b.severity) : b \in causes})
                 /\ causes = {} => rejections > 5
                 /\ Rank(c[i].severity) <= Rank(Overall(breaches, rejections))

(* What the fallback suggests passes the filter for what a model suggests,  *)
(* and of a payload that begins with it nothing is lost to what follows;    *)
(* no payload makes the agent suggest another tool or too many.             *)
CandidatesSurvive(breaches, rejections, more) ==
    LET own == Candidates(breaches, rejections)
        read == ExtractCandidates(own \o more)
    IN  /\ ExtractCandidates(own) = own /\ IsPrefix(own, read)
        /\ ToolsOf(read) \subseteq Suggestable /\ Len(read) <= MaxCandidates
        /\ \A c \in Range(read) : ~c.executed

(* The report shows what the fallback found.  A tool that fails hides what  *)
(* it knew and makes nothing up: no report with more failures is more       *)
(* severe, counts more or suggests another action; and only where no answer *)
(* tells of a breach or of many rejections is all normal.                   *)
FailuresOnlyHide(answers) ==
    LET ReportOf(a) == RiskReport(RiskFallback(Collect(RiskTools, a)))
        full == ReportOf(answers)
    IN  /\ \A field \in DOMAIN full :
             full[field] = RiskFallback(Collect(RiskTools, answers))[field]
        /\ (full.summary = "normal") <=> full.candidates = <<>> /\ full.breaches = 0
        /\ \A failed \in DOMAIN answers :
             LET less == ReportOf([t \in DOMAIN answers \ {failed} |-> answers[t]])
             IN  /\ Rank(less.overall) <= Rank(full.overall) /\ less.breaches <= full.breaches
                 /\ ToolsOf(less.candidates) \subseteq ToolsOf(full.candidates)

\* What ProfitIsReported says of a payload, and of those with a tool that failed.
PayloadOf(answers) == PnlFallback(Collect(PnlTools, answers))
PayloadIsShown(payload, report, answers) ==
    LET named == Range(answers["get_recent_fills"]) \union Range(answers["get_positions"])
        ids == answers["get_pnl_snapshot"].events
    IN  /\ \A field \in DOMAIN report : report[field] = payload[field]
        /\ {r.key : r \in Range(report.strategies)} = {e.strategy : e \in named}
        /\ {r.key : r \in Range(report.symbols)} = {e.symbol : e \in named}
        /\ \A i \in DOMAIN report.events :
             LET shown == ids[i].order.shown
             IN  report.events[i].order = [shown |-> Min({MaskLength, shown}), dots |-> shown > MaskLength]
        /\ payload.direction = "flat" => report.materiality = "info"
        /\ \A r \in Range(report.strategies) :
             /\ Magnitude(r.net) <= Magnitude(report.strategies[1].net)
             /\ Magnitude(r.net) <= Magnitude(report.decomposition.net) =>
                  Class(r.materiality) <= Class(report.materiality)
RestIsAsItWas(payload, without) ==
    /\ without["get_positions"].decomposition = payload.decomposition
    /\ without["get_pnl_snapshot"].strategies = payload.strategies
    /\ without["get_recent_fills"].events = payload.events
    /\ LET d == payload.decomposition
           r == without["get_recent_fills"].decomposition
       IN  r = [d EXCEPT !.slippage = r.slippage, !.net = r.net]

(* The report shows what the fallback computed: every strategy and symbol   *)
(* that an answer names, the one that moved most first, orders masked once  *)
(* and only as far as needed, a class that is not below the class of what   *)
(* moved less; and with a tool that failed the rest of it is as it was.     *)
ProfitIsReported(answers) ==
    \A payload \in {PayloadOf(answers)} :
        /\ PayloadIsShown(payload, PnlReport(payload), answers)
        /\ RestIsAsItWas(payload, [failed \in DOMAIN answers |->
                                     PayloadOf([t \in DOMAIN answers \ {failed} |-> answers[t]])])

(* The rows shown are the biggest movers: none that was cut moved more, and *)
(* the same rows come out when the fallback's payload is read back; a row   *)
(* that is shown as more is not called less material.                       *)
BiggestMoversShown(entries, max) ==
    LET rows == Finalized(entries, "symbol", max)
        all == BySymbol(entries)
        shown == {r.key : r \in Range(rows)}
    IN  /\ ExtractRows(rows, max) = rows /\ Len(rows) = Min({max, Cardinality(DOMAIN all)})
        /\ \A r \in Range(rows) : all[r.key].net = r.net
        /\ \A k \in DOMAIN all \ shown : \A r \in Range(rows) : Magnitude(r.net) >= Magnitude(all[k].net)
        /\ \A i, j \in DOMAIN rows :
             Magnitude(rows[i].net) > Magnitude(rows[j].net) =>
               Class(rows[i].materiality) >= Class(rows[j].materiality)

(* Whatever tools fail, each answer the market agent collected is told once *)
(* in its fallback, in order, and only those that failed as uncertain.      *)
EveryAnswerIsTold(answers) ==
    LET results == CollectMarket(answers)
        findings == MarketFindings(results)
    IN  /\ Len(findings) = Len(results)
        /\ \A i \in DOMAIN findings : /\ findings[i].source = results[i].tool
                                     /\ (findings[i].confidence = "low") <=> ~results[i].success

(* The parts shown add up to the net within the won lost in rounding them,  *)
(* and strategies and symbols account for the same total.                   *)
PartsAddUp(snapshot, fills) ==
    LET d == Decomposition(snapshot, fills)
        off == d.net - (d.realized + d.unrealized - d.fees - d.slippage)
    IN  off \in -2 .. 2

SameTotal(entries) ==
    LET Total(rows) == MapThenSumSet(LAMBDA k : rows[k].net, DOMAIN rows)
        Trades(rows) == MapThenSumSet(LAMBDA k : rows[k].trades, DOMAIN rows)
        off == Total(ByStrategy(entries)) - Total(BySymbol(entries))
        rows == Cardinality(DOMAIN ByStrategy(entries)) + Cardinality(DOMAIN BySymbol(entries))
    IN  /\ 2 * off \in -rows .. rows
        /\ Trades(ByStrategy(entries)) = Trades(BySymbol(entries))
=============================================================================
