---------------------------- MODULE MCAlgorithms ----------------------------
(* The pure computations on bounded inputs.  A state is one call: what is   *)
(* called and with what; its answer is an operator of the component.        *)
EXTENDS Integers, Sequences, FiniteSets, TLC
CONSTANTS MaxPerOrder, MinPerOrder, MaxPctOfEquity,   \* OrderSizing
          MaxIterations                               \* StrategyRegistry
VARIABLE call

Sizing == INSTANCE OrderSizing

Portfolio == INSTANCE PortfolioRisk WITH
    Symbols <- {"A", "B", "C", "E"},
    SectorOf <- [s \in {"A", "B", "C", "E"} |->
                   CASE s \in {"A", "B"} -> "tech" [] s = "C" -> "unknown" [] s = "E" -> "etf"],
    TotalLimit <- 8000, SectorLimit <- 4000, SymbolLimit <- 2000, OrderLimit <- 1000,
    MinSectors <- 2

Allocator == INSTANCE StrategyRegistry WITH SecretKeys <- {}

Capacity == INSTANCE CapacityLadder WITH
    Ladder <- <<10, 20, 50>>, Profits <- {-5, -2, -1, 0, 1, 2}, Exceptions <- {0, 1, 5},
    LossThreshold <- 2

Agents == INSTANCE AgentReports

Stages == INSTANCE SignalStages WITH MinCycle <- 2, Grace <- 1

\* The weights, threshold and confidence are those of MomentumV04Config.
Strategy == INSTANCE Momentum WITH
    PriceLookback <- 1, ShortWindow <- 1, LongWindow <- 2, IntensityLookback <- 2,
    CvdLookback <- 1, CvdNormalization <- 3,
    WeightOf <- [price |-> 35, volume |-> 15, intensity |-> 20, cvd |-> 15,
                 quote_imb |-> 10, spread_quality |-> 5],
    Threshold <- 20, MinConfidence <- 50

Hours == INSTANCE MarketHours

-----------------------------------------------------------------------------
\* Prices around the bounds of the tick table, half won among them.
Inputs ==
    [method : {"fixed_pct"}, side : {"buy", "sell"}, type : {"stock", "etf"},
     price : {0, 1, 9, 3999, 4001, 9999, 10001, 39999, 99999, 100001,
              399999, 400001, 999999, 1000001},
     equity : {0, 200000, 4000000}, cash : {0, 1000001, 9000000},
     rate : {0, 10, 50}, distance : {0}]
    \union
    [method : {"atr", "fixed_risk"}, side : {"buy", "sell"}, type : {"stock"},
     price : {1, 3999, 10001}, equity : {200000, 2000000}, cash : {100000, 9000000},
     rate : {1}, distance : {0, 100, 300}]

\* Market values around the limits of an equity of 100000, where half a digit
\* of the rounded share is 5.
Portfolios == [{"A", "B", "C", "E"} -> {0, 20004, 20005, 39995}]
Orders == [symbol : {"A", "E"}, side : {"buy", "sell"}, value : {2, 10001, 40000}]

Registries ==
    [{"s1", "s2", "s3"} ->
       [enabled : {TRUE}, paper : {FALSE}, weight : {0, 20, 33}, cap : {0, 20, 30, 50}]
       \union [enabled : BOOLEAN, paper : {TRUE}, weight : {33}, cap : {30}]]

UpTo(S, n) == UNION {[1 .. k -> S] : k \in 0 .. n}

\* What the tools of a risk or a profit report answer.
Found ==
    [type : {"position_limit_breach", "drawdown_breach", "var_breach"},
     severity : {"none"}, ratio : {10, 12, 19}]
    \union
    [type : {"exposure_limit_breach", "unknown"}, severity : {"critical"}, ratio : {10}]
Rejected == {"position_limit_breach", "exposure_limit_breach"}
Fills == [side : {"buy", "sell"}, arrival : {0, 10005}, price : {10000, 10003}, qty : {1, 3}]
Snapshots == [realized : {0, 105, -15}, unrealized : {5, -5}, fees : {0, 3}, slippage : {0, 15}]
Entries == [fill : BOOLEAN, strategy : {"s", "t"}, symbol : {"A", "B"}, amount : {5, -15, 100005}]
Suggested == [tool : {"request_cancel_order", "request_kill_switch_release"},
              severity : {"low", "severe"}, executed : BOOLEAN]
RiskAnswers ==
    UNION {[known -> {<<>>}] : known \in {{}, {"get_market_status"}}}
    \union {[get_portfolio_risk |-> p] : p \in UpTo(Found, 1)}
    \union {[get_rejection_summary |-> [rejected |-> r, count |-> n]] @@ known :
              r \in UpTo(Rejected, 1), n \in {0, 6, 21},
              known \in {[get_market_status |-> <<>>]}
                        \union {[get_portfolio_risk |-> p] : p \in UpTo(Found, 2)}}
Event(id) == [impact |-> 3, order |-> id]
PnlAnswers ==
    {[get_pnl_snapshot |-> [events |-> ids] @@ s, get_recent_fills |-> f, get_positions |-> e] :
       s \in {[x EXCEPT !.realized = r] : x \in Snapshots, r \in {105, -15, 100035}}, ids \in {<<>>, <<Event([shown |-> 8, dots |-> FALSE]),
                                        Event([shown |-> 9, dots |-> FALSE])>>},
       f \in {<<>>} \union {<<g @@ e>> : g \in {h \in Fills : h.qty = 3},
                                          e \in {h \in Entries : h.fill /\ h.strategy = "s"}},
       e \in {<<h>> : h \in {k \in Entries : ~k.fill /\ k.symbol = "A" /\ k.amount # 5}}}
Answer(success, count) == [success |-> success, count |-> count]

\* Signals of one cycle: the first is a stop-loss, a sale or a close, the
\* others enter or stop, and share a hash or have none.
SignalsOf(id) ==
    [id : {id}, symbol : {"A"} \union (IF id = 3 THEN {"B"} ELSE {}),
     category : IF id = 1 THEN {"STOP_LOSS"} ELSE {"STOP_LOSS", "ENTRY"},
     action : IF id = 1 THEN {"SELL", "CLOSE"} ELSE {"BUY", "HOLD"},
     asOf : IF id = 2 THEN {1} ELSE {0, 2}, expires : IF id = 2 THEN {3, Stages!Never} ELSE {Stages!Never},
     hash : {Stages!NoHash, id, 1}, cost : IF id = 1 THEN {1, 3} ELSE {id}]
Batches == {{a, b, c} : a \in SignalsOf(1), b \in SignalsOf(2), c \in SignalsOf(3)}

Bars == UpTo([close : {10, 11, 19}, volume : {0, 1, 3}, up : {0, 1, 2}, down : {0}]
             \union [close : {10}, volume : {2}, up : {0}, down : {2}], 3)
\* Only the quote is there; or bars of an estimated or provided split, with
\* or without a fresh quote.
Values ==
    {v \in [Strategy!Indicators -> {Strategy!Missing, -100, -1, 0, 40, 95}] :
       /\ v["spread_quality"] \in {Strategy!Missing, 0, 95}
       /\ 95 \notin {v[k] : k \in Strategy!Indicators \ {"spread_quality"}}
       /\ v["spread_quality"] = Strategy!Missing => v["quote_imb"] = Strategy!Missing
       /\ v["price"] = Strategy!Missing =>
            \A k \in {"volume", "intensity", "cvd"} : v[k] = Strategy!Missing
       /\ (v["cvd"] = Strategy!Missing) <=> (v["price"] = Strategy!Missing)}
ReliabilityOf(split, quote) ==
    [k \in Strategy!Indicators |->
       CASE k \in {"price", "volume"} -> 100
         [] k \in {"intensity", "cvd"} -> split
         [] k \in {"quote_imb", "spread_quality"} -> quote]

\* Two years that meet at day 2 or later, on days 0 to 3.
Calendars ==
    [first : {0, 3, 4}, newYear : {2, 40}, holidays : {{}, {1, 3}, 1 .. 16, {1, 45}},
     solar : {{}, {1}}, yamlYears : {{}, {1}, {1, 2}}, failClosed : BOOLEAN,
     auction : BOOLEAN, preOpen : {1}, nearClose : {1}]
Instants == {Hours!At(d, time) : d \in 1 .. 2, time \in {0, 16, 17, 18, 30, 31, 47}}

Idle == [kind |-> "idle"]
Init == call = Idle

CallSizer == \E i \in Inputs : call' = [kind |-> "size", inputs |-> i]
CallAnalyzer ==
    \E p \in Portfolios, e \in {0, 100000}, o \in Orders :
      call' = [kind |-> "project", positions |-> p, equity |-> e, order |-> o]
CallAllocator ==
    \E r \in Registries, total \in {0, 7, 1000}, m \in {"live", "paper"} :
      call' = [kind |-> "allocate", registry |-> r, total |-> total, mode |-> m]
CallAdvisor ==
    \E s \in Capacity!Signals, from \in 1 .. 3, losses \in 0 .. 2 :
      call' = [kind |-> "advise", signal |-> s, from |-> from, losses |-> losses]
CallReporter ==
    \/ \E p \in UpTo(Found, 2), r \in UpTo(Rejected, 1), n \in {0, 6, 21} :
         call' = [kind |-> "breaches", found |-> Agents!Breaches(p, r), rejections |-> n]
    \/ \E a \in [1 .. 5 -> {Answer(TRUE, 0), Answer(TRUE, 2), Answer(FALSE, 0)}] :
         call' = [kind |-> "findings", answers |-> a]
    \/ \E a \in RiskAnswers : call' = [kind |-> "risk", answers |-> a]
    \/ \E a \in PnlAnswers : call' = [kind |-> "profit", answers |-> a]
    \/ \E s \in Snapshots, f \in UpTo(Fills, 2) :
         call' = [kind |-> "decompose", snapshot |-> s, fills |-> f]
    \/ \E e \in UpTo(Entries, 3) : call' = [kind |-> "attribute", entries |-> e]
CallStages ==
    \/ \E b \in Batches, capital \in {0, 3, 4} :
         call' = [kind |-> "cycle", batch |-> b, now |-> 3, capital |-> capital]
    \/ \E times \in [1 .. 4 -> 0 .. 5] : call' = [kind |-> "cadence", times |-> times]
CallStrategy ==
    \/ \E b \in Bars : call' = [kind |-> "indicators", bars |-> b]
    \/ \E v \in Values, split \in {0, 70, 100}, quote \in {50, 100} :
         call' = [kind |-> "generate", value |-> v, reliability |-> ReliabilityOf(split, quote)]
CallCalendar ==
    \E c \in Calendars, t \in Instants : call' = [kind |-> "hours", calendar |-> c, at |-> t]

Next ==
    \/ /\ call = Idle
       /\ \/ CallSizer
          \/ CallAnalyzer
          \/ CallAllocator
          \/ CallAdvisor
          \/ CallReporter
          \/ CallStages
          \/ CallStrategy
          \/ CallCalendar
    \/ call # Idle /\ call' = Idle

Spec == Init /\ [][Next]_call

-----------------------------------------------------------------------------
(* execution/sizing.py, tick_size.py, strategies/capital_allocator.py: an   *)
(* order is on the tick on the right side of its price and as large as, but *)
(* no larger than, the limits of one order allow (what was used today is    *)
(* not among them); capital split among strategies stays within each one's  *)
(* cap and is not left over while one has room.                             *)
OrdersAndCapitalFit ==
    /\ call.kind = "size" => Sizing!PriceIsOnTick(call.inputs) /\ Sizing!SizedToTheLimit(call.inputs)
    /\ call.kind = "allocate" =>
         /\ \A redistribute \in BOOLEAN :
              Allocator!WithinCaps(call.registry, call.total, call.mode, redistribute)
         /\ Allocator!NoIdleOverflow(call.registry, call.total, call.mode)

(* risk/portfolio_risk.py, capacity_advisor.py, agent/risk_agent.py,        *)
(* market_agent.py and pnl_agent.py: what is said of a portfolio, a day or a breach agrees with *)
(* the other things said of it, and a worse day never earns a better answer.*)
RiskAnswersAgree ==
    /\ call.kind = "project" =>
         /\ Portfolio!FlagsFollowWarnings(call.positions, call.equity, call.order)
         /\ Portfolio!UnflaggedIsNotCritical(call.positions, call.equity, call.order)
    /\ call.kind = "advise" =>
         \A bad \in Capacity!Signals :
           Capacity!WorseNeverEarnsMore(call.signal, bad, call.from, call.losses)
    /\ call.kind = "breaches" =>
         /\ Agents!WorstBreachDecides(call.found, call.rejections)
         /\ \A more \in UpTo(Suggested, 1) :
              Agents!CandidatesSurvive(call.found, call.rejections, more)
    /\ call.kind = "risk" => Agents!FailuresOnlyHide(call.answers)
    /\ call.kind = "profit" => Agents!ProfitIsReported(call.answers)
    /\ call.kind = "findings" => Agents!EveryAnswerIsTold(call.answers)
    /\ call.kind = "decompose" => Agents!PartsAddUp(call.snapshot, call.fills)
    /\ call.kind = "attribute" =>
         /\ Agents!SameTotal(call.entries)
         /\ \A max \in 1 .. 2 : Agents!BiggestMoversShown(call.entries, max)

(* signals/: a cycle lets through no expired, doubled or contradictory      *)
(* signal and gives capital by priority, and the strategy asks only for     *)
(* what an indicator asks for.                                              *)
SignalsAreSound ==
    /\ call.kind = "cycle" =>
         /\ Stages!AcceptedIsClean(call.batch, call.now, call.capital)
         /\ Stages!CapitalGoesByPriority(call.batch, call.now, call.capital)
         /\ Stages!CycleIsRecordable(call.batch, call.now, call.capital)
    /\ call.kind = "cadence" => Stages!CyclesAreApart(call.times)
    /\ call.kind = "indicators" => Strategy!IndicatorsAreInRange(call.bars)
    /\ call.kind = "generate" => Strategy!SidesAreBacked(call.value, call.reliability)

(* data/calendar.py, market_calendar.py, get_market_status: two calendars   *)
(* and a tool that are kept apart agree wherever their files do, and the    *)
(* next opening or close they tell is the first one.                        *)
CalendarsTellTheHours ==
    call.kind = "hours" =>
      /\ Hours!CalendarsAgree(call.calendar, call.at)
      /\ Hours!OpeningIsNext(call.calendar, call.at)
      /\ Hours!UnknownYearIsClosed(call.calendar, call.at)
      /\ Hours!ToolKnowsTheHours(call.calendar, call.at)
      /\ Hours!DashboardKnowsTheHours(call.calendar, call.at)

(* signals/strategies/indicators/quote_signal.py:48: the spread's quality   *)
(* has no direction and weighs on the confidence only.                      *)
SpreadGivesNoDirection ==
    call.kind = "generate" => Strategy!SpreadGivesNoDirection(call.value, call.reliability)
=============================================================================
