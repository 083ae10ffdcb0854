---------------------------- MODULE MCFillLedger ----------------------------
(* FillLedger with fixed orders, and what is read and told of files, fills, *)
(* accounts and answers.  The readers change nothing, so that it is enough  *)
(* to let them read before the first order.                                 *)
EXTENDS FillLedger, Integers, TLC

CONSTANTS Torn, b1, b2, s1, i1, i2
VARIABLE report

Order(symbol, side, quantity, price, at) ==
    [symbol |-> symbol, side |-> side, quantity |-> quantity, price |-> price,
     fee |-> 1, tax |-> 1, at |-> at]

\* Two purchases and a sale of one symbol.
ThreeOrders == (b1 :> Order("A", "buy", 2, 3, 1)) @@ (b2 :> Order("A", "buy", 1, 4, 2))
            @@ (s1 :> Order("A", "sell", 1, 4, 3))

Symmetry == Permutations(Ingesters)

-----------------------------------------------------------------------------
(* What is read back and told, on bounded inputs: audit files, profit       *)
(* reports, the registry of strategies, the symbol master, prompts, the     *)
(* consensus strategy, the broker's answers and a model's.  A report is one *)
(* call.                                                                    *)

Rejections == INSTANCE RejectionReports WITH NoTime <- None, MaxLines <- 3, Forever <- 10000
Profits == INSTANCE ProfitReports WITH FillLimit <- 1, ErrorSample <- 20
Registry == INSTANCE StrategyRegistry WITH SecretKeys <- {"api_key"}, MaxIterations <- 4
Prompts == INSTANCE PromptTemplates WITH
    NotFound <- None, Crash <- Torn, Text <- "text", Secret <- {"token"}, Private <- {"account"}, Agents <- {"risk", "pnl"},
    MaxVariables <- 3
Consensus == INSTANCE MomentumConsensus WITH
    ReturnLookback <- 2, FastPeriod <- 1, SlowPeriod <- 2, SignalPeriod <- 2, RsiPeriod <- 2,
    VolumeLookback <- 3, MacdPermille <- 1, RsiBuy <- 55, RsiSell <- 45, VolumePercent <- 5,
    MaxZeroPercent <- 40, BarSeconds <- 3600, Validity <- 2
Broker == INSTANCE BrokerSnapshots WITH Garbled <- Torn, Raises <- Torn, Listed <- {"A", "B"}
Answers == INSTANCE ModelAnswers
Master == INSTANCE SymbolMaster WITH
    Codes <- {"005930", "069500"}, NoValue <- None, Unreadable <- Torn, Invalid <- Torn, Crash <- None,
    Spelling <- (" 005930" :> "005930") @@ ("kospi" :> "KOSPI") @@ ("ACTIVE" :> "active")
                @@ (" Tech" :> "tech") @@ (" " :> "")
Agents == INSTANCE AgentReports

UpTo(S, n) == UNION {[1 .. k -> S] : k \in 0 .. n}

-----------------------------------------------------------------------------
\* 14:59 and 15:00 UTC are on either side of midnight in Korea.
Records ==
    [names : {"analysis"}, at : {None, 100, 899}, decision : {"pass"}, gate : {None}, symbol : {None}]
    \union [names : {"analysis"}, at : {None, 100, 900}, decision : {"reject"},
            gate : {None, "kill_switch"}, symbol : {None, "A"}]
    \union [names : {"report"}, at : {None, 100}, decision : {"pass", "reject", "other"},
            gate : {"kill_switch"}, symbol : {None}]
    \union [names : {"gate"}, at : {100}, decision : {"pass", "reject"}, gate : {None}, symbol : {None}]
Files == UpTo(Records \union {Torn}, 3) \union [1 .. 4 -> {Torn} \union
           {r \in Records : r.decision = "reject" /\ r.gate = None /\ r.symbol = None}]
Gates == [{"kill_switch", "order_rate_limit", "exposure_per_symbol"} -> {0, 1, 4, 6}]
Covered(windows, kind) == Profits!Sum(windows, LAMBDA w : w[kind])
WindowSets == UpTo([pass : {0, 5, 9}, reject : {0, 5, 10}], 2)

Position(symbol, qty, cost) == [symbol |-> symbol, qty |-> qty, cost |-> cost]
Databases ==
    [cash : {5},
     positions : {<<>>, <<Position("A", 2, 3)>>, <<Position("A", 2, 4), Position("B", 1, 3)>>,
                  <<Position("A", 0, 3), Position("B", 2, 4)>>},
     prices : [{"A", "B"} -> {[quote |-> None, close |-> None], [quote |-> None, close |-> 4],
                              [quote |-> 5, close |-> 4]}],
     fills : UpTo([at : {1, 4}, side : {"buy"}, price : {10}, intended : {None, 12}, qty : {2},
                   fee : {None, 1}], 2),
     realized : UpTo([at : {1, 4}, amount : {3}, strategy : {None, "s"}]
                     \union [at : {4}, amount : {None}, strategy : {"s"}], 1)]
IntendedOrders == [symbol : {"A", "B"}, side : {"buy", "sell"}, qty : {3}, intended : {10, 12}]
Executions == UpTo([price : {9, 10, 13}, qty : {1, 2}, fee : {None, 1}], 2) \ {<<>>}
Slippages == UpTo([symbol : {"A", "B"}, bps : {-3, 0, 4}, fees : {1, 2}], 3) \ {<<>>}

Leaves == {[keys |-> <<"api_key">>, depth |-> 1, value |-> "text"],
           [keys |-> <<"limits", "size">>, depth |-> 2, value |-> "text"],
           [keys |-> <<"keys", "api_key">>, depth |-> 1, value |-> "text"],
           [keys |-> <<"size">>, depth |-> 1, value |-> "credential"]}
Entries(id) ==
    [wellFormed : {TRUE}, parameters : {{}}, id : {id, "s1"}, enabled : BOOLEAN, paper : BOOLEAN,
     weight : {0, 45, 60}, cap : {30, 100}, universe : {<<>>, <<"A", "B", "A">>},
     categories : {<<"x">>}, timeframe : {"1d"} \union (IF id = "s2" THEN {"1h"} ELSE {})]
    \union
    [wellFormed : BOOLEAN, parameters : {{leaf} : leaf \in Leaves}, id : {id}, enabled : {TRUE},
     paper : {FALSE}, weight : {45}, cap : {100}, universe : {<<"A">>},
     categories : {<<"x", "x">>}, timeframe : {"1d"}]
Lists == UNION {{<<e, f>> : e \in Entries("s1"), f \in Entries("s2")}, {<<e>> : e \in Entries("s1")}}
RegistryFiles ==
    [state : {"mapping"}, version : {TRUE}, entries : Lists]
    \union [state : {"mapping", "missing", "malformed"}, version : BOOLEAN, entries : {<<>>}]

Bodies == {<<>>, <<"text">>, <<"size", "text">>, <<"text", "size", "account">>}
Templates(ids, bodies) ==
    [flaw : {None, "frontmatter", "undecodable"}, id : ids, agent : {"risk", "nobody"},
     body : bodies, declared : {{}, {"limit"}}, schema : {"s"}]
Directories == UpTo(Templates({"a", "b"}, {<<>>, <<"text">>}), 2)
Variables == UNION {[S -> {"text", "nothing", "structure", "huge", "credential", "placeholder"}] :
                      S \in {{}, {"size"}, {"size", "limit"}, {"size", "account"}, {"size", "token"}}}
             \union [{"size", "account", "limit", "token"} -> {"text"}]
             \union [{"size", "account", "limit"} -> {"text", "credential", "placeholder"}]

\* A row of the symbol master, with what differs from it, and rows cut short.
Row(changes) ==
    changes @@ [c \in Master!Columns \union {"sector"} |->
                  CASE c = "code" -> "005930" [] c = "market" -> "KOSPI"
                    [] c = "instrument_type" -> "stock" [] c = "tick_policy" -> "krx_stock"
                    [] c = "status" -> "active" [] c = "lot_size" -> 1 [] c = "updated_at" -> <<>>
                    [] c = "currency" -> "KRW" [] OTHER -> ""]
Cut(columns) == Row([c \in columns |-> None])
SymbolRows ==
    {Row([code |-> c, status |-> t, sector |-> r]) :
       c \in {"005930", " 005930", "069500", "X"}, t \in {"ACTIVE", "suspended", "gone"},
       r \in {"", "tech", " Tech"}}
    \union {Row([updated_at |-> t, code |-> "069500"]) : t \in {<<9, 9>>, <<9, 0>>, <<9>>, Torn}}
    \union {Row([lot_size |-> n]) : n \in {0, Torn}}
    \union {Row([market |-> t, currency |-> " "]) : t \in {"kospi", "NYSE"}}
    \union {Row([listed_date |-> Torn])}
    \union {Cut({"sector"}), Cut({"sector", "updated_at", "listed_date"}),
            Cut({"sector", "updated_at", "listed_date", "currency"}), Cut(DOMAIN Row(<<>>))}
Narrow(file, c) == [header |-> file.header \ {c}, rows |-> Master!Without(file.rows, c)]

-----------------------------------------------------------------------------
Bar(t, close, volume) == [at |-> t, close |-> close, volume |-> volume]
SeriesOf(closes, volumes, gap, seconds) ==
    [bars |-> [i \in DOMAIN closes |-> Bar(IF i = Len(closes) THEN i + gap ELSE i,
                                           closes[i], volumes[i])],
     seconds |-> seconds]
\* The mirror image of a course at its first close.
Turned(closes) == [i \in DOMAIN closes |-> 40 - closes[i]]
Courses == [1 .. 4 -> {18, 20, 21}] \union {<<20, 21>>}
VolumesOf(closes) == IF Len(closes) = 2 THEN {<<1, 1>>} ELSE {<<1, 1, 1, 1>>, <<1, 0, 0, 4>>, <<1, 1, 4, 0>>}

Rows == [code : {"A", "B", "LONG", ""}, qty : {None, Torn, 0, 3, -2}, cost : {None, Torn, 7}]
Summaries == [cash : {5, Torn}, equity : {None}, orderable : {None, 0, 4}, excess : {2}]
OrderRows == [id : {"1", ""}, qty : {0, 2, Torn}, filled : {None, 1, 2}, cancelled : BOOLEAN]
Levels == [ask : {0, 11, Torn}, bid : {0, 10, 12}, askSize : {None, 3}, bidSize : {0, 2}]
Deep == [ask : {0, 12, None}, bid : {0, 9}, askSize : {4, -1, Torn}, bidSize : {1}]
Candles ==
    [at : {None, 1, 2, 3, 4}, open : {5}, high : {6}, low : {4}, close : {4, 6}, volume : {None, 1}]
    \union [at : {2}, open : {5, Torn}, high : {6}, low : {4, 0}, close : {7, 5}, volume : {1, Torn}]
Candle(t, c) == [at |-> t, open |-> 5, high |-> 6, low |-> 4, close |-> c, volume |-> 1]
\* Newest first, with one row that may be unusable.
Charts == {<<Candle(4, c), odd, Candle(2, d), Candle(1, 5)>> : c \in {4, 5, 6}, d \in {4, 5, 6},
                                                               odd \in Candles \union {Candle(3, 5)}}

Tokens == {"{", "}", "quote", "backslash", "fence", "word", "value"}
Objects == {<<"{", "}">>, <<"{", "value", "{", "}", "}">>, <<"{", "quote", "}", "quote", "}">>,
            <<"{", "quote", "backslash", "quote", "{", "quote", "}">>,
            <<"{", "quote", "fence", "quote", "}">>}
Garbled == {<<"{", "word", "}">>, <<"{", "quote", "}">>}
Schemas == [properties : {<<"a", "b", "c", "d">>, <<"a">>}, required : {{}, {"a"}, {"d"}},
            closed : BOOLEAN]

-----------------------------------------------------------------------------
NothingRead == [kind |-> "idle"]

ReadAudit ==
    \/ \E f \in Files, since \in {0, 100} : report' = [kind |-> "audit", lines |-> f, since |-> since]
    \/ \E p \in {0, 2, 9}, g \in Gates, w \in WindowSets :
         /\ Covered(w, "pass") <= p /\ Covered(w, "reject") <= Rejections!Total(g)
         /\ report' = [kind |-> "alarms", passes |-> p, gates |-> g, windows |-> w]
ReadProfit ==
    \/ \E d \in Databases, r \in {<<0, 9>>, <<2, 9>>} :
         report' = [kind |-> "profit", db |-> d, range |-> r]
    \/ \E o \in IntendedOrders, e \in Executions : report' = [kind |-> "slippage", order |-> o, fills |-> e]
    \/ \E s \in Slippages :
         report' = [kind |-> "statistics",
                  records |-> [i \in DOMAIN s |-> [unfavorable |-> s[i].bps > 0] @@ s[i]]]
ReadRegistry == \E f \in RegistryFiles, n \in {0, 100} :
                  report' = [kind |-> "registry", file |-> f, total |-> n]
ReadPrompts ==
    \/ \E d \in Directories : report' = [kind |-> "directory", dir |-> d]
    \/ \E f \in Templates({"a"}, Bodies), v \in Variables, extra \in BOOLEAN :
         report' = [kind |-> "render", file |-> f, variables |-> v, extra |-> extra]
ReadSeries ==
    \E c \in Courses : \E v \in VolumesOf(c) :
    \E g \in {<<16, 3600, TRUE>>, <<16, 3600, FALSE>>, <<5, 3600, TRUE>>, <<0, 60, TRUE>>} :
      report' = [kind |-> "consensus", series |-> SeriesOf(c, v, g[1], g[2]), strong |-> g[3],
               turned |-> SeriesOf(Turned(c), v, g[1], g[2])]
ReadBroker ==
    \/ \E rows \in UpTo(Rows, 2), s \in Summaries :
         report' = [kind |-> "account", rows |-> rows, sum |-> s]
    \/ \E rows \in UpTo(OrderRows, 2), limit \in 1 .. 2 :
         report' = [kind |-> "orders", rows |-> rows, limit |-> limit]
    \/ \E l \in Levels, d \in Deep, stamp \in {None, 2, 4} :
         report' = [kind |-> "book", levels |-> <<l, d>>, stamp |-> stamp]
    \/ \E chart \in Charts, r \in {<<1, 2, 4>>, <<1, 3, 4>>, <<2, 2, 3>>} :
         report' = [kind |-> "chart", rows |-> chart, range |-> r]
ReadMaster ==
    \E rows \in UpTo(SymbolRows, 2), c \in {"none", "sector", "currency"} :
      report' = [kind |-> "master",
               file |-> Narrow([header |-> DOMAIN Row(<<>>), rows |-> rows], c)]
ReadAnswer ==
    \/ \E p \in UpTo(Tokens, 2), o \in Objects \union Garbled, s \in UpTo(Tokens, 2) :
         report' = [kind |-> "answer", prefix |-> p, object |-> o, suffix |-> s]
    \/ \E m \in {"none", "exception", "parse_fail", "schema_fail"}, o \in Objects \union Garbled,
          keys \in SUBSET {"a", "d", "z"}, s \in Schemas :
         report' = [kind |-> "invoke", mode |-> m, text |-> o, keys |-> keys, schema |-> s]

ReadNext ==
    \/ /\ report = NothingRead
       /\ \/ ReadAudit \/ ReadProfit \/ ReadRegistry \/ ReadPrompts
          \/ ReadSeries \/ ReadBroker \/ ReadMaster \/ ReadAnswer
    \/ report # NothingRead /\ report' = NothingRead

MCInit == Init /\ report = NothingRead
Book == report = NothingRead /\ Next /\ UNCHANGED report
Read == Init /\ ReadNext /\ UNCHANGED vars
MCSpec == MCInit /\ [][Book \/ Read]_<<vars, report>>

-----------------------------------------------------------------------------
(* reports/, dashboard/, pnl/ and brokers/: whoever reads the audit files,  *)
(* the fills, the account and the orders tells the same of them.            *)
ReportsTellTheSame ==
    /\ report.kind = "audit" =>
         /\ Rejections!ReadersAgree(report.lines, report.since)
         /\ Rejections!CutsAddUp(report.lines, 900, 60) /\ Rejections!TailsAreNewest(report.lines, 2)
    /\ report.kind = "alarms" =>
         Rejections!AlarmsStay(report.passes, report.gates, [s \in {"A"} |-> Rejections!Total(report.gates)],
                               report.windows)
    /\ report.kind = "profit" => Profits!SnapshotsAgree(report.db, report.range[1], report.range[2])
    /\ report.kind = "slippage" =>
         Profits!SlippagesAgree(report.order, report.fills,
           Profits!Sum(report.fills, LAMBDA f : Agents!FillCost(
             [side |-> report.order.side, arrival |-> report.order.intended,
              price |-> f.price, qty |-> f.qty])))
    /\ report.kind = "statistics" => Profits!StatisticsAgree(report.records)
    /\ report.kind = "account" => Broker!AdaptersAgree(report.rows, report.sum)
    /\ report.kind = "orders" => Broker!OrdersPartition(report.rows, report.limit)

(* strategies/: what is loaded of a registry can be allocated, and loaded   *)
(* again it is the same.                                                    *)
RegistryIsSound ==
    report.kind = "registry" => /\ Registry!LoadedIsAllocatable(report.file, report.total)
                              /\ Registry!AnswersAgree(report.file)

(* data/symbol_master.py: a file of symbols is loaded whole or not at all,  *)
(* kept without loss, and its queries agree.                                *)
MasterIsSound ==
    report.kind = "master" =>
      /\ Master!LoadedIsWhole(report.file) /\ Master!CacheKeepsTheMaster(report.file)
      /\ Master!QueriesAgree(report.file, {"005930", "069500", "X"})

(* agent/prompts/ and _llm_client.py: a template is found and rendered      *)
(* whole, and a model's answer is found in its words.                       *)
PromptsAreAnswered ==
    /\ report.kind = "directory" =>
         Prompts!LookupsAgree(report.dir, Prompts!Reverse(report.dir), {"a", "b"})
    /\ report.kind = "render" => Prompts!RenderedIsComplete(report.file, report.variables, report.extra)
    /\ report.kind = "answer" =>
         /\ report.object \in Objects => Answers!AnswerIsFound(report.prefix, report.object, report.suffix)
         /\ Answers!NothingIsMadeUp(report.prefix \o report.object \o report.suffix)
    /\ report.kind = "invoke" => Answers!SuccessIsAccepted(report.mode, report.text, report.keys, report.schema)

(* signals/strategies/momentum_v1.py: all indicators back a signal, and     *)
(* each symbol is a signal or is counted.                                   *)
ConsensusIsSound ==
    report.kind = "consensus" =>
      /\ Consensus!SidesAreUnanimous(report.series, report.turned, report.strong)
      /\ Consensus!EverySymbolCounts([A |-> report.series, B |-> report.turned], report.strong, 3)

(* brokers/kis/quote.py and market_data.py: a book is not crossed, and a    *)
(* chart read in parts is the chart.                                        *)
QuotesAreSane ==
    /\ report.kind = "book" => Broker!BookIsSane(report.levels, report.stamp, 3)
    /\ report.kind = "chart" =>
         Broker!PartsMakeTheWhole(report.rows, report.range[1], report.range[2], report.range[3])

-----------------------------------------------------------------------------
(* reports/, dashboard/, pnl/ and brokers/: whoever reads the audit files,  *)
(* the fills, the account and the orders tells the same of them; a book is  *)
(* not crossed and a chart read in parts is the chart.                      *)
ReportsAgree == ReportsTellTheSame /\ QuotesAreSane

(* strategies/, data/symbol_master.py, agent/prompts/, agent/_llm_client.py *)
(* and MomentumV1: what is loaded of a registry can be allocated, a file of *)
(* symbols is loaded whole or not, a prompt is found and rendered whole, a  *)
(* model's answer is found in its words, and a signal has all indicators    *)
(* behind it.                                                               *)
InputsAreUnderstood ==
    /\ RegistryIsSound /\ MasterIsSound
    /\ PromptsAreAnswered /\ ConsensusIsSound
=============================================================================
