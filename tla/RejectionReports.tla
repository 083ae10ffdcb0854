--------------------------- MODULE RejectionReports ---------------------------
(* The readers of the audit files: the daily report's aggregator, the       *)
(* rejection analyzer with its diagnosis, the dashboard's summary and the   *)
(* dashboard's tail readers.  A record has a time in minutes of UTC, NoTime *)
(* when it is missing or cannot be read, a decision, what was rejected by   *)
(* which gate, and the names its fields and words go by, for the readers do *)
(* not look for the same ones.  A line that does not parse is skipped by    *)
(* all of them.                                                             *)
EXTENDS Integers, Sequences, FiniteSets, SequencesExt, FiniteSetsExt
CONSTANTS None, NoTime, Torn, MaxLines, Forever

Tally(keys) == [k \in Range(keys) |-> Len(SelectSeq(keys, LAMBDA x : x = k))]
Total(tally) == MapThenSumSet(LAMBDA k : tally[k], DOMAIN tally)
At(tally, k) == IF k \in DOMAIN tally THEN tally[k] ELSE 0

Parsed(lines) == SelectSeq(lines, LAMBDA l : l # Torn)
Passed(rows) == SelectSeq(rows, LAMBDA r : r.decision = "pass")
Rejected(rows) == SelectSeq(rows, LAMBDA r : r.decision = "reject")
Timed(rows) == SelectSeq(rows, LAMBDA r : r.at # NoTime)
First(s, n) == SubSeq(s, 1, Min({Len(s), n}))

\* "report": evaluated_at_utc, approve, reject and rejected_gate, which the
\* aggregator and the summary look for; "analysis": decided_at_utc, pass, reject
\* and rejected_by_gate, the analyzer's; "gate": decided_at, approved and
\* failed_check, the tail reader's.
Names == {"report", "analysis", "gate"}

\* What a reader that looks for these names finds: no time, no gate and no word
\* it knows under the names of another, but for reject, which two readers share.
Found(r, names) ==
    IF r.names = names THEN r
    ELSE [r EXCEPT !.at = NoTime, !.gate = None,
                   !.decision = IF @ = "reject" /\ {r.names, names} = {"report", "analysis"}
                                THEN @ ELSE "other"]
As(lines, names) == [i \in DOMAIN lines |-> IF lines[i] = Torn THEN Torn ELSE Found(lines[i], names)]

\* Mutant: a record without a time is dropped.
InRangeTimed(lines, since, until) ==
    SelectSeq(Parsed(lines), LAMBDA r : r.at # NoTime /\ since <= r.at /\ r.at <= until)

\* A record without a time belongs to every session.
InRange(lines, since, until) ==
    SelectSeq(Parsed(lines), LAMBDA r : r.at = NoTime \/ (since <= r.at /\ r.at <= until))

GateOr(r) == IF r.gate = None THEN "unknown" ELSE r.gate
Gates(rows) == [i \in DOMAIN rows |-> GateOr(rows[i])]

\* audit_aggregator.py: aggregate_risk_audit
RiskStats(lines, since, until) ==
    LET rows == InRange(As(First(lines, MaxLines), "report"), since, until)
    IN  [total |-> Len(rows), approved |-> Len(Passed(rows)), rejected |-> Len(Rejected(rows)),
         byGate |-> Tally(Gates(Rejected(rows)))]

\* aggregate_execution_audit keeps the first errors only; every other outcome
\* is counted in the total alone.
ExecutionStats(outcomes, sample) ==
    LET Of(o) == Len(SelectSeq(outcomes, LAMBDA x : x \in o))
    IN  [total |-> Len(outcomes), success |-> Of({"success", "filled"}),
         error |-> Of({"error"}), cancelled |-> Of({"cancelled"}),
         shown |-> Min({Of({"error"}), sample})]

\* aggregate_approval_audit: an automatic approval is an approval.
ApprovalStats(outcomes) ==
    LET Of(o) == Len(SelectSeq(outcomes, LAMBDA x : x \in o))
    IN  [total |-> Len(outcomes), approved |-> Of({"approved", "auto"}),
         auto |-> Of({"auto"}), declined |-> Of({"declined"}), timeout |-> Of({"timeout"})]

-----------------------------------------------------------------------------
\* rejection_analyzer.py: the hour is Korean, the windows are of UTC.
HourKst(t) == (t \div 60 + 9) % 24
WindowOf(t, minutes) == (t \div minutes) * minutes

\* Each row goes where the key at its place says.
Split(rows, keys) ==
    [k \in Range(keys) |->
       LET Count(decision) ==
             Cardinality({i \in DOMAIN rows : keys[i] = k /\ rows[i].decision = decision})
       IN  [pass |-> Count("pass"), reject |-> Count("reject")]]

Analysis(lines, since, until, minutes) ==
    LET all == InRange(As(lines, "analysis"), since, until)
        rejects == Rejected(all)
        rows == SelectSeq(all, LAMBDA r : r.decision \in {"pass", "reject"})
        named == SelectSeq(rejects, LAMBDA r : r.symbol # None)
        timed == Timed(rows)
    IN  [pass |-> Len(Passed(rows)), reject |-> Len(rejects),
         byGate |-> Tally(Gates(rejects)), bySymbol |-> Tally([i \in DOMAIN named |-> named[i].symbol]),
         matrix |-> Tally([i \in DOMAIN named |-> <<named[i].symbol, GateOr(named[i])>>]),
         seen |-> [g \in {GateOr(rejects[i]) : i \in DOMAIN rejects} |->
                     {r.at : r \in {x \in Range(Timed(rejects)) : GateOr(x) = g}}],
         hours |-> Split(timed, [i \in DOMAIN timed |-> HourKst(timed[i].at)]),
         windows |-> Split(timed, [i \in DOMAIN timed |-> WindowOf(timed[i].at, minutes)])]

\* rejection_diagnostics.py: diagnose, with the default thresholds.
MinTotal == 10
Share(part, whole, percent) == whole > 0 /\ 100 * part >= percent * whole

Spikes(windows) ==
    {w \in DOMAIN windows :
       LET n == windows[w].pass + windows[w].reject
       IN  n >= MinTotal /\ Share(windows[w].reject, n, 50)}

Diagnose(total, rejects, byGate, bySymbol, windows) ==
    LET exposure == At(byGate, "exposure_per_symbol") + At(byGate, "portfolio_total_exposure")
        found ==
          {code \in {"kill_switch", "daily_loss_limit"} : At(byGate, code) > 0}
          \union {g \in {"order_rate_limit"} : Share(At(byGate, g), rejects, 30)}
          \union {g \in {"exposure"} : exposure > 0 /\ Share(exposure, rejects, 30)}
          \union {g \in {"sector_concentration"} :
                    At(byGate, g) > 0 /\ Share(At(byGate, g), rejects, 30)}
          \union {g \in {"market_state"} : At(byGate, g) >= 5}
          \union {g \in {"price_sanity"} : At(byGate, g) >= 3}
          \union {d \in {"single_symbol"} :
                    rejects >= 5 /\ \E s \in DOMAIN bySymbol : Share(bySymbol[s], rejects, 70)}
          \union {d \in {"window_spike"} : Spikes(windows) # {}}
    IN  IF total < MinTotal THEN {"insufficient_data"}
        ELSE IF found = {} THEN {"no_significant_patterns"} ELSE found

Critical == {"kill_switch", "daily_loss_limit"}

-----------------------------------------------------------------------------
\* dashboard/data_loader.py: load_rejection_summary; a missing gate is not
\* counted, and a decision of another name counts in the windows.
Summary(lines, since) ==
    LET rows == InRange(As(First(lines, MaxLines), "report"), since, Forever)
        rejects == Rejected(rows)
        timed == SelectSeq(Timed(rows), LAMBDA r : r.decision # None)
    IN  [total |-> Len(rows), rejected |-> Len(rejects),
         byGate |-> Tally(Gates(SelectSeq(rejects, LAMBDA r : r.gate # None))),
         trend |-> Tally([i \in DOMAIN timed |-> WindowOf(timed[i].at, 30)]),
         finding |-> CASE Share(Len(rejects), Len(rows), 50) -> "critical"
                       [] Share(Len(rejects), Len(rows), 20)
                          /\ ~ Share(Len(rejects), Len(rows), 50) -> "warning"
                       [] OTHER -> "none"]

\* _audit_reader.py and _reconciliation_reader.py: the last lines, of which
\* those that parse; since takes the first ones that have a time.
LastLines(lines, n) == Parsed(SubSeq(lines, Len(lines) - Min({n, MaxLines, Len(lines)}) + 1, Len(lines)))
Since(lines, from) ==
    First(SelectSeq(Parsed(As(lines, "gate")), LAMBDA r : r.at # NoTime /\ r.at >= from), MaxLines)
\* aggregate_risk_decisions: what is not approved is rejected.
Decisions(rows) ==
    LET approved == Len(Passed(As(rows, "gate")))
    IN  [total |-> Len(rows), approved |-> approved, rejected |-> Len(rows) - approved]

LastRows(lines) == LastLines(lines, MaxLines)
Latest(lines) == IF LastRows(lines) = <<>> THEN None ELSE Last(LastRows(lines))
History(lines, n) ==
    LET rows == LastRows(lines)
    IN  SubSeq(rows, Len(rows) - Min({n, MaxLines, Len(rows)}) + 1, Len(rows))

-----------------------------------------------------------------------------
\* The same decisions by other names.
Told(lines, names) ==
    [i \in DOMAIN lines |-> IF lines[i] = Torn THEN Torn ELSE [lines[i] EXCEPT !.names = names]]

(* Of the same decisions, told to each by its own names, the daily report,  *)
(* the analyzer and the dashboard tell the same numbers: all evaluations,   *)
(* all rejections, and each gate's share where the record names its gate.   *)
(* Of one file, whatever the names in it, the report and the dashboard tell *)
(* the same, and a rejection that goes by the names of the report or the    *)
(* analyzer is a rejection to both.                                         *)
ReadersAgree(lines, since) ==
    LET stats == RiskStats(Told(lines, "report"), since, Forever)
        analysis == Analysis(Told(lines, "analysis"), since, Forever, 30)
        summary == Summary(Told(lines, "report"), since)
        report == RiskStats(lines, since, Forever)
        dashboard == Summary(lines, since)
    IN  Len(lines) <= MaxLines =>
          /\ stats.total = summary.total /\ stats.rejected = summary.rejected
          /\ stats.approved = analysis.pass /\ stats.rejected = analysis.reject
          /\ stats.byGate = analysis.byGate /\ Total(stats.byGate) = stats.rejected
          /\ \A g \in DOMAIN stats.byGate \ {"unknown"} : stats.byGate[g] = At(summary.byGate, g)
          /\ \A w \in DOMAIN analysis.windows :
               analysis.windows[w].pass + analysis.windows[w].reject <= At(summary.trend, w)
          /\ report.total = dashboard.total /\ report.rejected = dashboard.rejected
          /\ \A g \in DOMAIN report.byGate \ {"unknown"} : report.byGate[g] = At(dashboard.byGate, g)
          /\ RiskStats(lines, 0, Forever).rejected = Analysis(lines, 0, Forever, 30).reject

(* What is told of two parts of a day adds up to what is told of the day,   *)
(* but for the records without a time, which both parts count; and hours,   *)
(* windows, symbols and gates are cuts of the same records.                 *)
CutsAddUp(lines, noon, minutes) ==
    LET whole == Analysis(lines, 0, Forever, minutes)
        parts == <<Analysis(lines, 0, noon - 1, minutes), Analysis(lines, noon, Forever, minutes)>>
        timeless == SelectSeq(Parsed(As(lines, "analysis")), LAMBDA r : r.at = NoTime)
        In(cut, kind) == MapThenSumSet(LAMBDA k : cut[k][kind], DOMAIN cut)
    IN  /\ parts[1].reject + parts[2].reject = whole.reject + Len(Rejected(timeless))
        /\ parts[1].pass + parts[2].pass = whole.pass + Len(Passed(timeless))
        /\ \A g \in DOMAIN whole.byGate :
             \/ timeless # <<>>
             \/ At(parts[1].byGate, g) + At(parts[2].byGate, g) = whole.byGate[g]
        /\ In(whole.hours, "pass") = whole.pass - Len(Passed(timeless))
        /\ In(whole.windows, "reject") = whole.reject - Len(Rejected(timeless))
        /\ \A h \in DOMAIN whole.hours :
             whole.hours[h].reject =
               MapThenSumSet(LAMBDA w : whole.windows[w].reject,
                             {w \in DOMAIN whole.windows : HourKst(w) = h})
        /\ \A s \in DOMAIN whole.bySymbol :
             whole.bySymbol[s] =
               MapThenSumSet(LAMBDA k : whole.matrix[k], {k \in DOMAIN whole.matrix : k[1] = s})

(* A critical finding is not taken back by evaluations that follow, and a   *)
(* window full of rejections is never passed over for lack of data.         *)
AlarmsStay(passes, byGate, bySymbol, windows) ==
    LET rejects == Total(byGate)
        now == Diagnose(passes + rejects, rejects, byGate, bySymbol, windows)
        More(g) == [byGate EXCEPT ![g] = @ + 1]
    IN  /\ now \intersect Critical \subseteq
             Diagnose(passes + 1 + rejects, rejects, byGate, bySymbol, windows)
        /\ \A g \in DOMAIN byGate :
             now \intersect Critical \subseteq
               Diagnose(passes + rejects + 1, rejects + 1, More(g), bySymbol, windows)
        /\ "insufficient_data" \in now => Spikes(windows) = {}

(* Both tail readers answer from the newest lines: the newest record that   *)
(* parses is in every tail and is the latest of the history; and a count    *)
(* since the beginning is the count of the tail less what has no time.      *)
TailsAreNewest(lines, n) ==
    LET parsed == Parsed(lines)
    IN  /\ lines # <<>> /\ Last(lines) # Torn =>
             /\ Last(LastLines(lines, n)) = Last(lines) /\ Latest(lines) = Last(lines)
             /\ Last(History(lines, n)) = Latest(lines)
        /\ Len(lines) <= MaxLines =>
             Decisions(Since(lines, 0)).rejected
               = Decisions(LastLines(lines, MaxLines)).rejected
                 - Decisions(SelectSeq(parsed, LAMBDA r : Found(r, "gate").at = NoTime)).rejected
=============================================================================
