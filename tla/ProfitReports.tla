----------------------------- MODULE ProfitReports -----------------------------
(* What the daily report (reports/pnl_loader.py, daily_report_builder.py),  *)
(* the dashboard (dashboard/data_loader.py) and the slippage analyzer       *)
(* (pnl/slippage.py) compute from one database of positions, fills and      *)
(* realized profits.  Money is in won, None is a NULL.                      *)
EXTENDS Integers, Sequences, FiniteSets, SequencesExt, FiniteSetsExt
CONSTANTS None, FillLimit, ErrorSample

Sum(s, f(_)) == FoldLeft(LAMBDA a, x : a + f(x), 0, s)
OrZero(x) == IF x = None THEN 0 ELSE x

\* _get_mark_price in both loaders, and what they do without a price.
Mark(position, prices) ==
    LET p == prices[position.symbol]
    IN  IF p.quote # None THEN p.quote ELSE IF p.close # None THEN p.close ELSE position.cost

Held(db) == SelectSeq(db.positions, LAMBDA p : p.qty # 0)
Worth(db) == Sum(Held(db), LAMBDA p : p.qty * Mark(p, db.prices))
Unrealized(db) == Sum(Held(db), LAMBDA p : p.qty * (Mark(p, db.prices) - p.cost))

Within(rows, from, to) == SelectSeq(rows, LAMBDA r : from <= r.at /\ r.at <= to)

\* A fill without one of its prices has no slippage.
Favour(fill) ==
    IF None \in {fill.intended, fill.price} THEN 0
    ELSE IF fill.side = "buy" THEN (fill.intended - fill.price) * fill.qty
         ELSE (fill.price - fill.intended) * fill.qty

StrategyOf(row) == IF row.strategy = None THEN "unknown" ELSE row.strategy

\* compute_pnl_snapshot: fills and realized profits of the session.
Snapshot(db, from, to) ==
    LET fills == Within(db.fills, from, to)
        rows == SelectSeq(Within(db.realized, from, to), LAMBDA r : r.amount # None)
        realized == Sum(rows, LAMBDA r : r.amount)
    IN  [worth |-> Worth(db), equity |-> db.cash + Worth(db), realized |-> realized,
         unrealized |-> Unrealized(db), total |-> realized + Unrealized(db),
         fees |-> Sum(fills, LAMBDA f : OrZero(f.fee)), slippage |-> Sum(fills, Favour),
         bySymbol |-> [i \in DOMAIN Held(db) |->
                         Held(db)[i].qty * (Mark(Held(db)[i], db.prices) - Held(db)[i].cost)],
         byStrategy |-> [s \in {StrategyOf(r) : r \in Range(rows)} |->
                           Sum(SelectSeq(rows, LAMBDA r : StrategyOf(r) = s), LAMBDA r : r.amount)]]

\* load_fills: the newest ones, up to a limit.
LoadFills(db) ==
    LET newest == SortSeq(db.fills, LAMBDA f, g : f.at > g.at)
    IN  SubSeq(newest, 1, Min({FillLimit, Len(newest)}))

\* load_pnl_snapshot: all realized profits, whatever the session.
DashboardSnapshot(db) ==
    LET realized == Sum(db.realized, LAMBDA r : OrZero(r.amount))
    IN  [worth |-> Worth(db), equity |-> db.cash + Worth(db), realized |-> realized,
         unrealized |-> Unrealized(db), total |-> realized + Unrealized(db),
         fees |-> Sum(LoadFills(db), LAMBDA f : OrZero(f.fee))]

-----------------------------------------------------------------------------
\* analyze_executions_from_audit: orders that were sent and have a number;
\* a time that cannot be read, or none, fails later.
Analyzed(record, since, fills) ==
    /\ record.outcome = "submitted" /\ record.orderNo
    /\ record.at # None /\ record.at >= since /\ fills # <<>>

\* _compute_record: an average price, here as the amount over the quantity; what is
\* unfavourable is positive.
SlippageRecord(order, fills) ==
    LET filled == Sum(fills, LAMBDA f : f.qty)
        amount == Sum(fills, LAMBDA f : f.price * f.qty)
        lost == IF order.side = "buy" THEN amount - order.intended * filled
                ELSE order.intended * filled - amount
    IN  [symbol |-> order.symbol, filled |-> filled, lost |-> lost,
         bps |-> (10000 * lost) \div (order.intended * filled),
         unfavorable |-> lost > 0, fees |-> Sum(fills, LAMBDA f : OrZero(f.fee)),
         partial |-> filled < order.qty]

\* aggregate: the upper median and the 95th percentile.
Aggregate(records) ==
    LET n == Len(records)
        sorted == SortSeq(records, LAMBDA a, b : a.bps < b.bps)
        P95 == Max({0, Min({n - 1, (n * 95 + 99) \div 100 - 1})})
        Of(s) == SelectSeq(records, LAMBDA r : r.symbol = s)
    IN  [count |-> n, median |-> sorted[n \div 2 + 1].bps, p95 |-> sorted[P95 + 1].bps,
         unfavorable |-> Len(SelectSeq(records, LAMBDA r : r.unfavorable)),
         fees |-> Sum(records, LAMBDA r : r.fees),
         bySymbol |-> [s \in {r.symbol : r \in Range(records)} |->
                         [count |-> Len(Of(s)), fees |-> Sum(Of(s), LAMBDA r : r.fees),
                          unfavorable |-> Len(SelectSeq(Of(s), LAMBDA r : r.unfavorable))]]]

-----------------------------------------------------------------------------
\* DailyReportBuilder.build: the errors of the sample and a reconciliation
\* that is off are the exceptions it counts for the next capacity.
ShownErrors(errors) == Min({errors, ErrorSample})
ExceptionsOf(errors, severity) ==
    ShownErrors(errors) + (IF severity \in {"major", "minor"} THEN 1 ELSE 0)
ReportSignal(profit, errors, severity) ==
    [profit |-> profit, severity |-> severity, exceptions |-> ExceptionsOf(errors, severity)]

-----------------------------------------------------------------------------
(* The daily report and the dashboard tell the same capital and profit of   *)
(* one database when the session holds all of it, and the same fees while   *)
(* the fills fit the dashboard's limit; and what is attributed to symbols   *)
(* and strategies is all of it.                                             *)
SnapshotsAgree(db, from, to) ==
    LET report == Snapshot(db, from, to)
        shown == DashboardSnapshot(db)
        all == /\ Within(db.fills, from, to) = db.fills
               /\ Within(db.realized, from, to) = db.realized
    IN  /\ report.equity = shown.equity /\ report.unrealized = shown.unrealized
        /\ all => /\ report.realized = shown.realized /\ report.total = shown.total
                  /\ shown.fees <= report.fees
                  /\ Len(db.fills) <= FillLimit => shown.fees = report.fees
        /\ Sum(report.bySymbol, LAMBDA x : x) = report.unrealized
        /\ MapThenSumSet(LAMBDA s : report.byStrategy[s], DOMAIN report.byStrategy) = report.realized
        /\ report.equity = db.cash + Sum(Held(db), LAMBDA p : p.qty * p.cost) + report.unrealized

(* The slippage of the report, favourable when positive, is the opposite of *)
(* the analyzer's for the same fills, in parts or in one, and so is the     *)
(* cost the profit agent computes.                                          *)
SlippagesAgree(order, fills, agentCost) ==
    LET record == SlippageRecord(order, fills)
        asStored == [i \in DOMAIN fills |->
                       [side |-> order.side, intended |-> order.intended] @@ fills[i]]
    IN  /\ Sum(asStored, Favour) = - record.lost
        /\ agentCost = record.lost
        /\ record.unfavorable => record.bps >= 0

(* The statistics of a list of orders are of that list: the percentile is   *)
(* no better than the median, a median that is bad comes from as many bad   *)
(* orders, and the symbols account for all of them.                         *)
StatisticsAgree(records) ==
    LET a == Aggregate(records)
        All(f(_)) == MapThenSumSet(f, DOMAIN a.bySymbol)
    IN  /\ a.median <= a.p95
        /\ a.median > 0 => a.unfavorable >= a.count - a.count \div 2
        /\ All(LAMBDA s : a.bySymbol[s].count) = a.count
        /\ All(LAMBDA s : a.bySymbol[s].fees) = a.fees
        /\ All(LAMBDA s : a.bySymbol[s].unfavorable) = a.unfavorable
=============================================================================
