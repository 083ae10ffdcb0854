------------------------------ MODULE FillLedger ------------------------------
(***************************************************************************)
(* From the broker's executions to profit and loss: fill ingestion         *)
(* (src/src/execution/kis_fill_source.py, fill_ingester.py, fill_store.py),*)
(* positions (src/src/pnl/position_state.py, position_ledger.py,           *)
(* position_store.py), the portfolio's P&L (pnl_engine.py) and the         *)
(* reconciliation with the broker (reconciliation.py).                     *)
(*                                                                         *)
(* The broker answers with one row per order, which tells how much of the  *)
(* order is executed so far.  The id of a fill is made of the number and   *)
(* the time of its order, so an order has one fill id for all its rows.    *)
(*                                                                         *)
(* Every statement of a store is a transaction of its own.  Ingestion may  *)
(* run in two processes; the ledger has one writer, whose caller hands     *)
(* over every stored fill once.  Any process may die between two steps.    *)
(***************************************************************************)
EXTENDS Sequences, FiniteSets, SequencesExt, Decimals

CONSTANTS Orders,     \* broker order numbers
          Info,       \* what was ordered, and when
          Listed,     \* the symbols of the symbol master
          Ingesters,  \* processes that run FillIngester
          PageSize,   \* rows in one answer of the broker
          Sinces,     \* starting times a caller asks for
          None        \* Python's None

Symbols == {Info[o].symbol : o \in Orders}
Sides == {"buy", "sell"}

ASSUME InfoAssumption ==
    \A o \in Orders : /\ Info[o].side \in Sides
                      /\ Info[o].quantity \in Nat \ {0} /\ Info[o].price \in Nat \ {0}
                      /\ {Info[o].fee, Info[o].tax, Info[o].at} \subseteq Nat
ASSUME PageAssumption == PageSize \in Nat \ {0} /\ Sinces \subseteq Nat
ASSUME OrdersAssumption == IsFiniteSet(Orders)

VARIABLES executed,   \* at the broker: how much of each order is executed
          ingest,     \* per ingester: fills to check, and fills found new
          stored,     \* the table of fills, by fill id
          work,       \* the fills apply_fills has still to apply
          unrecorded, \* the applied fill whose history row is not written yet
          positions,  \* the table of positions
          history,    \* the rows of position_history: symbol, fill, quantity
          book,       \* history: the fills applied since the last truncation
          torn,       \* history: applied fills whose history row was lost
          partial     \* history: orders fetched before they were complete

ingestion == <<ingest, stored, partial>>
ledger == <<work, unrecorded, positions, history, book, torn>>
vars == <<executed, ingestion, ledger>>

NoPosition == [quantity |-> 0, avg |-> Zero, realized |-> Zero, fees |-> 0, taxes |-> 0]
Idle == [busy |-> FALSE, todo |-> {}, new |-> {}]

\* _parse_fill: one row of the answer.
Fill(o, q) ==
    [id |-> o, symbol |-> Info[o].symbol, side |-> Info[o].side, quantity |-> q,
     price |-> Info[o].price, fee |-> Info[o].fee * q,
     tax |-> IF Info[o].side = "sell" THEN Info[o].tax * q ELSE 0, at |-> Info[o].at]
Fills == UNION {{Fill(o, q) : q \in 1 .. Info[o].quantity} : o \in Orders}
ASSUME NoneAssumption == None \notin Fills

Gross(f) == f.price * f.quantity
NetAmount(f) == IF f.side = "buy" THEN -(Gross(f) + f.fee) ELSE Gross(f) - f.fee - f.tax

TypeOK ==
    /\ executed \in [Orders -> Nat]
    /\ \A i \in Ingesters : /\ ingest[i].busy \in BOOLEAN
                            /\ ingest[i].todo \union ingest[i].new \subseteq Fills
    /\ stored \in [Orders -> Fills \union {None}]
    /\ work \in Seq(Fills) /\ unrecorded \in Fills \union {None}
    /\ \A s \in Symbols : /\ positions[s].quantity >= 0 /\ positions[s].avg[1] >= 0
                          /\ positions[s].fees >= 0 /\ positions[s].taxes >= 0
    /\ book \in Seq(Fills) /\ torn \subseteq Orders /\ partial \subseteq Orders

Init ==
    /\ executed = [o \in Orders |-> 0]
    /\ ingest = [i \in Ingesters |-> Idle]
    /\ stored = [o \in Orders |-> None]
    /\ work = <<>> /\ unrecorded = None
    /\ positions = [s \in Symbols |-> NoPosition]
    /\ history = <<>> /\ book = <<>>
    /\ torn = {} /\ partial = {}
-----------------------------------------------------------------------------
(* The broker *)

\* What the broker's account holds.
Held(s) ==
    LET of(side) == {o \in Orders : Info[o].symbol = s /\ Info[o].side = side}
    IN  SumFunctionOnSet(executed, of("buy")) - SumFunctionOnSet(executed, of("sell"))

\* One more share of an order is executed; the broker allows no short sale.
Execute(o) ==
    /\ executed[o] < Info[o].quantity
    /\ Info[o].side = "sell" => Held(Info[o].symbol) > 0
    /\ executed' = [executed EXCEPT ![o] = @ + 1]
    /\ UNCHANGED <<ingestion, ledger>>

\* _fetch_range: the rows since a day, the latest first, one page of them.
Page(since) ==
    LET rows == {o \in Orders : executed[o] > 0 /\ Info[o].at >= since}
        later(o) == {p \in rows : Info[p].at > Info[o].at}
    IN  {o \in rows : Cardinality(later(o)) < PageSize}
-----------------------------------------------------------------------------
(* FillIngester *)

Fetch(i, since) ==
    /\ ~ingest[i].busy
    /\ LET page == Page(since) IN
       /\ page # {}
       /\ ingest' = [ingest EXCEPT ![i] =
              [busy |-> TRUE, todo |-> {Fill(o, executed[o]) : o \in page}, new |-> {}]]
       /\ partial' = partial \union {o \in page : executed[o] < Info[o].quantity}
    /\ UNCHANGED <<executed, stored, ledger>>

\* The symbol master and has_fill_id decide about each fill.
Check(i, f) ==
    /\ f \in ingest[i].todo
    /\ ingest' = [ingest EXCEPT
           ![i].todo = @ \ {f},
           ![i].new = IF f.symbol \in Listed /\ stored[f.id] = None
                      THEN @ \union {f} ELSE @]
    /\ UNCHANGED <<executed, stored, partial, ledger>>

\* upsert_many: INSERT OR REPLACE.
Store(i) ==
    /\ ingest[i].busy /\ ingest[i].todo = {}
    /\ stored' = [o \in Orders |->
           IF \E f \in ingest[i].new : f.id = o
           THEN CHOOSE f \in ingest[i].new : f.id = o ELSE stored[o]]
    /\ ingest' = [ingest EXCEPT ![i] = Idle]
    /\ UNCHANGED <<executed, partial, ledger>>
-----------------------------------------------------------------------------
(* PositionLedger *)

\* Mutant: the fee of a purchase is no part of its cost.
ApplyBuyWithoutFee(p, f) ==
    LET quantity == p.quantity + f.quantity IN
    [p EXCEPT !.quantity = quantity,
              !.avg = Over(Plus(Times(p.avg, p.quantity), Whole(Gross(f))), quantity),
              !.fees = @ + f.fee]

ApplyBuy(p, f) ==
    LET quantity == p.quantity + f.quantity IN
    [p EXCEPT !.quantity = quantity,
              !.avg = Over(Plus(Times(p.avg, p.quantity), Whole(Gross(f) + f.fee)), quantity),
              !.fees = @ + f.fee]

ApplySell(p, f) ==
    LET quantity == p.quantity - f.quantity
        delta == Minus(Whole(Gross(f) - f.fee - f.tax), Times(p.avg, f.quantity))
    IN  [quantity |-> quantity,
         avg |-> IF quantity > 0 THEN p.avg ELSE Zero,
         realized |-> Plus(p.realized, delta),
         fees |-> p.fees + f.fee, taxes |-> p.taxes + f.tax]

\* apply_fills: in the order of time, then of fill id.
Sorted(fills) ==
    CHOOSE s \in [1 .. Cardinality(fills) -> fills] :
        \A i, j \in DOMAIN s : i < j => s[i] # s[j] /\ s[i].at <= s[j].at

InBook(o) == \E n \in DOMAIN book : book[n].id = o
Stored == {stored[o] : o \in {o \in Orders : stored[o] # None}}

\* The caller hands over stored fills, each of them once.
Submit(fills) ==
    /\ work = <<>> /\ unrecorded = None
    /\ fills # {} /\ \A f \in fills : ~InBook(f.id)
    /\ work' = Sorted(fills)
    /\ UNCHANGED <<executed, ingestion, unrecorded, positions, history, book, torn>>

\* apply_fill up to the upsert.  A sale of more than is held raises: the fills
\* that follow it are not applied.
Apply ==
    /\ work # <<>> /\ unrecorded = None
    /\ LET f == Head(work)
           p == positions[f.symbol] IN
       IF f.side = "sell" /\ f.quantity > p.quantity
       THEN work' = <<>> /\ UNCHANGED <<unrecorded, positions, book>>
       ELSE /\ work' = Tail(work)
            /\ positions' = [positions EXCEPT ![f.symbol] =
                   IF f.side = "buy" THEN ApplyBuy(p, f) ELSE ApplySell(p, f)]
            /\ unrecorded' = f
            /\ book' = Append(book, f)
    /\ UNCHANGED <<executed, ingestion, history, torn>>

AppendHistory ==
    /\ unrecorded # None
    /\ LET p == positions[unrecorded.symbol] IN
       history' = Append(history, [symbol |-> unrecorded.symbol, fill |-> unrecorded.id,
                                   quantity |-> p.quantity, realized |-> p.realized])
    /\ unrecorded' = None
    /\ UNCHANGED <<executed, ingestion, work, positions, book, torn>>

\* rebuild_from_fills: both tables are emptied first.
Rebuild(since) ==
    /\ work = <<>> /\ unrecorded = None
    /\ positions' = [s \in Symbols |-> NoPosition]
    /\ history' = <<>> /\ book' = <<>> /\ torn' = {}
    /\ work' = Sorted({f \in Stored : f.at >= since})
    /\ UNCHANGED <<executed, ingestion, unrecorded>>

Crash ==
    /\ work # <<>> \/ unrecorded # None
    /\ work' = <<>> /\ unrecorded' = None
    /\ torn' = IF unrecorded = None THEN torn ELSE torn \union {unrecorded.id}
    /\ UNCHANGED <<executed, ingestion, positions, history, book>>

IngesterDies(i) ==
    /\ ingest[i].busy
    /\ ingest' = [ingest EXCEPT ![i] = Idle]
    /\ UNCHANGED <<executed, stored, partial, ledger>>

Next ==
    \/ \E o \in Orders : Execute(o)
    \/ \E i \in Ingesters : \/ \E since \in Sinces : Fetch(i, since)
                            \/ \E f \in ingest[i].todo : Check(i, f)
                            \/ Store(i)
                            \/ IngesterDies(i)
    \/ \E fills \in SUBSET Stored : Submit(fills)
    \/ Apply
    \/ AppendHistory
    \/ \E since \in Sinces : Rebuild(since)
    \/ Crash

Spec == Init /\ [][Next]_vars
-----------------------------------------------------------------------------
(* PnLEngine *)

\* _resolve_current_price: a fresh quote, else the last bar, else nothing.
CurrentPrice(quote, bar) == IF quote # None THEN quote ELSE bar

MarketValue(p, price) ==
    IF price # None /\ p.quantity > 0 THEN Times(price, p.quantity) ELSE Zero
Stale(p, price) == p.quantity > 0 /\ price = None
Unrealized(p, price) ==
    IF price # None /\ p.quantity > 0
    THEN Times(Minus(price, p.avg), p.quantity) ELSE Zero

\* Mutant: the fees are taken off the realized profit once more.
PortfolioPnLTwiceFees(cash, price) ==
    LET fresh == {s \in Symbols : ~Stale(positions[s], price[s])} IN
    [realized   |-> SumOver([s \in Symbols |-> Minus(positions[s].realized,
                                                   Whole(positions[s].fees))]),
     unrealized |-> SumOver([s \in fresh |-> Unrealized(positions[s], price[s])]),
     ending     |-> Plus(cash, SumOver([s \in fresh |-> MarketValue(positions[s], price[s])])),
     stale      |-> Symbols \ fresh]

\* compute_portfolio_pnl: what is stale is left out of the sums.
PortfolioPnL(cash, price) ==
    LET fresh == {s \in Symbols : ~Stale(positions[s], price[s])} IN
    [realized   |-> SumOver([s \in Symbols |-> positions[s].realized]),
     unrealized |-> SumOver([s \in fresh |-> Unrealized(positions[s], price[s])]),
     ending     |-> Plus(cash, SumOver([s \in fresh |-> MarketValue(positions[s], price[s])])),
     stale      |-> Symbols \ fresh]
-----------------------------------------------------------------------------
(* Reconciler *)

WithinTolerance(brokerAvg, avg, krw, bps) ==
    \/ AtMost(Distance(brokerAvg, avg), krw)
    \/ /\ avg # Zero
       /\ AtMost(Times(Distance(brokerAvg, avg), 10000), <<avg[1] * bps, avg[2]>>)

Mismatch(s, brokerAvg, krw, bps) ==
    CASE Held(s) > 0 /\ positions[s].quantity = 0 -> "broker_only"
      [] Held(s) = 0 /\ positions[s].quantity > 0 -> "ledger_only"
      [] Held(s) # positions[s].quantity -> "quantity"
      [] Held(s) > 0 /\ ~WithinTolerance(brokerAvg, positions[s].avg, krw, bps) -> "avg_price"
      [] OTHER -> None

\* severity, for any averages the broker may report.
Severity(brokerAvg, krw, bps) ==
    LET found == {Mismatch(s, brokerAvg, krw, bps) : s \in Symbols} \ {None} IN
    IF found = {} THEN "ok" ELSE IF found = {"avg_price"} THEN "minor" ELSE "major"
-----------------------------------------------------------------------------
(* What must hold *)

Booked(s) == {book[n] : n \in {n \in DOMAIN book : book[n].symbol = s}}
Quantity(side, fills) ==
    SumFunction([f \in {x \in fills : x.side = side} |-> f.quantity])
NetFlow(fills) == SumFunction([f \in fills |-> NetAmount(f)])

\* Whatever the order in which fills were applied, the position holds what was
\* bought and not sold, and profit and cost basis explain every won that moved:
\* realized = cash received - cash spent + what the holdings cost.
BooksBalance ==
    \A s \in Symbols :
        LET p == positions[s] IN
        /\ p.quantity = Quantity("buy", Booked(s)) - Quantity("sell", Booked(s))
        /\ p.realized = Plus(Whole(NetFlow(Booked(s))),
                             Times(p.avg, p.quantity))
        /\ p.quantity = 0 => p.avg = Zero

\* The history tells of every applied fill, in order, but for the one being
\* written and those whose row was lost by a crash.
HistoryIsComplete ==
    LET told == {n \in DOMAIN book : book[n] # unrecorded /\ book[n].id \notin torn}
        row(n) == Cardinality({m \in told : m <= n})
    IN  /\ Len(history) = Cardinality(told)
        /\ \A n \in told : history[row(n)].fill = book[n].id

\* What is stored never exceeds what the broker executed, and an order that no
\* ingester saw half-executed is stored in full.
StoreIsSound ==
    \A o \in Orders : stored[o] # None =>
        /\ stored[o].quantity <= executed[o]
        /\ o \notin partial => stored[o].quantity = Info[o].quantity

\* The P&L report explains the capital: what it starts with and earns is what
\* it ends with and what the stale positions, left out of it, have cost.
CapitalIsExplained ==
    \A quote, bar \in {None, Whole(2)} :
        LET cash == Whole(10 + NetFlow(ToSet(book)))
            pnl == PortfolioPnL(cash, [s \in Symbols |-> CurrentPrice(quote, bar)])
        IN  Plus(Whole(10), Plus(pnl.realized, pnl.unrealized)) =
            Plus(pnl.ending, SumOver([s \in pnl.stale |->
                     Times(positions[s].avg, positions[s].quantity)]))

\* Once everything that was executed is stored and applied, the reconciliation
\* finds no difference but in average prices.
NoFalseAlarm ==
    /\ \A o \in Orders : executed[o] > 0 => InBook(o) /\ stored[o].quantity = executed[o]
    /\ \A n \in DOMAIN book : book[n] \in Stored
    => Severity(Zero, Whole(1), 1) # "major"

(* execution/fill_*.py and pnl/position_*.py: what is stored was executed,  *)
(* the positions, their cost and the realized profit are what the applied   *)
(* fills come to, and the history tells of each of them, in order, through  *)
(* overlapping ingestions, rebuilds and crashes.                            *)
BooksFollowFills == TypeOK /\ StoreIsSound /\ BooksBalance /\ HistoryIsComplete

(* pnl/pnl_engine.py and reconciliation.py: the report explains the change  *)
(* of the capital to the won, also with stale prices, and once everything   *)
(* executed is applied the reconciliation calls nothing major.              *)
ReportsExplainBooks == CapitalIsExplained /\ NoFalseAlarm
=============================================================================
