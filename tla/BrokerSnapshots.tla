---------------------------- MODULE BrokerSnapshots ----------------------------
(* What the broker's answers become: the two account adapters, brokers/     *)
(* kis_adapter.py and brokers/kis/account.py, that read the same rows; the  *)
(* order list; the order book (quote.py) and the bars (market_data.py).     *)
(*                                                                         *)
(* A field of an answer is a number, None when it is missing or empty, or   *)
(* Garbled when it is no number.  An answer with another status than 200,   *)
(* or one without the expected parts, raises before anything is read.       *)
EXTENDS Integers, Sequences, FiniteSets, SequencesExt
CONSTANTS None, Garbled, Raises,
          Listed      \* the codes with six characters

IsNumber(field) == field \notin {None, Garbled}

\* _to_decimal of the adapter: whatever is no number is zero.
ToDecimal(field) == IF IsNumber(field) THEN field ELSE 0

\* _dec of the account: a missing field is zero, a garbled one raises
\* decimal.InvalidOperation, which no handler around it names.
OrZero(field) == IF field = None THEN 0 ELSE field

-----------------------------------------------------------------------------
\* KISBrokerAdapter.get_positions: of either sign, with any code.
GetPositions(rows) ==
    LET kept == SelectSeq(rows, LAMBDA r : ToDecimal(r.qty) # 0 /\ r.code # "")
    IN  [i \in DOMAIN kept |-> [code |-> kept[i].code, qty |-> kept[i].qty,
                                cost |-> ToDecimal(kept[i].cost)]]

\* KISAccount._parse_positions: whole shares held of codes with six characters;
\* the last row of a code stands.
Holds(row) == row.code \in Listed /\ IsNumber(row.qty) /\ row.qty > 0
ParsePositions(rows) ==
    LET held == SelectSeq(rows, Holds)
    IN  [c \in {r.code : r \in Range(held)} |->
           LET row == SelectLastInSeq(held, LAMBDA r : r.code = c)
           IN  [qty |-> held[row].qty, cost |-> OrZero(held[row].cost)]]

\* get_account_summary and fetch_account_snapshot: what can be spent.
GetAccountSummary(sum) ==
    [cash |-> ToDecimal(sum.cash), equity |-> ToDecimal(sum.equity),
     power |-> ToDecimal(IF sum.orderable = None THEN sum.excess ELSE sum.orderable)]
AccountSnapshot(rows, sum) ==
    IF Garbled \in {sum.cash, sum.orderable, sum.equity}
                   \union {r.cost : r \in Range(SelectSeq(rows, Holds))} THEN Raises
    ELSE [cash |-> OrZero(sum.cash), equity |-> OrZero(sum.equity),
          power |-> IF OrZero(sum.orderable) > 0 THEN sum.orderable ELSE OrZero(sum.cash),
          positions |-> ParsePositions(rows)]

-----------------------------------------------------------------------------
\* _parse_order_row: a cancellation counts before any execution.
StatusOf(row) ==
    LET qty == ToDecimal(row.qty)
        filled == ToDecimal(row.filled)
    IN  IF row.cancelled THEN "cancelled"
        ELSE IF filled >= qty /\ qty > 0 THEN "filled"
        ELSE IF filled > 0 THEN "partially_filled" ELSE "pending"
ParseOrderRow(row) ==
    [id |-> row.id, qty |-> ToDecimal(row.qty), filled |-> ToDecimal(row.filled),
     status |-> StatusOf(row)]

\* get_orders: the limit cuts the rows before the status picks among them.
GetOrders(rows, status, limit) ==
    LET first == SelectSeq(SubSeq(rows, 1, IF Len(rows) < limit THEN Len(rows) ELSE limit),
                           LAMBDA r : r.id # "")
        orders == [i \in DOMAIN first |-> ParseOrderRow(first[i])]
    IN  SelectSeq(orders, LAMBDA o : status = None \/ o.status = status)

-----------------------------------------------------------------------------
\* _parse_orderbook and QuoteSnapshot.__post_init__: levels are sequences of
\* [ask, bid, askSize, bidSize]; an empty one is skipped, a garbled level behind
\* the first too, if it is a size.
Size(level) == {level.askSize, level.bidSize}
Quoted(level) == OrZero(level.ask) > 0 \/ OrZero(level.bid) > 0
ParseOrderbook(levels, stamp, now) ==
    LET best == levels[1]
        Read(l) == {l.ask, l.bid} \union Size(l)
        shown == SelectSeq([i \in DOMAIN levels |-> levels[i] @@ [level |-> i]],
                           LAMBDA l : Garbled \notin Size(l) /\ Quoted(l))
    IN  IF \/ \E l \in Range(levels) : Garbled \in {l.ask, l.bid}
           \/ Garbled \in Size(best)
           \/ OrZero(best.bid) <= 0 \/ OrZero(best.ask) < OrZero(best.bid)
           \/ \E l \in Range(shown) : \E n \in Size(l) : OrZero(n) < 0
        THEN Raises
        ELSE [bid |-> best.bid, ask |-> best.ask,
              bidSize |-> OrZero(best.bidSize), askSize |-> OrZero(best.askSize),
              depth |-> [i \in DOMAIN shown |->
                           [level |-> shown[i].level,
                            price |-> IF OrZero(shown[i].ask) > 0 THEN shown[i].ask ELSE shown[i].bid,
                            bidSize |-> OrZero(shown[i].bidSize),
                            askSize |-> OrZero(shown[i].askSize)]],
              \* the hour of the stamp on the day of now
              captured |-> IF stamp = None THEN now ELSE stamp, received |-> now]

\* Twice the middle; the excess of the bid side, of the best or of the first levels.
MidQuote(q) == q.bid + q.ask
Imbalance(q) == <<q.bidSize - q.askSize, q.bidSize + q.askSize>>
DepthImbalance(q, n) ==
    LET first == SubSeq(q.depth, 1, IF Len(q.depth) < n THEN Len(q.depth) ELSE n)
    IN  FoldLeft(LAMBDA a, l : <<a[1] + l.bidSize - l.askSize, a[2] + l.bidSize + l.askSize>>,
                 <<0, 0>>, first)

-----------------------------------------------------------------------------
\* _parse_daily_row, _parse_minute_row and OHLCVBar.__post_init__; a time that
\* cannot be read is None.
Prices(row) == {row.open, row.high, row.low, row.close}
Parses(row) ==
    /\ row.at # None /\ row.volume # Garbled /\ OrZero(row.volume) >= 0
    /\ \A p \in Prices(row) : IsNumber(p) /\ p > 0
    /\ row.low <= row.open /\ row.open <= row.high
    /\ row.low <= row.close /\ row.close <= row.high
Direction(close, previous) ==
    IF previous = None THEN "unknown"
    ELSE IF close > previous THEN "up" ELSE IF close < previous THEN "down" ELSE "zero"

\* _fetch_daily asks for the days, _fetch_minute keeps what is in the range;
\* rows come newest first, and each bar follows the bar that was kept before it.
Ordered(rows, from, to) ==
    SelectSeq(Reverse(rows), LAMBDA r : Parses(r) /\ from <= r.at /\ r.at <= to)
FetchBars(rows, from, to) ==
    LET kept == Ordered(rows, from, to)
    IN  IF \E r \in Range(rows) : r.at # None /\ Garbled \in Prices(r) THEN Raises
        ELSE [i \in DOMAIN kept |->
                [at |-> kept[i].at, close |-> kept[i].close,
                 direction |-> Direction(kept[i].close,
                                         IF i = 1 THEN None ELSE kept[i - 1].close)]]

-----------------------------------------------------------------------------
(* brokers/kis_adapter.py, brokers/kis/account.py: where the account gives  *)
(* an answer, both adapters hold the same quantity of every listed code at  *)
(* the same cost, unless the broker repeats a code; what the account lets   *)
(* spend is one of the adapter's figures; and the adapter values a position *)
(* at zero instead of a garbled number only where the account refuses.      *)
AdaptersAgree(rows, sum) ==
    LET account == AccountSnapshot(rows, sum)
        adapter == GetPositions(rows)
        listed == SelectSeq(adapter, LAMBDA p : p.code \in Listed /\ p.qty > 0)
        summary == GetAccountSummary(sum)
    IN  account # Raises =>
          /\ DOMAIN account.positions = {p.code : p \in Range(listed)}
          /\ \A i \in DOMAIN listed :
               (\A j \in i + 1 .. Len(listed) : listed[j].code # listed[i].code) =>
                 account.positions[listed[i].code] = [qty |-> listed[i].qty, cost |-> listed[i].cost]
          /\ account.cash = summary.cash /\ account.equity = summary.equity
          /\ IsNumber(sum.orderable) => account.power \in {summary.power, summary.cash}
          /\ \A p \in Range(listed) : p.cost = 0 =>
               \E r \in Range(rows) : r.code = p.code /\ r.cost \in {None, 0}

(* brokers/kis_adapter.py: the lists by status are the whole list taken     *)
(* apart, a smaller limit gives a beginning of a larger one's list, and an  *)
(* order that is told as done is executed in full or cancelled.             *)
OrdersPartition(rows, limit) ==
    LET Statuses == {"cancelled", "filled", "partially_filled", "pending"}
        all == GetOrders(rows, None, limit)
    IN  /\ Len(all) = FoldSet(LAMBDA s, n : n + Len(GetOrders(rows, s, limit)), 0, Statuses)
        /\ \A s \in Statuses \union {None} :
             IsPrefix(GetOrders(rows, s, limit), GetOrders(rows, s, limit + 1))
        /\ \A o \in Range(all) :
             /\ o.status = "filled" => o.filled >= o.qty
             /\ o.status \in {"pending", "partially_filled"} /\ o.qty > 0 => o.filled < o.qty

(* brokers/kis/quote.py: a book that is taken is not crossed, its levels    *)
(* stand in the order of the broker's and the first one says of the sizes   *)
(* what the best prices say; and it was captured no later than it arrived,  *)
(* if the stamp is of today.                                                *)
BookIsSane(levels, stamp, now) ==
    LET q == ParseOrderbook(levels, stamp, now)
    IN  q # Raises =>
          /\ 2 * q.bid <= MidQuote(q) /\ MidQuote(q) <= 2 * q.ask
          /\ DepthImbalance(q, 1) = Imbalance(q)
          /\ \A i \in DOMAIN q.depth : q.depth[i].price > 0
          /\ \A i \in 1 .. Len(q.depth) - 1 : q.depth[i].level < q.depth[i + 1].level
          /\ DepthImbalance(q, Len(q.depth))[2] >= Imbalance(q)[2]
          /\ stamp = None \/ stamp <= now => q.captured <= q.received

(* brokers/kis/market_data.py: bars come oldest first, and a range fetched  *)
(* in two parts gives the bars of the whole, but for the direction of the   *)
(* first bar of the second part, which it cannot know.                      *)
PartsMakeTheWhole(rows, from, middle, to) ==
    LET whole == FetchBars(rows, from, to)
        early == FetchBars(rows, from, middle)
        late == FetchBars(rows, middle + 1, to)
    IN  whole # Raises =>
          /\ Len(whole) = Len(early) + Len(late)
          /\ \A i \in DOMAIN whole :
               LET part == (early \o late)[i]
               IN  /\ part.at = whole[i].at /\ part.close = whole[i].close
                   /\ i # Len(early) + 1 => part.direction = whole[i].direction
          /\ \A i \in 1 .. Len(whole) - 1 :
               (whole[i + 1].direction = "up") <=> (whole[i].close < whole[i + 1].close)
=============================================================================
