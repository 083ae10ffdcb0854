----------------------------- MODULE MarketData -----------------------------
(* What the data directory keeps in SQLite and how it is read back: the     *)
(* cache of the symbol master (data/symbol_master.py), bars                 *)
(* (market_data.py, ohlcv_store.py, volume_classifier.py, dummy_source.py)  *)
(* of one symbol, and its quotes (quote_store.py, quote_schema.py).         *)
(*                                                                         *)
(* A master is the set of its codes with their status.  Times of bars are   *)
(* multiples of the timeframe.  Prices are whole; what the source draws at  *)
(* random is fixed by the constants.                                        *)
EXTENDS Integers, Sequences, FiniteSets, FiniteSetsExt

CONSTANTS None,
          Savers, MasterOf,   \* processes, and the master each of them saves
          Code,               \* the symbol of the bars
          Ranges,             \* what is ingested: <<first, last>>
          Base, Change, Pressure, Volume,  \* DummySource
          Captures, MaxAge, MaxClock

Times == UNION {r[1] .. r[2] : r \in Ranges}

VARIABLES table,    \* the cache as committed: None without a table, or its rows
          saver,    \* [Savers -> where to_sqlite stands]
          master,   \* the last master from_sqlite returned, None before
          bars,     \* [Times -> the stored bar or None]
          quotes,   \* the stored snapshots
          depth,    \* the captures that have depth rows
          late,     \* history: captures stored after a later capture
          now
vars == <<table, saver, master, bars, quotes, depth, late, now>>
cache == <<table, saver, master>>
market == <<quotes, depth, late, now>>

Init ==
    /\ table = None /\ saver = [p \in Savers |-> "idle"]
    /\ master = None
    /\ bars = [t \in Times |-> None]
    /\ quotes = {} /\ depth = {} /\ late = {} /\ now = 0

-----------------------------------------------------------------------------
(* to_sqlite.  DROP and CREATE commit at once; the first INSERT opens a     *)
(* transaction, which holds the write lock until the commit.                *)

Inserting == {p \in Savers : saver[p] = "inserted"}
Goes(p, from, to) == saver[p] = from /\ saver' = [saver EXCEPT ![p] = to]

Drop(p) ==
    /\ Inserting = {} /\ Goes(p, "idle", "dropped")
    /\ table' = None /\ UNCHANGED <<master, bars, market>>

Create(p) ==
    /\ Inserting = {} /\ table = None /\ Goes(p, "dropped", "made")
    /\ table' = {}
    /\ UNCHANGED <<master, bars, market>>

\* The rows are the saver's and those that are there; a code that is there
\* already violates the primary key.
Conflict(p) == \E row \in table, mine \in MasterOf[p] : row.code = mine.code
InsertsAll(p) == table # None /\ ~Conflict(p)

Insert(p) ==
    /\ Inserting = {} /\ InsertsAll(p) /\ Goes(p, "made", "inserted")
    /\ UNCHANGED <<table, master, bars, market>>

Commit(p) ==
    /\ Goes(p, "inserted", "saved")
    /\ table' = table \union MasterOf[p] /\ UNCHANGED <<master, bars, market>>

\* The statement fails, waits too long for the lock, or the process ends;
\* what is not committed is gone.
SaveFails(p) ==
    /\ saver[p] \notin {"idle", "saved", "failed"}
    /\ saver' = [saver EXCEPT ![p] = "failed"]
    /\ UNCHANGED <<table, master, bars, market>>

\* from_sqlite raises without a table and leaves the old master.
FromSqlite ==
    /\ table # None /\ master' = table
    /\ UNCHANGED <<table, saver, bars, market>>

IsTradable(code) == master # None /\ [code |-> code, status |-> "active"] \in master

-----------------------------------------------------------------------------
(* DummySource.fetch_bars: each close follows from the one before it in the *)
(* same request, the first from the base price.                             *)
Close(first, t) == Base + FoldSet(LAMBDA s, sum : sum + Change[s], 0, first .. t)

Direction(close, previous) ==
    CASE previous = None -> "unknown"
      [] previous # None /\ close > previous -> "up"
      [] previous # None /\ close < previous -> "down"
      [] OTHER -> "zero"

\* estimate_up_down_volume_hybrid, with ratios in percent; without a previous
\* close only the place of the close within the bar counts.
UpRatio(direction, pressure) ==
    CASE direction = "unknown" -> pressure
      [] direction = "up" -> (60 * 70 + 40 * pressure) \div 100
      [] direction = "down" -> (60 * 30 + 40 * pressure) \div 100
      [] OTHER -> (60 * 50 + 40 * pressure) \div 100

ClassifyBar(close, previous, pressure) ==
    LET direction == Direction(close, previous)
        up == (Volume * UpRatio(direction, pressure)) \div 100
    IN  [close |-> close, direction |-> direction, up |-> up, down |-> Volume - up]

FetchBars(r) ==
    [t \in r[1] .. r[2] |->
        ClassifyBar(Close(r[1], t), IF t = r[1] THEN None ELSE Close(r[1], t - 1), Pressure[t])]

UpsertBars(batch) ==
    [t \in Times |-> IF t \in DOMAIN batch THEN batch[t] ELSE bars[t]]

\* ingest: a symbol that is not tradable is reported and nothing is stored.
Ingest(r) ==
    /\ IsTradable(Code)
    /\ bars' = UpsertBars(FetchBars(r))
    /\ UNCHANGED <<cache, market>>

-----------------------------------------------------------------------------
(* Reading bars back *)
Fetched(first, last) == {t \in first .. last : t \in Times /\ bars[t] # None}

\* Adjacent bars more than one and a half timeframes apart.
DetectGaps(first, last) ==
    LET found == Fetched(first, last)
    IN  {g \in found \X found :
           2 * (g[2] - g[1]) > 3 /\ ~\E u \in found : g[1] < u /\ u < g[2]}

CumulativeVolumeDelta(first, t) ==
    FoldSet(LAMBDA s, sum : sum + bars[s].up - bars[s].down, 0, Fetched(first, t))

-----------------------------------------------------------------------------
(* QuoteStore *)

\* upsert: a snapshot captured at c is received now; it replaces one of the
\* same capture, and its depth rows with it.
Upsert(c) ==
    /\ c <= now
    /\ quotes' = {q \in quotes : q.captured # c} \union {[captured |-> c, received |-> now]}
    /\ depth' = depth \union {c}
    /\ late' = IF \E q \in quotes : q.captured > c THEN late \union {c} ELSE late
    /\ UNCHANGED <<cache, bars, now>>

\* The depth rows go with their snapshot (ON DELETE CASCADE).
PurgeOlderThan(c) ==
    /\ quotes' = {q \in quotes : q.captured >= c}
    /\ depth' = depth \intersect {q.captured : q \in quotes'}
    /\ UNCHANGED <<cache, bars, late, now>>

\* Mutant: the last to arrive, not the last captured.
LatestReceived == CHOOSE q \in quotes : \A o \in quotes : o.received <= q.received

\* latest: the last captured.  latest_fresh judges its age by its arrival.
Latest == CHOOSE q \in quotes : \A o \in quotes : o.captured <= q.captured
IsStale(q) == now - q.received < 0 \/ now - q.received > MaxAge
LatestFresh == IF quotes = {} \/ IsStale(Latest) THEN None ELSE Latest

Tick == now < MaxClock /\ now' = now + 1
        /\ UNCHANGED <<cache, bars, quotes, depth, late>>

Next ==
    \/ \E p \in Savers : Drop(p) \/ Create(p) \/ Insert(p) \/ Commit(p) \/ SaveFails(p)
    \/ FromSqlite
    \/ \E r \in Ranges : Ingest(r)
    \/ \E c \in Captures : Upsert(c) \/ PurgeOlderThan(c)
    \/ Tick

Spec == Init /\ [][Next]_vars

-----------------------------------------------------------------------------
TypeOK ==
    /\ saver \in [Savers -> {"idle", "dropped", "made", "inserted", "saved", "failed"}]
    /\ late \subseteq Captures
    /\ depth \subseteq Captures /\ Cardinality(quotes) = Cardinality({q.captured : q \in quotes})

Apart(p, q) == \A row \in MasterOf[p], mine \in MasterOf[q] : row.code # mine.code
Whole(rows) ==
    \E P \in SUBSET Savers :
        /\ rows = UNION {MasterOf[p] : p \in P}
        /\ \A p, q \in P : p # q => Apart(p, q)

(* However savers, their failures and loads interleave, what is saved or    *)
(* loaded are whole masters, or none, and two that share a code are never   *)
(* mixed: nothing is tradable that the master it came from does not list as *)
(* active.  Masters without a common code do end up in one table.           *)
MasterIsWhole ==
    /\ table # None => Whole(table)
    /\ master # None => Whole(master)

(* Whatever ranges were ingested over each other, the volume of a bar is    *)
(* split without rest, the delta of a range adds up from it, and every      *)
(* missing bar between stored ones is in a gap, and in one only.            *)
BarsAddUp ==
    \A r \in Ranges :
      LET found == Fetched(r[1], r[2]) IN
      /\ \A t \in found : bars[t].up >= 0 /\ bars[t].down >= 0 /\ bars[t].up + bars[t].down = Volume
      /\ \A t \in found :
           CumulativeVolumeDelta(r[1], t) =
             2 * FoldSet(LAMBDA s, sum : sum + bars[s].up, 0, Fetched(r[1], t))
               - Cardinality(Fetched(r[1], t)) * Volume
      /\ found # {} => \A t \in Min(found) .. Max(found) :
           t \notin found <=> Cardinality({g \in DetectGaps(r[1], r[2]) : g[1] < t /\ t < g[2]}) = 1

(* A quote that is answered as fresh was received in time and no later      *)
(* capture is stored; no answer, although one was received in time, only    *)
(* after captures arrived out of order.  Depth rows have their snapshot.    *)
FreshQuotesAreFound ==
    /\ LatestFresh # None =>
         /\ now - LatestFresh.received \in 0 .. MaxAge
         /\ \A q \in quotes : q.captured <= LatestFresh.captured
    /\ LatestFresh = None /\ (\E q \in quotes : ~IsStale(q)) => late # {}
    /\ depth = {q.captured : q \in quotes}
=============================================================================
