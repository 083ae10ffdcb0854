---------------------------- MODULE SymbolMaster ----------------------------
(* data/symbol_master.py and symbol_status.py: the symbols listed by a CSV  *)
(* file, checked row by row, kept in an SQLite table and asked for.  A file *)
(* is a header and rows of texts; a row shorter than the header has no      *)
(* value for its last columns.  A time is <<local, offset>>, <<local>>      *)
(* without a time zone, or empty.                                           *)
EXTENDS Integers, Sequences, FiniteSets, FiniteSetsExt
CONSTANTS Codes,      \* the texts of six digits
          Spelling,   \* what texts become without blanks and in their case
          NoValue,    \* of a row that is too short
          Unreadable, \* a text that its column does not know
          Invalid, Crash  \* what a load answers: SymbolValidationError, another

Columns == {"code", "name_kr", "name_en", "market", "instrument_type", "lot_size",
            "tick_policy", "status", "currency", "listed_date", "updated_at"}
Enums == [market |-> {"KOSPI", "KOSDAQ", "KONEX"}, instrument_type |-> {"stock", "etf", "etn"},
          tick_policy |-> {"krx_stock", "krx_etf"},
          status |-> {"active", "halted", "suspended", "delisted"}]
Kept == (DOMAIN Enums) \union {"code", "lot_size", "currency", "updated_at", "sector"}

Plain(text) == IF text \in DOMAIN Spelling THEN Spelling[text] ELSE text
IsUtc(time) == Len(time) = 2 /\ time[2] = 0

\* _validate_code, the enumerations, _parse_optional_date and _datetime:
\* what is wrong with one column of a row, or nothing.
Has(row, c) == c \in DOMAIN row /\ row[c] # NoValue
Fault(row, c) ==
    LET short == c \in DOMAIN row /\ row[c] = NoValue
    IN  CASE c = "code" ->
               IF Has(row, c) /\ Plain(row[c]) \in Codes THEN {} ELSE {Invalid}
          [] c \in DOMAIN Enums ->
               IF short THEN {Crash}
               ELSE IF Has(row, c) /\ Plain(row[c]) \in Enums[c] THEN {} ELSE {Invalid}
          [] c = "lot_size" ->
               IF short THEN {Crash}
               ELSE IF Has(row, c) /\ row[c] # Unreadable /\ row[c] > 0 THEN {} ELSE {Invalid}
          [] c \in {"name_kr", "name_en", "currency"} -> IF short THEN {Crash} ELSE {}
          [] c = "listed_date" -> IF Has(row, c) /\ row[c] = Unreadable THEN {Invalid} ELSE {}
          [] c = "updated_at" ->
               IF Has(row, c) /\ (row[c] = Unreadable \/ Len(row[c]) = 1) THEN {Invalid} ELSE {}

\* _row_to_symbol: the columns in the order in which they are read.
Reading == <<"code", "market", "instrument_type", "tick_policy", "status", "lot_size",
             "name_kr", "name_en", "currency", "listed_date", "updated_at">>
Faults(row) == {i \in DOMAIN Reading : Fault(row, Reading[i]) # {}}
FirstFault(row) == CHOOSE f \in Fault(row, Reading[Min(Faults(row))]) : TRUE

TextOr(row, c, default) ==
    IF ~Has(row, c) \/ Plain(row[c]) = "" THEN default ELSE Plain(row[c])
SymbolOf(row) ==
    [c \in Kept |->
       CASE c = "lot_size" -> row[c]
         [] c = "currency" -> TextOr(row, c, "KRW")
         [] c = "sector" -> TextOr(row, c, "unknown")
         [] c = "updated_at" ->
              IF ~Has(row, c) \/ row[c] = <<>> THEN <<>> ELSE <<row[c][1] - row[c][2], 0>>
         [] OTHER -> Plain(row[c])]

\* The first row that cannot be taken ends the load, and nothing is loaded.
Load(rows) ==
    LET CodeOf(i) == Plain(rows[i]["code"])
        bad == {i \in DOMAIN rows : \/ Faults(rows[i]) # {}
                                    \/ \E j \in 1 .. i - 1 : /\ Faults(rows[j]) = {}
                                                             /\ CodeOf(j) = CodeOf(i)}
    IN  IF bad = {}
        THEN [code \in {CodeOf(i) : i \in DOMAIN rows} |->
                SymbolOf(rows[CHOOSE i \in DOMAIN rows : CodeOf(i) = code])]
        ELSE IF Faults(rows[Min(bad)]) = {} THEN Invalid ELSE FirstFault(rows[Min(bad)])

FromCsv(file) == IF Columns \subseteq file.header THEN Load(file.rows) ELSE Invalid

\* to_sqlite and from_sqlite: SELECT * without an order, and no header check;
\* names and listing dates are stored as well.
Stored(symbol) ==
    [c \in Columns \union Kept |-> IF c \in Kept THEN symbol[c] ELSE ""]
Tables(master) ==
    {[i \in DOMAIN order |-> Stored(master[order[i]])] :
       order \in {o \in [1 .. Cardinality(DOMAIN master) -> DOMAIN master] :
                    Cardinality({o[i] : i \in DOMAIN o}) = Cardinality(DOMAIN master)}}
Without(table, c) == [i \in DOMAIN table |-> [d \in DOMAIN table[i] \ {c} |-> table[i][d]]]

-----------------------------------------------------------------------------
\* The queries; a code that is not listed has no symbol and is not tradable.
IsTradable(master, code) == code \in DOMAIN master /\ master[code].status = "active"
TradableCodes(master) == {code \in DOMAIN master : master[code].status = "active"}
FilterBy(master, c, value) == {code \in DOMAIN master : master[code][c] = value}
FilterBySector(master, text) == FilterBy(master, "sector", Plain(text))
AllSectors(master) == {master[code].sector : code \in DOMAIN master}
GetSector(master, code, default) ==
    IF code \in DOMAIN master THEN master[code].sector ELSE default
Counter(master, c) ==
    [v \in {master[code][c] : code \in DOMAIN master} |-> Cardinality(FilterBy(master, c, v))]
Summary(master) ==
    [total |-> Cardinality(DOMAIN master), by |-> [c \in Kept |-> Counter(master, c)],
     tradable |-> Cardinality(TradableCodes(master))]

-----------------------------------------------------------------------------
(* A file is loaded as a whole or not at all: every row of it is a symbol,  *)
(* whatever the order of the rows, a part of it loads and says the same,    *)
(* and every status and market that was taken is one the program knows.     *)
LoadedIsWhole(file) ==
    LET m == FromCsv(file)
        n == Len(file.rows)
        FromRows(rows) == FromCsv([file EXCEPT !.rows = rows])
        part == FromRows(SubSeq(file.rows, 1, n - 1))
        turned == FromRows([i \in 1 .. n |-> file.rows[n + 1 - i]])
    IN  /\ (m \in {Invalid, Crash}) <=> (turned \in {Invalid, Crash})
        /\ n > 0 /\ part \in {Invalid, Crash} => m = part
        /\ m \notin {Invalid, Crash} =>
             /\ Cardinality(DOMAIN m) = n /\ turned = m
             /\ n > 0 => \A code \in DOMAIN part : part[code] = m[code]
             /\ \A code \in DOMAIN m :
                  /\ m[code].code = code /\ m[code].lot_size > 0
                  /\ \A c \in DOMAIN Enums : m[code][c] \in Enums[c]
                  /\ m[code].updated_at = <<>> \/ IsUtc(m[code].updated_at)

(* A master that was saved is the master that is read back, also from a     *)
(* table that was made before there were sectors, except for these.         *)
CacheKeepsTheMaster(file) ==
    LET m == FromCsv(file)
    IN  m \notin {Invalid, Crash} =>
          \A table \in Tables(m) :
            /\ Load(table) = m
            /\ Load(Without(table, "sector")) =
                 [code \in DOMAIN m |-> [m[code] EXCEPT !.sector = "unknown"]]

(* The answers of a master agree: each symbol is in one market, status and  *)
(* sector, found by any spelling of it, the counts come to the total, and   *)
(* exactly the active ones are tradable, of those in the file or not.       *)
QueriesAgree(file, codes) ==
    LET m == FromCsv(file)
        summary == Summary(m)
    IN  m \notin {Invalid, Crash} =>
          /\ \A code \in codes :
               /\ IsTradable(m, code) <=> code \in TradableCodes(m)
               /\ IsTradable(m, code) <=> code \in FilterBy(m, "status", "active")
               /\ code \in DOMAIN m <=> GetSector(m, code, NoValue) # NoValue
          /\ \A c \in Kept : summary.total =
               MapThenSumSet(LAMBDA v : summary.by[c][v], DOMAIN summary.by[c])
          /\ summary.tradable = IF "active" \in DOMAIN summary.by.status
                                THEN summary.by.status["active"] ELSE 0
          /\ \A i \in DOMAIN file.rows :
               Has(file.rows[i], "sector") /\ file.rows[i].sector # "" =>
                 Plain(file.rows[i]["code"]) \in FilterBySector(m, file.rows[i].sector)
          /\ UNION {FilterBySector(m, s) : s \in AllSectors(m)} = DOMAIN m
=============================================================================
