---------------------------- MODULE PortfolioRisk ----------------------------
(***************************************************************************)
(* The analysis of a portfolio and of an order's effect on it              *)
(* (risk/portfolio_risk.py).  It answers twice: analyze() compares exact   *)
(* shares of the equity with the limits and words warnings; project()      *)
(* compares the shares as they are reported, rounded to four decimals.     *)
(* Limits and shares are in basis points of the equity.                    *)
(***************************************************************************)
EXTENDS Integers, FiniteSets, FiniteSetsExt

CONSTANTS
    Symbols,
    SectorOf,         \* [Symbols -> STRING]; "unknown" when sector_map lacks it
    TotalLimit, SectorLimit, SymbolLimit, OrderLimit,   \* basis points
    MinSectors        \* sector_min_diversification

\* Positions: [Symbols -> Nat], the market values; 0 is no position.
Held(pos) == {s \in Symbols : pos[s] # 0}
Sectors(pos) == {SectorOf[s] : s \in Held(pos)}
InSector(pos, sector) == {s \in Held(pos) : SectorOf[s] = sector}
Worth(pos, S) == MapThenSumSet(LAMBDA s : pos[s], S)
Exposure(pos) == Worth(pos, Held(pos))

\* ETFs are exempt from the sector rules.
Counted(sectors) == sectors \ {"etf"}

\* Decimal.quantize(0.0001): half to even.
Rounded(value, equity) ==
    LET whole == (value * 10000) \div equity
        rest == 2 * ((value * 10000) % equity)
    IN  IF rest > equity \/ (rest = equity /\ whole % 2 = 1) THEN whole + 1 ELSE whole

\* A comparison of the exact share; without equity every share is 0, except
\* the total's, which is 1.
Exceeds(value, equity, limit) == equity > 0 /\ value * 10000 > limit * equity

TotalExceeds(pos, equity) ==
    IF equity > 0 THEN Exceeds(Exposure(pos), equity, TotalLimit)
    ELSE Exposure(pos) > 0 /\ 10000 > TotalLimit

\* _evaluate_warnings: what each warning is about.
Warnings(pos, equity) ==
    IF equity <= 0 /\ Exposure(pos) > 0 THEN {<<"equity", "">>}
    ELSE (IF TotalExceeds(pos, equity) THEN {<<"total", "">>} ELSE {})
         \union {<<"symbol", s>> : s \in {t \in Held(pos) : Exceeds(pos[t], equity, SymbolLimit)}}
         \union {<<"sector", c>> : c \in {d \in Counted(Sectors(pos)) :
                     Exceeds(Worth(pos, InSector(pos, d)), equity, SectorLimit)}}
         \union (IF Held(pos) # {} /\ Cardinality(Counted(Sectors(pos))) < MinSectors
                 THEN {<<"spread", "">>} ELSE {})
         \union (IF Exceeds(Worth(pos, InSector(pos, "unknown")), equity, 5000)
                 THEN {<<"unknown", "">>} ELSE {})

\* With critical_multiplier 1 an exceeded total is critical at once.
Severity(pos, equity) ==
    CASE {<<"equity", "">>, <<"total", "">>} \intersect Warnings(pos, equity) # {} -> "critical"
      [] Warnings(pos, equity) = {} -> "ok"
      [] OTHER -> "warning"

-----------------------------------------------------------------------------
\* The positions project() looks at: a sale stops at zero.
After(pos, order) ==
    [pos EXCEPT ![order.symbol] =
       IF order.side = "buy" THEN @ + order.value
       ELSE IF @ > order.value THEN @ - order.value ELSE 0]

RoundedExceeds(value, equity, limit) == equity > 0 /\ Rounded(value, equity) > limit

SectorsToFlagAll(pos) == Sectors(pos)
SectorsToFlag(pos) == Counted(Sectors(pos))

\* would_exceed of an order of positive value: the keys that are true.
WouldExceed(pos, equity, order) ==
    LET after == After(pos, order)
        total == IF equity > 0 THEN RoundedExceeds(Exposure(after), equity, TotalLimit)
                 ELSE Exposure(after) > 0 /\ 10000 > TotalLimit
    IN  (IF total THEN {"total"} ELSE {})
        \union (IF \E s \in Held(after) : RoundedExceeds(after[s], equity, SymbolLimit)
                THEN {"symbol"} ELSE {})
        \union (IF Exceeds(order.value, equity, OrderLimit) THEN {"order"} ELSE {})
        \union (IF \E c \in SectorsToFlag(after) :
                     RoundedExceeds(Worth(after, InSector(after, c)), equity, SectorLimit)
                THEN {"sector"} ELSE {})

-----------------------------------------------------------------------------
Warned(pos, equity) == {w[1] : w \in Warnings(pos, equity)}

\* The total, a symbol or a sector lies above its limit, but by less than the
\* rounding of its share shows.
HiddenByRounding(pos, equity, kind) ==
    LET Hidden(value, limit) ==
          Exceeds(value, equity, limit) /\ 2 * (value * 10000 - limit * equity) <= equity
    IN  CASE kind = "total" -> Hidden(Exposure(pos), TotalLimit)
          [] kind = "symbol" -> \E s \in Held(pos) : Hidden(pos[s], SymbolLimit)
          [] kind = "sector" -> \E c \in Counted(Sectors(pos)) :
                                   Hidden(Worth(pos, InSector(pos, c)), SectorLimit)

(* The two answers about one order agree: what project() flags, analyze()   *)
(* warns of afterwards; what analyze() warns of, project() flags unless the *)
(* excess disappears in the rounding of the share.                          *)
FlagsFollowWarnings(pos, equity, order) ==
    equity > 0 =>
      LET after == After(pos, order)
          flags == WouldExceed(pos, equity, order) \ {"order"}
          warned == Warned(after, equity) \intersect {"total", "symbol", "sector"}
      IN  /\ flags \subseteq warned
          /\ \A kind \in warned \ flags : HiddenByRounding(after, equity, kind)

(* An order that flags nothing leaves the portfolio no worse: a portfolio   *)
(* that was not critical does not become so, but for what rounding hides.   *)
UnflaggedIsNotCritical(pos, equity, order) ==
    /\ WouldExceed(pos, equity, order) = {}
    /\ Severity(pos, equity) # "critical"
    => \/ Severity(After(pos, order), equity) # "critical"
       \/ HiddenByRounding(After(pos, order), equity, "total")
=============================================================================
