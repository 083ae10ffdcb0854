----------------------------- MODULE MarketHours -----------------------------
(* Four answers to whether the exchange is open: KrxCalendar                *)
(* (data/calendar.py, from the yaml file), KRXCalendar                      *)
(* (data/market_calendar.py, from the csv file), and the read-only tool     *)
(* get_market_status and the dashboard's load_market_status, which know no  *)
(* holidays.                                                                *)
(*                                                                         *)
(* Time is counted in half hours of UTC; day 0 and the weekday of a day are *)
(* those of Seoul.  A calendar c is what the two files say: holidays, the   *)
(* years the yaml file has, the fixed solar holidays, where the second year *)
(* begins, and the arguments of the constructors.                           *)
EXTENDS Integers, FiniteSets, FiniteSetsExt

HalfHours == 48
Seoul == 18          \* UTC+9
PreAuction == 17     \* 08:30
RegularOpen == 18    \* 09:00
RegularClose == 31   \* 15:30
Nowhere == -1000     \* no day or time was found

DayOf(t) == (t + Seoul) \div HalfHours
TimeOf(t) == (t + Seoul) % HalfHours
At(day, time) == day * HalfHours + time - Seoul
YearOf(c, d) == IF d < c.newYear THEN 1 ELSE 2
IsWeekend(c, d) == (c.first + d) % 7 >= 5

\* The first day after d that satisfies P, if it is one of the next n.
FirstWithin(n, d, P(_)) ==
    LET found == {e \in d + 1 .. d + n : P(e)}
    IN  IF found = {} THEN Nowhere ELSE Min(found)

-----------------------------------------------------------------------------
(* KrxCalendar: a year without data is closed. *)

IsHoliday(c, d) ==
    IsWeekend(c, d) \/ YearOf(c, d) \notin c.yamlYears \/ d \in c.holidays

IsOpen(c, t) ==
    /\ ~IsHoliday(c, DayOf(t))
    /\ At(DayOf(t), RegularOpen) <= t /\ t < At(DayOf(t), RegularClose)

GetPhase(c, t) ==
    LET start == At(DayOf(t), RegularOpen)
        end == At(DayOf(t), RegularClose)
    IN  IF IsHoliday(c, DayOf(t)) THEN "CLOSED"
        ELSE CASE t < start -> IF c.preOpen > 0 /\ t >= start - c.preOpen THEN "PRE_OPEN" ELSE "CLOSED"
               [] t >= end -> "AFTER_HOURS"
               [] OTHER -> IF c.nearClose > 0 /\ t >= end - c.nearClose THEN "NEAR_CLOSE" ELSE "REGULAR"

\* It raises (Nowhere) when 30 days bring no opening.
NextOpen(c, t) ==
    IF ~IsHoliday(c, DayOf(t)) /\ t < At(DayOf(t), RegularOpen) THEN At(DayOf(t), RegularOpen)
    ELSE LET d == FirstWithin(30, DayOf(t), LAMBDA e : ~IsHoliday(c, e))
         IN  IF d = Nowhere THEN Nowhere ELSE At(d, RegularOpen)

-----------------------------------------------------------------------------
(* KRXCalendar: the solar holidays are added to the years of the csv file;  *)
(* a year without data is closed only with fail_closed_unknown.             *)

CsvYears(c) == {YearOf(c, d) : d \in c.holidays}
IsUnknown(c, d) == c.failClosed /\ YearOf(c, d) \notin CsvYears(c)
IsListed(c, d) == d \in c.holidays \/ (YearOf(c, d) \in CsvYears(c) /\ d \in c.solar)

IsTradingDay(c, d) == ~IsWeekend(c, d) /\ ~IsListed(c, d) /\ ~IsUnknown(c, d)

GetStatus(c, t) ==
    LET d == DayOf(t) IN
    CASE IsWeekend(c, d) -> "closed_weekend"
      [] ~IsWeekend(c, d) /\ IsListed(c, d) -> "closed_holiday"
      [] ~IsWeekend(c, d) /\ ~IsListed(c, d) /\ IsUnknown(c, d) -> "unknown"
      [] OTHER -> CASE TimeOf(t) < PreAuction -> "closed_hours"
                    [] PreAuction <= TimeOf(t) /\ TimeOf(t) < RegularOpen -> "pre_auction"
                    [] RegularOpen <= TimeOf(t) /\ TimeOf(t) < RegularClose -> "regular"
                    [] OTHER -> "closed_hours"

MarketIsOpen(c, t) ==
    GetStatus(c, t) \in {"regular"} \union (IF c.auction THEN {"pre_auction"} ELSE {})

\* _compute_next_open, _compute_next_close: 14 days are searched.
NextAt(c, t, time) ==
    IF IsTradingDay(c, DayOf(t)) /\ TimeOf(t) < time THEN At(DayOf(t), time)
    ELSE LET d == FirstWithin(14, DayOf(t), LAMBDA e : IsTradingDay(c, e))
         IN  IF d = Nowhere THEN Nowhere ELSE At(d, time)
ComputeNextOpen(c, t) == NextAt(c, t, RegularOpen)
ComputeNextClose(c, t) == NextAt(c, t, RegularClose)

TradingDaysBetween(c, from, to) == {d \in from .. to : IsTradingDay(c, d)}

-----------------------------------------------------------------------------
(* get_market_status: the weekday of UTC, corrected at Seoul's midnight, and *)
(* a session that ends with the minute 15:30.                               *)
GetMarketStatus(c, t) ==
    LET hour == ((t % HalfHours) \div 2 + 9) % 24
        weekday == (c.first + t \div HalfHours
                     + (IF (t % HalfHours) \div 2 + 9 >= 24 THEN 1 ELSE 0)) % 7
    IN  CASE weekday >= 5 -> "closed_weekend"
          [] weekday < 5 /\ hour < 9 -> "pre_market"
          [] weekday < 5 /\ hour \in 9 .. 15 -> "open"
          [] OTHER -> "closed_post"

(* load_market_status: the weekday is that of UTC, the hour that of Seoul. *)
LoadMarketStatus(c, t) ==
    LET hour == ((t % HalfHours) \div 2 + 9) % 24
        weekday == (c.first + t \div HalfHours) % 7
    IN  CASE weekday >= 5 -> "closed_weekend"
          [] weekday < 5 /\ (hour \in 9 .. 14 \/ (hour = 15 /\ t % 2 = 0)) -> "regular"
          [] weekday < 5 /\ hour < 9 -> "pre_market"
          [] OTHER -> "after_hours"

-----------------------------------------------------------------------------
(* Where both files cover the years of the search and the yaml file lists   *)
(* the solar holidays too, the calendars agree on being open, on the phase, *)
(* and on the next opening as far as both look.                             *)
CalendarsAgree(c, t) ==
    (/\ ~c.auction /\ c.yamlYears = {1, 2} /\ CsvYears(c) = {1, 2} /\ c.solar \subseteq c.holidays)
    => /\ MarketIsOpen(c, t) <=> IsOpen(c, t)
       /\ IsOpen(c, t) <=> GetPhase(c, t) \in {"REGULAR", "NEAR_CLOSE"}
       /\ ComputeNextOpen(c, t) \in {NextOpen(c, t), Nowhere}

(* The next opening is one, and the first: the market opens there and at no *)
(* instant before; and when it is open, next_close is where that ends.      *)
OpeningIsNext(c, t) ==
    LET opens(s) == IsOpen(c, s) /\ ~IsOpen(c, s - 1)
        open == NextOpen(c, t)
        close == ComputeNextClose(c, t)
    IN  /\ open # Nowhere => open > t /\ opens(open) /\ \A s \in t + 1 .. open - 1 : ~opens(s)
        /\ MarketIsOpen(c, t) => /\ close # Nowhere /\ t < close
                                 /\ \A s \in t .. close - 1 : MarketIsOpen(c, s)
                                 /\ ~MarketIsOpen(c, close)
        /\ ComputeNextOpen(c, t) # Nowhere =>
             Cardinality(TradingDaysBetween(c, DayOf(t) + 1, DayOf(ComputeNextOpen(c, t)))) <= 1

(* A year without data is closed for KrxCalendar, and for KRXCalendar if it *)
(* was told to fail closed.                                                 *)
UnknownYearIsClosed(c, t) ==
    /\ YearOf(c, DayOf(t)) \notin c.yamlYears => GetPhase(c, t) = "CLOSED"
    /\ c.failClosed /\ YearOf(c, DayOf(t)) \notin CsvYears(c) => ~MarketIsOpen(c, t)

(* The tool never hides an open market; it calls a closed one open on a     *)
(* holiday or at the close itself only.                                     *)
ToolKnowsTheHours(c, t) ==
    /\ IsOpen(c, t) => GetMarketStatus(c, t) = "open"
    /\ GetMarketStatus(c, t) = "open" /\ ~IsOpen(c, t) =>
         IsHoliday(c, DayOf(t)) \/ TimeOf(t) = RegularClose

(* Though it takes the weekday and the hour from two clocks, the dashboard  *)
(* calls the market open in the session of every weekday of Seoul, and then *)
(* only.                                                                    *)
DashboardKnowsTheHours(c, t) ==
    LoadMarketStatus(c, t) = "regular" <=>
      /\ ~IsWeekend(c, DayOf(t))
      /\ RegularOpen <= TimeOf(t) /\ TimeOf(t) < RegularClose
=============================================================================
