----------------------------- MODULE RiskChecks -----------------------------
(***************************************************************************)
(* RiskGate of src/src/risk/risk_gate.py: nine checks (_checks.py) on one  *)
(* intent, in order, the first that fails decides; and the OrderHistory    *)
(* (_history.py) two of them read.  The caller asks the gate, places the   *)
(* order when it may and adds it to the history; nothing in src/ does, so  *)
(* this follows the usage in the class's documentation.  Between the       *)
(* answer and the order the clock moves and older orders are filled.       *)
(* Equity and prices stand still, and the market must be open.  A check    *)
(* that raises rejects, and so does a missing cap of an order, a symbol,   *)
(* the positions or the frequency; a missing reserve, loss cap, duplicate  *)
(* window or cooldown is skipped.                                          *)
(***************************************************************************)
EXTENDS Integers, Sequences, FiniteSets, FiniteSetsExt

CONSTANTS Symbols, Notionals,
          Windows,       \* <<seconds, threshold>> of each order frequency
          Settings,      \* [missing, maxRecords]: what the configuration
                         \* lacks, and the length of the history's deque
          MaxOrders,     \* per session
          DuplicateWindow, ReversalCooldown,
          PerOrder, PerSymbol, CashReserve, MaxOpen, MaxConcurrent, LossCap,
          Cash,          \* at the start
          MaxPlaced, MaxClock  \* bounds

VARIABLES settings,
          now, killFile, stopped, phase, loss,
          cash, positions, open,
          records,  \* _records
          intent,   \* what the gate approved and the caller has not placed
          reason,   \* of the last rejection, "none" if it approved
          placed    \* history: every order, with its time

safety == <<killFile, stopped, phase, loss>>
account == <<cash, positions, open>>
vars == <<settings, now, safety, account, records, intent, reason, placed>>

Sides == {"buy", "sell"}
\* quote: "none" of a MARKET order, whose notional it would give; "bad" is too
\* wide, too old or far from the limit price.
Intents == [symbol : Symbols, side : Sides, notional : Notionals,
            quote : {"none", "good", "bad"}]
Free == [symbol |-> "", side |-> "", notional |-> 0, quote |-> ""]
Reasons == {"none", "KILL_SWITCH", "EMERGENCY_STOP", "MARKET_STATE", "CAPACITY",
            "LOSS_LIMIT", "POSITION_LIMIT", "FREQUENCY", "DUPLICATE", "WHIPSAW",
            "EXECUTION_GUARD", "VALIDATION_ERROR"}

TypeOK ==
    /\ settings \in Settings
    /\ now \in 0..MaxClock /\ killFile \in BOOLEAN /\ stopped \in BOOLEAN
    /\ phase \in {"REGULAR", "other"} /\ loss \in 0..LossCap
    /\ cash \in Int /\ positions \in [Symbols -> Int]
    /\ intent \in Intents \union {Free} /\ reason \in Reasons
    /\ Len(records) <= settings.maxRecords
    /\ \A i \in 1..Len(placed) : placed[i].at \in 0..MaxClock
    /\ \A o \in open : o.notional \in Notionals

Init ==
    /\ settings \in Settings
    /\ now = 0 /\ killFile = FALSE /\ stopped = FALSE /\ phase = "REGULAR" /\ loss = 0
    /\ cash = Cash /\ positions = [s \in Symbols |-> 0] /\ open = {}
    /\ records = <<>> /\ intent = Free /\ reason = "none" /\ placed = <<>>
-----------------------------------------------------------------------------
(* OrderHistory *)

Since(seconds) == {i \in 1..Len(records) : records[i].at >= now - seconds}
CountInWindow(seconds) == IF seconds <= 0 THEN 0 ELSE Cardinality(Since(seconds))
HasRecent(symbol, side, seconds) ==
    seconds > 0 /\ \E i \in Since(seconds) : /\ records[i].symbol = symbol
                                             /\ records[i].side = side
Opposite(side) == IF side = "buy" THEN "sell" ELSE "buy"
-----------------------------------------------------------------------------
(* The checks: whether each one rejects.                                   *)

Lacks(cap) == cap \in settings.missing

NoCapacity(i) ==
    Lacks("per_order") \/ Lacks("per_symbol") \/ i.quote = "none"

Capacity(i) ==
    \/ i.notional > PerOrder
    \/ /\ i.side = "buy"
       /\ \/ positions[i.symbol] + i.notional > PerSymbol
          \/ ~Lacks("cash_reserve") /\ cash - i.notional < CashReserve

\* Mutant: one open order more.
PositionLimitsLate(i) == Cardinality(open) > MaxOpen

PositionLimits(i) ==
    \/ Cardinality(open) >= MaxOpen
    \/ /\ i.side = "buy"
       /\ Cardinality({s \in Symbols : positions[s] > 0} \union {i.symbol}) > MaxConcurrent

OrderFrequency(i) ==
    \/ \E w \in Windows : CountInWindow(w[1]) >= w[2]
    \/ Len(records) >= MaxOrders

Duplicate(i) == ~Lacks("duplicate_window") /\ HasRecent(i.symbol, i.side, DuplicateWindow)

Whipsaw(i) == ~Lacks("reversal_cooldown") /\ HasRecent(i.symbol, Opposite(i.side), ReversalCooldown)

\* DEFAULT_CHECK_ORDER, each check with its reason.
Checks(i) ==
    <<<<killFile, "KILL_SWITCH">>, <<stopped, "EMERGENCY_STOP">>,
      <<phase # "REGULAR", "MARKET_STATE">>,
      <<NoCapacity(i), "VALIDATION_ERROR">>, <<Capacity(i), "CAPACITY">>,
      <<~Lacks("loss_cap") /\ loss >= LossCap, "LOSS_LIMIT">>,
      <<Lacks("position_limits"), "VALIDATION_ERROR">>, <<PositionLimits(i), "POSITION_LIMIT">>,
      <<Lacks("order_frequency"), "VALIDATION_ERROR">>, <<OrderFrequency(i), "FREQUENCY">>,
      <<Duplicate(i), "DUPLICATE">>, <<Whipsaw(i), "WHIPSAW">>,
      <<i.quote = "bad", "EXECUTION_GUARD">>>>

Evaluate(i) ==
    LET checks == Checks(i)
        failed == {k \in 1 .. 13 : checks[k][1]}
    IN IF failed = {} THEN "none" ELSE checks[Min(failed)][2]
-----------------------------------------------------------------------------
\* evaluate.  Finding the file also stops the system (check_now).
Ask(i) ==
    /\ intent = Free /\ Len(placed) < MaxPlaced
    /\ reason' \in {Evaluate(i), "VALIDATION_ERROR"}
    /\ intent' = IF reason' = "none" THEN i ELSE Free
    /\ stopped' = (stopped \/ killFile)
    /\ UNCHANGED <<settings, now, killFile, phase, loss, account, records, placed>>

\* The caller: the broker has the order and the history has its record; the
\* deque drops the oldest when it is full.
Place ==
    /\ intent # Free
    /\ LET record == [symbol |-> intent.symbol, side |-> intent.side, at |-> now]
           kept == IF Len(records) < settings.maxRecords THEN records ELSE Tail(records)
       IN records' = Append(kept, record) /\ placed' = Append(placed, record)
    /\ open' = open \union {[id |-> Len(placed) + 1, symbol |-> intent.symbol,
                             side |-> intent.side, notional |-> intent.notional]}
    /\ intent' = Free
    /\ UNCHANGED <<settings, now, safety, cash, positions, reason>>

Fill ==
    \E o \in open :
        LET change == IF o.side = "buy" THEN o.notional ELSE 0 - o.notional
        IN /\ open' = open \ {o}
           /\ positions' = [positions EXCEPT ![o.symbol] = @ + change]
           /\ cash' = cash - change
           /\ UNCHANGED <<settings, now, safety, records, intent, reason, placed>>

\* The stop file appears, the phase changes, or the session's loss is known.
World ==
    /\ \/ ~killFile /\ killFile' = TRUE /\ UNCHANGED <<phase, loss>>
       \/ phase = "REGULAR" /\ phase' = "other" /\ UNCHANGED <<killFile, loss>>
       \/ loss < LossCap /\ loss' = LossCap /\ UNCHANGED <<killFile, phase>>
    /\ UNCHANGED <<settings, now, stopped, account, records, intent, reason, placed>>

Tick ==
    /\ now < MaxClock /\ now' = now + 1
    /\ UNCHANGED <<settings, safety, account, records, intent, reason, placed>>

Next == (\E i \in Intents : Ask(i)) \/ Place \/ Fill \/ World \/ Tick
Spec == Init /\ [][Next]_vars
-----------------------------------------------------------------------------
Ordered(orders) == FoldSet(LAMBDA o, sum : sum + o.notional, 0, orders)
OpenBuys == {o \in open : o.side = "buy"}

HardCaps == {"per_order", "per_symbol", "position_limits", "order_frequency"}

\* Without one of the caps that bound every order there are no orders at all.
NothingUncapped == settings.missing \intersect HardCaps # {} => placed = <<>>

\* check_capacity sees positions, not open orders, and check_position_limits
\* bounds how many of those there are.  Together they keep what is held and on
\* order of a symbol within the cap and one full order for every further open
\* order.
ExposureBounded ==
    \A s \in Symbols :
        positions[s] + Ordered({o \in OpenBuys : o.symbol = s})
            <= PerSymbol + (MaxOpen - 1) * PerOrder

\* Likewise the cash reserve, when everything on order is paid: if there is one.
CashBounded ==
    ~Lacks("cash_reserve") => cash - Ordered(OpenBuys) >= CashReserve - (MaxOpen - 1) * PerOrder

\* No window of any length the configuration names ever holds more orders than
\* its threshold, though the gate counts before the order has its time and the
\* deque drops the oldest, if the deque is as long as the threshold.
FrequencyHolds ==
    \A w \in Windows, t \in 0..MaxClock :
        w[2] <= settings.maxRecords =>
            Cardinality({i \in 1..Len(placed) : placed[i].at \in (t - w[1])..t}) <= w[2]

\* The session's orders are counted by the deque's length, so its limit holds
\* only if the deque is as long.
SessionHolds == MaxOrders <= settings.maxRecords => Len(placed) <= MaxOrders

\* The deque remembers the cooldown when a window no shorter bounds its orders.
CooldownRemembered ==
    /\ ~Lacks("reversal_cooldown")
    /\ \E w \in Windows : w[1] >= ReversalCooldown /\ w[2] <= settings.maxRecords

\* An order is then never followed by one of the other side of its symbol within
\* the reversal cooldown.
NoWhipsaw ==
    CooldownRemembered =>
        \A i, j \in 1..Len(placed) :
            (i < j /\ placed[i].symbol = placed[j].symbol /\ placed[i].side # placed[j].side)
                => placed[j].at - placed[i].at > ReversalCooldown

\* What the checks promise together of the orders they let pass.
ChecksBoundOrders ==
    /\ TypeOK /\ NothingUncapped /\ ExposureBounded /\ CashBounded
    /\ FrequencyHolds /\ SessionHolds /\ NoWhipsaw
=============================================================================
