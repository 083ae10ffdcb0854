----------------------------- MODULE MCControls -----------------------------
(* The controls around an order, on small instances: the checks of          *)
(* risk_gate.py, the gates of risk/gates under the signal runner, the       *)
(* session history that the capacity advice reads, and the stages of an     *)
(* intent.  They share no state; an execution runs the one that part names, *)
(* the others stay as they were built.  Constants of one name serve two     *)
(* components where they may be the same.                                   *)
EXTENDS Integers, Sequences, FiniteSets

CONSTANTS
    None,
    Stocks, Notionals, Windows, Settings, MaxOrders, DuplicateWindow,    \* RiskChecks
    ReversalCooldown, PerOrder, PerSymbol, CashReserve, MaxOpen, MaxConcurrent,
    LossCap, Cash, MaxPlaced, MaxTime,
    Watchlist, SectorOf, Chains, Costs, Total, PerSector, MaxPositions,   \* RiskGates
    LossLimit, GlobalInterval, Cooldown, SymbolInterval, CycleInterval,
    Restarts, MaxSent, MaxClock,
    Ladder, Profits, Exceptions, LossThreshold, Sessions, EndsAt,         \* SessionCapacity
    Realized, Capitals, Cutoffs, MaxTorn,
    Quantities                                                            \* OrderIntent

VARIABLES
    part,
    settings, now, killFile, stopped, phase, loss, cash, positions, open, records,
    proposal, reason, placed,
    time, stopFile, marketOpen, gates, lost, owned, book, flying, stage,
    place, order, openAtStart, account, knownLoss, lastAny, lastFor,
    waitUntil, sent, answered, unanswered,
    sessions, writer, torn,
    intent, stageTime, copies

checks == <<settings, now, killFile, stopped, phase, loss, cash, positions, open, records,
            proposal, reason, placed>>
runner == <<time, stopFile, marketOpen, gates, lost, owned, book, flying, stage,
            place, order, openAtStart, account, knownLoss, lastAny, lastFor,
            waitUntil, sent, answered, unanswered>>
history == <<sessions, writer, torn>>
stages == <<intent, stageTime, copies>>
vars == <<part, checks, runner, history, stages>>

Gate == INSTANCE RiskChecks WITH
    Symbols <- Stocks, MaxClock <- MaxTime, intent <- proposal

Runner == INSTANCE RiskGates WITH
    now <- time, killFile <- stopFile, loss <- lost, positions <- owned, intent <- order

Ending == INSTANCE SessionCapacity WITH file <- sessions

Intent == INSTANCE OrderIntent WITH clock <- stageTime

-----------------------------------------------------------------------------
\* The component that does not run is built in one way only.
Init ==
    /\ part \in {"checks", "runner", "history", "stages"}
    /\ Gate!Init /\ Runner!Init /\ Ending!Init /\ Intent!Init
    /\ part # "stages" => intent.state = "DRAFT" /\ intent.quantity = 0 /\ intent.price = None
    /\ part # "checks" => settings = CHOOSE s \in Settings : TRUE
    /\ part # "runner" => gates = CHOOSE g \in Chains : TRUE

Check == part = "checks" /\ Gate!Next /\ UNCHANGED <<part, runner, history, stages>>
Cycle == part = "runner" /\ Runner!Next /\ UNCHANGED <<part, checks, history, stages>>
Session == part = "history" /\ Ending!Next /\ UNCHANGED <<part, checks, runner, stages>>
Stage == part = "stages" /\ Intent!Next /\ UNCHANGED <<part, checks, runner, history>>

Next == Check \/ Cycle \/ Session \/ Stage

Spec == Init /\ [][Next]_vars

-----------------------------------------------------------------------------
(* risk/risk_gate.py: although what the checks read is older than the order *)
(* they let pass, and fills and other orders come in between, exposure,     *)
(* cash, the rate of orders and reversals stay within the limits.           *)
ChecksBoundOrders == part = "checks" => Gate!ChecksBoundOrders

(* risk/gates under signals/runner.py and execution/gateway.py: with the    *)
(* account and the open orders read at different moments, approvals that    *)
(* take their time and answers that are lost, what is held and on order of  *)
(* a symbol exceeds its limit by one order at most, and one more for each   *)
(* lost answer, and an answered order of a symbol starts its cooldown.      *)
GatesBoundOrders == part = "runner" => Runner!GatesBoundOrders

(* dashboard/views/_session_history_*.py and execution/order_intent.py: a   *)
(* recorded session can be read back after torn writes, a run of recorded   *)
(* losses lowers the advice on capital, and the history of an intent is     *)
(* what happened to it.                                                     *)
RecordsAreTrue ==
    CASE part = "history" -> /\ Ending!TypeOK
                             /\ Ending!RecordsSurvive /\ Ending!LossesHoldTheLadder
      [] part = "stages" -> Intent!TypeOK /\ Intent!HistoryIsTrue /\ Intent!SentInOrder
      [] OTHER -> TRUE

-----------------------------------------------------------------------------
(* Small instances, for the configurations *)

EachStepWindows == {<<1, 2>>, <<2, 2>>}

\* A deque that drops orders, one as long as the session, and settings that
\* lack one of the caps or all that may be missing.
Optional == {"cash_reserve", "loss_cap", "duplicate_window", "reversal_cooldown"}
HardCap == {"per_order", "per_symbol", "position_limits", "order_frequency"}
EachSettings ==
    {[missing |-> {}, maxRecords |-> n] : n \in {2, 3}}
      \union {[missing |-> {cap}, maxRecords |-> 3] : cap \in HardCap}
      \union {[missing |-> Optional, maxRecords |-> 2]}

StockAndFund == <<"stock", "fund">>
TwoSectors == [s \in {"stock", "fund"} |-> IF s = "fund" THEN "etf" ELSE "tech"]
Wired == {"kill_switch", "market_state", "order_rate_limit", "duplicate_order",
          "position_count_limit", "exposure_per_symbol", "daily_loss_limit"}
OfPortfolio == {"portfolio_exposure", "sector_concentration", "single_order_size"}
BothChains == {Wired, Wired \union OfPortfolio}

ThreeSteps == <<10, 20, 50>>
OneAfterAnother == [s \in Sessions |-> s]
OneProfit == [s \in Sessions |-> IF s = 2 THEN 3 ELSE -1]
AnyProfit == {-5, -1, 0, 1, 3}
=============================================================================
