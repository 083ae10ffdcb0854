------------------------------ MODULE RiskGates ------------------------------
(***************************************************************************)
(* The risk gates of src/src/risk/gates and what the order path gives them *)
(* to judge.  SignalRunner goes through its watchlist; for each symbol     *)
(* execution/gateway.py reads the account, reads the open orders, runs the *)
(* gates on both, waits for an approval and submits.  Each of these is a   *)
(* moment of its own: fills, the market's close and the clock come between *)
(* them.  The order book stands for the broker: an order whose answer is   *)
(* lost may have arrived, or arrive later.                                 *)
(*                                                                         *)
(* A percentage of equity is given as the amount of money it comes to.     *)
(* Prices stand still: a position is worth what was paid for it.  The stop *)
(* file is not taken away again.                                           *)
(***************************************************************************)
EXTENDS Integers, Sequences, FiniteSets, FiniteSetsExt

CONSTANTS Watchlist,     \* the symbols, in the order of a cycle
          SectorOf,      \* Watchlist symbols -> sector, "etf" or "unknown"
          Chains,        \* the sets of gates a RiskGateRunner may be built with
          Costs,         \* what one order may cost
          PerSymbol, Total, PerSector, PerOrder, MaxPositions, \* limits
          LossLimit,
          GlobalInterval, Cooldown,      \* of OrderRateLimitGate
          SymbolInterval, CycleInterval, \* of RunnerConfig
          Restarts,                      \* the process may be started again
          MaxSent, MaxClock              \* bounds: orders, clock

Symbols == {Watchlist[i] : i \in 1..Len(Watchlist)}
Never == -1000  \* the last order time that is None

VARIABLES now, killFile, marketOpen,
          gates,      \* the chain
          loss,       \* the realized loss of the day
          positions,  \* Symbols -> market value held
          book,       \* open orders at the broker
          flying,     \* orders sent whose request has not arrived yet
          stage, place, intent,
          openAtStart, \* market_is_open, read when the cycle began
          account,    \* account_snap.open_positions_dict()
          knownLoss,  \* what the P&L provider answered
          lastAny, lastFor,  \* _last_order_at_utc, _last_order_per_symbol_utc
          waitUntil,  \* the runner sleeps until then
          sent,       \* history: orders given to submit_order
          answered,   \* history: Symbols -> latest answered order of this run
          unanswered  \* history: Symbols -> submissions that raised

broker == <<positions, book, flying>>
runner == <<place, openAtStart, lastAny, lastFor, waitUntil>>
world == <<killFile, marketOpen, loss>>
reads == <<account, knownLoss>>
history == <<sent, answered, unanswered>>
vars == <<now, gates, world, broker, stage, intent, runner, reads, history>>

Orders == [symbol : Symbols, side : {"buy", "sell"}, cost : Costs]
Stages == {"idle", "account", "risk", "approval", "submit", "answer"}
Nothing == [s \in Symbols |-> 0]
NoIntent == [symbol |-> Watchlist[1], side |-> "none", cost |-> 0]

TypeOK ==
    /\ now \in 0..MaxClock /\ killFile \in BOOLEAN /\ marketOpen \in BOOLEAN
    /\ loss \in 0..LossLimit /\ knownLoss \in 0..LossLimit
    /\ positions \in [Symbols -> Nat] /\ account \in [Symbols -> Nat]
    /\ \A o \in book \union flying : o.order \in Orders /\ o.id \in 1..MaxSent
    /\ stage \in Stages /\ place \in 1..Len(Watchlist) + 1
    /\ intent \in Orders \union {NoIntent}
    /\ openAtStart \in BOOLEAN
    /\ lastAny \in {Never} \union 0..MaxClock
    /\ lastFor \in [Symbols -> {Never} \union 0..MaxClock]
    /\ answered \in [Symbols -> {Never} \union 0..MaxClock]
    /\ waitUntil \in Nat
    /\ \A i \in 1..Len(sent) : sent[i].order \in Orders
    /\ unanswered \in [Symbols -> 0..MaxSent]

Init ==
    /\ now = 0 /\ killFile = FALSE /\ marketOpen = TRUE /\ loss = 0
    /\ gates \in Chains
    /\ positions = Nothing /\ book = {} /\ flying = {}
    /\ stage = "idle" /\ place = Len(Watchlist) + 1 /\ intent = NoIntent
    /\ openAtStart = FALSE
    /\ account = Nothing /\ knownLoss = 0
    /\ lastAny = Never /\ lastFor = [s \in Symbols |-> Never]
    /\ waitUntil = 0 /\ sent = <<>>
    /\ answered = [s \in Symbols |-> Never] /\ unanswered = Nothing
-----------------------------------------------------------------------------
(* The gates: whether each one rejects the intent, given the open orders.  *)
(* All but the first five let every sale pass.                             *)

Buying == intent.side = "buy"
Worth(sector) ==
    FoldSet(LAMBDA s, sum : sum + account[s], 0,
                          {s \in Symbols : SectorOf[s] = sector})
TotalWorth == FoldSet(LAMBDA s, sum : sum + account[s], 0, Symbols)

RateLimit(open) ==
    \/ now - lastAny < GlobalInterval
    \/ now - lastFor[intent.symbol] < Cooldown

Duplicate(open) ==
    \E o \in open : o.order.symbol = intent.symbol /\ o.order.side = intent.side

PositionCount(open) ==
    LET held == {s \in Symbols : account[s] > 0}
    IN Buying /\ Cardinality(held \union {intent.symbol}) > MaxPositions

Exposure(open) == Buying /\ account[intent.symbol] + intent.cost > PerSymbol

PortfolioExposure(open) == Buying /\ TotalWorth + intent.cost > Total

\* An ETF is exempt, and so is a symbol the master does not know.
SectorConcentration(open) ==
    LET sector == SectorOf[intent.symbol]
    IN /\ Buying /\ sector \notin {"etf", "unknown"}
       /\ Worth(sector) + intent.cost > PerSector

SingleOrderSize(open) == Buying /\ intent.cost > PerOrder
DailyLoss(open) == Buying /\ knownLoss >= LossLimit

\* KillSwitchGate .. DailyLossLimitGate, by the names of the gates.
Rejects(gate, open) ==
    CASE gate = "kill_switch" -> killFile
      [] gate = "market_state" -> ~openAtStart
      [] gate = "order_rate_limit" -> RateLimit(open)
      [] gate = "duplicate_order" -> Duplicate(open)
      [] gate = "position_count_limit" -> PositionCount(open)
      [] gate = "exposure_per_symbol" -> Exposure(open)
      [] gate = "portfolio_exposure" -> PortfolioExposure(open)
      [] gate = "sector_concentration" -> SectorConcentration(open)
      [] gate = "single_order_size" -> SingleOrderSize(open)
      [] gate = "daily_loss_limit" -> DailyLoss(open)
-----------------------------------------------------------------------------
(* The runner *)

\* run_cycle looks at the stop file and at the market once.
StartCycle ==
    /\ stage = "idle" /\ place > Len(Watchlist) /\ now >= waitUntil
    /\ ~killFile
    /\ openAtStart' = marketOpen
    /\ IF marketOpen THEN place' = 1 /\ UNCHANGED waitUntil
                     ELSE waitUntil' = now + CycleInterval /\ UNCHANGED place
    /\ UNCHANGED <<now, gates, world, broker, stage, intent, reads, lastAny, lastFor, history>>

\* After a symbol: the next one, or the end of the cycle.
Pause(p) == IF p > Len(Watchlist) THEN now + CycleInterval ELSE now + SymbolInterval
EndSymbol ==
    /\ stage' = "idle" /\ intent' = NoIntent
    /\ account' = Nothing /\ knownLoss' = 0
    /\ place' = place + 1
    /\ waitUntil' = Pause(place + 1)

\* A stop file met on the way ends the cycle.
Abort ==
    /\ stage = "idle" /\ place <= Len(Watchlist) /\ killFile
    /\ place' = Len(Watchlist) + 1 /\ waitUntil' = now + CycleInterval
    /\ UNCHANGED <<now, gates, world, broker, stage, intent, openAtStart, reads,
                   lastAny, lastFor, history>>

\* _process_symbol: no signal, or one that execute works on.  A P&L provider
\* that is missing or raises counts as no loss.
ProcessSymbol ==
    /\ stage = "idle" /\ place <= Len(Watchlist) /\ now >= waitUntil /\ ~killFile
    /\ \/ EndSymbol
       \/ \E side \in {"buy", "sell"}, cost \in Costs, known \in {0, loss} :
             /\ intent' = [symbol |-> Watchlist[place], side |-> side, cost |-> cost]
             /\ side = "sell" => positions[Watchlist[place]] >= cost
             /\ knownLoss' = known
             /\ stage' = "account" /\ UNCHANGED <<account, place, waitUntil>>
    /\ UNCHANGED <<now, gates, world, broker, openAtStart, lastAny, lastFor, history>>

FetchAccount ==
    /\ stage = "account"
    /\ \/ /\ account' = positions /\ stage' = "risk"
          /\ UNCHANGED <<knownLoss, intent, place, waitUntil>>
       \/ EndSymbol
    /\ UNCHANGED <<now, gates, world, broker, openAtStart, lastAny, lastFor, history>>

\* fetch_open_orders and the gates.  The fetch may raise, the price may be
\* out of bounds, and a gate that raises has rejected.
RunGates ==
    /\ stage = "risk"
    /\ \/ /\ \A gate \in gates : ~Rejects(gate, book)
          /\ stage' = "approval" /\ UNCHANGED <<reads, intent, place, waitUntil>>
       \/ EndSymbol
    /\ UNCHANGED <<now, gates, world, broker, openAtStart, lastAny, lastFor, history>>

\* The approval and the last stop check.
Approve ==
    /\ stage = "approval"
    /\ \/ ~killFile /\ stage' = "submit" /\ UNCHANGED <<reads, intent, place, waitUntil>>
       \/ EndSymbol
    /\ UNCHANGED <<now, gates, world, broker, openAtStart, lastAny, lastFor, history>>

Submit ==
    /\ stage = "submit" /\ Len(sent) < MaxSent
    /\ sent' = Append(sent, [order |-> intent, at |-> now])
    /\ flying' = flying \union {[id |-> Len(sent) + 1, order |-> intent]}
    /\ stage' = "answer"
    /\ UNCHANGED <<now, gates, world, positions, book, intent, runner, reads, answered, unanswered>>

\* Mutant: the time of the order is kept for the whole desk only.
AcceptedForDesk ==
    /\ lastAny' = now /\ UNCHANGED lastFor

Accepted ==
    /\ lastAny' = now
    /\ lastFor' = [lastFor EXCEPT ![intent.symbol] = now]

\* submit_order returns once the order arrived, refuses it, or raises; when
\* it raises nothing is known and the times of the last order stay.
Answer ==
    /\ stage = "answer"
    /\ \/ /\ \A o \in flying : o.id # Len(sent)
          /\ Accepted /\ answered' = [answered EXCEPT ![intent.symbol] = now]
          /\ UNCHANGED <<flying, unanswered>>
       \/ /\ \E o \in flying : o.id = Len(sent)
          /\ flying' = {o \in flying : o.id # Len(sent)}
          /\ UNCHANGED <<lastAny, lastFor, answered, unanswered>>
       \/ /\ unanswered' = [unanswered EXCEPT ![intent.symbol] = @ + 1]
          /\ UNCHANGED <<lastAny, lastFor, answered, flying>>
    /\ EndSymbol
    /\ UNCHANGED <<now, gates, world, positions, book, openAtStart, sent>>

\* The process is started again: the times of the last orders are gone.
Restart ==
    /\ Restarts /\ stage' = "idle" /\ intent' = NoIntent /\ place' = Len(Watchlist) + 1
    /\ lastAny' = Never /\ lastFor' = [s \in Symbols |-> Never] /\ waitUntil' = now
    /\ answered' = [s \in Symbols |-> Never]
    /\ account' = Nothing /\ knownLoss' = 0
    /\ unanswered' = IF stage = "answer"
                     THEN [unanswered EXCEPT ![intent.symbol] = @ + 1] ELSE unanswered
    /\ UNCHANGED <<now, gates, world, broker, openAtStart, sent>>
-----------------------------------------------------------------------------
(* The broker and the day *)

Arrive ==
    \E o \in flying :
        /\ flying' = flying \ {o} /\ book' = book \union {o}
        /\ UNCHANGED <<now, gates, world, positions, stage, intent, runner, reads, history>>

Fill ==
    \E o \in book :
        /\ book' = book \ {o}
        /\ LET held == positions[o.order.symbol]
               after == IF o.order.side = "buy" THEN held + o.order.cost
                        ELSE Max({0, held - o.order.cost})
           IN positions' = [positions EXCEPT ![o.order.symbol] = after]
        /\ loss' \in IF o.order.side = "sell" THEN {loss, LossLimit} ELSE {loss}
        /\ UNCHANGED <<now, gates, killFile, marketOpen, flying, stage, intent,
                       runner, reads, history>>

CloseOrStop ==
    /\ \/ ~killFile /\ killFile' = TRUE /\ UNCHANGED marketOpen
       \/ marketOpen /\ marketOpen' = FALSE /\ UNCHANGED killFile
    /\ UNCHANGED <<now, gates, loss, broker, stage, intent, runner, reads, history>>

Tick ==
    /\ now < MaxClock /\ now' = now + 1
    /\ UNCHANGED <<gates, world, broker, stage, intent, runner, reads, history>>

Next ==
    \/ StartCycle \/ Abort \/ ProcessSymbol \/ FetchAccount \/ RunGates
    \/ Approve \/ Submit \/ Answer \/ Restart
    \/ Arrive \/ Fill \/ CloseOrStop \/ Tick

Spec == Init /\ [][Next]_vars
-----------------------------------------------------------------------------
Open(s, side) == {o \in book \union flying : o.order.symbol = s /\ o.order.side = side}
Ordered(orders) == FoldSet(LAMBDA o, sum : sum + o.order.cost, 0, orders)
Largest == Max(Costs)

\* The account and the open orders are read one after the other, and a fill
\* between the two is in neither.  However the readings interleave with the
\* fills, what is held and on order of one symbol exceeds the limit of
\* ExposureGate by at most one order, and one more for each submission whose
\* answer was lost.
SymbolExposureBounded ==
    \A s \in Symbols :
        positions[s] + Ordered(Open(s, "buy"))
            <= PerSymbol + (1 + unanswered[s]) * Largest

\* Between an order whose answer this run of the process saw and the next one
\* of the symbol the cooldown passes, whatever approvals, orders of other
\* symbols and cycles come in between.
CooldownAfterKnownOrder ==
    stage = "answer" =>
        sent[Len(sent)].at - answered[intent.symbol] >= Cooldown

\* What the gates promise together of the orders they let pass.
GatesBoundOrders == TypeOK /\ SymbolExposureBounded /\ CooldownAfterKnownOrder
=============================================================================
