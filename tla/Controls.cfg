\* Risk checks, risk gates, session history and intents.
SPECIFICATION Spec
CONSTANTS
    None = None
    Stocks = {"A", "B"}
    Notionals = {1}
    Windows <- EachStepWindows
    Settings <- EachSettings
    MaxOrders = 3
    DuplicateWindow = 1
    ReversalCooldown = 1
    PerOrder = 1
    PerSymbol = 1
    CashReserve = 1
    MaxOpen = 2
    MaxConcurrent = 2
    LossCap = 1
    Cash = 2
    MaxPlaced = 4
    MaxTime = 3
    Watchlist <- StockAndFund
    SectorOf <- TwoSectors
    Chains <- BothChains
    Costs = {1}
    Total = 1
    PerSector = 1
    MaxPositions = 2
    LossLimit = 1
    GlobalInterval = 1
    Cooldown = 2
    SymbolInterval = 1
    CycleInterval = 0
    Restarts = TRUE
    MaxSent = 3
    MaxClock = 2
    Ladder <- ThreeSteps
    Profits <- AnyProfit
    Exceptions = {0, 1, 5}
    LossThreshold = 2
    Sessions = {1, 2, 3, 4}
    EndsAt <- OneAfterAnother
    Realized <- OneProfit
    Capitals = {5, 15, 40}
    Cutoffs = {0, 2}
    MaxTorn = 1
    Quantities = {0, 2}
INVARIANT ChecksBoundOrders
INVARIANT GatesBoundOrders
INVARIANT RecordsAreTrue
CHECK_DEADLOCK FALSE
