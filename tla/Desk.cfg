\* Approvals, stops, requests to the broker and tokens; the trail of an agent's
\* run, stored market data, shared prompts and the pure computations.
SPECIFICATION DeskSpec
CONSTANTS
    None = None
    Requests = {1, 2}
    Ask <- PaperAndLive
    Windows = {1, 2}
    Limits <- TwoLimits
    Chains <- ThreeChains
    Pipelines = 2
    MaxTyped = 1
    MaxHour = 1
    Hooks = {h1, h2}
    OrderCalls = {o1}
    Queries = {q1}
    Rate = 1
    Second = 2
    MaxWait = 3
    Margin = 1
    Lifetime = 3
    MaxTime = 4
    Signers = {1, 2, 3}
    Processes = {1, 2}
    ProcessOf <- TwoAndOne
    ModeOf <- PaperAndProd
    TokenLife = 1
    Buffer = 0
    MinInterval = 1
    Writers = {"agent", "other"}
    Days = 2
    DayLength = 1
    MaxLost = 1
    Tools <- TwoTools
    MaxOthers = 1
    Savers = {1, 2, 3}
    MasterOf <- ThreeMasters
    Code = "A"
    Ranges <- FourRanges
    Base = 10
    Change <- UpDownUp
    Pressure <- Pressures
    Volume = 7
    Captures = {0, 1}
    MaxAge = 1
    MaxMoment = 2
    Readers = {r1, r2}
    MaxEdition = 2
    MaxMade = 2
    MaxPerOrder = 2400000
    MinPerOrder = 20000
    MaxPctOfEquity = 50
    MaxIterations = 10
INVARIANT ApprovalsAreCovered
INVARIANT OneStopForAll
INVARIANT OrdersLeaveOnce
INVARIANT TokensAreShared
INVARIANT TrailIsComplete
INVARIANT DataIsHonest
INVARIANT OrdersAndCapitalFit
INVARIANT RiskAnswersAgree
INVARIANT SignalsAreSound
PROPERTY DecisionsStand
CHECK_DEADLOCK FALSE
