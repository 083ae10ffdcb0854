\* Two servers and the operator's command line on one table.
SPECIFICATION ServerSpec
CONSTANTS
    ApprovalIds = {a1}
    UnknownId = noSuchId
    Actors = {agent, jcpr}
    OperatorId = jcpr
    Threads = {t1, t2}
    Clients = {cli}
    Callers = {t1, t2, cli}
    Gateways = {g1, g2}
    GatewayOf <- TwoServers
    GatewayMode <- AllPaper
    BrokerStyle <- BothStyles
    ClientOps = {}
    Faults = {}
    Kinds = {"cancel_order", "submit_order"}
    Modes = {"paper"}
    DecisionTTL = 0
    KillSwitchTTL = 0
    ExecuteTTL = 0
    MaxClock = 0
    NULL = NULL
INVARIANT OneEffect
INVARIANT EffectIsApproved
INVARIANT FinalAnswersHold
