\* A server, its faults and the operator's command line on one table.
SPECIFICATION ServerSpec
CONSTANTS
    ApprovalIds = {a1}
    UnknownId = noSuchId
    Actors = {agent, jcpr}
    OperatorId = jcpr
    Threads = {t1}
    Clients = {cli}
    Callers = {t1, cli}
    Gateways = {g1}
    GatewayOf <- OneServer
    GatewayMode <- AllPaper
    BrokerStyle <- DictStyle
    ClientOps = {}
    Faults = {"db_error", "transport", "bad_reply", "crash", "interrupt", "callback"}
    Kinds = {"submit_order", "cancel_order", "set_capacity"}
    Modes = {"paper"}
    DecisionTTL = 0
    KillSwitchTTL = 0
    ExecuteTTL = 0
    MaxClock = 1
    NULL = NULL
INVARIANT ExecutedMeansDone
PROPERTY UsesStore
