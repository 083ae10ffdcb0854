\* Two threads of one gateway; the broker fails, and interrupts come and go.
SPECIFICATION GatewayFairSpec
CONSTANTS
    t1 = t1
    t2 = t2
    g1 = g1
    g2 = g2
    ApprovalIds = {a1}
    UnknownId = noSuchId
    Actors = {alice, bob}
    Threads = {t1, t2}
    Clients = {cli}
    Callers = {t1, t2, cli}
    Gateways = {g1}
    GatewayOf <- OneProcess
    GatewayMode <- AllPaper
    BrokerStyle <- DictStyle
    ClientOps = {"create_request", "approve"}
    Faults = {"transport", "bad_reply", "interrupt"}
    Kinds = {"submit_order"}
    Modes = {"paper"}
    DecisionTTL = 0
    KillSwitchTTL = 0
    ExecuteTTL = 0
    MaxClock = 0
    NULL = NULL
PROPERTY ExecutionSettles
PROPERTY LockIsReleased
INVARIANT StopHolds
