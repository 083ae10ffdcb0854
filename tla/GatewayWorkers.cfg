\* Two paper worker processes on one table, one with a dict-style broker and one
\* with the adapter; records are of either mode, and anything may fail.
SPECIFICATION GatewaySpec
CONSTANTS
    t1 = t1
    t2 = t2
    g1 = g1
    g2 = g2
    ApprovalIds = {a1}
    UnknownId = noSuchId
    Actors = {alice, bob}
    Threads = {t1, t2}
    Clients = {cli}
    Callers = {t1, t2, cli}
    Gateways = {g1, g2}
    GatewayOf <- TwoProcesses
    GatewayMode <- AllPaper
    BrokerStyle <- MixedStyles
    ClientOps = {"create_request", "approve"}
    Faults = {"transport", "bad_reply", "db_error", "crash"}
    Kinds = {"submit_order"}
    Modes = {"paper", "live"}
    DecisionTTL = 0
    KillSwitchTTL = 0
    ExecuteTTL = 0
    MaxClock = 1
    NULL = NULL
SYMMETRY Symmetry
INVARIANT GatewayTypeOK
INVARIANT OneOwner
INVARIANT SingleUse
INVARIANT OnlyApprovedOnWire
INVARIANT ExecutedMeansAccepted
