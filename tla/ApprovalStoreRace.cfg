\* Two callers race for one approval, which lapses after tick 1, or once it is
\* approved after the tick of the decision.
SPECIFICATION Spec
CONSTANTS
    ApprovalIds = {a1}
    UnknownId = noSuchId
    Actors = {alice, bob}
    Callers = {c1, c2}
    Kinds = {"kill_switch"}
    Modes = {"paper"}
    DecisionTTL = 1
    KillSwitchTTL = 1
    ExecuteTTL = 0
    MaxClock = 2
    NULL = NULL
SYMMETRY Interchangeable
INVARIANT TypeOK
INVARIANT FourEyes
INVARIANT OneWinner
INVARIANT AcknowledgedStands
INVARIANT WindowsRespected
PROPERTY HistoryIsFinal
PROPERTY ImplementsLifecycle
