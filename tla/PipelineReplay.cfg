\* A good and a weak signal that come again and again; an append fails, a gate
\* raises, the process dies.  The clock's bound ends a behaviour.
SPECIFICATION Spec
CONSTANTS
    Signals = {s1, weak}
    Weak = {weak}
    Window = 2
    EventWired = TRUE
    Faults = {"disk", "query", "crash"}
    MaxClock = 4
    MaxFailures = 1
    None = None
CHECK_DEADLOCK FALSE
INVARIANT MemoryIsOnDisk
INVARIANT ReorderedOnlyAfterSkip
INVARIANT StopHolds
