\* One signal, handed to execute three times, and nothing fails.
SPECIFICATION Spec
CONSTANTS
    Signals = {s1}
    Weak = {}
    Window = 3
    EventWired = TRUE
    Faults = {}
    MaxClock = 5
    MaxFailures = 0
    None = None
CHECK_DEADLOCK FALSE
INVARIANT OncePerWindow
