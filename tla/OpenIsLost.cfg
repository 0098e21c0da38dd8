CONSTANTS
    MaxOpens = 3
    MaxCommands = 1
    MaxNest = 1
    NStreams = 1
    Timeouts = FALSE
    Failures = {}
SPECIFICATION Spec
INVARIANT OpenIsServed
CHECK_DEADLOCK FALSE
