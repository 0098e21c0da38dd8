CONSTANTS
    MaxOpens = 2
    MaxCommands = 2
    MaxNest = 2
    NStreams = 1
    Timeouts = TRUE
    Failures = {"sdl", "file", "filter"}
SPECIFICATION FairSpec
INVARIANT IInv
INVARIANT PauseAgrees
INVARIANT MuteSticks
PROPERTY StopIsHeard
PROPERTY StopWakes
CHECK_DEADLOCK FALSE
