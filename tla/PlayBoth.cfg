CONSTANTS
    Streams = {"audio", "video"}
    File <- FileAV
    MIN_FRAMES = 0
    Capacity = 2
    Delay = 0
    Targets = {2}
    MaxSeeks = 1
    MaxStops = 0
    Failures = {}
SPECIFICATION Spec
INVARIANT OrderInv
PROPERTY ShownAdvances
CHECK_DEADLOCK FALSE
