CONSTANTS
    Streams = {"audio"}
    File <- FileA
    MIN_FRAMES = 1
    Capacity = 2
    Delay = 1
    Targets = {1}
    MaxSeeks = 1
    MaxStops = 1
    Failures = {}
SPECIFICATION Spec
INVARIANT EndAtEndOfFile
CHECK_DEADLOCK FALSE
