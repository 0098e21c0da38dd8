CONSTANTS
    Streams = {"video"}
    File <- FileV
    MIN_FRAMES = 1
    Capacity = 2
    Delay = 1
    Targets = {1, 3}
    MaxSeeks = 1
    MaxStops = 1
    Failures = {}
SPECIFICATION FairSpec
INVARIANT IInv
INVARIANT SeekHonoured
PROPERTY PlaybackEnds
CHECK_DEADLOCK FALSE
