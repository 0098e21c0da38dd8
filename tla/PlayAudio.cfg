CONSTANTS
    Streams = {"audio"}
    File <- FileA
    MIN_FRAMES = 1
    Capacity = 2
    Delay = 1
    Targets = {2}
    MaxSeeks = 1
    MaxStops = 1
    Failures = {"open", "seek", "io"}
SPECIFICATION FairSpec
INVARIANT FrameHonest
INVARIANT CoverInv
PROPERTY SoundIsGapless
PROPERTY StopCloses
CHECK_DEADLOCK FALSE
