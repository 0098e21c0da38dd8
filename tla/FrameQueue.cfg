\* pictq and sampq: keep_last, read by the refresh loop or by the callback
CONSTANTS
    Frames = {f1, f2, f3}
    NoFrame = NoFrame
    Torn = Torn
    max_size = 4
    keep_last = 1
SPECIFICATION FairSpec
INVARIANT IInv
INVARIANT NoTornRead
INVARIANT ShownIntact
INVARIANT AbortWakesAll
PROPERTY ImplementsFifo
PROPERTY SpaceFlows
PROPERTY FramesFlow
PROPERTY CloseTerminates
CHECK_DEADLOCK FALSE
