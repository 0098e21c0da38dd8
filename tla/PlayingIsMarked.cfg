\* As in PlayList.cfg, every file playable; one order is enough.
CONSTANTS
    f1 = f1
    f2 = f2
    f3 = f3
    Files <- MCFiles
    NoFile = NoFile
    Gone = {}
    Unseen = {}
    Orders = {0}
    Marks = {FALSE}
    Stored <- MCStored
    MaxInputs = 3
SPECIFICATION Spec
INVARIANT PlayingIsMarked
CHECK_DEADLOCK FALSE
