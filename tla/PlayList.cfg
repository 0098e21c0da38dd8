\* f1 and f2 are in the list, f3 may come to it; nothing plays without marks.
CONSTANTS
    f1 = f1
    f2 = f2
    f3 = f3
    Files <- MCFiles
    NoFile = NoFile
    Gone = {f3}
    Unseen = {f2, f3}
    Orders = {0, 1, 2, 3, 4}
    Marks = {FALSE, TRUE}
    Stored <- MCStored
    MaxInputs = 3
SPECIFICATION FairSpec
INVARIANT IInv
INVARIANT MarkAgrees
PROPERTY LoopVisitsAll
PROPERTY LoopGoesOn
CHECK_DEADLOCK FALSE
