\* The UI thread and one start-up thread, each able to build a CReporter.
CONSTANTS
    Callers = {ui, init}
    NoInstance = NoInstance
    MaxReports = 2
    MaxQuits = 1
SPECIFICATION FairSpec
INVARIANT IInv
INVARIANT PostedOnce
INVARIANT PostedInOrder
INVARIANT LeftOnlyByDrop
PROPERTY ReportsLeave
PROPERTY QuitReturns
CHECK_DEADLOCK FALSE
