\* One caller, so one worker: the wake-up is lost without any race at start-up.
CONSTANTS
    Callers = {ui}
    NoInstance = NoInstance
    MaxReports = 2
    MaxQuits = 0
SPECIFICATION FairSpec
PROPERTY ReportsGoOut
CHECK_DEADLOCK FALSE
