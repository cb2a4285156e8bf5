SPECIFICATION FairSpec
CONSTANTS
    MaxCtx = 1
    MaxRetry = 2
    MaxTimers = 2
    MaxUp = 2
    MaxRequests = 2
    MaxLate = 0
INVARIANTS TimerGuards
PROPERTIES ProcedureEnds
CHECK_DEADLOCK FALSE
