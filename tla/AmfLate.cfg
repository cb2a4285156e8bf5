SPECIFICATION Spec
CONSTANTS
    MaxCtx = 1
    MaxRetry = 0
    MaxTimers = 2
    MaxUp = 1
    MaxRequests = 1
    MaxLate = 1
INVARIANTS StopIsFinal
CHECK_DEADLOCK FALSE
