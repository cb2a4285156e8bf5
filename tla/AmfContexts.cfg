SPECIFICATION Spec
CONSTANTS
    MaxCtx = 2
    MaxRetry = 0
    MaxTimers = 2
    MaxUp = 1
    MaxRequests = 2
    MaxLate = 1
INVARIANTS RegisteredFindable
PROPERTIES RegisteredAuthenticated
CHECK_DEADLOCK FALSE
