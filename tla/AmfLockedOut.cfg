SPECIFICATION Spec
CONSTANTS
    MaxCtx = 1
    MaxRetry = 0
    MaxTimers = 2
    MaxUp = 1
    MaxRequests = 2
    MaxLate = 0
INVARIANTS NotLockedOut
CHECK_DEADLOCK FALSE
