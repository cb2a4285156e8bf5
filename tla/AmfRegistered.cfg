SPECIFICATION Spec
CONSTANTS
    MaxCtx = 1
    MaxRetry = 1
    MaxTimers = 2
    MaxUp = 2
    MaxRequests = 2
    MaxLate = 0
PROPERTIES RegisteredFromSetup
CHECK_DEADLOCK FALSE
