CONSTANTS
    Conn = {c1}
    RanUeID = {1}
    NumWorkers = 2
    BufSize = 1
    MaxMsgs = 2
    MaxLoad = 4
    MaxPanics = 0
SPECIFICATION Spec
INVARIANT StoppedWorkerRefuses
CHECK_DEADLOCK FALSE
