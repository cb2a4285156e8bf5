CONSTANTS
    Conn = {c1, c2}
    RanUeID = {1, 2}
    NumWorkers = 2
    BufSize = 1
    MaxMsgs = 3
    MaxLoad = 6
    MaxPanics = 0
SPECIFICATION Spec
INVARIANT ArrivalOrder
CHECK_DEADLOCK FALSE
