CONSTANTS
    Conn = {c1}
    RanUeID = {2}
    NumWorkers = 2
    BufSize = 1
    MaxMsgs = 3
    MaxLoad = 6
    MaxPanics = 0
SPECIFICATION Spec
INVARIANT SerialPerUE
CHECK_DEADLOCK FALSE
