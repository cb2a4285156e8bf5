CONSTANTS
    Conn = {c1, c2}
    RanUeID = {1}
    NumWorkers = 2
    BufSize = 1
    MaxMsgs = 3
    MaxLoad = 3
    MaxPanics = 1
SPECIFICATION FairSpec
INVARIANTS InOrder DrainedAll MappingSound
PROPERTIES ShutdownEnds QueuedHandled
CHECK_DEADLOCK FALSE
