CONSTANTS
    Period = {p1}
    SEID = {s1}
    URRID = {u1}
    EvtCap = 1
    SrCap = 1
    MaxPending = 2
    None = None
SPECIFICATION FairSpec
PROPERTY ShutdownAlwaysCompletes
CHECK_DEADLOCK FALSE
