CONSTANTS
    Period = {p1, p2}
    SEID = {s1}
    URRID = {u1}
    EvtCap = 1
    SrCap = 1
    MaxPending = 2
    None = None
SPECIFICATION FairSpec
INVARIANTS GroupsInUse TickerPerGroup TickersStoppedBeforeClose TimersFollowSessions
CHECK_DEADLOCK FALSE
PROPERTY ShutdownCompletes
