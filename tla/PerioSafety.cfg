CONSTANTS
    Period = {p1, p2}
    SEID = {s1}
    URRID = {u1, u2}
    EvtCap = 1
    SrCap = 1
    MaxPending = 2
    None = None
SPECIFICATION Spec
INVARIANTS TypeOK GroupsInUse TickerPerGroup TickersStoppedBeforeClose TimersFollowSessions
CHECK_DEADLOCK FALSE
