CONSTANTS
    Period = {p1}
    SEID = {s1}
    URRID = {u1}
    EvtCap = 5
    SrCap = 1
    MaxPending = 1
    None = None
SPECIFICATION Spec
INVARIANT NoTimerWithoutSession
