CONSTANTS
    Period = {p1}
    SEID = {s1}
    URRID = {u1}
    EvtCap = 4
    SrCap = 1
    MaxPending = 1
    None = None
SPECIFICATION Spec
INVARIANT NoPanic
