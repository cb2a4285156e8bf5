CONSTANTS
    NodeID = {A, B}
    Node = {n1, n2, n3}
    RSEID = {r1}
    MaxSess = 2
    MaxPending = 1
    None = None
SPECIFICATION Spec
INVARIANT SetupDeletesSessions
