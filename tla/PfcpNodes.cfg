CONSTANTS
    NodeID = {A, B}
    Node = {n1, n2, n3}
    RSEID = {r1, r2}
    MaxSess = 3
    MaxPending = 1
    None = None
SPECIFICATION Spec
INVARIANTS FreeListExact OwnedOnce AssociationsByID
PROPERTIES SessionsStable SetupClosesRegistered
SYMMETRY Symmetry
