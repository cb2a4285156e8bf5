CONSTANTS
    PDRID = {p1, p2}
    URRID = {u1}
    Rule = {f1}
    MaxIEs = 2
    MaxRef = 2
    Liberties = {"recreate", "rebind", "dangling"}
SPECIFICATION Spec
SYMMETRY Symmetry
INVARIANTS KernelCovered RefCounts
PROPERTY LastPDRReported
