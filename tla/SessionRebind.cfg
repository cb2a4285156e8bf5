CONSTANTS
    PDRID = {p1, p2}
    URRID = {u1}
    Rule = {f1}
    MaxIEs = 2
    MaxRef = 2
    Liberties = {"rebind"}
SPECIFICATION Spec
INVARIANTS LastPDROnly
