CONSTANTS
    r1 = r1  r2 = r2  missing = missing  none = none
    Run = {r1, r2}
    Missing = missing
    NoPointer = none
    MaxSeq = 3
    Faults = {"stall", "late", "unclear"}
SYMMETRY RunSymmetry
SPECIFICATION Spec
INVARIANTS TypeOK CurrentIsComplete
PROPERTY OneHistory
CHECK_DEADLOCK FALSE
