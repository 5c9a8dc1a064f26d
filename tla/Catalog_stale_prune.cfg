CONSTANTS
    r1 = r1  r2 = r2  missing = missing  none = none
    Run = {r1, r2}
    Missing = missing
    NoPointer = none
    MaxSeq = 3
    Faults = {"stall"}
SYMMETRY RunSymmetry
SPECIFICATION Spec
PROPERTY PrunedVersionIsNotCurrent
CHECK_DEADLOCK FALSE
