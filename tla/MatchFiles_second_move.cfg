CONSTANTS
    Missing = missing
    NoKey = none
    MaxFile = 4
    MaxSeq = 3
    Faults = {}
SPECIFICATION Spec
INVARIANTS MoveFindsItsFiles
CHECK_DEADLOCK FALSE
