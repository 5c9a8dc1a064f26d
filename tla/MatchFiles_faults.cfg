CONSTANTS
    Missing = missing
    NoKey = none
    MaxFile = 3
    MaxSeq = 3
    Faults = {"late", "torn", "failed"}
SPECIFICATION FairSpec
INVARIANTS TypeOK MovedKeyNeverReturns RestorePointsWork PublicCopyHasRecord
PROPERTY PublicCopyGoes
CHECK_DEADLOCK FALSE
