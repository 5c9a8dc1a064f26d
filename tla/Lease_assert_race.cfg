CONSTANTS
    r1 = r1  r2 = r2  none = none
    Run = {r1, r2}
    NoRun = none
    MaxGen = 2
    MaxTime = 5
    MaxSkew = 0
    Skews <- AnySkew
    LEASE_TTL = 2
    TAKEOVER_GRACE = 1
    COMMIT_MARGIN = 1
    KEEP_NEWEST = 1
    PRUNE_AFTER = 9
SYMMETRY RunSymmetry
SPECIFICATION Spec
PROPERTY NoRenewalAfterTakeoverIsTrusted
CHECK_DEADLOCK FALSE
