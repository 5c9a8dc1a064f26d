CONSTANTS
    r1 = r1  r2 = r2  r3 = r3  none = none
    Run = {r1, r2, r3}
    NoRun = none
    MaxGen = 3
    MaxTime = 1
    MaxSkew = 1
    Skews <- OneAhead
    LEASE_TTL = 0
    TAKEOVER_GRACE = 1
    COMMIT_MARGIN = 0
    KEEP_NEWEST = 1
    PRUNE_AFTER = 0
SYMMETRY RunSymmetry
SPECIFICATION LSpec
INVARIANTS LTypeOK SkippedRunIsNotNamed OneLiveHolder BucketFollowsLedger
PROPERTY TakenOnlyWhenOver
CHECK_DEADLOCK FALSE
