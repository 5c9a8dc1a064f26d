CONSTANTS
    r1 = r1  r2 = r2  none = none
    Run = {r1, r2}
    NoRun = none
    MaxGen = 2
    MaxTime = 3
    MaxSkew = 0
    Skews <- AnySkew
    LEASE_TTL = 1
    TAKEOVER_GRACE = 1
    COMMIT_MARGIN = 1
    KEEP_NEWEST = 1
    PRUNE_AFTER = 0
SPECIFICATION FairSpec
PROPERTIES DeadHolderIsReplaced EveryHolderEnds
CHECK_DEADLOCK FALSE
