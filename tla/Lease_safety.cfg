CONSTANTS
    r1 = r1  r2 = r2  r3 = r3  none = none
    Run = {r1, r2, r3}
    NoRun = none
    MaxGen = 3
    MaxTime = 2
    MaxSkew = 1
    Skews <- AnySkew
    LEASE_TTL = 1
    TAKEOVER_GRACE = 1
    COMMIT_MARGIN = 1
    KEEP_NEWEST = 1
    PRUNE_AFTER = 0
SYMMETRY RunSymmetry
SPECIFICATION Spec
INVARIANTS TypeOK LiveLeaseIsTakenOnOldLookOnly OneLiveHolder ChainKeepsItsTop AnchorIsFirst
PROPERTIES ReleasedTopStaysReleased LeaseIsAChain
CHECK_DEADLOCK FALSE
