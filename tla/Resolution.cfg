CONSTANTS
    Record <- TwoProviders
    MaxDecision = 1
    MaxRequest = 2
    MaxSetting = 2
    KeepVersions = 2
SPECIFICATION FairSpec
INVARIANTS TypeOK HeldIsNeverAccepted OnlyPeopleDoubleLink RequestIsAppliedOnce
PROPERTIES RejectionTakesEffect RequestIsApplied
