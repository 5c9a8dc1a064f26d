CONSTANTS
    Record <- Five
    MaxConfidence = 1
SPECIFICATION Spec
INVARIANTS ClustersFollowLinks PassedOverWhenTaken
PROPERTIES UntouchedStays MovesTellTrue
