SPECIFICATION Spec
CONSTANTS
    i = i
    j = j
    k = k
    a = a
    GssSessions = {i, j, k}
    Id <- MCId
    NoId = NoId
    Timeout = 1
    MaxTime = 2
    MaxPending = 1
    MaxRefs = 2
    MaxPosted = 2
SYMMETRY Symmetry
INVARIANTS
    ListIsSound
    RightsEnd
    ExposedIsDead
    PermanentIsSaved
CHECK_DEADLOCK FALSE
