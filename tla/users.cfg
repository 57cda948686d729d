SPECIFICATION Spec
CONSTANTS
    Users = {u}
    Ids = {i, j}
    Groups = {"admin", "user"}
    Timeout = 1
    MaxTime = 3
    MaxInfos = 3
SYMMETRY Symmetry
INVARIANTS
    PointersAreSound
    GrantsAreKept
    RightsOutliveTheGroupBriefly
CHECK_DEADLOCK FALSE
