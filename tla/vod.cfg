SPECIFICATION VodSpec
CONSTANTS
    r1 = r1
    r2 = r2
    Requests <- MCRequests
    Workers = {w1}
    Waiting = Waiting
    Exited = Exited
    Poison = Poison
    Recordings <- MCRecordings
    Urls <- MCUrls
    HomeLevels = 1
    MaxParsers = 2
    MaxChanges = 2
    Absent = Absent
    Bad = Bad
    InitTime = InitTime
    None = None
SYMMETRY Symmetry
INVARIANTS
    UsedIsKept
    AnswersFitTheUrl
    AnnouncedIsServed
CHECK_DEADLOCK FALSE
