SPECIFICATION FairSpec
CONSTANTS
    Requests = {r1, r2, r3, r4}
    Workers = {w1, w2}
    Waiting = Waiting
    Exited = Exited
    Poison = Poison
INVARIANTS
    TypeOK
    OneCompleteAnswer
    FreedIsNotUsed
PROPERTIES
    EveryRequestIsAnswered
    ShutdownReturns
CHECK_DEADLOCK FALSE
