SPECIFICATION Spec
CONSTANTS
    p1 = p1
    p2 = p2
    s1 = s1
    s2 = s2
    Players = {p1, p2}
    Streams = {s1, s2}
    Fds = {f1, f2}
    None = None
    MaxConnections = 1
    MaxRate = 4
    Want <- MCWant
INVARIANTS
    ClientsAreSound
    LimitHolds
CHECK_DEADLOCK FALSE
