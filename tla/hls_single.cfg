SPECIFICATION Spec
CONSTANTS
    s1 = s1
    s2 = s2
    Streams = {s1}
    Rated = {s1}
    Key <- MCKey
    Ring = 3
    Window = 2
    MinUnits = 2
    MaxBuffers = 14
INVARIANTS
    WindowGrace
PROPERTIES
    ImplementsLivePlaylist
CHECK_DEADLOCK FALSE
