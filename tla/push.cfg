SPECIFICATION PushSpec
CONSTANTS
    Sources = {a, b, c}
    None = None
    RestartDelay = 2
    MaxStreams = 3
SYMMETRY Symmetry
INVARIANTS
    PushTypeOK
    PartsBelongTogether
    RestartTimerIsIdle
    CleanSourceIsStopped
PROPERTIES
    StoppingIsLeftByPlaying
CHECK_DEADLOCK FALSE
