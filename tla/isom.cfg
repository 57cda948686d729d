SPECIFICATION Spec
CONSTANTS
    Sources <- MCSources
    Noises <- MCNoises
    MaxNoise = 1
    Loads <- MCLoads
    ClearBytes = 1
    HeaderBytes = 2
    VectorShift = 100
    TrackShift = 1000
INVARIANTS
    FileIsRead
    HeaderSurvives
    SamplesAreFound
    IndexIsRight
    VectorsAreFresh
CHECK_DEADLOCK FALSE
