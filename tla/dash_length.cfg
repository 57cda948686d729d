SPECIFICATION Spec
CONSTANTS
    Movies <- MCMovies
    NoTrack = NoTrack
    Scale = 10
    Header = 1
    MoofBox = 1
    MdatBox = 1
    Prefix = 0
INVARIANTS
    AnswerFillsRange
CHECK_DEADLOCK FALSE
