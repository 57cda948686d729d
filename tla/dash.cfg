SPECIFICATION Spec
CONSTANTS
    Movies <- MCMovies
    NoTrack = NoTrack
    Scale = 10
    Header = 1
    MoofBox = 1
    MdatBox = 1
    Prefix = 1
INVARIANTS
    FragmentsAreSound
    AudioEndsWithVideo
    RangesFitTogether
CHECK_DEADLOCK FALSE
