SPECIFICATION FairSpec
CONSTANTS
    s1 = s1
    s2 = s2
    Streams = {s1, s2}
    Rated = {s1}
    Key <- MCKey
    Ring = 2
    Window = 1
    MinUnits = 1
    MaxBuffers = 4
INVARIANTS
    TypeOK
    RingIsServed
    SegmentsAreContiguous
    PlaylistsAreGood
    VariantIsFresh
PROPERTIES
    CapturedIsListed
CHECK_DEADLOCK FALSE
