SPECIFICATION Spec
CONSTANTS
    Streams = {a, b, c}
    Expiry = 2
    MaxOneTimes = 2
INVARIANTS
    TableIsSound
PROPERTIES
    OneTimesStayGood
CHECK_DEADLOCK FALSE
