CONSTANTS
    Bits = 4
    VBytes = 4
    HBytes = 2
    Contents <- MCContents
    Ids <- MCIds
    MaxSize = 60
    MaxAltered = 1
SPECIFICATION Spec
CHECK_DEADLOCK FALSE
INVARIANTS
    ParseReadsInside
    RoundTrip
    LossNoticed
    OneBitRefused
