CONSTANTS
    MaxMarker = 3
    MaxStream = 7
    Messages <- MCMessages
    Streams <- MCStreams
    HeaderLen = 1
    InitialSize = 5
SPECIFICATION Spec
CHECK_DEADLOCK FALSE
INVARIANTS
    ChunksAccountedFor
    CountedAreWholeChunks
    WholeFramesCounted
PROPERTY
    ClientEnds
