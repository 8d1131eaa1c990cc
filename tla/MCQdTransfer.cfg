CONSTANTS
    Dirs <- MCDirs
    BlockSize = 3
    Uninit = {0}
    Room = 1
    MaxMarker = 3
    Messages <- MCMessages
    MsgBytes <- MCMsgBytes
    HeaderLen = 1
    InitialSize = 6
    MaxErrs = 2
    MayCrash = TRUE
SPECIFICATION Spec
CHECK_DEADLOCK FALSE
INVARIANTS
    EndToEnd
    DamageIsLocal
    LossBounded
PROPERTIES
    ChildEndsWithClient
