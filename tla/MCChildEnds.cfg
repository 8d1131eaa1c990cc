CONSTANTS
    MaxEntries = 2
    Dirs <- MCDirs
    Blocks = {"a", "b", "c", "d", "e"}
    BlockSize = 3
    Uninit = {0}
    Room = 2
    MayReset = TRUE
SPECIFICATION Spec
CHECK_DEADLOCK FALSE
PROPERTY
    EveryChildEnds
