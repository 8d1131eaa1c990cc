CONSTANTS
    MaxEntries = 3
    Dirs <- MCDirs
    Blocks = {"a", "b", "c", "d", "e"}
    BlockSize = 3
    Uninit = {0, 5}
    Room = 2
    MayReset = TRUE
SPECIFICATION Spec
CHECK_DEADLOCK FALSE
INVARIANTS
    StreamIsFiles
    LogTruthful
PROPERTY
    ChildFinishes
