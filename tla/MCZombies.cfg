CONSTANTS
    MaxProcs = 4
    MaxConns = 7
SPECIFICATION Spec
CHECK_DEADLOCK FALSE
PROPERTY
    ChildrenCleanedUp
