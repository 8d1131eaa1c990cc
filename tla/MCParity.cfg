CONSTANTS
    Bits = 2
    VBytes = 2
    HBytes = 2
    MaxBytes = 5
    MaxFlips = 2
SPECIFICATION Spec
CHECK_DEADLOCK FALSE
INVARIANTS
    HorizontalExact
    VerticalExact
