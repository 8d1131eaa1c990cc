CONSTANTS
    MaxMarker = 4
    MaxLen = 6
SPECIFICATION Spec
CHECK_DEADLOCK FALSE
INVARIANTS
    TypeOK
    Framed
    RoundTrip
    VerifiersAgree
    DecodeFitsBuffer
    EncodingBounded
    PartialDecodePrefixNoFull
