SPECIFICATION Spec
CONSTANTS
    Base = 16
    W16 = 1
    W32 = 1
    W64 = 2
    MAX_DEPTH = 2
    MAX_TOTAL_NODES = 3
    InvalidBytes = {13}
    InputBytes <- MCInputBytes
    Names <- MCNames
    Leaves <- MCLeaves
    MaxBytes = 8
    MaxNodes = 4
INVARIANTS
    DecodedSound
    Canonical
    WrittenReadsBack
    WriterDepth
    VerdictFinal
CHECK_DEADLOCK FALSE
