SPECIFICATION Spec
CONSTANTS
    Frames <- AllFrames
    Args <- MCArgs
    ValidNames <- MCValidNames
    MaxFrames = 4
    SendCapacity = 2
INVARIANTS
    SwitchPoint
    TransitionsAgree
    LastWord
    NoiseIsTransport
    IdentitiesInOrder
PROPERTIES
    MisreadSilences
    SessionSpec
CHECK_DEADLOCK FALSE
