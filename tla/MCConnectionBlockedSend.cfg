SPECIFICATION FairSpec
CONSTANTS
    Frames <- FewFrames
    Args <- MCArgs
    ValidNames <- MCValidNames
    MaxFrames = 3
    SendCapacity = 1
PROPERTIES
    ConnectionEnds
CHECK_DEADLOCK FALSE
