SPECIFICATION Spec
CONSTANTS
    Frames <- LoginFrames
    Args <- MCArgs
    ValidNames <- MCValidNames
    MaxFrames = 3
    SendCapacity = 2
INVARIANTS
    ConfigurationAfterLogin
CHECK_DEADLOCK FALSE
