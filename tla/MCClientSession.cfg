SPECIFICATION FairSession
CONSTANTS
    Frames <- MCFrames
    Args <- MCArgs
    ValidNames <- MCValidNames
    MaxFrames = 5
    SendCapacity = 1
INVARIANTS
    FormatsAgree
    ConformingNotBlamed
    BothConfigured
PROPERTIES
    ExchangeCompletes
CHECK_DEADLOCK FALSE
