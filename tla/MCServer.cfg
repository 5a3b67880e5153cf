SPECIFICATION FairSpec
CONSTANTS
    CommandLines <- MCCommandLines
    MAX_PERMITS = 1000
    Tracked = t
    Conns = {t, u}
    MaxConnections = 1
    Workers = 1
    Frames <- MCFrames
    Args <- MCArgs
    ValidNames = {"bob"}
    MaxFrames = 2
    SendCapacity = 1
INVARIANTS
    OfflineLoginsDeliberate
    DrainedMeansFinished
PROPERTIES
    PermitReturns
    ProcessStops
CHECK_DEADLOCK FALSE
