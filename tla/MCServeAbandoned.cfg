SPECIFICATION HistorySpec
CONSTANTS
    Conns = {c1, c2}
    MaxConnections = 2
    Workers = 1
INVARIANTS
    AbandonedWereRunning
CHECK_DEADLOCK FALSE
