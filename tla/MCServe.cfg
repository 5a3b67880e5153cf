SPECIFICATION LoopSpec
CONSTANTS
    Conns = {c1, c2, c3, c4, c5}
    MaxConnections = 2
    Workers = 1
INVARIANTS
    TypeOK
    PermitsConserved
    JoinSetBounded
    OutcomeAccounts
PROPERTIES
    RefusedOnlyAtCapacity
    AdmissionSpec
    ShutdownReturns
    BacklogTaken
    CapacityRecovers
CHECK_DEADLOCK FALSE
