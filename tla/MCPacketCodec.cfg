SPECIFICATION Spec
CONSTANTS
    PayloadBits = 2
    Width = 7
    MaxLen = 4
    MAX_PACKET_SIZE = 11
    MAX_SPECULATIVE_RESERVE = 3
    INITIAL_CAPACITY = 3
    Thresholds <- MCThresholds
    Packets <- MCPackets
    PeerBytes <- MCPeerBytes
    MaxPackets = 2
    MaxBytes = 7
INVARIANTS
    TypeOK
    FramesAligned
    NothingStranded
    MemoryTracksBytes
    DecodedWithinLimit
CHECK_DEADLOCK FALSE
