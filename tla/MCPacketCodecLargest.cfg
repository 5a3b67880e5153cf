SPECIFICATION Spec
CONSTANTS
    PayloadBits = 2
    Width = 7
    MaxLen = 4
    MAX_PACKET_SIZE = 11
    MAX_SPECULATIVE_RESERVE = 3
    INITIAL_CAPACITY = 3
    Thresholds <- MCThresholds
    Packets <- LargestPacket
    PeerBytes <- MCPeerBytes
    MaxPackets = 1
    MaxBytes = 0
INVARIANTS
    EncoderOutputAccepted
CHECK_DEADLOCK FALSE
