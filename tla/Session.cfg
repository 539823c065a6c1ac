SPECIFICATION Spec
CONSTANTS
    Threshold = 2
    MaxMessageSize = 2
    MAX_HEADER_SIZE = 3
    MaxPiece = 3
    MaxData = 2
    Protocols = {"chat", "mqtt"}
    Policies <- MCPolicies
    Bids <- MCBids
    MaxBytes = 5
    MaxRoom = 2
    UringCapacity = 2
    Chunks <- MCChunks
    Connections = {1, 2}
    PoolSize = 2
    MaxMessages = 4
    PoolMessages = 2
    MaxSize = 3
INVARIANTS
    HandshakeAgrees
    StreamsStartClean
    MessagesDecode
    TransportExact
CHECK_DEADLOCK FALSE
