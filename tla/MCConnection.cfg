CONSTANTS
    Unused = Unused
    BufferSize = 4
    Requests = {"ping", "publish"}
    Incoming = {"ack", "garbage", "large"}
    Malformed = {"garbage"}
    Size <- Sizes
    Chunks = 2
    MaxConnections = 2
    MaxSent = 4
SPECIFICATION Spec
CHECK_DEADLOCK FALSE
INVARIANTS
    TypeOK
    WireIntact
    ReceivedInOrder
    StateIsTrue
    NoPanic
    TooSmallIsTrue
PROPERTY AcceptedIsSent
