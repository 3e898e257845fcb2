CONSTANTS
    Unused = Unused
    BufferSize = 4
    Requests = {"publish"}
    Incoming = {"ack"}
    Malformed = {}
    Size <- Sizes
    Chunks = 1
    MaxConnections = 1
    MaxSent = 3
SPECIFICATION Spec
CHECK_DEADLOCK FALSE
PROPERTY TriedLaterIsAccepted
