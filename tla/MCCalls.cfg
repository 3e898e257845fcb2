CONSTANTS
    Clients = {"a", "b", "c"}
    Kind <- Mixed
    Queue = 1
    EventCap = 2
    MaxSubscribers = 2
    IdPoolSize = 2
    WAKERS = 1
    MaxRefused = 1
    MaxCancelled = 1
SPECIFICATION Spec
CHECK_DEADLOCK FALSE
INVARIANTS
    TypeOK
    ReturnsForOwn
    IdPoolSuffices
PROPERTIES
    EveryCallReturns
    DisconnectHonoured
