CONSTANTS
    Clients = {"a", "b", "c"}
    Kind <- Qos0s
    Queue = 2
    EventCap = 1
    MaxSubscribers = 3
    IdPoolSize = 3
    WAKERS = 1
    MaxRefused = 0
    MaxCancelled = 0
SPECIFICATION Spec
CHECK_DEADLOCK FALSE
PROPERTY EveryCallReturns
