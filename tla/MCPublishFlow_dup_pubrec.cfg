CONSTANTS
    m1 = m1
    m2 = m2
    m3 = m3
    NoMsg = NoMsg
    Msgs <- One
    Qos <- Qos2
    TooLong = {}
    Queue = 1
    SendCap = 2
    PoolSize = 2
    MaxPid = 3
    MaxLosses = 0
    MaxResends = 1
SPECIFICATION FlowSpec
CHECK_DEADLOCK FALSE
INVARIANT NoPanic
