CONSTANTS
    m1 = m1
    m2 = m2
    m3 = m3
    NoMsg = NoMsg
    Msgs <- Three
    Qos <- Qos122
    TooLong = {}
    Queue = 2
    SendCap = 2
    PoolSize = 2
    MaxPid = 4
    MaxLosses = 1
    MaxResends = 1
SPECIFICATION FlowSpec
CHECK_DEADLOCK FALSE
INVARIANTS
    DoneMeansDelivered
    ExactlyOnce
    NoPanicIfPrompt
PROPERTY NoSelfInflictedError
