CONSTANTS
    m1 = m1
    m2 = m2
    m3 = m3
    m4 = m4
    Msgs <- Four
    Qos <- Qos0122
    TooLong = {m1}
    PidSet = {1, 2}
    Queue = 2
    MaxConnections = 3
    SendCap = 2
SPECIFICATION FlowSpec
CHECK_DEADLOCK FALSE
INVARIANTS
    FlowTypeOK
    AtMostOnce
    AckedMeansDeliveredAtFirst
    NothingLeftBehind
