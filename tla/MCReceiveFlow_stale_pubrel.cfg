CONSTANTS
    m1 = m1
    m2 = m2
    m3 = m3
    m4 = m4
    Msgs <- Two
    Qos <- Qos22
    TooLong = {}
    PidSet = {1}
    Queue = 2
    MaxConnections = 2
    SendCap = 2
SPECIFICATION FlowSpec
CHECK_DEADLOCK FALSE
INVARIANT AckedMeansDelivered
