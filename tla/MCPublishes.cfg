CONSTANTS
    m1 = m1
    m2 = m2
    m3 = m3
    m4 = m4
    NoMsg = NoMsg
    Msgs <- Four
    Qos <- Qos2220
    TooLong = {m4}
    Queue = 2
    SendCap = 1
    PoolSize = 1
    MaxPid = 4
SPECIFICATION Spec
SYMMETRY SymmetryThree
CHECK_DEADLOCK FALSE
INVARIANTS
    TypeOK
    CapacityRespected
    InOnePlace
    PidsUnshared
    KeepsOrder
PROPERTIES
    ImplementsPidUsers
    DupMarksRetransmission
