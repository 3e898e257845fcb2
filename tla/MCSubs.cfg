CONSTANTS
    s1 = s1
    s2 = s2
    u1 = u1
    long = long
    odd = odd
    Requests <- MCRequests
    Kind <- MCKind
    TooLong = {long}
    Unencodable = {odd}
    Queue = 2
    SendCap = 2
    PoolSize = 4
    MaxPid = 5
SPECIFICATION Spec
SYMMETRY Symmetry
CHECK_DEADLOCK FALSE
INVARIANTS
    TypeOK
    QueuedInOrder
    AnswersOwnKind
    NothingLeaks
PROPERTY ImplementsPidUsers
