CONSTANTS
    u1 = u1
    u2 = u2
    u3 = u3
    Users <- MCUsers
    PoolSize = 1
    MaxPid = 7
    MaxAbandon = 1
SPECIFICATION Spec
SYMMETRY Symmetry
CHECK_DEADLOCK FALSE
INVARIANTS
    TypeOK
    OneOwner
    NoCreep
PROPERTY LossOnlyWhenFull
