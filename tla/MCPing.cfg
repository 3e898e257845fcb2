CONSTANTS
    KEEP_ALIVE_DURATION = 16
    PING_RETRY_DURATION = 2
    ERROR_CORRECTING_DURATION = 1
    MaxAnswer = 3
    MaxTime = 36
SPECIFICATION Spec
CHECK_DEADLOCK FALSE
INVARIANTS
    TypeOK
    PauseIsEnough
    KeepAliveKept
PROPERTY PingsSpaced
