CONSTANTS
    GRACE_PERIOD = 2
    RELAY_BUF_SIZE = 2
    SocketBuffer = 1
    MaxBytes = 4
    MaxLeftover = 2
CHECK_DEADLOCK FALSE
SPECIFICATION Spec
PROPERTY HalfClosedIsForced
