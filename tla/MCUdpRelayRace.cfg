CONSTANTS
    Flows = {f1, f2}
    SESSION_IDLE_TIMEOUT = 1
    MaxDatagrams = 4
    MaxReplies = 1
CHECK_DEADLOCK FALSE
SPECIFICATION Spec
INVARIANT OneSessionPerFlow
