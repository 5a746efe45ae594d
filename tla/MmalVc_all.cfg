SPECIFICATION Spec
CONSTANTS
    Buffers = {b1}
    Ev = ev
    MAX_WAITERS = 1
    MaxFail = 1
CHECK_DEADLOCK FALSE
INVARIANTS
    RepliesRight
    BulksRight
PROPERTIES
    CallsReturn
