SPECIFICATION FairSpec
CONSTANTS
    b1 = b1
    b2 = b2
    Ev = Ev
    MaxFail = 1
    Buffers <- MCBuffers
CHECK_DEADLOCK FALSE
INVARIANTS
    HeadersKept
    TransitRight
PROPERTIES
    CallReturns
