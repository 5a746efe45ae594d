CONSTANTS
    MaxRuns = 2
    MaxSignals = 2
    MaxEvents = 1
    MaxPrev = 1
    ArrayLen = 4
    MinOutput = 2
    ReadTimeout = 2
    Address = {1}
SPECIFICATION Spec
CHECK_DEADLOCK FALSE
INVARIANTS
    TracesRight
    PortClosed
PROPERTIES
    MainReturns
