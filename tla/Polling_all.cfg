CONSTANTS
    N = 3
    MaxReadErrors = 1
SPECIFICATION FairSpec
INVARIANTS
    NoDuplicateReport
    LateReportsBounded
PROPERTIES
    ThreadProgress
    ImplementsAlarm
