CONSTANTS
    p1 = p1
    p2 = p2
    p3 = p3
    Pids = {p1, p2, p3}
    NoPid = NoPid
    Group = Group
    MaxRetries = 2
    MaxStops = 2
    MaxForkErrors = 1
SPECIFICATION FairSpec
INVARIANTS
    NoLostWakeup
    NothingLeftBehind
PROPERTIES
    StrayOnlyInWindow
    SignalsServed
