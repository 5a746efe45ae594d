SPECIFICATION FairSpec
CONSTANTS
    c1 = c1
    c2 = c2
    Nobody = Nobody
    Callers = {c1, c2}
    SLOTS = 2
    MIN_TIMER_DELAY = 1
    CLOCK_WAIT_TIME = 2
    update_lower = 0
    update_upper = 1
    discont_threshold = 1
    discont_duration = 2
    Scripts <- MCScripts
    NBuffers = 1
    MaxTime = 2
CHECK_DEADLOCK FALSE
INVARIANTS
    RequestsServed
    TimerRight
PROPERTIES
    ClockProgress
