CONSTANTS
    Nobody = Nobody
    Client = {c1, c2}
    NBuffers = 2
    MaxInterrupts = 1
SPECIFICATION FairSpec
CHECK_DEADLOCK FALSE
INVARIANTS
    PicturesRight
    CameraKept
PROPERTIES
    StreamerServes
