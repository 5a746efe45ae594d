SPECIFICATION Spec
CONSTANTS
    Clients <- MCClients
    Nobody <- MCNobody
    NBuffers = 2
    NB_BUFFER = 2
    Parts = 2
    MaxCmd = 1
    MaxFail = 1
INVARIANTS
    PicturesRight
    MemoryKept
PROPERTIES
    ThreadsEnd
