SPECIFICATION Spec
CONSTANTS
    Nobody <- MCNobody
    Loads <- MCLoads
    Files <- MCFiles
    Folders <- MCFolders
    FileSize <- MCFileSize
    Sizes <- MCSizes
    Streamed <- MCStreamed
    Resolutions <- MCResolutions
    Rings <- MCRings
    Exceeds <- MCExceeds
    Found <- MCFound
    Sharpness <- MCSharpness
    ZmqSizes <- MCZmqSizes
    MaxNew = 2
    FocusMax = 30
    FocusStep = 20
    MaxZmqBufferSize = 2
    Commanders <- MCCommanders
    Degrees <- MCDegrees
    MinRes = 3200
    MaxFail = 1
CHECK_DEADLOCK FALSE
INVARIANTS
    PicturesRight
    MotorsRight
PROPERTIES
    CopiesRight
    RemovedWasShown
