SPECIFICATION Spec
CONSTANTS
    Nobody <- MCNobody
    Loads <- MCThreadLoads
    Files <- MCFiles
    Folders <- MCFolders
    FileSize <- MCFileSize
    Sizes <- MCSizes
    Streamed <- MCStreamed
    Resolutions <- MCResolutions
    Rings <- MCNoRings
    Exceeds <- MCNoExceeds
    Found <- MCFound
    Sharpness <- MCFewSharpness
    ZmqSizes <- MCOneZmqSize
    MaxNew = 1
    FocusMax = 30
    FocusStep = 20
    MaxZmqBufferSize = 2
    Commanders <- MCCommanders
    Degrees <- MCDegrees
    MinRes = 3200
    MaxFail = 1
CHECK_DEADLOCK FALSE
PROPERTIES
    PluginsServe
