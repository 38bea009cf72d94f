SPECIFICATION Spec
CONSTANTS
    Radix = 256
    WrapId = 34
    EchoId = 3
    UserToUserId = 36
    RawSize <- RawSizeToDev
    UserToUserIsWireless = FALSE
    SizeMin = 6
    PayloadSizeMax = 249
    Messages <- MessagesToDev
    Capacities <- SizesToDev
    CntRange = 256
    MsgMax = 2
    FramesMax = 2
INVARIANTS
    TypeOK
    FrameFits
    AllReported
    ConnectTypeFollowsWrapper
PROPERTIES
    FrameGetsParsed
CHECK_DEADLOCK FALSE
