SPECIFICATION SafeSpec
CONSTANTS
    Radix = 256
    WrapId = 34
    EchoId = 3
    UserToUserId = 36
    RawSize <- RawSizeToDev
    UserToUserIsWireless = FALSE
    SizeMin = 6
    PayloadSizeMax = 249
    Messages <- MessagesLarge
    Capacities <- SizesToDev
    CntRange = 256
    MsgMax = 2
    FramesMax = 1
INVARIANTS
    WrappedWithinUserData
CHECK_DEADLOCK FALSE
