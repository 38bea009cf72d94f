SPECIFICATION SafeSpec
CONSTANTS
    Radix = 256
    WrapId = 35
    EchoId = 3
    UserToUserId = 36
    RawSize <- RawSizeToUser
    UserToUserIsWireless = TRUE
    SizeMin = 13
    PayloadSizeMax = 242
    Messages <- MessagesToUser
    Capacities <- Sizes
    CntRange = 256
    MsgMax = 3
    FramesMax = 1
INVARIANTS
    PeerAccepts
    AllReported
CHECK_DEADLOCK FALSE
