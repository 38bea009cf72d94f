SPECIFICATION Spec
CONSTANTS
    Radix = 8
    Sof = 1
    SizeMin = 5
    PayloadSizeOffset = 2
    PayloadSizeMax = 6
    FrameSizeMax = 11
    StreamMax = 40
    WrapId = 3
    EchoId = 7
    UserToUserId = 6
    RawSize <- RawSizes
    UserToUserIsWireless = FALSE
    Messages <- Sent
    Capacities = {11}
    CntRange = 2
    MsgMax = 1
    FramesMax = 3
    Checksum <- Number
    ChunkSizes = {4}
    NoiseBytes = {1, 5}
    NoiseMax = 1
INVARIANTS
    UndamagedIsParsed
PROPERTIES
    ImplementsMsgLink
CHECK_DEADLOCK FALSE
