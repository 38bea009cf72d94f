SPECIFICATION Spec
CONSTANTS
    Radix = 2
    Byte = {0, 1}
    Sof = 1
    SizeMin = 4
    PayloadSizeOffset = 1
    PayloadSizeMax = 2
    CrcVerify <- SumVerify
    FrameSizeMax = 6
    ChunkMax = 8
    StreamMax = 11
INVARIANTS
    TypeOK
    RoomToCopy
    WindowIsStream
    DeliveredFromStream
    NoFrameSkipped
    NothingHeldBack
    DeliveredWithinABuffer
PROPERTIES
    HandleDataReturns
    ImplementsFrameSync
    KeepsMoving
CHECK_DEADLOCK FALSE
