SPECIFICATION Spec
CONSTANTS
    Senders = {a, b}
    SendMax = 2
    ReadMax = 1
INVARIANTS
    TypeOK
    OneWriteInFlight
    ChainsUnbroken
    NothingLost
PROPERTIES
    FramesGoOut
    SignalStops
CHECK_DEADLOCK FALSE
