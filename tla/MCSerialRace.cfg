SPECIFICATION SafeSpec
CONSTANTS
    Senders = {a, b}
    SendMax = 1
    ReadMax = 1
INVARIANTS
    WriteOnLivePort
CHECK_DEADLOCK FALSE
