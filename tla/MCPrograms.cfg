SPECIFICATION ToolSpec
CONSTANTS
    Senders = {thread}
    SendMax = 3
    ReadMax = 2
    Kinds = {"RESULT", "DIS", "ECHO"}
    FrameMax = 1
    MsgMax = 2
    FailMax = 1
INVARIANTS
    OutputsIndependent
    AllThreeSent
PROPERTIES
    ToolEnds
CHECK_DEADLOCK FALSE
