SPECIFICATION RosSpec
CONSTANTS
    Senders = {spin}
    SendMax = 3
    ReadMax = 1
    Topics = {"find"}
    Depth = 2
    Kinds <- MCKinds
    Pieces <- MCPieces
    CntRange = 2
    CommandMax = 4
INVARIANTS
    HandleOutlivesUsers
    NoCommandSwallowed
    CommandsInOrder
    CountsConsecutive
    
PROPERTIES
    ProgramEnds
CHECK_DEADLOCK FALSE
