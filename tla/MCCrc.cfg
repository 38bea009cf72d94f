SPECIFICATION CrcSpec
CONSTANTS
    Bytes = {{}, {1, 3, 5, 7}, {0, 4, 6}, {0, 1, 2, 3, 4, 5, 6, 7}}
    LengthMax = 2
    BurstMax = 16
    ErrorMax = 3
INVARIANTS
    EqualsDivision
    DamageDetected
CHECK_DEADLOCK FALSE
