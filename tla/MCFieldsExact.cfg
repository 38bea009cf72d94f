SPECIFICATION Spec
CONSTANTS
    PayloadMax = 3
    NameSize = 4
    Sweep <- FewHundredths
INVARIANTS
    RoundTripExact
CHECK_DEADLOCK FALSE
