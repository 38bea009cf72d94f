SPECIFICATION Spec
CONSTANTS
    PayloadMax = 3
    NameSize = 4
    Sweep <- AllHundredths
INVARIANTS
    FieldsSurvive
    NoGarbageOnTheLine
    DriftBounded
PROPERTIES
    HopLosesAtMostOne
CHECK_DEADLOCK FALSE
