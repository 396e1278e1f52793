SPECIFICATION Spec
CONSTANTS
    Stream      <- MCStream
    MaxAttempts = 4
INVARIANTS
    TruncationIsVisible
    StringsSurvive
    ValidIsKept
    LostOnlyIfHopeless
