SPECIFICATION DocSpec
CONSTANTS
    Router    = {q1, q2}
    Poller    = {p1}
    Mortal    = {}
    Threshold = 2
    Cooldown  = 2
    NoTTL     = NoTTL
INVARIANT
    ConsecutiveFailuresOpen
