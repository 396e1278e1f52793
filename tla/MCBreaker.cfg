SPECIFICATION FairBreakerSpec
CONSTANTS
    Router    = {q1, q2}
    Poller    = {p1}
    Mortal    = {q1, q2}
    Threshold = 3
    Cooldown  = 2
    NoTTL     = NoTTL
INVARIANTS
    TypeOK
    TripsAtThreshold
    OpenOnlyForCooldown
PROPERTIES
    RecoveredBackendIsUsed
    DeadBackendIsSkipped
