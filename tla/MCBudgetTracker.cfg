SPECIFICATION Spec
CONSTANTS
    Request   = {r1, r2, r3}
    Chat      = Chat
    Embed     = Embed
    Account   = {Chat, Embed}
    Policy    <- MCPolicy
    Unlimited = Unlimited
    Estimate  = {1, 2}
    Prompt    = {0, 1}
    MaxDay    = 1
    MonthOf   <- MCOneMonth
    NoCall    = NoCall
SYMMETRY RequestSymmetry
INVARIANTS
    TypeOK
    Conservation
    OvershootIsOverrun
    RefusedOnlyUnderPressure
PROPERTIES
    ImplementsLedger
