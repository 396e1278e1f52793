SPECIFICATION Spec
CONSTANTS
    Request     = {r1, r2}
    Chat        = Chat
    Other       = Other
    Account     = {Chat, Other}
    Entitled    = {Chat}
    Policy      <- MCPolicy
    Unlimited   = Unlimited
    Estimate    = {2}
    Prompt      = {1}
    MaxDay      = 1
    MonthOf     <- MCMonthOf
    NoCall      = NoCall
    b1          = b1
    b2          = b2
    b3          = b3
    Chain       <- MCShortChain
    MaxFailover = 1
    Faults      = FALSE
    None        = None
INVARIANT FailureReleases
