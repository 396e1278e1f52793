SPECIFICATION Spec
CONSTANTS
    h1          = h1
    h2          = h2
    Chat        = Chat
    Embed       = Embed
    Other       = Other
    Model       = {Chat, Embed}
    None        = None
    File        <- MCFile
    MaxPriority = 1
    Requester   = {q}
    Interval    = 1
    Timeout     = 2
    MaxAge      = 8
INVARIANTS
    ProbedInTime
    RoutedByPriority
    LeftOutOnlyIfOpen
PROPERTY EveryEntryIsProbed
