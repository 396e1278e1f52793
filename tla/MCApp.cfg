SPECIFICATION Spec
CONSTANTS
    Request = {l1, l2, l3, v1}
    Legacy  = {l1, l2, l3}
    Image   = {l1, l2, l3, v1}
    Permits = 1
INVARIANTS
    PermitsConserved
    GatewayOutlivesUsers
PROPERTIES
    EveryRequestIsAnswered
    ShutdownCompletes
