SPECIFICATION Spec
CONSTANTS
    Caller  = {r1, r2, r3}
    Burst   = 1
    Cost    = 16
    Rate    = 3
    Second  = 4
    Ttl     = 5
    Offset  = {0, 2}
    MaxTime = 8
    Nobody  = Nobody
SYMMETRY CallerSymmetry
INVARIANTS
    TokensAreEarned
    NoneRefusedByDisorder
    SecondRetrySucceeds
