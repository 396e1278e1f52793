SPECIFICATION Spec
CONSTANTS
    k1       = k1
    k2       = k2
    k3       = k3
    m1       = m1
    m2       = m2
    Key      = {k1, k2, k3}
    Model    = {m1, m2}
    Wildcard = Wildcard
    File     <- MCFile
    Seeder   = {s1, s2}
    Request  = {r}
    None     = None
SYMMETRY RunSymmetry
INVARIANTS
    OneTenantPerKey
    SeedIsAtomic
    BarredIsRefused
    HeldToOwnLimits
    DeniedOnlyIfLate
