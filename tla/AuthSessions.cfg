SPECIFICATION Spec
CONSTANTS
    r1 = r1
    r2 = r2
    s1 = s1
    s2 = s2
    c1 = c1
    p1 = p1
    NoPolicy = NoPolicy
    NoSession = NoSession
    NoCode = NoCode
    Requests <- MCRequests
    Sessions <- MCSessions
    Codes <- MCCodes
    Policies <- MCPolicies
    Argon2Concurrency = 1
    IdleSecs = 2
    StandardSecs = 3
    ViewerSecs = 2
    AdminSecs = 1
    PairingSecs = 1
    TouchSecs = 1
    MaxTime = 2
    MaxVersion = 2
SYMMETRY Symmetry
INVARIANTS
    ResetIsTotal
    AdminDeviceHasPassword
    PolicySessionsAreCurrent
    Argon2IsBounded
PROPERTIES
    DelegationIsSound
    IdleNeverShrinks
