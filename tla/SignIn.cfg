SPECIFICATION Spec
CONSTANTS
    Kids = {k1, k2}
    Usable = {k1}
    Requests = {r1, r2}
    TTL = 2
    FetchTime = 1
    MaxTime = 3
    Nobody = Nobody
    Browsers = {b1, b2}
    Flows = {f1, f2}
    Subjects = {s1, s2}
    NoBrowser = NoBrowser
    NoFlow = NoFlow
    NoOne = NoOne
SYMMETRY Symmetry
INVARIANTS
    ServedKeysRecent
    KnownKeysAccepted
    SessionOfItsLogin
    MismatchExplained
    SInv
PROPERTY
    ImplementsSessions
