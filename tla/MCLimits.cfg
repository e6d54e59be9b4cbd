SPECIFICATION LimitsSpec
CONSTANTS
    Rules = {r1, r2}
    Names = {n1, n2}
    Limits = {0, 1}
    Windows = {0, 2}
    DefaultWindow = 1
    Requests = {q1, q2}
    Admins = {a1, a2}
    MaxUpdates = 2
    Limit = 2
    Window = 3
    Size = 2
    MaxTime = 7
    MaxResets = 1
SYMMETRY Symmetry
CONSTRAINT AtMostOneGone
INVARIANTS
    TypeOK
    CacheFresh
    OneBucketPerRule
    BucketTypeOK
    RateBound
PROPERTY
    ImplementsIdeal
