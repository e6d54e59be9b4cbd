SPECIFICATION FairSpec
CONSTANTS
    Callers = {c1, c2}
    FailureThreshold = 2
    ResetTimeout = 2
PROPERTY
    HalfOpenRecovers
