SPECIFICATION Spec
CONSTANTS
    FailureThreshold = 1
    ResetTimeout = 1
    Requests = {q1, q2}
    rt1 = rt1
    rt2 = rt2
    s1 = s1
    s2 = s2
    r1 = r1
    Routes = {rt1, rt2}
    Services = {s1, s2}
    Rules = {r1}
    ServiceOf <- MCServiceOf
    RulesOf <- MCRulesOf
    Guarded = {rt1}
    Burst = 1
SYMMETRY Symmetry
CONSTRAINT AtMostOneGone
INVARIANTS
    TypeOK
    LoggedAsSent
PROPERTY
    ImplementsBreaker
