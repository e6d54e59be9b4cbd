SPECIFICATION CoordinatorSpec
CONSTANTS
    Retriers = {r1, r2}
    Finishers = {f1, f2}
    Publishers = {p1, p2}
    Builders = {b1, b2}
    Loops = {l1, l2}
    Workers = {w1, w2, w3}
    Fields = {x, y}
    Callers = {c1, c2, c3}
    Objects = {o1, o2, o3}
    Nobody = nobody
INVARIANTS
    FlowTypeOK
    ErrorNotMasked
    CleanRunComplete
    OwnSaveSeen
    NothingHalfDoneKept
    TenantIsolation
PROPERTY
    CallsEnd
