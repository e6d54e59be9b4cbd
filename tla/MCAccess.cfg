SPECIFICATION Spec
CONSTANTS
    Apps = {a1, a2}
    Keys = {k1}
    Admins = {x1, x2}
    Requests = {q1}
SYMMETRY AdminSymmetry
INVARIANTS
    TypeOK
    VerdictOnEvidence
    DeletedForGood
