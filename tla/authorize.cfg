SPECIFICATION Spec
CONSTANTS
    Requests = {r1, r2, r3}
    Refs = {s1, s2}
    Explicit = {t1}
    NoRef = NoRef
    NoRequest = NoRequest
CHECK_DEADLOCK FALSE
SYMMETRY AuthorizationSymmetry
INVARIANTS
    TypeOK
    NoOrphanThread
