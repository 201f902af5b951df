SPECIFICATION Spec
CONSTANTS
    Messages = {m1}
    Deliveries = {d1, d2}
    Bodies = {b1, b2}
    Profiles = {p1, p2}
    Parses = {t1, t2}
    Errors = {revoked, conflict, badOutput}
    Revoked = revoked
    Conflict = conflict
    Workers = {w1, w2}
    Callers = {c1, c2}
    NoItem = NoItem
    NoProfile = NoProfile
    NoEvent = NoEvent
    NoTask = NoTask
    NoError = NoError
    MaxFaults = 1
CHECK_DEADLOCK FALSE
SYMMETRY IntakeSymmetry
INVARIANTS
    TypeOK
    OnePreparation
    DispatchedAsShown
PROPERTIES
    AuthorizationKept
