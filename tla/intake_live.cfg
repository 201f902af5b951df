SPECIFICATION FairSpec
CONSTANTS
    Messages = {m1, m2}
    Deliveries = {d1, d2}
    Bodies = {b1}
    Profiles = {p1, p2}
    Parses = {t1}
    Errors = {revoked, conflict, badOutput}
    Revoked = revoked
    Conflict = conflict
    Workers = {w1}
    Callers = {c1}
    NoItem = NoItem
    NoProfile = NoProfile
    NoEvent = NoEvent
    NoTask = NoTask
    NoError = NoError
    MaxFaults = 1
CHECK_DEADLOCK FALSE
PROPERTIES
    MessageAnswered
