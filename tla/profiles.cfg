SPECIFICATION FairSpec
CONSTANTS
    p1 = p1
    p2 = p2
    p3 = p3
    Nobody = Nobody
    Profiles = {p1, p2, p3}
    Usage <- MCUsage
    Name <- MCName
    Commands = {c1, c2}
    Dispatches = {d1}
    MaxCommands = 4
    MaxDispatches = 2
INVARIANTS OneActiveDefault RevokedBeforeIsNotCalled
PROPERTIES RevocationIsFinal DefaultLostByRevocation CommandAnswered
CHECK_DEADLOCK FALSE
