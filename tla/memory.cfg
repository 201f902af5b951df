SPECIFICATION Spec
CONSTANTS
    run1 = run1
    lesson = lesson
    note = note
    None = None
    Memories <- MCMemories
    Ref <- MCRef
    Fields <- MCFields
    Drafts <- MCDrafts
    Requests <- MCRequests
    Orders <- MCOrders
    Sessions = {s1, s2}
    RunRetention = 1
    LongRetention = 2
    MaxNow = 1
    MaxProposals = 3
INVARIANTS ServedAsAllowed
PROPERTIES UnreviewedOnlyIfOvertaken EndLostToStaleSession
SYMMETRY Symmetry
