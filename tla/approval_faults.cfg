SPECIFICATION Spec
CONSTANTS
    Props = {agentDraft, caseDraft}
    CaseData = caseDraft
    Edits = {edit}
    Workers = {w1, w2}
    Callers = {c1}
    NoItem = NoItem
    NoProp = NoProp
    NoAnswer = NoAnswer
    NoRequest = NoRequest
    BitableConfigured = TRUE
    MaxFaults = 1
CHECK_DEADLOCK FALSE
SYMMETRY FlowSymmetry
INVARIANTS
    TypeOK
    WrittenAsDecided
    DecisionHonoured
    ApprovedIsQueued
