SPECIFICATION FairSpec
CONSTANTS
    Props = {agentDraft, caseDraft}
    CaseData = caseDraft
    Edits = {edit}
    Workers = {w1}
    Callers = {c1, c2}
    NoItem = NoItem
    NoProp = NoProp
    NoAnswer = NoAnswer
    NoRequest = NoRequest
    BitableConfigured = TRUE
    MaxFaults = 1
CHECK_DEADLOCK FALSE
PROPERTIES
    DecisionTakesEffect
