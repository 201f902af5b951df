SPECIFICATION FairSpec
CONSTANTS
    Inputs <- ThreeModes
    Writings <- FourWritings
    Drafts = {d1, d2}
    Workers = {w1, w2}
    Sizes = {1}
    Budget = 12
    NoDraft = NoDraft
    NoReview = NoReview
    MaxFaults = 1
CHECK_DEADLOCK FALSE
INVARIANTS
    ReviewMatchesProposal
    PassedIsSound
    ShortDraftsRepaired
    ProposalBacked
    NoAbandonedRun
PROPERTIES
    DispatchSettles
    ImplementsFlow
