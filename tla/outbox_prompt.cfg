SPECIFICATION Spec
CONSTANTS
    card = card
    resume = resume
    dispatch = dispatch
    w1 = w1
    w2 = w2
    NoItem = NoItem
    NoWorker = NoWorker
    Items <- AllThree
    Kind <- KindAllThree
    Workers <- TwoWorkers
    MaxAttempts = 3
    Lease = 2
    BaseRetry = 1
    RetryHints = {0, 3}
    Horizon = 3
    MaxCrashes = 2
    Prompt = TRUE
SYMMETRY WorkerSymmetry
INVARIANTS
    TypeOK
    ExclusiveRun
    EffectsAtMostOnce
PROPERTIES
    TerminalIsFinal
