SPECIFICATION FairSpec
CONSTANTS
    card = card
    resume = resume
    dispatch = dispatch
    w1 = w1
    w2 = w2
    NoItem = NoItem
    NoWorker = NoWorker
    Items <- CardDispatch
    Kind <- KindCardDispatch
    Workers <- TwoWorkers
    MaxAttempts = 2
    Lease = 2
    BaseRetry = 1
    RetryHints = {0}
    Horizon = 2
    MaxCrashes = 1
    Prompt = FALSE
INVARIANTS
    DeadLetterEarned
PROPERTIES
    ImplementsQueue
    EventuallySettled
