SPECIFICATION FairSpec
CONSTANTS
    w1 = w1
    w2 = w2
    Rows = {1, 2}
    AggregateOf <- TwoAggregates
    Handlers = 2
    Workers = {w1, w2}
    NoWorker = NoWorker
    MaxAttempts = 2
    LateCommits = FALSE
    MaxCrashes = 1
    MaxStalls = 1
INVARIANTS PublishedMeansHandled OrderKept OneAtATime ToldOnlyIfDead
PROPERTIES SettledForGood EveryRowSettles
CHECK_DEADLOCK FALSE
