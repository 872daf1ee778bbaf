CONSTANTS
    Worker = {1, 2}
    Protos <- Pairings
    Node = {1}
    MaxAttempts = 2
    Losses = 1
    Removals = 1
    Request = {1, 2}
    Kinds <- Pairs
    Stores = {"redis", "postgres"}
    WatchId = {1}
    MaxWatches = 1
    ReuseIds = FALSE
SPECIFICATION AdaptersSpec
INVARIANT ShutdownIsOrderly
PROPERTIES EveryLeaseEnds RunReturns
CHECK_DEADLOCK FALSE
