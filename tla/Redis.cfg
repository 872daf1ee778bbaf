CONSTANTS
    Id <- RedisId
    PriorityBias = 2
    FifoScale = 16
    DefaultMaxAttempts = 3
    Client <- RedisClient
    Menu <- RedisMenu
    Calls <- RedisCalls
    Resends = 1
    Seeds <- RedisSeeds
    Orders <- BothWays
    SweepBatch = 1
SPECIFICATION Spec
INVARIANTS WellFormed CountersAreRecounts
PROPERTIES  ClaimTakesTheBest ScriptsFollowLeaseProtocol
CHECK_DEADLOCK FALSE
