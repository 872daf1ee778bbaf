CONSTANTS
    Name <- PgName
    Client <- PgClient
    Menu <- PgMenu
    Calls <- PgCalls
    Seeds <- PgSeeds
    SweepBatch = 1
    MaxRetries = 3
SPECIFICATION Spec
INVARIANTS WellFormed FirstAttemptHonoursRule
PROPERTIES CommitsFollowLeaseProtocol EveryCallReturns
CHECK_DEADLOCK FALSE
