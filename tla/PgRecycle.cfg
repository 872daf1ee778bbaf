CONSTANTS
    Name <- PgName
    Client <- PgClient
    Menu <- RecycleMenu
    Calls <- RecycleCalls
    Seeds <- RecycleSeeds
    SweepBatch = 1
    MaxRetries = 3
SPECIFICATION Spec
CHECK_DEADLOCK FALSE
INVARIANT
    AtMostOneEffectPerEpoch
