CONSTANTS
    Node = {"a", "b", "c"}
    Requests <- CallRequests
    LeaseCalls = {"Success", "Fail"}
    Policy <- TwoAttempts
    CrashPoints = {"Idle", "Applied"}
    MaxRecords = 3
    MaxEpoch = 2
    MaxOrd = 4
    MinLease = 1
    MaxLease = 1
    DefaultLease = 1
    RetryBase = 1
    RetryMax = 1
    SweepBatch = 1
    Retention = 0
SPECIFICATION Spec
INVARIANTS FencingSurvivesRestart ReadsAreDurable
PROPERTIES RecoveryLosesOnlyRanks
CHECK_DEADLOCK FALSE
