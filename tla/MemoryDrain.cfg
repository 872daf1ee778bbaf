CONSTANTS
    Node <- JoinNode
    NodeBatches <- JoinNodeBatches
    EdgeBatches = {}
    CutBatches = {}
    CancelBatches = {}
    Policies = {}
    Outcomes = {"Success", "Fail", "Skip"}
    KindSets = {{}}
    ClaimSizes = {1}
    LeaseRequests = {0}
    ExtendRequests = {}
    MinLease = 1
    MaxLease = 1
    DefaultLease = 1
    RetryBase = 2
    RetryMax = 2
    Policy <- DrainPolicy
    NewPolicies = {}
    SweepBatch = 1
    CollectLimits = {}
    Retention = 0
    MaxEpoch = 2
    MaxOrd = 5
SPECIFICATION FairSpec
PROPERTIES SealedScopeCompletes
