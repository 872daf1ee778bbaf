CONSTANTS
    Node <- GraphNode
    NodeBatches <- GraphNodeBatches
    EdgeBatches <- GraphEdgeBatches
    CutBatches <- GraphCutBatches
    CancelBatches = {}
    Policies = {"Reject", "Fail", "Detach"}
    Outcomes = {"Success"}
    KindSets = {{}}
    ClaimSizes = {1}
    LeaseRequests = {0}
    ExtendRequests = {0}
    MinLease = 1
    MaxLease = 1
    DefaultLease = 1
    RetryBase = 1
    RetryMax = 1
    Policy <- OneAttempt
    NewPolicies = {}
    SweepBatch = 2
    CollectLimits = {}
    Retention = 0
    MaxEpoch = 1
    MaxOrd = 6
SPECIFICATION Spec
INVARIANTS WellFormed CountersAreRecounts RulesAreHonoured RefusedBatchLeavesOnlyRanks
