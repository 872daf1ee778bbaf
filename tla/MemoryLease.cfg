CONSTANTS
    Node <- LeaseNode
    NodeBatches <- LeaseNodeBatches
    EdgeBatches = {}
    CutBatches = {}
    CancelBatches <- LeaseCancels
    Policies = {"Reject"}
    Outcomes = {"Success", "Fail", "Skip"}
    KindSets <- LeaseKinds
    ClaimSizes = {1, 2}
    LeaseRequests = {0, 2}
    ExtendRequests = {0, 2}
    MinLease = 1
    MaxLease = 2
    DefaultLease = 1
    RetryBase = 2
    RetryMax = 2
    Policy <- TwoAttempts
    NewPolicies <- OneInFlight
    SweepBatch = 1
    CollectLimits = {1}
    Retention = 1
    MaxEpoch = 2
    MaxOrd = 4
SPECIFICATION Spec
INVARIANT AttemptsAreAccounted
PROPERTIES InFlightIsBounded ClaimHonoursPriority ImplementsLeaseProtocol
