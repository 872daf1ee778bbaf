SPECIFICATION Spec
CONSTANTS
    Worker = {1, 2}
    Backends = {"memory", "postgres", "pgpool", "redis", "bare"}
    Nodes = 1
    Lapses = 1
    MaxInFlight = 0
    Faults = 1
    Sweeping = {"memory"}
    Stops = {"manager", "store", "context"}
    MaxStops = 1
INVARIANTS NoWakeupIsLost BellOutlivesItsWaiters
PROPERTIES WorkIsClaimed CloseReleases
CHECK_DEADLOCK FALSE
