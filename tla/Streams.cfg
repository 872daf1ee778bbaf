CONSTANTS
    Watcher = {"s"}
    LogCap = 1
    MaxCursor = 3
    MaxEvents = 3
    Options <- AllOptions
    Writer = {"w"}
    Size = 1
    Closers = {"s"}
    Cancellers = {"s"}
    MaxEffects = 2
    Tx = {1, 2}
    Window = 1
    BatchSize = 2
    Faults = 1
    Resumes = 2
SPECIFICATION StreamsSpec
INVARIANTS NothingIsLostSilently CloseIsClean HolesHaveAReason
PROPERTIES CloseReturnsAtLast DurableCatchesUp DeliversAllInOrder
CHECK_DEADLOCK FALSE
