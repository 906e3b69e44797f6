SPECIFICATION Spec
CONSTANTS
    MaxRecords = 3
    MaxReverts = 1
    Capacity = 2
    PageEvents = 2
    Newest = FALSE
    Attempts = 2
    Faults <- AllFaults
    MaxFaults = 2
INVARIANT FetchIsAwaited
CHECK_DEADLOCK FALSE
