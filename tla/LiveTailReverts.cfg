SPECIFICATION Spec
CONSTANTS
    MaxRecords = 5
    MaxReverts = 2
    Capacity = 2
    PageEvents = 9
    Newest = TRUE
    Attempts = 2
    Faults <- NoFaults
    MaxFaults = 0
INVARIANT SettledIsCurrent
CHECK_DEADLOCK FALSE
