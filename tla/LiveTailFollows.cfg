SPECIFICATION FairSpec
CONSTANTS
    MaxRecords = 4
    MaxReverts = 1
    Capacity = 2
    PageEvents = 9
    Newest = TRUE
    Attempts = 2
    Faults <- Refusals
    MaxFaults = 2
INVARIANT TypeOK
INVARIANT SettledIsCurrent
INVARIANT BrokenViewIsRebuilt
PROPERTY ViewCatchesUp
CHECK_DEADLOCK FALSE
