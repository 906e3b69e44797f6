SPECIFICATION FairSpec
CONSTANTS
    actor = actor
    runner = runner
    fork = fork
    b1 = b1
    Nobody = nobody
    Appenders <- ActorAndRunner
    Closers <- Fork
    Blobs <- NoBlobs
    MaxRecords = 2
    Reverts = TRUE
    Faults <- AllFaults
    Crashes <- ProcessCrashes
INVARIANT TypeOK
INVARIANT PublishedAfterSync
PROPERTY CallsReturn
PROPERTY QueueDrains
CHECK_DEADLOCK FALSE
