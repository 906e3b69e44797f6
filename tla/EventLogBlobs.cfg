SPECIFICATION Spec
CONSTANTS
    actor = actor
    runner = runner
    fork = fork
    b1 = b1
    Nobody = nobody
    Appenders <- ActorAndRunner
    Closers <- NoThreads
    Blobs <- OneBlob
    MaxRecords = 3
    Reverts = TRUE
    Faults <- CleanFaults
    Crashes <- MachineCrashes
INVARIANT AckedDurable
INVARIANT AckedSurvives
INVARIANT SyncedKeepsBlobs
INVARIANT TailIsAPrefix
PROPERTY ImplementsCommitLog
CHECK_DEADLOCK FALSE
