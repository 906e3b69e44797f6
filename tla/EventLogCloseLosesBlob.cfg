SPECIFICATION Spec
CONSTANTS
    actor = actor
    runner = runner
    fork = fork
    b1 = b1
    Nobody = nobody
    Appenders <- ActorAndRunner
    Closers <- Fork
    Blobs <- OneBlob
    MaxRecords = 2
    Reverts = FALSE
    Faults <- NoFaults
    Crashes <- MachineCrashes
INVARIANT AckedSurvives
CHECK_DEADLOCK FALSE
