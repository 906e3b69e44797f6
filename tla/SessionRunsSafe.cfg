SPECIFICATION Spec
CONSTANTS
    NoOne = NoOne
    Clients = {c1, c2}
    Mail = {m1}
    Ways = {"steer", "queue"}
    Modes = {"steer"}
    SubmitAttempts = 2
    StandardRetries = 1
    Faults = {"handled", "fail", "cancel", "recall", "discard", "crash"}
    MaxFaults = 1
CHECK_DEADLOCK FALSE
SYMMETRY ClientSymmetry
INVARIANT TypeOK
INVARIANT OneRunAtWork
INVARIANT RunningIsDriven
INVARIANT CompletedTookItsInput
INVARIANT TakenOnce
PROPERTY DiscardedStaysUnread
