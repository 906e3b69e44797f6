SPECIFICATION FairSpec
CONSTANTS
    NoOne = NoOne
    Clients = {c1}
    Mail = {m1}
    Ways = {"steer", "queue", "start"}
    Modes = {"steer", "queue"}
    SubmitAttempts = 2
    StandardRetries = 1
    Faults = {"cancel", "stop", "resume", "recall", "compact", "crash"}
    MaxFaults = 1
CHECK_DEADLOCK FALSE
PROPERTY QueueMoves
PROPERTY MailIsTaken
PROPERTY InputIsSettled
