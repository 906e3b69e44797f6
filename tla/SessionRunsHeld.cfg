SPECIFICATION Spec
CONSTANTS
    NoOne = NoOne
    Clients = {c1}
    Mail = {m1}
    Ways = {"start"}
    Modes = {"queue"}
    SubmitAttempts = 2
    StandardRetries = 1
    Faults = {"cancel"}
    MaxFaults = 1
CHECK_DEADLOCK FALSE
PROPERTY HeldStartsNothing
