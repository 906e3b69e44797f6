SPECIFICATION Spec
CONSTANTS
    daemon = daemon
    other = other
    c1 = c1
    c2 = c2
    Nobody = nobody
    Processes <- TwoProcesses
    Root = root
    Children <- TwoChildren
    Operations <- NoReverts
    Faults <- AllFaults
INVARIANT RollbackFindsAdoption
INVARIANT NoStrandedLock
SYMMETRY Interchangeable
