CONSTANTS
    Procs = {p1, p2}
    NoProc = noprocess
    MaxInt = 3
    MaxClients = 1
    Sessions = {0, 1}
    AsyncSessions = {0, 1}
    ReleaseNeedsInput = FALSE
    Faults = {"watch", "thread", "load", "listener", "release", "crash"}
SPECIFICATION Spec
INVARIANTS
    IdsUnique
    
    
CHECK_DEADLOCK FALSE
