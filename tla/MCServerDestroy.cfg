CONSTANTS
    Procs = {p1, p2}
    NoProc = noprocess
    MaxInt = 3
    MaxClients = 1
    Sessions = {0, 1}
    AsyncSessions = {1}
    ReleaseNeedsInput = TRUE
    Faults = {"norelease"}
SPECIFICATION Spec
INVARIANTS
    DestroyReleases
CHECK_DEADLOCK FALSE
