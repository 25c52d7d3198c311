CONSTANTS
    Apps = {a1, a2}
    MaxSessions = 1
    MaxInt = 2
    ServerIds = {1}
    MaxDeaths = 1
    Faults = {"thread", "init", "watch"}
SPECIFICATION FairSpec
INVARIANTS
    ReadySessionServed
    
    SessionsDistinct
PROPERTIES
    DeadCbCalled
    CallsReturn
CHECK_DEADLOCK FALSE
