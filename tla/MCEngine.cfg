CONSTANTS
    Keys = {k1, k2, k3, k4}
    Labelled = {k1, k2, k3}
    Tids = {t1, t2}
    EngineIds = {e1, e2, e3}
    ThreadIds = {th1, th2, th3}
    QueueIds = {q1, q2, q3}
    MaxQueueCount = 2
    NoObj = null
    Faults = {"load", "nothread", "noqueue", "noengine", "init", "prepare", "restart"}
    MaxIdle = 3
    MaxRef = 2
SPECIFICATION Spec
INVARIANTS
    EngineOfRecord
    RefCountCovers
    PoolsAccounted
    LibrariesAccounted
PROPERTIES
    LastUserUnloads
SYMMETRY Objects
