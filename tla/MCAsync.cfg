CONSTANTS
    t1 = t1
    t2 = t2
    r1 = r1
    r2 = r2
    r3 = r3
    Trans = {t1, t2}
    Reqs = {r1, r2, r3}
    TransOf <- TwoSessions
    NoReq = norequest
    NoTrans = nosession
    QueueCap = 2
    MaxFutures = 2
    MaxPrepares = 3
    Faults = {"load", "send"}
SPECIFICATION FairSpec
INVARIANTS
    NothingLost
    
    HandlerAgrees
PROPERTIES
    EveryRequestAnswered
    ReleaseReturns
CHECK_DEADLOCK FALSE
