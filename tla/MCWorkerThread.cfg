CONSTANTS
    Owners = {engine, client}
    SelfEnding = {client}
    Threads = {th1, th2}
    Pthreads = {p1, p2, p3}
    None = none
    Faults = {"create", "init"}
SPECIFICATION Spec

    
    
PROPERTIES
    ThreadCallsReturn
CHECK_DEADLOCK FALSE
