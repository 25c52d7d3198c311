\* Two clients and two keys, every failure.
CONSTANTS
    Clients = {c1, c2}
    Server = Server
    NoClient = NoClient
    NoData = NoData
    NoKey = NoKey
    NumKeys = 2
    QueueCap = 1
    MaxCalls = 3
    Faults = {"lost", "push", "pop", "unparcel", "refused", "noengine", "plugin", "nomem", "die"}
SPECIFICATION Spec
INVARIANTS AnswerIntact MemoryOwned SegmentsAccounted
PROPERTY SyncCallsReturn
CHECK_DEADLOCK FALSE
