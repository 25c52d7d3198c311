CONSTANTS
    Msg = {m1, m2}
    NullTask = null
    TotalNum = 3
    SizeMod = 6
SPECIFICATION FairSpec
INVARIANTS
    CapacityConserved
    SlotsNotShared
    NeverNodeInvalid
PROPERTIES
    ImplementsFifo
    ImplementsLiveFifo
