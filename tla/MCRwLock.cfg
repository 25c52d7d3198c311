CONSTANTS
    Users = {t1, t2, t3, t4}
    MaxGuards = 2
SPECIFICATION LockSpec
INVARIANTS
    LockExclusive
PROPERTIES
    LocksGranted
CHECK_DEADLOCK FALSE
