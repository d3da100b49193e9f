SPECIFICATION Spec
CONSTANTS
    s1 = s1
    s2 = s2
    Savers = {s1, s2}
    NoGuard = NoGuard
    MaxVersion = 2
    MaxSnapshots = 1
    MaxTrackers = 1
    MaxStopSaves = 1
CHECK_DEADLOCK FALSE
INVARIANTS DeletedStaysDeleted
