\* Three saving threads over two sessions of one sidecar; three downloads in
\* one or two slots.
SPECIFICATION MCSpec
CONSTANTS
    s1 = s1
    s2 = s2
    s3 = s3
    Savers = {s1, s2, s3}
    NoGuard = NoGuard
    MaxVersion = 2
    MaxSnapshots = 2
    MaxTrackers = 2
    MaxStopSaves = 1
    Priorities = {1, 2}
    MaxConcurrent = {1, 2}
    MaxEvents = 1
CHECK_DEADLOCK FALSE
SYMMETRY Symmetry
INVARIANTS LatestSnapshotLands NoSnapshotAfterCleanup 
PROPERTIES SnapshotOrder 
