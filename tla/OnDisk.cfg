\* Two writers of one data file; one file shared and unshared twice, with two
\* of a crash, a failed write and a damaged catalog.
SPECIFICATION MCSpec
CONSTANTS
    g1 = g1
    g2 = g2
    Gens = {g1, g2}
    Callers = {c1}
    WRITER_QUEUE_CAPACITY = 1
    MaxOps = 2
    NoGate = NoGate
    MaxChanges = 2
    MaxAuto = 1
    MaxFaults = 1
    MaxCrashes = 1
    MaxDamage = 1
    MaxTrouble = 2
SYMMETRY Symmetry
CHECK_DEADLOCK FALSE
INVARIANTS OneWriterPerPath RefusedWritesStayOut PauseKeepsAckedWrites  ShareIsKept NotStuck
PROPERTIES NoStaleOverwrite
