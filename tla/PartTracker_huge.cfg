\* A file with more parts than the gap list may have entries: one gap entry,
\* three parts of two bytes.
CONSTANTS
    w1 = w1
    w2 = w2
    Blocks <- Blocks6
    Workers = {w1, w2}
    file_size = 6
    PARTSIZE = 2
    MAX_GAP_ENTRIES = 1
    MAX_WRITE_RESERVATIONS = 2
    MaxGeneration = 3
    MaxSessions = 0
SYMMETRY Symmetry
SPECIFICATION Spec
INVARIANT VerifiedIsComplete
CHECK_DEADLOCK FALSE
