\* The tracker with two workers; with one at its gap cap and over several
\* loads.
CONSTANTS
    w1 = w1
    w2 = w2
    Workers = {w1, w2}
    w3 = w3
    Downloader = w3
SYMMETRY Symmetry
SPECIFICATION MCSpec
INVARIANTS WithdrawnStaysWithdrawn NoLeakedReservation
PROPERTIES CommitKeepsVerified ResumedImplementsPartBytes ImplementsPartBytes
CHECK_DEADLOCK FALSE
