\* One writer with two callers; one upload session and two withdrawals
\* (upload sessions do not see each other); a folder of three files, one of
\* them in a subfolder, read a file a page, with two changes and a fault; two
\* updates, with a fault and a sleep; three bytes in two parts and two workers.
SPECIFICATION MCSpec
CONSTANTS
    Gens = {g1}
    Callers = {c1, c2}
    WRITER_QUEUE_CAPACITY = 1
    MaxOps = 2
    NoGate = NoGate
    Sessions = {u1}
    Parts = {0, 1}
    MaxEpoch = 2
    MAX_DISCOVERED_FILES = 1
    MAX_PENDING_FRONTIER = 2
    MaxChanges = 2
    MaxFaults = 1
    RELAUNCH_DEADLINE = 3
    InstallPolls = 2
    MaxHandOvers = 2
    MaxSleeps = 1
    Bytes = {0, 1, 2}
    PartSpan <- Spans
    Workers = {w1, w2}
CHECK_DEADLOCK FALSE
INVARIANTS NoWithdrawnBlock 
PROPERTIES CallersReturn FileReleased  RowsMatchDisk EmberComesBack StandDownHolds NoStartDuringInstall
