\* One download under two handlers, its controls and tasks.
CONSTANTS
    h1 = h1
    h2 = h2
    Handlers = {h1, h2}
    MaxGen = 2
    MaxCmds = 1
    MaxEvents = 1
SYMMETRY Symmetry
SPECIFICATION Spec
INVARIANTS OnlyRegisteredRuns  WaitingRowIsServed
CHECK_DEADLOCK FALSE
