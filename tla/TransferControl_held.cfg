\* One handler, one command, one start.
CONSTANTS
    h1 = h1
    Handlers = {h1}
    MaxGen = 2
    MaxCmds = 1
    MaxEvents = 1
SPECIFICATION Spec
PROPERTIES HeldStaysHeld
CHECK_DEADLOCK FALSE
