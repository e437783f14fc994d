SPECIFICATION Spec
CONSTANTS
    MaxUtterances = 1
    MaxUnits = 3
    MaxChunks = 2
    MaxDevice = 1
    MaxStops = 0
    Kinds = {FALSE}
    Faults = {}
INVARIANT
    PlaysInOrder
CHECK_DEADLOCK FALSE
