SPECIFICATION Spec
CONSTANTS
    MaxUtterances = 1
    MaxUnits = 3
    MaxChunks = 2
    MaxDevice = 1
    MaxStops = 1
    Kinds = {TRUE, FALSE}
    Faults = {"turn", "synthesis", "chunk", "device"}
INVARIANTS
    TypeOK
    HeardAsWritten
PROPERTY
    UtteranceEnds
CHECK_DEADLOCK FALSE
