SPECIFICATION OperationsSpec
CONSTANTS
    Owners = {r1}
    Items = {a}
    MaxTimelines = 2
    None = None
INVARIANT
    PendingOperationResumable
CHECK_DEADLOCK FALSE
