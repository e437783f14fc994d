CONSTANTS
    Inputs = {i1, i2}
    CheckIn = checkin
    Nobody = Nobody
    Characters = {ada, bea}
    First = ada
    MaxSwitches = 1
SPECIFICATION Spec
INVARIANTS
    TypeOK
    HistoryAgrees
    InputsKeepAuthority
PROPERTIES
    OnlyCurrentPublishes
    InputsEnd
CHECK_DEADLOCK FALSE
