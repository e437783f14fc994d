CONSTANTS
    Inputs = {i1}
    CheckIn = checkin
    Nobody = Nobody
    Characters = {ada, bea}
    First = ada
    MaxSwitches = 1
SPECIFICATION Spec
INVARIANT MessagesStayHome
CHECK_DEADLOCK FALSE
