SPECIFICATION Spec
CONSTANTS
    p1 = p1
    p2 = p2
    Nobody = Nobody
    Players = {p1,p2}
    AtStart = {p1}
    Ops = {"create", "kick"}
    PoolShared = TRUE
    Patient = TRUE
PROPERTIES
    ListenerReturns
CHECK_DEADLOCK FALSE
