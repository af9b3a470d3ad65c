SPECIFICATION Spec
CONSTANTS
    p1 = p1
    p2 = p2
    Nobody = Nobody
    Players = {p1,p2}
    AtStart = {p1,p2}
    Ops = {"kick", "shutdown"}
    PoolShared = FALSE
    Patient = TRUE
INVARIANTS
    NoThreadsAfter
PROPERTIES
    ServerStops
    KickedGoes
CHECK_DEADLOCK FALSE
