SPECIFICATION Spec
CONSTANTS
    p1 = p1
    p2 = p2
    Nobody = Nobody
    Players = {p1,p2}
    AtStart = {p1}
    Ops = {"create", "reconnect", "destroy", "kick", "drop", "cancel"}
    PoolShared = TRUE
    Patient = TRUE
INVARIANTS
    TypeOK
    Balanced
    MapsAgree
    CirclesKnown
CHECK_DEADLOCK FALSE
