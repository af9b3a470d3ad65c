SPECIFICATION Spec
CONSTANTS
    AI = AI
    p1 = p1
    p2 = p2
    Players = {p1, p2}
    Slots = {1, 2}
    Jip = FALSE
    Cached = {p1, p2}
    Worldless = {}
    Admins = {p1}
    Orders = {"mission", "restart", "reassign"}
    Drags = TRUE
    LoadErrors = {"early"}
    MaxJoins = 2
    MaxMissions = 1
    MaxClicks = 1
    MaxOrders = 2
INVARIANTS
    TypeOK
    RoleOnce
PROPERTIES
    SlotDefended
CHECK_DEADLOCK FALSE
