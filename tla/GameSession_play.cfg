SPECIFICATION Spec
CONSTANTS
    AI = AI
    p1 = p1
    p2 = p2
    Players = {p1, p2}
    Slots = {1}
    Jip = TRUE
    Cached = {}
    Worldless = {p2}
    Admins = {}
    Orders = {}
    Drags = FALSE
    LoadErrors = {}
    MaxJoins = 2
    MaxMissions = 1
    MaxClicks = 3
    MaxOrders = 0
INVARIANTS
    RolesSeen
    PlayersMirror
CONSTRAINT MissionsLast
CHECK_DEADLOCK FALSE
