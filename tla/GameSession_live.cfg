SPECIFICATION FairSpec
CONSTANTS
    AI = AI
    p1 = p1
    p2 = p2
    Players = {p1, p2}
    Slots = {1}
    Jip = FALSE
    Cached = {p1}
    Worldless = {}
    Admins = {}
    Orders = {}
    Drags = FALSE
    LoadErrors = {}
    MaxJoins = 2
    MaxMissions = 1
    MaxClicks = 2
    MaxOrders = 0
PROPERTIES
    HolderPlays
CHECK_DEADLOCK FALSE
