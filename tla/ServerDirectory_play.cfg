SPECIFICATION FairSpec
CONSTANTS
    s1 = s1
    c1 = c1
    c2 = c2
    Nobody = Nobody
    NoCall = NoCall
    NoRow = NoRow
    NoToken = NoToken
    Servers = {s1}
    Calls = {c1, c2}
    Tokens = {1, 2, 3, 4}
    RequireToken = TRUE
    FreshAge = 0
    HideAge = 0
    RecoveryAge = 1
    MaxAge = 1
    OutageMin = 3
    MaxStarts = 2
    MaxLosses = 1
    MaxMisses = 1
INVARIANTS
    TypeOK
    TokenAgrees
    StoppedGone
PROPERTIES
    KeptListed
    GoneUnlisted
CHECK_DEADLOCK FALSE
