SPECIFICATION FairSpec
CONSTANTS
    Streams = {"up1", "up2", "down1"}
    ServerSends = {"down1"}
    Requests <- Exchange
    N = 4
    MaxCancels = 1
INVARIANTS
    TypeOK
    WholeMessages
    OrderKept
PROPERTIES
    EventuallyHanded
CHECK_DEADLOCK FALSE
