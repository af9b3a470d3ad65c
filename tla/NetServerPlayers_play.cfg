SPECIFICATION Spec
CONSTANTS
    a1 = a1
    a2 = a2
    a3 = a3
    Addrs = {a1,a2,a3}
    Requests <- Crowd
    Channels = {c1,c2,c3}
    NoChannel = NoChannel
    UniqueToTry = 2
    MaxPlayers = 3
    Roaming = {"free"}
INVARIANTS
    TypeOK
    Capacity
    GameFollows
    KicksMatch
    ChannelsOwned
    PlayersRouted
PROPERTIES
    FiledUntilMoved
SYMMETRY Symmetric
