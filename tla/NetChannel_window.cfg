SPECIFICATION Spec
CONSTANTS
    N = 3
    Requests = {"vim", "common", "heartbeat", "ping"}
    MaxChannelBitMask = 1
    GoodChannelBitMask = 0
    AckArray = 2
    AckRedundancy = 1
    MaxOldAcks = 2
    AckWidths = {1}
    MaxAhead = 1
    MaxAckPackets = 1
    MaxCancels = 0
INVARIANTS
    AckSound
    NothingStranded
PROPERTIES
    KeepsPromise
