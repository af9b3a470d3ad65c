SPECIFICATION Spec
CONSTANTS
    N = 3
    Requests = {"vim", "urgent", "signal"}
    MaxChannelBitMask = 4
    GoodChannelBitMask = 1
    AckArray = 2
    AckRedundancy = 1
    MaxOldAcks = 2
    AckWidths = {1}
    MaxAhead = 3
    MaxAckPackets = 0
    MaxCancels = 1
INVARIANTS
    TypeOK
    ExactlyOnce
    OrderedDelivery
    PredSerialKnown
CHECK_DEADLOCK FALSE
