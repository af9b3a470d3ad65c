SPECIFICATION FairSpec
CONSTANTS
    N = 2
    Requests = {"vim"}
    MaxChannelBitMask = 4
    GoodChannelBitMask = 1
    AckArray = 1
    AckRedundancy = 1
    MaxOldAcks = 2
    AckWidths = {1}
    MaxAhead = 3
    MaxAckPackets = 1
    MaxCancels = 0
PROPERTIES
    EventuallyDelivered
    EventuallyAcked
