SPECIFICATION RingSpec
CONSTANTS
    MaxCount = 3
    NumPackets = 4
    StoreReorder = FALSE
PROPERTIES
    NothingLost
