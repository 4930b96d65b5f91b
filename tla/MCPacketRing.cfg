SPECIFICATION FairRingSpec
CONSTANTS
    MaxCount = 3
    NumPackets = 7
    StoreReorder = TRUE
INVARIANTS
    IndicesCount
PROPERTIES
    OverrunOnlyAtWrap
    AllEnqueued
