SPECIFICATION Spec
CONSTANTS
    MaxCount = 3
    NumPackets = 3
    StoreReorder = FALSE
INVARIANT
    SignalBeforeFree
