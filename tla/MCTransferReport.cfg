SPECIFICATION Spec
CONSTANTS
    MaxCount = 3
    NumPackets = 7
    StoreReorder = FALSE
INVARIANTS
    FreedAfterFinal
    FinalReportComplete
PROPERTIES
    ImplementsFifo
    EndJobReturns
