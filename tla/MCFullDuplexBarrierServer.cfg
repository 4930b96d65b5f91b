SPECIFICATION BarrierSpec
CONSTANTS
    ServerSide = TRUE
    Timeout = 3
INVARIANTS
    OneCloses
