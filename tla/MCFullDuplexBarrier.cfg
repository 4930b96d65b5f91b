SPECIFICATION BarrierSpec
CONSTANTS
    ServerSide = FALSE
    Timeout = 3
INVARIANTS
    BarrierRight
PROPERTIES
    BothFinish
