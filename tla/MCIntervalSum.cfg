SPECIFICATION Spec
CONSTANTS
    t1 = t1
    t2 = t2
    Threads = {t1, t2}
    Interval = 2
    Ticks = {0, 1, 2, 4, 5, 8}
    MaxPackets = 2
    Setups <- MCSetups
CHECK_DEADLOCK FALSE
INVARIANTS
    SumRight
    SumKeepsPace
    IntervalsTile
