SPECIFICATION IsochSpec
CONSTANTS
    Sizes <- MCSizes
    Bins = 2
    CiLower = 5
    CiUpper = 95
    Latencies <- MCLatencies
    MaxClock = 5
    MaxFlight = 2
    MaxFaults = 1
    MaxPrints = 2
INVARIANTS
    ClientFrames
    ServerFrames
    LatencyOnce
    PrintedWhole
CHECK_DEADLOCK FALSE
