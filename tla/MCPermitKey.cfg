SPECIFICATION Spec
CONSTANTS
    TcpBufLen = 131072
    UdpBufLen = 1470
    UdpBufLenV6 = 1450
    UdpRate = 1048576
    DefaultBurst = 1048576
    MinTripTime = 128
    DefaultTime = 1000
    Slop = 200
    DualTimer = 300
    HalfWord = 2048
    Options <- KeyOptions
    MaxOptions = 3
    ListenerCmds <- KeyListener
INVARIANT
    PermitKeyAccepted
CHECK_DEADLOCK FALSE
