SPECIFICATION Spec
CONSTANTS
    Hdr = 2
    BufLen = 3
    Burst = 4
    UdpMin = 2
    SockBuf = 4
    MaxBytes = 8
    Setups <- MCSetups
INVARIANTS
    BytesRight
    BurstsAligned
    UdpNumbers
PROPERTIES
    TestEnds
