SPECIFICATION FinSpec
CONSTANTS
    NumData = 1
    Retries = 2
    Tries = 2
    MaxThreads = 2
INVARIANTS
    HandshakeRight
PROPERTIES
    HandshakeEnds
