SPECIFICATION Spec
CONSTANTS
    Host = {10, 11}
    Port = {50, 51}
    MaxConn = 3
    UDP = TRUE
INVARIANTS
    TableRight
    RefCounts
PROPERTIES
    FreedWhenUnused
