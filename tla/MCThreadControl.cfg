SPECIFICATION Spec
CONSTANTS
    Listeners = {1, 2}
    Tests = {1, 2}
    Setups <- CommandLines
\* The process ends, or hangs: its clients wait for one that was not created, or
\* somebody waits for a reporter that is not there.
CHECK_DEADLOCK FALSE
INVARIANTS
    CountsExact
    MainLeavesLast
    StartsInOrder
PROPERTIES
    ProcessEnds
