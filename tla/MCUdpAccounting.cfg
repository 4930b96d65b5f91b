SPECIFICATION Spec
CONSTANTS
    L2DROPFILTERCOUNTER = 1
    UnknownLens = {0, 1}
    MaxID = 4
    MaxDatagrams = 4
    MaxEmpty = 2
INVARIANTS
    LossIsGap
    SumComplete
    IntervalsCoverTotal
    L2Adds
