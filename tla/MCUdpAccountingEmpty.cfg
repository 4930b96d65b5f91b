SPECIFICATION Spec
CONSTANTS
    L2DROPFILTERCOUNTER = 1
    UnknownLens = {0}
    MaxID = 2
    MaxDatagrams = 2
    MaxEmpty = 1
INVARIANT
    OnlyValidAccounted
