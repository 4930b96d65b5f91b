SPECIFICATION Spec
CONSTANTS
    t1 = t1
    t2 = t2
    t3 = t3
    none = none
    NoThread = none
    Thread = {t1, t2, t3}
    RunNext <- Chain
    MaxBacklog = 1
\* A thread started after the reporter has left hangs in EndJob.
CHECK_DEADLOCK FALSE
INVARIANTS
    QueueRight
    ReporterLeavesLast
PROPERTIES
    AllThreadsFinish
