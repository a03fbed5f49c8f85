SPECIFICATION Spec
CONSTANTS
    t1 = t1
    t2 = t2
    NoJob = NoJob
    NoTask = NoTask
    EndedJob = EndedJob
    Task = {t1, t2}
    Job = {j1, j2}
    Isolated <- OnlyT1
    Commands <- NoCommand
    MaxAttempts = 0
    MaxCrashes = 1
    MaxReconciles = 0
    TornWrites = FALSE
SYMMETRY Interchangeable
INVARIANT SentOnce
CHECK_DEADLOCK FALSE
