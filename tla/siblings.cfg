SPECIFICATION Spec
CONSTANTS
    t1 = t1
    t2 = t2
    NoJob = NoJob
    NoTask = NoTask
    EndedJob = EndedJob
    Task = {t1, t2}
    Job = {j1, j2}
    Isolated <- OnlyT1
    Commands <- NoCommand
    MaxAttempts = 0
    MaxCrashes = 2
    MaxReconciles = 0
    TornWrites = TRUE
SYMMETRY Interchangeable
INVARIANT RunningIsBacked
INVARIANT PublishedStaysEnded
CHECK_DEADLOCK FALSE
