SPECIFICATION Spec
CONSTANTS
    t1 = t1
    t2 = t2
    NoJob = NoJob
    NoTask = NoTask
    EndedJob = EndedJob
    Task = {t1}
    Job = {j1}
    Isolated <- OnlyT1
    Commands <- AllCommands
    MaxAttempts = 1
    MaxCrashes = 1
    MaxReconciles = 1
    TornWrites = TRUE
SYMMETRY Interchangeable
INVARIANT TypeOK
INVARIANT LeaseIsHeld
INVARIANT GatedIsHeld
CHECK_DEADLOCK FALSE
