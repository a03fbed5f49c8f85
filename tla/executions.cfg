SPECIFICATION Spec
CONSTANTS
    a = a
    b = b
    c = c
    Task = {a, b}
    Client = {c1}
    Exec = {e1, e2, e3}
    NoTask = NoTask
    NoExec = NoExec
    DependsOn <- Chain
    ApprovalRequired <- None
    ReviewerRequired <- None
    TestRequired <- None
    Remote <- None
    Isolated <- OnlyA
    Escalating <- None
    Commands <- Interventions
    MaxAttempts = 1
    ResultCapacity = 1
    Polled = TRUE
    EnvFaults = FALSE
    DiskFaults = FALSE
SYMMETRY Interchangeable
INVARIANT RunningIsCancellable
INVARIANT DependenciesFirst
INVARIANT QueuedIsBeingStarted
CHECK_DEADLOCK FALSE
