SPECIFICATION Spec
CONSTANTS
    a = a
    b = b
    c = c
    Task = {a, b, c}
    Client = {c1}
    Exec = {e1, e2, e3, e4}
    NoTask = NoTask
    NoExec = NoExec
    DependsOn <- Beside
    ApprovalRequired <- None
    ReviewerRequired <- None
    TestRequired <- None
    Remote <- None
    Isolated <- None
    Escalating <- None
    Commands <- OnlyPause
    MaxAttempts = 0
    ResultCapacity = 1
    Polled = TRUE
    EnvFaults = FALSE
    DiskFaults = FALSE
CHECK_DEADLOCK FALSE
SYMMETRY Interchangeable
INVARIANT OneExecutionPerAttempt
