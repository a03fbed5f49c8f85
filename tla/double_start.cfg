SPECIFICATION Spec
CONSTANTS
    a = a
    b = b
    c = c
    Task = {a}
    Client = {c1}
    Exec = {e1, e2, e3}
    NoTask = NoTask
    NoExec = NoExec
    DependsOn <- Single
    ApprovalRequired <- None
    ReviewerRequired <- None
    TestRequired <- None
    Remote <- None
    Isolated <- None
    Escalating <- None
    Commands <- OnlyRetry
    MaxAttempts = 2
    ResultCapacity = 1
    Polled = TRUE
    EnvFaults = FALSE
    DiskFaults = FALSE
SYMMETRY Interchangeable
INVARIANT OneExecutionPerAttempt
CHECK_DEADLOCK FALSE
