SPECIFICATION Spec
CONSTANTS
    a = a
    b = b
    c = c
    Task = {a}
    Client = {c1}
    Exec = {e1, e2, e3}
    NoTask = NoTask
    NoExec = NoExec
    DependsOn <- Single
    ApprovalRequired <- None
    ReviewerRequired <- None
    TestRequired <- None
    Remote <- None
    Isolated <- OnlyA
    Escalating <- None
    Commands <- OnlyRetry
    MaxAttempts = 1
    ResultCapacity = 1
    Polled = TRUE
    EnvFaults = FALSE
    DiskFaults = FALSE
SYMMETRY Interchangeable
INVARIANT ExecutionHoldsEnvironment
CHECK_DEADLOCK FALSE
