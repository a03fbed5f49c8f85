SPECIFICATION Spec
CONSTANTS
    a = a
    b = b
    c = c
    Task = {a}
    Client = {c1}
    Exec = {e1, e2, e3}
    NoTask = NoTask
    NoExec = NoExec
    DependsOn <- Single
    ApprovalRequired <- None
    ReviewerRequired <- None
    TestRequired <- None
    Remote <- OnlyA
    Isolated <- None
    Escalating <- None
    Commands <- NoCommand
    MaxAttempts = 0
    ResultCapacity = 1
    Polled = TRUE
    EnvFaults = FALSE
    DiskFaults = FALSE
SYMMETRY Interchangeable
INVARIANT LeaseHasOwner
CHECK_DEADLOCK FALSE
