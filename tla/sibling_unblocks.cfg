SPECIFICATION Spec
CONSTANTS
    a = a
    b = b
    c = c
    Task = {a, b}
    Client = {c1}
    Exec = {e1, e2, e3}
    NoTask = NoTask
    NoExec = NoExec
    DependsOn <- Apart
    ApprovalRequired <- None
    ReviewerRequired <- None
    TestRequired <- None
    Remote <- None
    Isolated <- None
    Escalating <- OnlyA
    Commands <- NoCommand
    MaxAttempts = 0
    ResultCapacity = 1
    Polled = TRUE
    EnvFaults = FALSE
    DiskFaults = FALSE
SYMMETRY Interchangeable
PROPERTY BlockerHoldsTask
CHECK_DEADLOCK FALSE
