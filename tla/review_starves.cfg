SPECIFICATION FairSpec
CONSTANTS
    a = a
    b = b
    c = c
    Task = {a, b}
    Client = {c1}
    Exec = {e1, e2, e3}
    NoTask = NoTask
    NoExec = NoExec
    DependsOn <- Chain
    ApprovalRequired <- None
    ReviewerRequired <- OnlyA
    TestRequired <- None
    Remote <- None
    Isolated <- None
    Escalating <- None
    Commands <- OnlyApprove
    MaxAttempts = 0
    ResultCapacity = 1
    Polled = TRUE
    EnvFaults = FALSE
    DiskFaults = FALSE
PROPERTY ReadyTaskWakes
CHECK_DEADLOCK FALSE
