SPECIFICATION Spec
CONSTANTS
    a = a
    b = b
    c = c
    Task = {a}
    Client = {c1}
    Exec = {e1, e2, e3}
    NoTask = NoTask
    NoExec = NoExec
    DependsOn <- Single
    ApprovalRequired <- OnlyA
    ReviewerRequired <- OnlyA
    TestRequired <- OnlyA
    Remote <- OnlyA
    Isolated <- None
    Escalating <- OnlyA
    Commands <- Command
    MaxAttempts = 1
    ResultCapacity = 1
    Polled = TRUE
    EnvFaults = TRUE
    DiskFaults = FALSE
SYMMETRY Interchangeable
INVARIANT RunningIsBacked
CHECK_DEADLOCK FALSE
