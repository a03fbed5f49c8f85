SPECIFICATION Spec
CONSTANTS
    a = a
    b = b
    c = c
    Task = {a, b, c}
    Client = {c1, c2}
    Exec = {e1, e2, e3, e4}
    NoTask = NoTask
    NoExec = NoExec
    DependsOn <- Join
    ApprovalRequired <- OnlyA
    ReviewerRequired <- None
    TestRequired <- None
    Remote <- None
    Isolated <- OnlyC
    Escalating <- None
    Commands <- FirstAttempt
    MaxAttempts = 0
    ResultCapacity = 1
    Polled = TRUE
    EnvFaults = TRUE
    DiskFaults = FALSE
SYMMETRY Interchangeable
INVARIANT ApprovedBeforeExecution
INVARIANT OneExecutionPerAttempt
INVARIANT LeaseHasOwner
CHECK_DEADLOCK FALSE
