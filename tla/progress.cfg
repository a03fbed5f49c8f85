SPECIFICATION FairSpec
CONSTANTS
    a = a
    b = b
    c = c
    Task = {a, b, c}
    Client = {c1}
    Exec = {e1, e2, e3, e4}
    NoTask = NoTask
    NoExec = NoExec
    DependsOn <- Join
    ApprovalRequired <- OnlyA
    ReviewerRequired <- OnlyC
    TestRequired <- None
    Remote <- None
    Isolated <- OnlyC
    Escalating <- None
    Commands <- Decisions
    MaxAttempts = 0
    ResultCapacity = 1
    Polled = TRUE
    EnvFaults = FALSE
    DiskFaults = FALSE
PROPERTY LeaseIsReleased
PROPERTY QueuedTaskRuns
PROPERTY ReadyTaskWakes
CHECK_DEADLOCK FALSE
