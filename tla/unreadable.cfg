SPECIFICATION Spec
CONSTANTS
    root = root
    child = child
    other = other
    Task = {root, child, other}
    NoTask = NoTask
    Parent <- OneChild
    Caller = {c1, c2}
    Kinds = {"depend", "status"}
    MaxCalls = 2
INVARIANT ListIsReadable
CHECK_DEADLOCK FALSE
