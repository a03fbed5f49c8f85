SPECIFICATION Spec
CONSTANTS
    root = root
    child = child
    other = other
    Task = {root, child, other}
    NoTask = NoTask
    Parent <- Chain
    Caller = {c1, c2}
    Kinds = {"create", "delete", "status", "depend", "job", "focus", "touch", "list_open", "inspect", "replace"}
    MaxCalls = 2
INVARIANTS TypeOK DependenciesAcyclic
PROPERTIES CompletionIsEarned ReopeningPropagates
SYMMETRY Callers
CHECK_DEADLOCK FALSE
