SPECIFICATION Spec
CONSTANTS
    par = par
    kid = kid
    a = a
    b = b
    tp = tp
    tc = tc
    ta = ta
    tb = tb
    NoRun = NoRun
    Handler = {h1, h2, h3}
    Run <- Runs
    Task <- Tasks
    RunOf <- Places
    Chosen <- Named
    Moves <- Outcomes
    Fragile <- Isolated
    Requests <- Nested
    MaxBlocks = 4
    MaxCrashes = 0
SYMMETRY Interchangeable
CHECK_DEADLOCK FALSE
INVARIANT NoGrandchildren
