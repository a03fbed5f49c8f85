SPECIFICATION Spec
CONSTANTS
    par = par
    kid = kid
    a = a
    b = b
    tp = tp
    tc = tc
    ta = ta
    tb = tb
    NoRun = NoRun
    Handler = {h1, h2, h3}
    Run <- Runs
    Task <- Tasks
    RunOf <- Places
    Chosen = {}
    Moves <- Outcomes
    Fragile <- Isolated
    Requests <- Unnamed
    MaxBlocks = 4
    MaxCrashes = 1
SYMMETRY Interchangeable
CHECK_DEADLOCK FALSE
INVARIANT NoGrandchildren
INVARIANT RollUpAgrees
