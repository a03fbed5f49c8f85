SPECIFICATION Spec
CONSTANTS
    par = par
    kid = kid
    a = a
    b = b
    tp = tp
    tc = tc
    ta = ta
    tb = tb
    NoRun = NoRun
    Handler = {h1, h2, h3}
    Run <- Runs
    Task <- Tasks
    RunOf <- Places
    Chosen <- Named
    Moves <- Outcomes
    Fragile <- Isolated
    Requests <- Selfish
    MaxBlocks = 4
    MaxCrashes = 1
SYMMETRY Interchangeable
CHECK_DEADLOCK FALSE
INVARIANT TypeOK
INVARIANT RollUpAgrees
INVARIANT CirclesAreAskedFor
