SPECIFICATION Spec
CONSTANTS
    Shell = {s1}
    Interactive = {}
    Chatty = {}
    Run = {r1, r2}
    Window = {w1}
    NoShell = NoShell
    NoRun = NoRun
    MaxEvents = 1
PROPERTY StopHitsItsRun
CHECK_DEADLOCK FALSE
