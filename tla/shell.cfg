SPECIFICATION FairSpec
CONSTANTS
    Shell = {s1,s2}
    Interactive = {s2}
    Run = {r1, r2}
    Window = {w1}
    Chatty = {r2}
    NoShell = NoShell
    NoRun = NoRun
    MaxEvents = 2
INVARIANTS TypeOK ShellWorksOnActive IdleShellIsFree LiveShellIsKnown
PROPERTIES CommandReturns StoppedCommandReturns
CHECK_DEADLOCK FALSE
