SPECIFICATION Spec
CONSTANTS
    Handles = {h1, h2}
    Pids = {p1, p2}
    Codes = {0, 7}
    Term = 15
    Kill = 9
    MaxSpawns = 4
    MaxNative = 4
    MaxLibuv = 3
INVARIANTS
    SignalsOwnChild
    ExitIsTheChilds
    LoopIsSound
PROPERTIES
    WaitSeesExit
\* Every handle may be destroyed and every child started.
CHECK_DEADLOCK FALSE
