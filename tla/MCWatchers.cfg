SPECIFICATION Spec
CONSTANTS
    Items = {i1, i2}
    Paths = {p1, p2}
    MaxIds = 3
    MaxChanges = 3
    DrainTurns = 2
    MaxShort = 1
    MaxTime = 3
    Overflow = Overflow
INVARIANTS
    MemoryIsOwned
    DifferencesAreTold
PROPERTIES
    ImplementsWatcher
    OverflowReported
\* The watcher is destroyed at last.
CHECK_DEADLOCK FALSE
