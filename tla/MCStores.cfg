SPECIFICATION Spec
CONSTANTS
    none = none
    LongTxns = {a}
    LongKeys = {1, 2, 3, 4}
    LongValues = {u}
    Room = 3
    Txns = {x, y}
    Keys = {1, 2}
    Values = {v, w}
    Ids = {1, 2}
    MaxRows = 2
    MaxResults = 3
    MaxTuples = 2
SYMMETRY Symmetry
INVARIANTS
    NothingLeftInTheEngine
    CursorsRead
PROPERTIES
    ImplementsStore
\* Every handle may be closed.
CHECK_DEADLOCK FALSE
