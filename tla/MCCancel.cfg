\* Three threads, every interleaving of the steps of their calls.
SPECIFICATION Spec
CONSTANTS
    Threads = {t1, t2, t3}
    MaxReasons = 2
INVARIANTS
    BlockOutlivesHandles
    TextsLiveAsLongAsNeeded
PROPERTIES
    LockIsReleased
    CallsAreAtomic
\* Everything may be destroyed.
CHECK_DEADLOCK FALSE
