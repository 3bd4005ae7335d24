\* Every failure of every stage, over path and directory loads.
SPECIFICATION Spec
CONSTANTS
    Files = {"x.so", "y.so", "y2.so"}
    ProviderIds = {"x", "y"}
    IdOf <- MCIdOf
    Sources = {"typed", "json", "unknown"}
    Rejected <- MCRejected
    FirstCapacity = 1
    Directories <- MCDirectories
    MaxLoads = 4
INVARIANTS
    NothingLeaked
    LibraryOutlivesInstance
    FactsComplete
PROPERTIES
    EagerRejects
    LoadIsAtomic
CHECK_DEADLOCK FALSE
