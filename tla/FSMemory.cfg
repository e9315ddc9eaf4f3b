CONSTANTS
    t1 = t1
    t2 = t2
    NoThread = NoThread
    Leaked = Leaked
    Thread <- Threads
    Path <- Paths
    Data <- Bytes
    Op <- AllOps
    MaxData = 1
SPECIFICATION Spec
SYMMETRY Symmetry
INVARIANT
    TypeOK
PROPERTIES
    FoundWasThere
    FailureChangesNothing
    ImplementsFileStore
CHECK_DEADLOCK FALSE
