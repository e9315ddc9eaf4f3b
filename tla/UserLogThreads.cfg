CONSTANTS
    ann = ann
    bob = bob
    cid = cid
    t1 = t1
    t2 = t2
    User <- TwoUsers
    Thread <- TwoThreads
    Time = {1}
    Tick = 2
    DstShift = 0
    SyncMayFail = TRUE
    MaxLog = 4
    MaxCrashes = 1
SPECIFICATION Spec
SYMMETRY Symmetry
INVARIANTS
    
    NothingUnlogged
    LogNamesLoggedIn
CHECK_DEADLOCK FALSE
