CONSTANTS
    ann = ann
    bob = bob
    cid = cid
    t1 = t1
    t2 = t2
    User <- Users
    Thread <- Threads
    Time = {1, 2}
    Tick = 1
    DstShift = 1
    SyncMayFail = FALSE
    MaxLog = 6
    MaxCrashes = 2
SPECIFICATION Spec
SYMMETRY UserSymmetry
INVARIANTS
    TypeOK
    LogValid
    MemoryMatchesLog
    FollowGraphConsistent
    Durable
PROPERTY
    OnlyUnknownNamesKill
CHECK_DEADLOCK FALSE
