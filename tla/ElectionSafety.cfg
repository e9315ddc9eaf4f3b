CONSTANTS
    NumServers = 2
    NumClusters = 1
    ClusterOf <- OneCluster
    Slow = {1, 2}
    Overlap = FALSE
    MaxCrashes = 2
SPECIFICATION Spec
INVARIANTS
    TypeOK
    OneMaster
    LockNotOrphaned
    BeliefBacked
PROPERTIES
    NoSkippedElection
    ImplementsMasterLock
    FlagsImplementMasterLock
CHECK_DEADLOCK FALSE
