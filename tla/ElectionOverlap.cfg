CONSTANTS
    NumServers = 2
    NumClusters = 1
    ClusterOf <- OneCluster
    Slow = {1, 2}
    Overlap = TRUE
    MaxCrashes = 1
SPECIFICATION Spec
INVARIANT
   OneMaster
CHECK_DEADLOCK FALSE
