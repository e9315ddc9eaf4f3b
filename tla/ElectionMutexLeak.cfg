CONSTANTS
    NumServers = 2
    NumClusters = 1
    ClusterOf <- OneCluster
    Slow = {}
    Overlap = FALSE
    MaxCrashes = 1
SPECIFICATION FairSpec
PROPERTIES
    FailOver
CHECK_DEADLOCK FALSE
