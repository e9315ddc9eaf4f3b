CONSTANTS
    Client = {c1, c2}
    NumServers = 3
    NumClusters = 2
    ClusterOf <- TwoClusters
    MaxRetries = 1
    MaxChanges = 3
SPECIFICATION FairSpec
INVARIANTS
    TypeOK
    SharedIdsOverlap
    ServerWasMaster
    FirstAvailable
    UnavailableMeansEmpty
PROPERTIES
    FollowsMaster
CHECK_DEADLOCK FALSE
