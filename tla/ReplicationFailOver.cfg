CONSTANTS
    ann = ann
    bob = bob
    User <- Users
    NumServers = 3
    NumClusters = 2
    ClusterOf <- TwoClusters
    MaxRequests = 2
    MaxChanges = 1
    MaxHops = 4
SPECIFICATION Spec
INVARIANT
    RequesterKnownAfterFailOver
CHECK_DEADLOCK FALSE
