CONSTANTS
    ann = ann
    bob = bob
    User <- Users
    NumServers = 3
    NumClusters = 2
    ClusterOf <- TwoClusters
    MaxRequests = 3
    MaxChanges = 1
    MaxHops = 4
SPECIFICATION FairSpec
INVARIANTS
    TypeOK
    AnsweredMeansReplicated
    RequesterKnown
    ForwardedOnce
    PostedOnce
    PostsInOrder
PROPERTIES
    RequestsReturn
CHECK_DEADLOCK FALSE
