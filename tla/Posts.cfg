CONSTANTS
    ann = ann
    bob = bob
    User <- Users
    MaxTimeline = 1
    DstShift = 1
    MaxTime = 1
    MaxPosts = 2
    MaxConns = 2
    MaxReads = 1
SPECIFICATION Spec
SYMMETRY Symmetry
INVARIANTS
    TypeOK
    NoPostMissed
    SeenSurvives
    FileHoldsPosts
    BacklogHonest
CHECK_DEADLOCK FALSE
