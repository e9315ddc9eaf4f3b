CONSTANTS
    ann = ann
    bob = bob
    User <- Users
    MaxTimeline = 1
    DstShift = 0
    MaxTime = 1
    MaxPosts = 2
    MaxConns = 2
    MaxReads = 0
SPECIFICATION Spec
INVARIANT
    NoPostMissedAgain
CHECK_DEADLOCK FALSE
