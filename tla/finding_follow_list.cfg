SPECIFICATION ReadsSpec
CONSTANTS
    Keys = {1, 2, 3}
    Own = {2}
    DefaultLimit = 1
    MaxLimit = 2
    NoLimit = NoLimit
    RawLimits = {NoLimit, 0, 3}
    maxOffset = 1
    MaxRank = 1
    MaxChanges = 2
    Clients = {c1}
    Second = 2
    TTL = 2
    cleanupGrace = 4
    sweepGrace = 4
    MaxServe = 1
    Bad = Bad
    MaxTime = 5
    MaxGrants = 2
    MaxOwnerChanges = 1
INVARIANTS
    FollowListHidden
CHECK_DEADLOCK FALSE
