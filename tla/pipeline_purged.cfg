SPECIFICATION FairSpec
CONSTANTS
    Users = {u1}
    NoUser = NoUser
    MaxRetries = 3
    Videos = {v1}
    NoVideo = NoVideo
    Reqs = {r1, r2, r3}
    Ops = {"intent", "confirm", "delete"}
    Contents = {"good", "corrupt"}
    NumVariants = 1
    Grace = 2
    AsynqMaxRetry = 25
    FaultKinds = {"delete", "crash", "ready_unknown"}
    MaxFaults = 2
    MaxPuts = 1
PROPERTIES DeletedIsPurged
CHECK_DEADLOCK FALSE
