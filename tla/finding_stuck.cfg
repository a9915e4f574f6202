SPECIFICATION FairSpec
CONSTANTS
    Users = {u1}
    NoUser = NoUser
    MaxRetries = 3
    Videos = {v1}
    NoVideo = NoVideo
    Reqs = {r1, r2}
    Ops = {"intent", "confirm", "delete"}
    Contents = {"good", "corrupt"}
    NumVariants = 1
    Grace = 2
    AsynqMaxRetry = 25
    FaultKinds = {}
    MaxFaults = 0
    MaxPuts = 1
PROPERTIES ProcessingIsDecided
CHECK_DEADLOCK FALSE
