SPECIFICATION FairSpec
CONSTANTS
    Users = {u1}
    NoUser = NoUser
    MaxRetries = 3
    Videos = {v1}
    NoVideo = NoVideo
    Reqs = {r1, r2, r3}
    Ops = {"intent", "confirm", "delete"}
    Contents = {"good", "corrupt"}
    NumVariants = 1
    Grace = 2
    AsynqMaxRetry = 25
    FaultKinds = {"commit", "download", "probe_output", "ffmpeg", "upload", "delete"}
    MaxFaults = 3
    MaxPuts = 1
INVARIANTS MediaTracked
PROPERTIES AttemptIsDecided GoneMediaIsPurged FailedForCause
CHECK_DEADLOCK FALSE
