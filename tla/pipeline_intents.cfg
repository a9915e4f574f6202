SPECIFICATION Spec
CONSTANTS
    Users = {u1}
    NoUser = NoUser
    MaxRetries = 3
    Videos = {v1, v2}
    NoVideo = NoVideo
    Reqs = {r1, r2, r3, r4}
    Ops = {"intent", "confirm", "delete"}
    Contents = {"good", "corrupt"}
    NumVariants = 1
    Grace = 2
    AsynqMaxRetry = 25
    FaultKinds = {"redis", "mkdir", "download", "probe_output", "ffmpeg", "upload"}
    MaxFaults = 2
    MaxPuts = 2
SYMMETRY Symmetry
INVARIANTS OnePendingPerUser ConfirmedRawKept ReadyIsPlayable
CHECK_DEADLOCK FALSE
