SPECIFICATION Spec
CONSTANTS
    Users = {u1}
    NoUser = NoUser
    MaxRetries = 3
    Videos = {v1}
    NoVideo = NoVideo
    Reqs = {r1, r2, r3}
    Ops = {"intent", "confirm", "delete"}
    Contents = {"good", "corrupt", "badsize"}
    NumVariants = 1
    Grace = 2
    AsynqMaxRetry = 25
    FaultKinds = {"db", "commit", "redis", "presign", "head", "apicrash", "crash", "mkdir", "download", "probe_killed", "probe_output", "ffmpeg", "upload", "upload_unknown", "delete"}
    MaxFaults = 2
    MaxPuts = 2
SYMMETRY Symmetry
INVARIANTS SnapshotCurrent IInv
PROPERTIES FollowsLifecycle GraceHonoured PurgeLeavesNothing
CHECK_DEADLOCK FALSE
