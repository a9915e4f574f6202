SPECIFICATION FairSpec
CONSTANTS
    u1 = u1
    u2 = u2
    v1 = v1
    NULL = NULL
    Users = {u1}
    Videos = {v1}
    Owner <- JustOne
    Segments = 1
    Batch = 1
    KeyLimit = 3
    Grace = 1
    MaxRemovals = 1
    AsynqMaxRetry = 1
    FaultKinds = {"db", "redis", "apicrash", "crash", "delete", "list", "budget"}
    MaxFaults = 1
INVARIANTS
    IInv
    MediaKept
PROPERTIES
    OrphansAreSwept
