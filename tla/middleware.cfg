SPECIFICATION MiddlewareSpec
CONSTANTS
    Callers = {c1, c2}
    Stores = {"auth"}
    Keys = {k1}
    Store <- OneStore
    NoKey = NoKey
    Cost = 1
    Cap = 2
    TTL = 2
    MaxClock = 3
    MaxBuckets = 2
    Requests = {r1, r2, r3}
    Ids = {i1, i2}
    Subs = {s1}
    NoSub = NoSub
    NoId = NoId
    MaxFaults = 1
SYMMETRY Symmetry
INVARIANTS
    QuotaHonoured
    OneBucketPerKey
    GateInv
    HandlerHasUser
    RemovedStaysOut
    OneRowPerSubject
    AckedIsInactive
    InternalForCause
PROPERTIES
    EvictionIsNeutral
