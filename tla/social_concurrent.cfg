SPECIFICATION RemovalSpec
CONSTANTS
    u1 = u1
    v1 = v1
    NULL = NULL
    Users = {u1, u2}
    Videos = {v1}
    Owner <- OneVideo
    Requests = {r1, r2, r3}
    Ops = {"like", "unlike", "comment", "reply", "delete_comment", "private", "follow", "unfollow", "delete_video"}
    MaxActive = 3
SYMMETRY Symmetry
INVARIANTS
    TypeOK
    LikesExact
    ThreadsWhole
    Announced
