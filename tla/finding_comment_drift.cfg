SPECIFICATION RemovalSpec
CONSTANTS
    u1 = u1
    v1 = v1
    NULL = NULL
    Users = {u1, u2}
    Videos = {v1}
    Owner <- OneVideo
    Requests = {r1, r2, r3}
    Ops = {"comment", "reply", "delete_comment"}
    MaxActive = 2
SYMMETRY Symmetry
INVARIANTS
    CommentsExact
