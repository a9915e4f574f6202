------------------------------ MODULE Removal ------------------------------
(* What the removal of an account leaves in the tables of Social while other *)
(* requests are in flight, and what keeps the counters exact beside it.  The *)
(* gateway lets a request in if its user is active at that moment, and       *)
(* serves it to the end: it knows of no removal that started meanwhile.  Two *)
(* history variables say which requests ran beside a removal, or beside the  *)
(* deletion of a comment, and which removals went through; they restrict     *)
(* nothing.                                                                  *)
EXTENDS Social

VARIABLES
    beside,     \* pairs <<r, s>> in flight at once, r a removal or a deletion of a comment
    committed   \* the removals whose transaction committed

removalVars == <<vars, beside, committed>>

Removals == {"delete_me", "user_removed"}

Removing(r) == req[r].op \in Removals

Meetings ==
    {p \in InFlight \X InFlight :
        p[1] # p[2] /\ (Removing(p[1]) \/ req[p[1]].op = "delete_comment")}

Watch ==
    /\ beside' = beside \cup Meetings'
    /\ committed' = committed \cup {r \in Requests : Removing(r) /\ Commit(r)}

RemovalInit == Init /\ beside = {} /\ committed = {}

RemovalNext == Next /\ Watch

RemovalSpec == RemovalInit /\ [][RemovalNext]_removalVars

-----------------------------------------------------------------------------
(* Properties.                                                               *)

Beside(r) == {s \in Requests : <<r, s>> \in beside}

(* Request s ran beside removal r and is the one that inserted the row: the  *)
(* like of u on v, the follow f, the comment c, the notification n.          *)
LateLike(r, u, v) ==
    \E s \in Beside(r) : req[s].op = "like" /\ req[s].user = u /\ req[s].video = v
LateFollow(r, f) ==
    \E s \in Beside(r) : req[s].op = "follow" /\ f = <<req[s].user, req[s].peer>>
LateComment(r, c) == c \in Beside(r)
LateNote(r, n) == n.cause \in Beside(r) \/ req[n.cause].comment \in Beside(r)

(* What is in the tables of user u once removal r has gone through, at that  *)
(* moment and ever after, was put there by a request that was in flight      *)
(* beside r, or answers a comment that was; of the videos not even that is   *)
(* left.  So the cascade misses no table and no row that was there before,   *)
(* and no request that comes later brings anything back.                     *)
NothingLeft ==
    \A r \in committed :
        LET u == req[r].user
        IN  /\ \A v \in Videos : Owner[v] = u => video[v] = "NONE"
            /\ \A v \in Videos : u \in likes[v] => LateLike(r, u, v)
            /\ \A c \in Requests :
                 comments[c] # NULL /\ comments[c].user = u => LateComment(r, c)
            /\ \A f \in follows : u \in {f[1], f[2]} => LateFollow(r, f)
            /\ \A n \in notes : u \in {n.to, n.actor} => LateNote(r, n)


(* comments_count is the number of comments, whatever runs at once, until a  *)
(* comment is deleted beside a reply or another deletion: DeleteComment      *)
(* counts the subtree before it deletes it.  That a deletion meets a like, a *)
(* new comment, a follow or a removal that fails does no harm.               *)
CommentsKept ==
    (\A p \in beside :
        req[p[1]].op = "delete_comment" => req[p[2]].op \notin {"reply", "delete_comment"})
    => CommentsExact
=============================================================================
