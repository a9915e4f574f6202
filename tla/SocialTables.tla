---------------------------- MODULE SocialTables ----------------------------
(* The tables of Social in every reachable state, for any users, videos and  *)
(* requests and any number of them in flight, also while accounts are        *)
(* removed: rows are of their kind (TypeOK) and replies have their parents   *)
(* (ThreadsWhole).  Without removals every like and comment was announced    *)
(* (Announced).  The removal of an account leaves only what the requests     *)
(* beside it bring (NothingLeft), and comments stay counted unless one is    *)
(* deleted beside a reply or another deletion (CommentsKept).                *)
EXTENDS Removal, TLAPS, FiniteSetTheorems

Operations == {"none", "like", "unlike", "comment", "reply", "delete_comment", "follow"} \cup Removals

Steps == {"new", "done", "video", "owner", "follower", "load", "insert_like", "inc_likes",
          "delete_like", "dec_like", "insert_comment", "inc_comments", "notify", "count",
          "delete_comment", "dec_comments_by", "target", "insert_follow", "reload_follow",
          "notify_follow", "commit"} \cup DOMAIN NextStatement

(* The transaction of a like, a comment or a reply that has inserted its row. *)
Inserting(q) ==
    /\ q.op \in {"like", "comment", "reply"}
    /\ q.pc \in {"inc_likes", "inc_comments", "notify", "commit"}

Lock == RowOf \X (Exclusive \cup Counter \cup {"reference"})

Request == [pc : Steps, op : Operations, user : Users \cup {NULL}, video : Videos \cup {NULL},
            peer : Users \cup {NULL}, comment : Requests \cup {NULL}, n : Nat,
            todo : SUBSET Lock, held : SUBSET Lock]

(* The locks an operation takes.                                             *)
MayLock(q, x) ==
    \/ q.op \in Removals
    \/ /\ q.op \in {"like", "comment", "reply"}
       /\ x \in References(q) \/ \E u \in Users : x = <<UserRow(u), "reference">>
    \/ q.op = "like" /\ x = <<LikeRow(q.user, q.video), "insert">>
    \/ q.op = "unlike" /\ x = <<LikeRow(q.user, q.video), "delete">>
    \/ q.op \in {"like", "unlike"} /\ x = <<VideoRow(q.video), "likes">>
    \/ q.op = "reply" /\ x = <<CommentRow(q.comment), "reference">>
    \/ q.op \in {"comment", "reply", "delete_comment"} /\ x = <<VideoRow(q.video), "comments">>
    \/ q.op = "delete_comment" /\ \E c \in Requests : x = <<CommentRow(c), "delete">>

(* Where an operation can be, and what it knows there.                       *)
Placed(q) ==
    /\ q.pc \in {"new", "done", "load"} => q.held = {} /\ q.todo = {}
    /\ q.pc \in {"video", "owner", "follower"} => q.op \in {"like", "unlike", "comment", "reply"}
    /\ q.pc = "load" => q.op \in {"reply", "delete_comment"}
    /\ q.pc \in {"insert_like", "inc_likes"} => q.op = "like"
    /\ q.pc \in {"delete_like", "dec_like"} => q.op = "unlike"
    /\ q.pc \in {"insert_comment", "inc_comments"} => q.op \in {"comment", "reply"}
    /\ q.pc = "notify" => q.op \in {"like", "comment", "reply"}
    /\ q.pc \in {"count", "delete_comment", "dec_comments_by"} => q.op = "delete_comment"
    /\ q.pc \in {"target", "insert_follow", "reload_follow", "notify_follow"} => q.op = "follow"
    /\ q.pc \in DOMAIN NextStatement => q.op \in Removals
    /\ q.op \in {"like", "unlike", "comment"} =>
          q.user \in Users /\ q.video \in Videos /\ q.comment = NULL
    /\ q.op \in {"reply", "delete_comment"} =>
          /\ q.user \in Users /\ q.comment \in Requests
          /\ q.pc \notin {"load", "done"} => q.video \in Videos
    /\ q.op = "follow" => q.user \in Users /\ q.peer \in Users
    /\ q.op \in Removals => q.user \in Users
    /\ q.op \notin Removals => q.todo = {}

RequestOK(q) == q \in Request /\ Placed(q) /\ \A x \in q.held : MayLock(q, x)

(* Two transactions do not hold conflicting locks.                           *)
LocksCompatible ==
    \A r, s \in Requests : r # s =>
        \A x \in req[r].held, y \in req[s].held : x[1] = y[1] => ~Conflict(x[2], y[2])

(* A comment or notification was written by a request that is over.          *)
Written ==
    /\ \A c \in Requests : comments[c] # NULL => req[c].pc = "done"
    /\ \A n \in notes : req[n.cause].pc = "done"

(* The comment a request is about was there once, on the video the request   *)
(* is about.                                                                 *)
Addressed(q) ==
    q.op \in {"reply", "delete_comment"} =>
        /\ req[q.comment].pc = "done"
        /\ q.pc \notin {"load", "done"} /\ comments[q.comment] # NULL =>
              comments[q.comment].video = q.video

(* What a new like or comment refers to is there and locked.                 *)
Anchored(q) ==
    Inserting(q) =>
        /\ References(q) \subseteq q.held
        /\ video[q.video] # "NONE"
        /\ q.op = "reply" => /\ <<CommentRow(q.comment), "reference">> \in q.held
                             /\ comments[q.comment] # NULL

(* What a deletion takes along is locked with it.                            *)
Cascading(q) ==
    \A c \in Requests : comments[c] # NULL =>
        /\ <<VideoRow(comments[c].video), "delete">> \in q.held =>
              <<CommentRow(c), "delete">> \in q.held
        /\ <<CommentRow(comments[c].parent), "delete">> \in q.held =>
              <<CommentRow(c), "delete">> \in q.held

Claims(q) == Addressed(q) /\ Anchored(q) /\ Cascading(q)

(* The rows are of their kind.                                               *)
TablesOK ==
    /\ video \in [Videos -> {"READY", "DELETED", "NONE"}]
    /\ active \subseteq Users /\ tombstoned \subseteq Users /\ private \subseteq Users
    /\ follows \subseteq Users \X Users
    /\ likes \in [Videos -> SUBSET Users]
    /\ comments \in [Requests -> Comment \cup {NULL}]
    /\ likesCount \in [Videos -> Nat]
    /\ commentsCount \in [Videos -> Nat]
    /\ notes \subseteq Note

(* The inductive invariant behind TypeOK and ThreadsWhole.                   *)
TablesInv ==
    /\ TablesOK
    /\ req \in [Requests -> Request]
    /\ \A r \in Requests : RequestOK(req[r]) /\ Claims(req[r])
    /\ LocksCompatible
    /\ Written
    /\ ThreadsWhole

-----------------------------------------------------------------------------
(* Rows: of which kind they are, and that they are different.                *)
LEMMA RowKinds ==
    /\ \A v \in Videos : VideoRow(v) \in RowOf
    /\ \A u \in Users : UserRow(u) \in RowOf
    /\ \A c \in Requests : CommentRow(c) \in RowOf
    /\ \A u \in Users, v \in Videos : LikeRow(u, v) \in RowOf
    /\ \A u, w \in Users : FollowRow(u, w) \in RowOf
    /\ \A n \in Note : NoteRow(n) \in RowOf
  BY DEF VideoRow, UserRow, CommentRow, LikeRow, FollowRow, NoteRow, RowOf

LEMMA RowNames ==
    /\ \A v, w : VideoRow(v) = VideoRow(w) => v = w
    /\ \A u, w : UserRow(u) = UserRow(w) => u = w
    /\ \A c, d : CommentRow(c) = CommentRow(d) => c = d
    /\ \A u, v, x, y : LikeRow(u, v) = LikeRow(x, y) => u = x /\ v = y
    /\ \A u, v, x, y : FollowRow(u, v) = FollowRow(x, y) => u = x /\ v = y
    /\ \A n, m : NoteRow(n) = NoteRow(m) => n = m
  BY DEF VideoRow, UserRow, CommentRow, LikeRow, FollowRow, NoteRow

LEMMA RowsDiffer ==
    \A v, u, c, x, y, f, g, n :
        /\ VideoRow(v) # UserRow(u) /\ VideoRow(v) # CommentRow(c) /\ VideoRow(v) # LikeRow(x, y)
        /\ VideoRow(v) # FollowRow(f, g) /\ VideoRow(v) # NoteRow(n)
        /\ UserRow(u) # CommentRow(c) /\ UserRow(u) # LikeRow(x, y)
        /\ UserRow(u) # FollowRow(f, g) /\ UserRow(u) # NoteRow(n)
        /\ CommentRow(c) # LikeRow(x, y) /\ CommentRow(c) # FollowRow(f, g)
        /\ CommentRow(c) # NoteRow(n)
        /\ LikeRow(x, y) # FollowRow(f, g) /\ LikeRow(x, y) # NoteRow(n)
        /\ FollowRow(f, g) # NoteRow(n)
  BY DEF VideoRow, UserRow, CommentRow, LikeRow, FollowRow, NoteRow

(* Which locks keep each other out.                                          *)
LEMMA Conflicts ==
    /\ \A x, y : Conflict(x, y) <=> Conflict(y, x)
    /\ \A x : Conflict("insert", x) /\ Conflict("delete", x) /\ Conflict("tombstone", x)
    /\ Conflict("likes", "comments") /\ Conflict("comments", "comments")
    /\ Conflict("likes", "likes")
  BY DEF Conflict, Exclusive, Counter

(* The statements of the cascade, one after the other.                       *)
LEMMA Statements ==
    /\ DOMAIN NextStatement = {"dec_likes", "dec_comments", "del_videos", "del_following",
            "del_followers", "del_likes", "del_comments", "del_inbox", "del_sent", "tombstone"}
    /\ NextStatement["dec_likes"] = "dec_comments"
    /\ NextStatement["dec_comments"] = "del_videos"
    /\ NextStatement["del_videos"] = "del_following"
    /\ NextStatement["del_following"] = "del_followers"
    /\ NextStatement["del_followers"] = "del_likes"
    /\ NextStatement["del_likes"] = "del_comments"
    /\ NextStatement["del_comments"] = "del_inbox"
    /\ NextStatement["del_inbox"] = "del_sent"
    /\ NextStatement["del_sent"] = "tombstone"
    /\ NextStatement["tombstone"] = "commit"
  BY DEF NextStatement

(* A subtree has the comment and, with a comment, the replies to it.         *)
LEMMA SubtreeCloses ==
    ASSUME NEW c
    PROVE  /\ Subtree(c) \subseteq {d \in Requests : comments[d] # NULL}
           /\ c \in Requests /\ comments[c] # NULL => c \in Subtree(c)
           /\ \A d \in Requests : comments[d] # NULL /\ comments[d].parent \in Subtree(c)
                 => d \in Subtree(c)
  BY DEF Subtree

(* A subtree is within every set that is closed in this way.                 *)
LEMMA SubtreeLeast ==
    ASSUME NEW c, NEW S,
           c \in Requests /\ comments[c] # NULL => c \in S,
           \A d \in Requests : comments[d] # NULL /\ comments[d].parent \in S => d \in S
    PROVE  Subtree(c) \subseteq S
<1> DEFINE rows == {d \in Requests : comments[d] # NULL}
           T == S \cap rows
<1>1. T \in SUBSET rows
  OBVIOUS
<1>2. c \in rows => c \in T
  OBVIOUS
<1>3. \A d \in rows : comments[d].parent \in T => d \in T
  OBVIOUS
<1>4. \A d \in Subtree(c) : d \in T
  BY <1>1, <1>2, <1>3 DEF Subtree
<1> QED BY <1>4

-----------------------------------------------------------------------------
(* New locks are taken if they are free.                                     *)
LEMMA LocksStep ==
    ASSUME LocksCompatible, NEW r \in Requests, NEW q,
           req \in [Requests -> Request], req' = [req EXCEPT ![r] = q],
           \A x \in q.held : x \in req[r].held \/ Free(r, x[1], x[2])
    PROVE  LocksCompatible'
<1> SUFFICES ASSUME NEW s \in Requests, NEW t \in Requests, s # t,
                    NEW x \in req'[s].held, NEW y \in req'[t].held, x[1] = y[1]
             PROVE  ~Conflict(x[2], y[2])
  BY DEF LocksCompatible
<1>1. ASSUME NEW o \in Requests \ {r}, NEW z \in q.held, NEW w \in req[o].held, z[1] = w[1]
      PROVE  ~Conflict(z[2], w[2])
  <2>1. CASE z \in req[r].held
    BY <1>1, <2>1 DEF LocksCompatible
  <2>2. CASE Free(r, z[1], z[2])
    <3>1. ~Conflict(w[2], z[2])
      BY <1>1, <2>2 DEF Free
    <3> QED BY <3>1, Conflicts
  <2> QED BY <1>1, <2>1, <2>2
<1>2. req'[r] = q /\ \A o \in Requests \ {r} : req'[o] = req[o]
  OBVIOUS
<1>3. CASE s = r
  BY <1>1, <1>2, <1>3
<1>4. CASE t = r
  <2>1. ~Conflict(y[2], x[2])
    BY <1>1, <1>2, <1>4
  <2> QED BY <2>1, Conflicts
<1>5. CASE s # r /\ t # r
  BY <1>2, <1>5 DEF LocksCompatible
<1> QED BY <1>3, <1>4, <1>5

(* A step of one request that leaves the videos and comments alone.          *)
LEMMA RequestStep ==
    ASSUME TablesInv, NEW r \in Requests, NEW q,
           TablesOK', UNCHANGED <<video, comments>>,
           req' = [req EXCEPT ![r] = q], req[r].pc # "done",
           \A n \in notes' : n \in notes \/ req'[n.cause].pc = "done",
           RequestOK(q), Claims(q),
           \A x \in q.held : x \in req[r].held \/ Free(r, x[1], x[2])
    PROVE  TablesInv'
<1>1. req \in [Requests -> Request] /\ q \in Request
  BY DEF TablesInv, RequestOK
<1>2. req' \in [Requests -> Request]
  BY <1>1
<1>3. req'[r] = q /\ \A s \in Requests \ {r} : req'[s] = req[s]
  BY <1>1
<1>4. video' = video /\ comments' = comments
  OBVIOUS
<1>5. LocksCompatible'
  BY <1>1, LocksStep DEF TablesInv
<1>6. ThreadsWhole'
  BY <1>4 DEF TablesInv, ThreadsWhole
<1>7. \A s \in Requests : req[s].pc = "done" => s # r /\ req'[s].pc = "done"
  BY <1>3
<1>8. Written'
  <2>1. \A n \in notes : n.cause \in Requests
    BY DEF TablesInv, TablesOK, Note
  <2> QED BY <1>4, <1>7, <2>1 DEF TablesInv, Written
<1>9. ASSUME NEW s \in Requests
      PROVE  (RequestOK(req[s]) /\ Claims(req[s]))'
  <2>0. PICK o : o = req'[s]
    OBVIOUS
  <2>1. RequestOK(o) /\ Claims(o)
    BY <1>3, <1>9, <2>0 DEF TablesInv
  <2>2. RequestOK(req[s])'
    BY <2>0, <2>1 DEF RequestOK, MayLock, Placed, References
  <2>3. Addressed(o)'
    <3>1. o.op \in {"reply", "delete_comment"} => o.comment \in Requests
      BY <2>1 DEF RequestOK, Placed
    <3> QED BY <1>4, <1>7, <2>1, <3>1 DEF Claims, Addressed
  <2>4. Anchored(o)' /\ Cascading(o)'
    BY <1>4, <2>1 DEF Claims, Anchored, Cascading
  <2>5. Claims(req[s])'
    BY <2>0, <2>3, <2>4 DEF Claims, Addressed, Anchored, Cascading, Inserting, References
  <2> QED BY <2>2, <2>5
<1> QED BY <1>2, <1>5, <1>6, <1>8, <1>9 DEF TablesInv

(* ... and all other tables.                                                 *)
LEMMA QuietStep ==
    ASSUME TablesInv, NEW r \in Requests, NEW q, UNCHANGED tables,
           req' = [req EXCEPT ![r] = q], req[r].pc # "done",
           RequestOK(q), Claims(q),
           \A x \in q.held : x \in req[r].held \/ Free(r, x[1], x[2])
    PROVE  TablesInv'
<1>1. TablesOK'
  BY DEF TablesInv, TablesOK, tables
<1>2. UNCHANGED <<video, comments>> /\ notes' = notes
  BY DEF tables
<1> QED BY <1>1, <1>2, RequestStep

(* A request is answered.                                                    *)
LEMMA Answered ==
    ASSUME TablesInv, NEW r \in Requests, Answer(r)
    PROVE  \E q : /\ req' = [req EXCEPT ![r] = q]
                  /\ q.pc = "done" /\ q.held = {} /\ q.todo = {} /\ q.op = req[r].op
                  /\ RequestOK(q) /\ Claims(q)
<1> DEFINE o == req[r]
           q == [o EXCEPT !.pc = "done", !.todo = {}, !.held = {}]
<1>1. req \in [Requests -> Request] /\ RequestOK(o) /\ Claims(o) /\ o \in Request
  BY DEF TablesInv
<1>2. req' = [req EXCEPT ![r] = q]
  BY <1>1 DEF Answer
<1>3. /\ q \in Request
      /\ q.pc = "done" /\ q.todo = {} /\ q.held = {} /\ q.op = o.op /\ q.user = o.user
      /\ q.video = o.video /\ q.peer = o.peer /\ q.comment = o.comment
  <2> HIDE DEF o
  <2>1. {} \in SUBSET Lock /\ "done" \in Steps
    BY DEF Steps
  <2> QED BY <1>1, <2>1 DEF Request
<1> HIDE DEF o, q
<1>4. Placed(q)
  BY <1>1, <1>3, Statements DEF RequestOK, Placed
<1>5. RequestOK(q)
  BY <1>3, <1>4 DEF RequestOK
<1>6. Claims(q)
  BY <1>1, <1>3 DEF Claims, Addressed, Anchored, Inserting, Cascading
<1> QED BY <1>2, <1>3, <1>5, <1>6 DEF o

LEMMA AnswerStep ==
    ASSUME TablesInv, NEW r \in Requests, UNCHANGED tables, Answer(r), req[r].pc # "done"
    PROVE  TablesInv'
<1>1. PICK q : /\ req' = [req EXCEPT ![r] = q]
               /\ q.held = {} /\ RequestOK(q) /\ Claims(q)
  BY Answered
<1> QED BY <1>1, QuietStep

(* What a step leaves as it is that takes locks and goes on.                 *)
SameWork(q, o) ==
    /\ q.op = o.op /\ q.user = o.user /\ q.video = o.video /\ q.peer = o.peer
    /\ q.comment = o.comment /\ q.n = o.n /\ q.todo = o.todo

(* What is to be true of a request that goes on with these locks.            *)
GoesOn(o, locks, pc) ==
    \A q \in Request :
        SameWork(q, o) /\ q.pc = pc /\ q.held = o.held \cup locks =>
            Placed(q) /\ Anchored(q) /\ Cascading(q)

(* Locks a request may take now.                                             *)
Available(r, locks) ==
    \A x \in locks : x \in Lock /\ MayLock(req[r], x) /\ Free(r, x[1], x[2])

LEMMA HoldStep ==
    ASSUME TablesInv, NEW r \in Requests, UNCHANGED tables,
           NEW pc \in Steps, pc \notin {"new", "done", "load"},
           NEW locks, Available(r, locks), Hold(r, locks, pc),
           req[r].pc \notin {"new", "done", "load"}, GoesOn(req[r], locks, pc)
    PROVE  TablesInv'
<1> DEFINE o == req[r]
           q == [o EXCEPT !.held = @ \cup locks, !.pc = pc]
<1>1. req \in [Requests -> Request] /\ RequestOK(o) /\ Claims(o) /\ o \in Request
  BY DEF TablesInv
<1>2. o.held \in SUBSET Lock
  BY <1>1 DEF Request
<1>3. q \in Request /\ SameWork(q, o) /\ q.pc = pc /\ q.held = o.held \cup locks
  <2>1. o.held \cup locks \in SUBSET Lock
    BY <1>2 DEF Available
  <2> QED BY <1>1, <2>1 DEF Request, SameWork
<1>4. req' = [req EXCEPT ![r] = q]
  BY <1>1 DEF Hold
<1> HIDE DEF q
<1>5. Placed(q) /\ Anchored(q) /\ Cascading(q)
  BY <1>3 DEF GoesOn
<1>6. Addressed(q)
  BY <1>1, <1>3 DEF Claims, Addressed, SameWork
<1>7. \A x \in q.held : MayLock(o, x)
  BY <1>1, <1>3 DEF RequestOK, Available
<1>8. RequestOK(q)
  BY <1>3, <1>5, <1>7 DEF RequestOK, MayLock, SameWork, References
<1>9. \A x \in q.held : x \in o.held \/ Free(r, x[1], x[2])
  BY <1>3 DEF Available
<1>10. Claims(q)
  BY <1>5, <1>6 DEF Claims
<1> QED BY <1>4, <1>8, <1>9, <1>10, QuietStep

(* Locks other than for a deletion take nothing along.                       *)
LEMMA NoCascade ==
    ASSUME NEW o, NEW q, NEW locks, Cascading(o), q.held = o.held \cup locks,
           \A x \in locks : x[2] # "delete"
    PROVE  Cascading(q)
<1>1. \A row : <<row, "delete">> \in q.held => <<row, "delete">> \in o.held
  <2> SUFFICES ASSUME NEW row, <<row, "delete">> \in q.held
               PROVE  <<row, "delete">> \in o.held
    OBVIOUS
  <2>1. <<row, "delete">>[2] = "delete"
    OBVIOUS
  <2> QED BY <2>1
<1> QED BY <1>1 DEF Cascading

(* A step that only goes on.                                                 *)
LEMMA MoveStep ==
    ASSUME TablesInv, NEW r \in Requests, NEW pc \in Steps, Goto(r, pc),
           TablesOK', UNCHANGED <<video, comments, notes>>,
           pc \notin {"new", "done", "load"}, req[r].pc \notin {"new", "done", "load"},
           \A q \in Request : SameWork(q, req[r]) /\ q.pc = pc => Placed(q) /\ ~Inserting(q)
    PROVE  TablesInv'
<1> DEFINE o == req[r]
           q == [o EXCEPT !.pc = pc]
<1>1. req \in [Requests -> Request] /\ RequestOK(o) /\ Claims(o) /\ o \in Request
  BY DEF TablesInv
<1>2. req' = [req EXCEPT ![r] = q]
  BY <1>1 DEF Goto
<1>3. q \in Request /\ SameWork(q, o) /\ q.pc = pc /\ q.held = o.held
  <2> HIDE DEF o
  <2> QED BY <1>1 DEF Request, SameWork
<1>4. Placed(q) /\ ~Inserting(q)
  BY <1>3
<1> HIDE DEF q
<1>5. RequestOK(q)
  BY <1>1, <1>3, <1>4 DEF RequestOK, MayLock, SameWork, References
<1>6. Claims(q)
  BY <1>1, <1>3, <1>4 DEF Claims, Addressed, Anchored, Cascading, SameWork
<1>7. \A x \in q.held : x \in req[r].held
  BY <1>3
<1> QED BY <1>2, <1>5, <1>6, <1>7, RequestStep

LEMMA GotoStep ==
    ASSUME TablesInv, NEW r \in Requests, UNCHANGED tables, NEW pc \in Steps, Goto(r, pc),
           pc \notin {"new", "done", "load"}, req[r].pc \notin {"new", "done", "load"},
           \A q \in Request : SameWork(q, req[r]) /\ q.pc = pc => Placed(q) /\ ~Inserting(q)
    PROVE  TablesInv'
<1>1. TablesOK'
  BY DEF TablesInv, TablesOK, tables
<1>2. UNCHANGED <<video, comments, notes>>
  BY DEF tables
<1> QED BY <1>1, <1>2, MoveStep

-----------------------------------------------------------------------------
(* A request begins.                                                         *)
LEMMA BeginStep ==
    ASSUME TablesInv, NEW r \in Requests, UNCHANGED tables, At(r, "new"),
           NEW q \in Request, req' = [req EXCEPT ![r] = q],
           q.held = {}, Placed(q), Addressed(q), ~Inserting(q)
    PROVE  TablesInv'
<1>1. RequestOK(q)
  BY DEF RequestOK
<1>2. Claims(q)
  BY DEF Claims, Anchored, Cascading
<1>3. req[r].pc # "done"
  BY DEF At
<1> QED BY <1>1, <1>2, <1>3, QuietStep

LEMMA TablesBegin ==
    ASSUME TablesInv, NEW r \in Requests, Begin(r)
    PROVE  TablesInv'
<1>0. UNCHANGED tables /\ At(r, "new")
  BY DEF Begin, BeginOnVideo, BeginOnComment, BeginFollow, BeginRemoval, MayBegin
<1>1. active \subseteq Users
  BY DEF TablesInv, TablesOK
<1>2. CASE BeginOnVideo(r)
  <2>1. PICK op \in {"like", "unlike", "comment"}, u \in Users, v \in Videos :
            req' = [req EXCEPT ![r] = [Idle EXCEPT !.pc = "video", !.op = op,
                                                   !.user = u, !.video = v]]
    BY <1>1, <1>2 DEF BeginOnVideo
  <2> DEFINE q == [Idle EXCEPT !.pc = "video", !.op = op, !.user = u, !.video = v]
  <2>2. /\ q \in Request /\ q.pc = "video" /\ q.op = op /\ q.user = u /\ q.video = v
        /\ q.comment = NULL /\ q.held = {} /\ q.todo = {}
    BY DEF Idle, Request, Steps, Operations
  <2> HIDE DEF q
  <2>3. Placed(q) /\ Addressed(q) /\ ~Inserting(q)
    BY <2>2, Statements DEF Placed, Addressed, Inserting, Removals
  <2> QED BY <1>0, <2>1, <2>2, <2>3, BeginStep DEF q
<1>3. CASE BeginOnComment(r)
  <2>1. PICK op \in {"reply", "delete_comment"}, u \in Users, c \in Requests :
            /\ comments[c] # NULL
            /\ req' = [req EXCEPT ![r] = [Idle EXCEPT !.pc = "load", !.op = op,
                                                      !.user = u, !.comment = c]]
    BY <1>1, <1>3 DEF BeginOnComment
  <2> DEFINE q == [Idle EXCEPT !.pc = "load", !.op = op, !.user = u, !.comment = c]
  <2>2. /\ q \in Request /\ q.pc = "load" /\ q.op = op /\ q.user = u /\ q.comment = c
        /\ q.held = {} /\ q.todo = {}
    BY DEF Idle, Request, Steps, Operations
  <2> HIDE DEF q
  <2>3. req[c].pc = "done"
    BY <2>1 DEF TablesInv, Written
  <2>4. Placed(q) /\ Addressed(q) /\ ~Inserting(q)
    BY <2>2, <2>3, Statements DEF Placed, Addressed, Inserting, Removals
  <2> QED BY <1>0, <2>1, <2>2, <2>4, BeginStep DEF q
<1>4. CASE BeginFollow(r)
  <2>1. PICK u \in Users, w \in Users :
            req' = [req EXCEPT ![r] = [Idle EXCEPT !.pc = "target", !.op = "follow",
                                                   !.user = u, !.peer = w]]
    BY <1>1, <1>4 DEF BeginFollow
  <2> DEFINE q == [Idle EXCEPT !.pc = "target", !.op = "follow", !.user = u, !.peer = w]
  <2>2. /\ q \in Request /\ q.pc = "target" /\ q.op = "follow" /\ q.user = u /\ q.peer = w
        /\ q.held = {} /\ q.todo = {}
    BY DEF Idle, Request, Steps, Operations
  <2> HIDE DEF q
  <2>3. Placed(q) /\ Addressed(q) /\ ~Inserting(q)
    BY <2>2, Statements DEF Placed, Addressed, Inserting, Removals
  <2> QED BY <1>0, <2>1, <2>2, <2>3, BeginStep DEF q
<1>5. CASE BeginRemoval(r)
  <2>1. PICK op \in Removals, u \in Users :
            req' = [req EXCEPT ![r] = [Idle EXCEPT !.pc = "dec_likes", !.op = op, !.user = u]]
    BY <1>5 DEF BeginRemoval, Removals
  <2> DEFINE q == [Idle EXCEPT !.pc = "dec_likes", !.op = op, !.user = u]
  <2>2. /\ q \in Request /\ q.pc = "dec_likes" /\ q.op = op /\ q.user = u
        /\ q.held = {} /\ q.todo = {}
    BY Statements DEF Idle, Request, Steps, Operations
  <2> HIDE DEF q
  <2>3. Placed(q) /\ Addressed(q) /\ ~Inserting(q)
    BY <2>2, Statements DEF Placed, Addressed, Inserting, Removals
  <2> QED BY <1>0, <2>1, <2>2, <2>3, BeginStep DEF q
<1> QED BY <1>2, <1>3, <1>4, <1>5 DEF Begin

-----------------------------------------------------------------------------
(* What is read before a transaction.                                        *)
LEMMA TablesLoadComment ==
    ASSUME TablesInv, NEW r \in Requests, LoadComment(r)
    PROVE  TablesInv'
<1> DEFINE o == req[r]
           c == comments[o.comment]
<1>0. /\ UNCHANGED tables /\ o.pc = "load" /\ o \in Request /\ RequestOK(o) /\ Claims(o)
      /\ req \in [Requests -> Request]
  BY DEF LoadComment, At, TablesInv
<1>1. CASE Answer(r)
  BY <1>0, <1>1, AnswerStep
<1>2. CASE ~Answer(r)
  <2>1. PICK pc \in {"count", "video"} :
            /\ c # NULL /\ (pc = "count" => o.op = "delete_comment")
            /\ (pc = "video" => o.op = "reply")
            /\ req' = [req EXCEPT ![r].pc = pc, ![r].video = c.video]
    BY <1>0, <1>2 DEF LoadComment
  <2> DEFINE q == [o EXCEPT !.pc = pc, !.video = c.video]
  <2>2. req' = [req EXCEPT ![r] = q]
    BY <1>0, <2>1
  <2>3. o.op \in {"reply", "delete_comment"} /\ o.comment \in Requests /\ o.held = {}
    BY <1>0, <2>1 DEF RequestOK, Placed
  <2>4. c \in Comment
    BY <2>1, <2>3 DEF TablesInv, TablesOK
  <2>5. c.video \in Videos
    BY <2>4 DEF Comment
  <2>6. /\ q \in Request /\ q.pc = pc /\ q.video = c.video /\ q.op = o.op /\ q.user = o.user
        /\ q.peer = o.peer /\ q.comment = o.comment /\ q.held = o.held /\ q.todo = o.todo
    <3> HIDE DEF o, c
    <3>1. pc \in Steps
      BY DEF Steps
    <3> QED BY <1>0, <2>5, <3>1 DEF Request
  <2> HIDE DEF q
  <2>7. Placed(q)
    BY <1>0, <2>1, <2>3, <2>5, <2>6, Statements DEF RequestOK, Placed, Removals
  <2>8. \A x \in q.held : MayLock(q, x)
    BY <2>3, <2>6
  <2>9. Addressed(q) /\ ~Inserting(q) /\ Cascading(q)
    BY <1>0, <2>1, <2>3, <2>6 DEF Claims, Addressed, Inserting, Cascading
  <2>10. RequestOK(q) /\ Claims(q)
    BY <2>6, <2>7, <2>8, <2>9 DEF RequestOK, Claims, Anchored
  <2> QED BY <1>0, <2>2, <2>6, <2>10, QuietStep
<1> QED BY <1>1, <1>2

LEMMA VisibilityStep ==
    ASSUME TablesInv, NEW r \in Requests, UNCHANGED tables,
           req[r].pc \in {"video", "owner", "follower"},
           NEW pc \in {"owner", "follower", FirstStatement(req[r].op)}, Goto(r, pc)
    PROVE  TablesInv'
<1> DEFINE o == req[r]
<1>1. RequestOK(o) /\ o.pc \in {"video", "owner", "follower"}
  BY DEF TablesInv
<1>2. o.op \in {"like", "unlike", "comment", "reply"}
  BY <1>1 DEF RequestOK, Placed
<1>3. pc \in {"owner", "follower"} \/
      pc = IF o.op = "like" THEN "insert_like"
           ELSE IF o.op = "unlike" THEN "delete_like" ELSE "insert_comment"
  BY <1>2 DEF FirstStatement
<1>4. pc \in Steps /\ pc \notin {"new", "done", "load"}
  BY <1>3 DEF Steps
<1>5. ASSUME NEW q \in Request, SameWork(q, o), q.pc = pc
      PROVE  Placed(q) /\ ~Inserting(q)
  <2> HIDE DEF o
  <2>1. Placed(q)
    BY <1>1, <1>2, <1>3, <1>5, Statements DEF RequestOK, Placed, SameWork, Removals
  <2>2. ~Inserting(q)
    BY <1>3, <1>5 DEF Inserting
  <2> QED BY <2>1, <2>2
<1> QED BY <1>4, <1>5, GotoStep

LEMMA TablesCheck ==
    ASSUME TablesInv, NEW r \in Requests, Check(r)
    PROVE  TablesInv'
<1>1. CASE LoadComment(r)
  BY <1>1, TablesLoadComment
<1>2. CASE CheckVideo(r)
  <2>1. UNCHANGED tables /\ req[r].pc = "video"
    BY <1>2 DEF CheckVideo, At
  <2>2. Answer(r) \/ \E pc \in {"owner", "follower", FirstStatement(req[r].op)} : Goto(r, pc)
    BY <1>2 DEF CheckVideo
  <2> QED BY <2>1, <2>2, AnswerStep, VisibilityStep
<1>3. CASE CheckOwner(r)
  <2>1. UNCHANGED tables /\ req[r].pc = "owner"
    BY <1>3 DEF CheckOwner, At
  <2>2. Answer(r) \/ \E pc \in {"owner", "follower", FirstStatement(req[r].op)} : Goto(r, pc)
    BY <1>3 DEF CheckOwner
  <2> QED BY <2>1, <2>2, AnswerStep, VisibilityStep
<1>4. CASE CheckFollow(r)
  <2>1. UNCHANGED tables /\ req[r].pc = "follower"
    BY <1>4 DEF CheckFollow, At
  <2>2. Answer(r) \/ \E pc \in {"owner", "follower", FirstStatement(req[r].op)} : Goto(r, pc)
    BY <1>4 DEF CheckFollow
  <2> QED BY <2>1, <2>2, AnswerStep, VisibilityStep
<1> QED BY <1>1, <1>2, <1>3, <1>4 DEF Check

-----------------------------------------------------------------------------
(* The transactions of likes and comments.                                   *)

(* A lock that moves a counter of the video of the request.                  *)
LEMMA CounterStep ==
    ASSUME TablesInv, NEW r \in Requests, UNCHANGED tables, NEW why \in Counter,
           NEW pc \in {"notify", "commit"}, NEW locks, Hold(r, locks, pc),
           locks \subseteq {<<VideoRow(req[r].video), why>>},
           Free(r, VideoRow(req[r].video), why),
           \/ /\ req[r].pc \in {"inc_likes", "dec_like"} /\ why = "likes"
           \/ /\ req[r].pc \in {"inc_comments", "dec_comments_by"} /\ why = "comments",
           req[r].pc \in {"inc_likes", "inc_comments"} <=> pc = "notify"
    PROVE  TablesInv'
<1> DEFINE o == req[r]
<1>1. RequestOK(o) /\ Claims(o)
  BY DEF TablesInv
<1>2. /\ o.pc \in {"inc_likes", "dec_like", "inc_comments", "dec_comments_by"}
      /\ o.pc \in {"inc_likes", "inc_comments"} <=> pc = "notify"
      /\ o.pc = "inc_likes" => o.op = "like" /\ why = "likes"
      /\ o.pc = "dec_like" => o.op = "unlike" /\ why = "likes"
      /\ o.pc = "inc_comments" => o.op \in {"comment", "reply"} /\ why = "comments"
      /\ o.pc = "dec_comments_by" => o.op = "delete_comment" /\ why = "comments"
      /\ o.user \in Users /\ o.video \in Videos
  BY <1>1 DEF RequestOK, Placed
<1> DEFINE x == <<VideoRow(o.video), why>>
<1>3. x \in Lock /\ x[2] # "delete" /\ Free(r, x[1], x[2])
  BY <1>2, RowKinds DEF Lock, Counter
<1>4. MayLock(o, x)
  BY <1>2 DEF MayLock
<1>5. Available(r, locks) /\ \A y \in locks : y[2] # "delete"
  BY <1>3, <1>4 DEF Available
<1>6. pc \in Steps /\ pc \notin {"new", "done", "load"} /\ o.pc \notin {"new", "done", "load"}
  BY <1>2 DEF Steps
<1>7. ASSUME NEW q \in Request, SameWork(q, o), q.pc = pc, q.held = o.held \cup locks
      PROVE  Placed(q) /\ Anchored(q) /\ Cascading(q)
  <2> HIDE DEF o
  <2>1. Placed(q)
    BY <1>1, <1>2, <1>7, Statements DEF RequestOK, Placed, SameWork, Removals
  <2>2. Inserting(q) => Inserting(o)
    BY <1>2, <1>7 DEF Inserting, SameWork
  <2>3. Anchored(q)
    BY <1>1, <1>7, <2>2 DEF Claims, Anchored, SameWork, References
  <2>4. Cascading(q)
    BY <1>1, <1>5, <1>7, NoCascade DEF Claims
  <2> QED BY <2>1, <2>3, <2>4
<1>8. GoesOn(o, locks, pc)
  BY <1>7 DEF GoesOn
<1> QED BY <1>5, <1>6, <1>8, HoldStep

(* What a request of a local user on a video refers to.                      *)
LEMMA Referred ==
    ASSUME NEW q, q.user \in Users, q.video \in Videos
    PROVE  References(q) \subseteq Lock /\ \A x \in References(q) : x[2] # "delete"
  BY RowKinds DEF References, Lock

LEMMA TablesInsertLike ==
    ASSUME TablesInv, NEW r \in Requests, InsertLike(r)
    PROVE  TablesInv'
<1> DEFINE o == req[r]
           new == <<LikeRow(o.user, o.video), "insert">>
           locks == References(o) \cup {new}
<1>1. UNCHANGED tables /\ o.pc = "insert_like" /\ RequestOK(o) /\ Claims(o)
  BY DEF TablesInv, InsertLike, At
<1>2. o.op = "like" /\ o.user \in Users /\ o.video \in Videos
  BY <1>1 DEF RequestOK, Placed
<1>3. CASE Answer(r)
  BY <1>1, <1>3, AnswerStep
<1>4. CASE ~Answer(r)
  <2>1. /\ Free(r, LikeRow(o.user, o.video), "insert")
        /\ \A x \in References(o) : Free(r, x[1], x[2])
        /\ video[o.video] # "NONE"
        /\ Hold(r, locks, "inc_likes")
    BY <1>4 DEF InsertLike
  <2>2. new \in Lock /\ new[2] # "delete" /\ MayLock(o, new) /\ Free(r, new[1], new[2])
    BY <1>2, <2>1, RowKinds DEF Lock, Exclusive, MayLock
  <2>3. \A x \in References(o) : x \in Lock /\ x[2] # "delete" /\ MayLock(o, x)
    BY <1>2, Referred DEF MayLock
  <2>4. Available(r, locks) /\ \A x \in locks : x[2] # "delete"
    BY <2>1, <2>2, <2>3 DEF Available
  <2>5. ASSUME NEW q \in Request, SameWork(q, o), q.pc = "inc_likes", q.held = o.held \cup locks
        PROVE  Placed(q) /\ Anchored(q) /\ Cascading(q)
    <3>1. References(q) = References(o) /\ References(o) \subseteq q.held
      BY <2>5 DEF References, SameWork
    <3> HIDE DEF o, locks
    <3>2. Cascading(q)
      BY <1>1, <2>4, <2>5, NoCascade DEF Claims
    <3>3. Placed(q)
      BY <1>1, <1>2, <2>5, Statements DEF RequestOK, Placed, SameWork, Removals
    <3>4. Anchored(q)
      BY <1>2, <2>1, <2>5, <3>1 DEF Anchored, SameWork
    <3> QED BY <3>2, <3>3, <3>4
  <2>6. "inc_likes" \in Steps
    BY DEF Steps
  <2> HIDE DEF locks
  <2>7. GoesOn(o, locks, "inc_likes")
    BY <2>5 DEF GoesOn
  <2> QED BY <1>1, <2>1, <2>4, <2>6, <2>7, HoldStep
<1> QED BY <1>3, <1>4

(* The statements that move a counter.                                       *)
LEMMA TablesCounters ==
    ASSUME TablesInv, NEW r \in Requests,
           \/ IncrementLikesCount(r) \/ DecrementLikesCount(r)
           \/ IncrementCommentsCount(r) \/ DecrementCommentsCountBy(r)
    PROVE  TablesInv'
<1> DEFINE row == VideoRow(req[r].video)
<1>1. CASE IncrementLikesCount(r)
  <2>1. /\ UNCHANGED tables /\ req[r].pc = "inc_likes" /\ Free(r, row, "likes")
        /\ Hold(r, {<<row, "likes">>}, "notify")
    BY <1>1 DEF IncrementLikesCount, At
  <2> QED BY <2>1, CounterStep DEF Counter
<1>2. CASE DecrementLikesCount(r)
  <2>1. /\ UNCHANGED tables /\ req[r].pc = "dec_like" /\ Free(r, row, "likes")
        /\ Hold(r, {<<row, "likes">>}, "commit")
    BY <1>2 DEF DecrementLikesCount, At
  <2> QED BY <2>1, CounterStep DEF Counter
<1>3. CASE IncrementCommentsCount(r)
  <2>1. /\ UNCHANGED tables /\ req[r].pc = "inc_comments" /\ Free(r, row, "comments")
        /\ Hold(r, {<<row, "comments">>}, "notify")
    BY <1>3 DEF IncrementCommentsCount, At
  <2> QED BY <2>1, CounterStep DEF Counter
<1>4. CASE DecrementCommentsCountBy(r)
  <2>1. /\ UNCHANGED tables /\ req[r].pc = "dec_comments_by" /\ Free(r, row, "comments")
        /\ \E locks \in SUBSET {<<row, "comments">>} : Hold(r, locks, "commit")
    BY <1>4 DEF DecrementCommentsCountBy, At
  <2> QED BY <2>1, CounterStep DEF Counter
<1> QED BY <1>1, <1>2, <1>3, <1>4

LEMMA TablesDeleteLike ==
    ASSUME TablesInv, NEW r \in Requests, DeleteLike(r)
    PROVE  TablesInv'
<1> DEFINE o == req[r]
           old == <<LikeRow(o.user, o.video), "delete">>
           locks == {old}
<1>1. UNCHANGED tables /\ o.pc = "delete_like" /\ RequestOK(o) /\ Claims(o)
  BY DEF TablesInv, DeleteLike, At
<1>2. o.op = "unlike" /\ o.user \in Users /\ o.video \in Videos
  BY <1>1 DEF RequestOK, Placed
<1>3. CASE Answer(r)
  BY <1>1, <1>3, AnswerStep
<1>4. CASE ~Answer(r)
  <2>1. Free(r, LikeRow(o.user, o.video), "delete") /\ Hold(r, locks, "dec_like")
    BY <1>4 DEF DeleteLike
  <2>2. old \in Lock /\ MayLock(o, old) /\ Free(r, old[1], old[2])
    BY <1>2, <2>1, RowKinds DEF Lock, Exclusive, MayLock
  <2>3. Available(r, locks)
    BY <2>2 DEF Available
  <2>4. ASSUME NEW q \in Request, SameWork(q, o), q.pc = "dec_like", q.held = o.held \cup locks
        PROVE  Placed(q) /\ Anchored(q) /\ Cascading(q)
    <3>1. \A c : CommentRow(c) # LikeRow(o.user, o.video)
      BY RowsDiffer
    <3>2. \A c : <<CommentRow(c), "delete">> \in q.held <=> <<CommentRow(c), "delete">> \in o.held
      BY <2>4, <3>1
    <3>3. \A v : <<VideoRow(v), "delete">> \in q.held <=> <<VideoRow(v), "delete">> \in o.held
      BY <2>4, RowsDiffer
    <3>4. Cascading(q)
      BY <1>1, <3>2, <3>3 DEF Claims, Cascading
    <3> HIDE DEF o, locks
    <3>5. Placed(q)
      BY <1>1, <1>2, <2>4, Statements DEF RequestOK, Placed, SameWork, Removals
    <3>6. ~Inserting(q)
      BY <1>2, <2>4 DEF Inserting, SameWork
    <3> QED BY <3>4, <3>5, <3>6 DEF Anchored
  <2>5. "dec_like" \in Steps
    BY DEF Steps
  <2> HIDE DEF locks
  <2>6. GoesOn(o, locks, "dec_like")
    BY <2>4 DEF GoesOn
  <2> QED BY <1>1, <2>1, <2>3, <2>5, <2>6, HoldStep
<1> QED BY <1>3, <1>4

LEMMA TablesInsertComment ==
    ASSUME TablesInv, NEW r \in Requests, InsertComment(r)
    PROVE  TablesInv'
<1> DEFINE o == req[r]
           parent == <<CommentRow(o.comment), "reference">>
           locks == References(o) \cup (IF o.op = "reply" THEN {parent} ELSE {})
<1>1. UNCHANGED tables /\ o.pc = "insert_comment" /\ RequestOK(o) /\ Claims(o)
  BY DEF TablesInv, InsertComment, At
<1>2. /\ o.op \in {"comment", "reply"} /\ o.user \in Users /\ o.video \in Videos
      /\ o.op = "reply" => o.comment \in Requests
  BY <1>1 DEF RequestOK, Placed
<1>3. CASE Answer(r)
  BY <1>1, <1>3, AnswerStep
<1>4. CASE ~Answer(r)
  <2>1. /\ \A x \in locks : Free(r, x[1], x[2]) /\ Present(x[1])
        /\ Hold(r, locks, "inc_comments")
    BY <1>4 DEF InsertComment
  <2>2. \A x \in References(o) : x \in Lock /\ x[2] # "delete" /\ MayLock(o, x)
    BY <1>2, Referred DEF MayLock
  <2>3. o.op = "reply" => parent \in Lock /\ parent[2] # "delete" /\ MayLock(o, parent)
    BY <1>2, RowKinds DEF Lock, MayLock
  <2>4. Available(r, locks) /\ \A x \in locks : x[2] # "delete"
    BY <2>1, <2>2, <2>3 DEF Available
  <2>5. video[o.video] # "NONE"
    <3> DEFINE x == <<VideoRow(o.video), "reference">>
    <3>1. x \in locks /\ x[1] = VideoRow(o.video)
      BY DEF References
    <3> HIDE DEF locks, x
    <3>2. Present(VideoRow(o.video))
      BY <2>1, <3>1
    <3> QED BY <3>2 DEF Present, VideoRow
  <2>6. o.op = "reply" => comments[o.comment] # NULL
    <3>1. o.op = "reply" => parent \in locks /\ parent[1] = CommentRow(o.comment)
      OBVIOUS
    <3> HIDE DEF locks, parent
    <3>2. o.op = "reply" => Present(CommentRow(o.comment))
      BY <2>1, <3>1
    <3> QED BY <3>2 DEF Present, CommentRow
  <2>7. ASSUME NEW q \in Request, SameWork(q, o), q.pc = "inc_comments", q.held = o.held \cup locks
        PROVE  Placed(q) /\ Anchored(q) /\ Cascading(q)
    <3>1. References(q) = References(o) /\ References(o) \subseteq q.held
      BY <2>7 DEF References, SameWork
    <3>2. o.op = "reply" => parent \in q.held
      BY <2>7
    <3>3. Anchored(q)
      BY <1>2, <2>5, <2>6, <2>7, <3>1, <3>2 DEF Anchored, SameWork
    <3> HIDE DEF o, locks
    <3>4. Cascading(q)
      BY <1>1, <2>4, <2>7, NoCascade DEF Claims
    <3>5. Placed(q)
      BY <1>1, <1>2, <2>7, Statements DEF RequestOK, Placed, SameWork, Removals
    <3> QED BY <3>3, <3>4, <3>5
  <2>8. "inc_comments" \in Steps
    BY DEF Steps
  <2> HIDE DEF locks
  <2>9. GoesOn(o, locks, "inc_comments")
    BY <2>7 DEF GoesOn
  <2> QED BY <1>1, <2>1, <2>4, <2>8, <2>9, HoldStep
<1> QED BY <1>3, <1>4

(* Notifications go to local users.                                          *)
LEMMA RecipientsAreUsers ==
    ASSUME TablesOK, NEW q, q.video \in Videos
    PROVE  Recipients(q) \subseteq Users
<1>1. Owner[q.video] \in Users
  BY SocialConstants
<1>2. \A c \in Requests : comments[c] # NULL => comments[c].user \in Users
  BY DEF TablesOK, Comment
<1> QED BY <1>1, <1>2 DEF Recipients

LEMMA TablesInsertNotification ==
    ASSUME TablesInv, NEW r \in Requests, InsertNotification(r)
    PROVE  TablesInv'
<1> DEFINE o == req[r]
           who == IF Recipients(o) = {} THEN {} ELSE Recipients(o) \cup {o.user}
           locks == {<<UserRow(u), "reference">> : u \in who}
<1>1. UNCHANGED tables /\ o.pc = "notify" /\ RequestOK(o) /\ Claims(o)
  BY DEF TablesInv, InsertNotification, At
<1>2. o.op \in {"like", "comment", "reply"} /\ o.user \in Users /\ o.video \in Videos
  BY <1>1 DEF RequestOK, Placed
<1>3. (\A x \in locks : Free(r, x[1], x[2])) /\ Hold(r, locks, "commit")
  BY DEF InsertNotification
<1>4. who \subseteq Users
  BY <1>2, RecipientsAreUsers DEF TablesInv
<1> HIDE DEF who
<1>5. \A x \in locks : x \in Lock /\ x[2] # "delete" /\ MayLock(o, x)
  BY <1>2, <1>4, RowKinds DEF Lock, MayLock
<1>6. Available(r, locks)
  BY <1>3, <1>5 DEF Available
<1> HIDE DEF locks
<1>7. ASSUME NEW q \in Request, SameWork(q, o), q.pc = "commit", q.held = o.held \cup locks
      PROVE  Placed(q) /\ Anchored(q) /\ Cascading(q)
  <2> HIDE DEF o
  <2>1. Cascading(q)
    BY <1>1, <1>5, <1>7, NoCascade DEF Claims
  <2>2. Placed(q)
    BY <1>1, <1>2, <1>7, Statements DEF RequestOK, Placed, SameWork, Removals
  <2>3. Anchored(q)
    BY <1>1, <1>2, <1>7 DEF Claims, Anchored, Inserting, SameWork, References
  <2> QED BY <2>1, <2>2, <2>3
<1>8. "commit" \in Steps
  BY DEF Steps
<1>9. GoesOn(o, locks, "commit")
  BY <1>7 DEF GoesOn
<1> QED BY <1>1, <1>3, <1>6, <1>8, <1>9, HoldStep

-----------------------------------------------------------------------------
(* Deletions.                                                                *)

(* The rows of each kind.                                                    *)
LEMMA RowCases ==
    ASSUME NEW row \in RowOf
    PROVE  \/ \E v \in Videos : row = VideoRow(v)
           \/ \E u \in Users : row = UserRow(u)
           \/ \E c \in Requests : row = CommentRow(c)
           \/ \E u \in Users, v \in Videos : row = LikeRow(u, v)
           \/ \E u, w \in Users : row = FollowRow(u, w)
           \/ \E n \in Note : row = NoteRow(n)
  BY DEF VideoRow, UserRow, CommentRow, LikeRow, FollowRow, NoteRow, RowOf

(* What goes with a row of each kind.                                        *)
LEMMA CascadeOf ==
    /\ \A v : Cascade(VideoRow(v)) = {VideoRow(v)} \cup {LikeRow(u, v) : u \in likes[v]}
                                       \cup {CommentRow(c) : c \in CommentsOf(v)}
    /\ \A c : Cascade(CommentRow(c)) = {CommentRow(d) : d \in Subtree(c)}
    /\ \A u : Cascade(UserRow(u)) = {UserRow(u)}
    /\ \A u, v : Cascade(LikeRow(u, v)) = {LikeRow(u, v)}
    /\ \A u, w : Cascade(FollowRow(u, w)) = {FollowRow(u, w)}
    /\ \A n : Cascade(NoteRow(n)) = {NoteRow(n)}
<1>1. \A v : VideoRow(v)[1] = "video" /\ VideoRow(v)[2] = v
  BY DEF VideoRow
<1>2. \A c : CommentRow(c)[1] = "comment" /\ CommentRow(c)[2] = c
  BY DEF CommentRow
<1>3. /\ \A u : UserRow(u)[1] = "user"
      /\ \A u, v : LikeRow(u, v)[1] = "like"
      /\ \A u, w : FollowRow(u, w)[1] = "follow"
      /\ \A n : NoteRow(n)[1] = "note"
  BY DEF UserRow, LikeRow, FollowRow, NoteRow
<1>4. \A v : Cascade(VideoRow(v)) = {VideoRow(v)} \cup {LikeRow(u, v) : u \in likes[v]}
                                      \cup {CommentRow(c) : c \in CommentsOf(v)}
  BY <1>1 DEF Cascade
<1>5. \A c : Cascade(CommentRow(c)) = {CommentRow(d) : d \in Subtree(c)}
  BY <1>2 DEF Cascade
<1>6. /\ \A u : Cascade(UserRow(u)) = {UserRow(u)}
      /\ \A u, v : Cascade(LikeRow(u, v)) = {LikeRow(u, v)}
      /\ \A u, w : Cascade(FollowRow(u, w)) = {FollowRow(u, w)}
      /\ \A n : Cascade(NoteRow(n)) = {NoteRow(n)}
  BY <1>3 DEF Cascade
<1> QED BY <1>4, <1>5, <1>6

LEMMA CascadeKind ==
    ASSUME TablesOK, NEW row \in RowOf
    PROVE  Cascade(row) \subseteq RowOf
<1>1. CASE \E v \in Videos : row = VideoRow(v)
  <2>1. PICK v \in Videos : row = VideoRow(v)
    BY <1>1
  <2>2. likes[v] \subseteq Users /\ CommentsOf(v) \subseteq Requests
    BY DEF TablesOK, CommentsOf
  <2> QED BY <2>1, <2>2, CascadeOf, RowKinds
<1>2. CASE \E c \in Requests : row = CommentRow(c)
  <2>1. PICK c \in Requests : row = CommentRow(c)
    BY <1>2
  <2>2. Subtree(c) \subseteq Requests
    BY SubtreeCloses
  <2> QED BY <2>1, <2>2, CascadeOf, RowKinds
<1>3. CASE Cascade(row) = {row}
  BY <1>3
<1> QED BY <1>1, <1>2, <1>3, RowCases, CascadeOf

(* With what goes with a row, nothing is left behind.                        *)
LEMMA CascadeCloses ==
    ASSUME TablesOK, ThreadsWhole, NEW row \in RowOf, NEW o, NEW q, Cascading(o),
           q.held = o.held \cup {<<x, "delete">> : x \in Cascade(row)}
    PROVE  Cascading(q)
<1> DEFINE rows == Cascade(row)
<1>1. \A x : <<x, "delete">> \in q.held <=> <<x, "delete">> \in o.held \/ x \in rows
  OBVIOUS
<1>2. \A c \in Requests : comments[c] # NULL =>
         /\ VideoRow(comments[c].video) \in rows => CommentRow(c) \in rows
         /\ CommentRow(comments[c].parent) \in rows => CommentRow(c) \in rows
  <2> SUFFICES ASSUME NEW c \in Requests, comments[c] # NULL
               PROVE  /\ VideoRow(comments[c].video) \in rows => CommentRow(c) \in rows
                      /\ CommentRow(comments[c].parent) \in rows => CommentRow(c) \in rows
    OBVIOUS
  <2>1. CASE \E v \in Videos : row = VideoRow(v)
    <3>1. PICK v \in Videos : row = VideoRow(v)
      BY <2>1
    <3>2. rows = {VideoRow(v)} \cup {LikeRow(u, v) : u \in likes[v]}
                   \cup {CommentRow(d) : d \in CommentsOf(v)}
      BY <3>1, CascadeOf
    <3> HIDE DEF rows
    <3>3. VideoRow(comments[c].video) \in rows => comments[c].video = v
      BY <3>2, RowNames, RowsDiffer
    <3>4. CommentRow(comments[c].parent) \in rows => comments[c].parent \in CommentsOf(v)
      BY <3>2, RowNames, RowsDiffer
    <3>5. comments[c].parent \in CommentsOf(v) => comments[c].video = v
      BY SocialConstants DEF ThreadsWhole, CommentsOf
    <3>6. comments[c].video = v => c \in CommentsOf(v)
      BY DEF CommentsOf
    <3> QED BY <3>2, <3>3, <3>4, <3>5, <3>6
  <2>2. CASE \E d \in Requests : row = CommentRow(d)
    <3>1. PICK d \in Requests : row = CommentRow(d)
      BY <2>2
    <3>2. rows = {CommentRow(e) : e \in Subtree(d)}
      BY <3>1, CascadeOf
    <3> HIDE DEF rows
    <3>3. VideoRow(comments[c].video) \notin rows
      BY <3>2, RowsDiffer
    <3>4. CommentRow(comments[c].parent) \in rows => comments[c].parent \in Subtree(d)
      BY <3>2, RowNames
    <3>5. comments[c].parent \in Subtree(d) => c \in Subtree(d)
      BY SubtreeCloses
    <3> QED BY <3>2, <3>3, <3>4, <3>5
  <2>3. CASE ~(\E v \in Videos : row = VideoRow(v)) /\ ~(\E d \in Requests : row = CommentRow(d))
    <3>1. rows = {row}
      BY <2>3, RowCases, CascadeOf
    <3>2. \A v, d : row # VideoRow(v) /\ row # CommentRow(d)
      BY <2>3, RowCases, RowsDiffer
    <3> QED BY <3>1, <3>2
  <2> QED BY <2>1, <2>2, <2>3
<1> HIDE DEF rows
<1> QED BY <1>1, <1>2 DEF Cascading

LEMMA TablesCountSubtree ==
    ASSUME TablesInv, NEW r \in Requests, CountCommentSubtree(r)
    PROVE  TablesInv'
<1> DEFINE o == req[r]
           k == Cardinality(Subtree(o.comment))
           q == [o EXCEPT !.n = k, !.pc = "delete_comment"]
<1>1. /\ UNCHANGED tables /\ o.pc = "count" /\ RequestOK(o) /\ Claims(o) /\ o \in Request
      /\ req \in [Requests -> Request]
  BY DEF TablesInv, CountCommentSubtree, At
<1>2. o.op = "delete_comment" /\ o.user \in Users /\ o.comment \in Requests
  BY <1>1 DEF RequestOK, Placed
<1>3. req' = [req EXCEPT ![r] = q]
  BY <1>1 DEF CountCommentSubtree
<1>4. k \in Nat
  <2>1. IsFiniteSet(Subtree(o.comment))
    BY SubtreeCloses, SocialConstants, FS_Subset
  <2> QED BY <2>1, FS_CardinalityType
<1>5. /\ q \in Request /\ q.pc = "delete_comment" /\ q.op = o.op /\ q.user = o.user
      /\ q.video = o.video /\ q.peer = o.peer /\ q.comment = o.comment
      /\ q.todo = o.todo /\ q.held = o.held
  <2> HIDE DEF o, k
  <2>1. "delete_comment" \in Steps
    BY DEF Steps
  <2> QED BY <1>1, <1>4, <2>1 DEF Request
<1> HIDE DEF q, o
<1>6. Placed(q)
  BY <1>1, <1>2, <1>5, Statements DEF RequestOK, Placed, Removals
<1>7. \A x \in q.held : MayLock(q, x)
  BY <1>1, <1>5 DEF RequestOK, MayLock, References
<1>8. Claims(q)
  BY <1>1, <1>2, <1>5 DEF Claims, Addressed, Anchored, Inserting, Cascading
<1>9. req[r].pc # "done" /\ \A x \in q.held : x \in req[r].held
  BY <1>1, <1>5 DEF o
<1> QED BY <1>1, <1>3, <1>5, <1>6, <1>7, <1>8, <1>9, QuietStep DEF RequestOK

LEMMA TablesDeleteComment ==
    ASSUME TablesInv, NEW r \in Requests, DeleteCommentByID(r)
    PROVE  TablesInv'
<1> DEFINE o == req[r]
           row == CommentRow(o.comment)
           rows == Cascade(row)
           locks == {<<x, "delete">> : x \in rows}
<1>1. /\ UNCHANGED tables /\ o.pc = "delete_comment" /\ RequestOK(o) /\ Claims(o)
      /\ TablesOK /\ ThreadsWhole
  BY DEF TablesInv, DeleteCommentByID, At
<1>2. o.op = "delete_comment" /\ o.user \in Users /\ o.comment \in Requests /\ o.video \in Videos
  BY <1>1 DEF RequestOK, Placed
<1>3. PICK pc \in {"dec_comments_by", "commit"} : Hold(r, locks, pc)
  BY DEF DeleteCommentByID
<1>4. \A x \in rows : Free(r, x, "delete")
  BY DEF DeleteCommentByID
<1>5. \A x \in rows : \E c \in Requests : x = CommentRow(c)
  BY CascadeOf, SubtreeCloses
<1> HIDE DEF rows
<1>6. \A x \in locks : x \in Lock /\ MayLock(o, x)
  BY <1>2, <1>5, RowKinds DEF Lock, MayLock, Exclusive
<1>7. Available(r, locks)
  BY <1>4, <1>6 DEF Available
<1>8. ASSUME NEW q \in Request, SameWork(q, o), q.pc = pc, q.held = o.held \cup locks
      PROVE  Placed(q) /\ Anchored(q) /\ Cascading(q)
  <2>1. Cascading(q)
    BY <1>1, <1>2, <1>8, RowKinds, CascadeCloses DEF Claims, rows
  <2> HIDE DEF o, locks
  <2>2. Placed(q)
    BY <1>1, <1>2, <1>8, Statements DEF RequestOK, Placed, SameWork, Removals
  <2>3. ~Inserting(q)
    BY <1>2, <1>8 DEF Inserting, SameWork
  <2> QED BY <2>1, <2>2, <2>3 DEF Anchored
<1>9. pc \in Steps
  BY DEF Steps
<1> HIDE DEF locks
<1>10. GoesOn(o, locks, pc)
  BY <1>8 DEF GoesOn
<1> QED BY <1>1, <1>3, <1>7, <1>9, <1>10, HoldStep

(* What a statement of the removal is about are rows in the tables.          *)
LEMMA SnapshotRows ==
    ASSUME TablesOK, NEW u \in Users, NEW statement \in DOMAIN NextStatement
    PROVE  Snapshot(u, statement) \subseteq Lock
<1>1. /\ follows \subseteq Users \X Users /\ notes \subseteq Note
      /\ likes \in [Videos -> SUBSET Users]
  BY DEF TablesOK
<1>2. \A x \in Exclusive \cup Counter, row \in RowOf : <<row, x>> \in Lock
  BY DEF Lock
<1>3. CASE statement = "dec_likes"
  BY <1>2, <1>3, RowKinds DEF Snapshot, Counter
<1>4. CASE statement = "dec_comments"
  BY <1>2, <1>4, RowKinds DEF Snapshot, Counter
<1>5. CASE statement = "del_videos"
  BY <1>2, <1>5, RowKinds DEF Snapshot, Exclusive
<1>6. CASE statement = "del_following"
  <2>1. \A f \in follows : <<FollowRow(f[1], f[2]), "delete">> \in Lock
    BY <1>1, <1>2, RowKinds DEF Exclusive
  <2> QED BY <1>6, <2>1 DEF Snapshot
<1>7. CASE statement = "del_followers"
  <2>1. \A f \in follows : <<FollowRow(f[1], f[2]), "delete">> \in Lock
    BY <1>1, <1>2, RowKinds DEF Exclusive
  <2> QED BY <1>7, <2>1 DEF Snapshot
<1>8. CASE statement = "del_likes"
  BY <1>2, <1>8, RowKinds DEF Snapshot, Exclusive
<1>9. CASE statement = "del_comments"
  BY <1>2, <1>9, RowKinds DEF Snapshot, Exclusive
<1>10. CASE statement = "del_inbox"
  BY <1>1, <1>2, <1>10, RowKinds DEF Snapshot, Exclusive
<1>11. CASE statement = "del_sent"
  BY <1>1, <1>2, <1>11, RowKinds DEF Snapshot, Exclusive
<1>12. CASE statement = "tombstone"
  BY <1>2, <1>12, RowKinds DEF Snapshot, Exclusive
<1> QED BY <1>3, <1>4, <1>5, <1>6, <1>7, <1>8, <1>9, <1>10, <1>11, <1>12, Statements

LEMMA TablesStartStatement ==
    ASSUME TablesInv, NEW r \in Requests, StartStatement(r)
    PROVE  TablesInv'
<1> DEFINE o == req[r]
           todo == Snapshot(o.user, o.pc)
           pc == NextStatement[o.pc]
           q == [o EXCEPT !.todo = todo, !.pc = pc]
<1>1. /\ UNCHANGED tables /\ o.pc \in DOMAIN NextStatement /\ RequestOK(o) /\ Claims(o)
      /\ o \in Request /\ req \in [Requests -> Request] /\ TablesOK
  BY DEF TablesInv, StartStatement
<1>2. o.op \in Removals /\ o.user \in Users
  BY <1>1 DEF RequestOK, Placed
<1>3. req' = [req EXCEPT ![r] = q]
  BY <1>1 DEF StartStatement
<1>4. todo \in SUBSET Lock
  BY <1>1, <1>2, SnapshotRows
<1>5. pc \in Steps /\ pc \in (DOMAIN NextStatement \cup {"commit"}) \ {"dec_likes"}
  BY <1>1, Statements DEF Steps
<1>6. /\ q \in Request /\ q.pc = pc /\ q.op = o.op /\ q.user = o.user
      /\ q.video = o.video /\ q.peer = o.peer /\ q.comment = o.comment /\ q.held = o.held
  <2> HIDE DEF o, todo, pc
  <2> QED BY <1>1, <1>4, <1>5 DEF Request
<1> HIDE DEF q, o, pc
<1>7. Placed(q)
  BY <1>2, <1>5, <1>6, Statements DEF Placed, Removals
<1>8. \A x \in q.held : MayLock(q, x)
  BY <1>2, <1>6 DEF MayLock
<1>9. Claims(q)
  BY <1>1, <1>2, <1>6 DEF Claims, Addressed, Anchored, Inserting, Cascading, Removals
<1>10. req[r].pc # "done" /\ \A x \in q.held : x \in req[r].held
  BY <1>1, <1>6, Statements DEF o
<1> QED BY <1>1, <1>3, <1>6, <1>7, <1>8, <1>9, <1>10, QuietStep DEF RequestOK

LEMMA TablesLockRow ==
    ASSUME TablesInv, NEW r \in Requests, LockRow(r)
    PROVE  TablesInv'
<1> DEFINE o == req[r]
<1>1. /\ UNCHANGED tables /\ RequestOK(o) /\ Claims(o)
      /\ o \in Request /\ req \in [Requests -> Request] /\ TablesOK /\ ThreadsWhole
  BY DEF TablesInv, LockRow
<1>2. PICK lock \in o.todo :
        LET rows == IF ~Present(lock[1]) THEN {}
                    ELSE IF lock[2] = "delete" THEN Cascade(lock[1]) ELSE {lock[1]}
        IN  /\ \A row \in rows : Free(r, row, lock[2])
            /\ req' = [req EXCEPT ![r].todo = @ \ {lock},
                                  ![r].held = @ \cup {<<row, lock[2]>> : row \in rows}]
  BY DEF LockRow
<1>3. o.op \in Removals /\ o.user \in Users /\ o.pc \notin {"new", "done", "load"}
  BY <1>1, <1>2 DEF RequestOK, Placed
<1>4. lock \in Lock /\ lock[1] \in RowOf /\ o.held \in SUBSET Lock /\ o.todo \in SUBSET Lock
  BY <1>1, <1>2 DEF Request, Lock
<1> DEFINE rows == IF ~Present(lock[1]) THEN {}
                   ELSE IF lock[2] = "delete" THEN Cascade(lock[1]) ELSE {lock[1]}
           locks == {<<row, lock[2]>> : row \in rows}
           todo == o.todo \ {lock}
           held == o.held \cup locks
           q == [o EXCEPT !.todo = todo, !.held = held]
<1>5. req' = [req EXCEPT ![r] = q]
  BY <1>1, <1>2
<1>6. rows \subseteq RowOf
  BY <1>1, <1>4, CascadeKind
<1>7. locks \subseteq Lock
  <2> HIDE DEF rows
  <2> QED BY <1>4, <1>6 DEF Lock
<1>8. /\ q \in Request /\ q.pc = o.pc /\ q.op = o.op /\ q.user = o.user
      /\ q.video = o.video /\ q.peer = o.peer /\ q.comment = o.comment
      /\ q.held = o.held \cup locks
  <2>1. todo \in SUBSET Lock /\ held \in SUBSET Lock
    BY <1>4, <1>7
  <2> HIDE DEF o, todo, locks
  <2> QED BY <1>1, <2>1 DEF Request
<1>9. Cascading(q)
  <2>1. CASE lock[2] = "delete" /\ Present(lock[1])
    <3>1. locks = {<<row, "delete">> : row \in Cascade(lock[1])}
      BY <2>1
    <3> HIDE DEF q, o, locks
    <3> QED BY <1>1, <1>4, <1>8, <3>1, CascadeCloses DEF Claims
  <2>2. CASE lock[2] # "delete" \/ ~Present(lock[1])
    <3>1. \A x \in locks : x[2] # "delete"
      BY <2>2
    <3> HIDE DEF q, o, locks
    <3> QED BY <1>1, <1>8, <3>1, NoCascade DEF Claims
  <2> QED BY <2>1, <2>2
<1>10. \A x \in q.held : x \in req[r].held \/ Free(r, x[1], x[2])
  <2>1. \A row \in rows : Free(r, row, lock[2])
    BY <1>2
  <2> HIDE DEF q, rows
  <2> QED BY <1>8, <2>1
<1>11. req[r].pc # "done"
  BY <1>3
<1> HIDE DEF q, o, locks
<1>12. Placed(q)
  <2>1. q.todo \in SUBSET Lock
    BY <1>8 DEF Request
  <2> QED BY <1>1, <1>3, <1>8, Statements DEF RequestOK, Placed, Removals
<1>13. \A x \in q.held : MayLock(q, x)
  BY <1>3, <1>8 DEF MayLock
<1>14. Claims(q)
  BY <1>1, <1>3, <1>8, <1>9 DEF Claims, Addressed, Anchored, Inserting, Removals
<1> QED BY <1>1, <1>5, <1>8, <1>10, <1>11, <1>12, <1>13, <1>14, QuietStep DEF RequestOK

(* The rollback of a transaction.                                            *)
LEMMA TablesFail ==
    ASSUME TablesInv, NEW r \in Requests, Fail(r)
    PROVE  TablesInv'
  BY AnswerStep DEF Fail, InFlight

-----------------------------------------------------------------------------
(* The statements of FollowUser.                                             *)
LEMMA FollowGoesOn ==
    ASSUME TablesInv, NEW r \in Requests,
           req[r].pc \in {"target", "insert_follow", "reload_follow"}
    PROVE  /\ req[r].user \in Users /\ req[r].peer \in Users
           /\ \A q \in Request :
                /\ SameWork(q, req[r])
                /\ q.pc \in {"insert_follow", "reload_follow", "notify_follow"}
                => Placed(q) /\ ~Inserting(q)
<1> DEFINE o == req[r]
<1>1. RequestOK(o) /\ o.pc \in {"target", "insert_follow", "reload_follow"}
  BY DEF TablesInv
<1> HIDE DEF o
<1>2. o.op = "follow" /\ o.user \in Users /\ o.peer \in Users /\ o.todo = {}
  BY <1>1 DEF RequestOK, Placed, Removals
<1>3. ASSUME NEW q \in Request, SameWork(q, o),
             q.pc \in {"insert_follow", "reload_follow", "notify_follow"}
      PROVE  Placed(q) /\ ~Inserting(q)
  BY <1>2, <1>3, Statements DEF Placed, SameWork, Inserting, Removals
<1> QED BY <1>2, <1>3 DEF o

LEMMA TablesFollow ==
    ASSUME TablesInv, NEW r \in Requests, Follow(r)
    PROVE  TablesInv'
<1> DEFINE o == req[r]
<1>0. TablesOK /\ {"insert_follow", "reload_follow", "notify_follow"} \subseteq Steps
  BY DEF TablesInv, Steps
<1>1. CASE LoadTarget(r)
  <2>1. UNCHANGED tables /\ o.pc = "target" /\ (Answer(r) \/ Goto(r, "insert_follow"))
    BY <1>1 DEF LoadTarget, At
  <2> QED BY <1>0, <2>1, AnswerStep, FollowGoesOn, GotoStep
<1>2. CASE FollowUser(r)
  <2>1. /\ o.pc = "insert_follow" /\ Goto(r, "reload_follow")
        /\ follows' = follows \cup {<<o.user, o.peer>>}
        /\ UNCHANGED <<video, active, tombstoned, private, likes, comments, likesCount,
                       commentsCount, notes>>
    BY <1>2 DEF FollowUser, At
  <2>2. o.user \in Users /\ o.peer \in Users
    BY <2>1, FollowGoesOn
  <2>3. TablesOK'
    BY <1>0, <2>1, <2>2 DEF TablesOK
  <2> QED BY <1>0, <2>1, <2>3, FollowGoesOn, MoveStep
<1>3. CASE GetFollow(r)
  <2>1. UNCHANGED tables /\ o.pc = "reload_follow" /\ (Answer(r) \/ Goto(r, "notify_follow"))
    BY <1>3 DEF GetFollow, At
  <2> QED BY <1>0, <2>1, AnswerStep, FollowGoesOn, GotoStep
<1>4. CASE NotifyFollow(r)
  <2> DEFINE note == [to |-> o.peer, actor |-> o.user, cause |-> r]
  <2>1. /\ o.pc = "notify_follow" /\ Answer(r)
        /\ notes' = notes \cup {note}
        /\ UNCHANGED <<video, active, tombstoned, private, follows, likes, comments,
                       likesCount, commentsCount>>
    BY <1>4 DEF NotifyFollow, At
  <2>2. o.user \in Users /\ o.peer \in Users
    BY <2>1 DEF TablesInv, RequestOK, Placed
  <2>3. note \in Note
    BY <2>2 DEF Note
  <2>4. TablesOK'
    BY <1>0, <2>1, <2>3 DEF TablesOK
  <2>5. PICK q : /\ req' = [req EXCEPT ![r] = q]
                 /\ q.pc = "done" /\ q.held = {} /\ RequestOK(q) /\ Claims(q)
    BY <2>1, Answered
  <2>6. \A n \in notes' : n \in notes \/ req'[n.cause].pc = "done"
    BY <2>1, <2>5 DEF TablesInv
  <2> QED BY <2>1, <2>4, <2>5, <2>6, RequestStep
<1> QED BY <1>1, <1>2, <1>3, <1>4 DEF Follow

-----------------------------------------------------------------------------
(* Requests of one statement.                                                *)
LEMMA SingleStep ==
    ASSUME TablesInv, TablesOK', UNCHANGED req, notes' \subseteq notes,
           \A c \in Requests : comments'[c] # NULL => comments'[c] = comments[c],
           ThreadsWhole', \A r \in Requests : Anchored(req[r])'
    PROVE  TablesInv'
<1>1. Written' /\ LocksCompatible' /\ req' \in [Requests -> Request]
  BY DEF TablesInv, Written, LocksCompatible
<1>2. ASSUME NEW r \in Requests
      PROVE  (RequestOK(req[r]) /\ Claims(req[r]))'
  <2>0. PICK o : o = req[r] /\ o = req'[r]
    OBVIOUS
  <2>1. RequestOK(o) /\ Claims(o)
    BY <1>2, <2>0 DEF TablesInv
  <2>2. RequestOK(req[r])'
    BY <2>0, <2>1 DEF RequestOK, MayLock, Placed, References
  <2>3. o.op \in {"reply", "delete_comment"} => o.comment \in Requests
    BY <2>1 DEF RequestOK, Placed
  <2>4. Addressed(req[r])'
    BY <2>0, <2>1, <2>3 DEF Claims, Addressed
  <2>5. Cascading(req[r])'
    BY <2>0, <2>1 DEF Claims, Cascading
  <2> QED BY <1>2, <2>2, <2>4, <2>5 DEF Claims
<1> QED BY <1>1, <1>2 DEF TablesInv

(* ... that leave the videos and comments alone.                             *)
LEMMA SingleQuiet ==
    ASSUME TablesInv, TablesOK', UNCHANGED <<video, comments, notes, req>>
    PROVE  TablesInv'
<1>1. ThreadsWhole'
  BY DEF TablesInv, ThreadsWhole
<1>2. \A r \in Requests : Anchored(req[r])'
  BY DEF TablesInv, Claims, Anchored, Inserting, References
<1> QED BY <1>1, <1>2, SingleStep

LEMMA TablesDeleteVideoRow ==
    ASSUME TablesInv, NEW v \in Videos, DeleteVideoRow(v)
    PROVE  TablesInv'
<1>0. /\ video' = [video EXCEPT ![v] = "NONE"]
      /\ likes' = [likes EXCEPT ![v] = {}]
      /\ comments' = [c \in Requests |-> IF c \in CommentsOf(v) THEN NULL ELSE comments[c]]
      /\ UNCHANGED <<active, tombstoned, private, follows, likesCount, commentsCount, notes, req>>
  BY DEF DeleteVideoRow
<1>1. TablesOK /\ ThreadsWhole
  BY DEF TablesInv
<1>2. TablesOK'
  BY <1>0, <1>1 DEF TablesOK
<1>3. \A c \in Requests : comments'[c] # NULL => comments'[c] = comments[c] /\ c \notin CommentsOf(v)
  BY <1>0
<1>4. ThreadsWhole'
  <2> SUFFICES ASSUME NEW c \in Requests, comments'[c] # NULL
               PROVE  /\ video'[comments'[c].video] # "NONE"
                      /\ comments'[c].parent # NULL =>
                           /\ comments'[comments'[c].parent] # NULL
                           /\ comments'[comments'[c].parent].video = comments'[c].video
    BY DEF ThreadsWhole
  <2>1. comments'[c] = comments[c] /\ comments[c].video # v /\ comments[c] \in Comment
    BY <1>1, <1>3 DEF CommentsOf, TablesOK
  <2>2. comments[c].video \in Videos /\ comments[c].parent \in Requests \cup {NULL}
    BY <2>1 DEF Comment
  <2>3. video'[comments[c].video] # "NONE"
    BY <1>0, <1>1, <2>1, <2>2 DEF ThreadsWhole, TablesOK
  <2>4. ASSUME comments[c].parent # NULL
        PROVE  /\ comments'[comments[c].parent] # NULL
               /\ comments'[comments[c].parent].video = comments[c].video
    <3> DEFINE p == comments[c].parent
    <3>1. p \in Requests /\ comments[p] # NULL /\ comments[p].video = comments[c].video
      BY <1>1, <2>1, <2>2, <2>4 DEF ThreadsWhole
    <3>2. p \notin CommentsOf(v)
      BY <2>1, <3>1 DEF CommentsOf
    <3> QED BY <1>0, <3>1, <3>2
  <2> QED BY <2>1, <2>3, <2>4
<1>5. ASSUME NEW r \in Requests
      PROVE  Anchored(req[r])'
  <2>0. PICK o : o = req[r] /\ o = req'[r]
    BY <1>0
  <2>1. Anchored(o) /\ RequestOK(o)
    BY <1>5, <2>0 DEF TablesInv, Claims
  <2>2. \A x \in o.held : x[1] \notin Cascade(VideoRow(v))
    BY <1>5, <2>0 DEF DeleteVideoRow
  <2>3. ASSUME Inserting(o)
        PROVE  /\ video'[o.video] # "NONE"
               /\ o.op = "reply" => comments'[o.comment] # NULL
    <3>1. o.video \in Videos /\ (o.op = "reply" => o.comment \in Requests)
      BY <2>1, <2>3 DEF RequestOK, Placed, Inserting
    <3>2. <<VideoRow(o.video), "reference">> \in o.held
      BY <2>1, <2>3 DEF Anchored, References
    <3>3. VideoRow(o.video) \notin Cascade(VideoRow(v))
      BY <2>2, <3>2
    <3>4. o.video # v
      BY <3>3, CascadeOf
    <3>5. o.op = "reply" => CommentRow(o.comment) \notin Cascade(VideoRow(v))
      <4>1. o.op = "reply" => <<CommentRow(o.comment), "reference">> \in o.held
        BY <2>1, <2>3 DEF Anchored
      <4> QED BY <2>2, <4>1
    <3>6. o.op = "reply" => o.comment \notin CommentsOf(v)
      BY <3>5, CascadeOf
    <3> QED BY <1>0, <1>1, <2>1, <2>3, <3>1, <3>4, <3>6 DEF Anchored, TablesOK
  <2> QED BY <2>0, <2>1, <2>3 DEF Anchored, Inserting, References
<1> QED BY <1>0, <1>2, <1>3, <1>4, <1>5, SingleStep

LEMMA TablesSingle ==
    ASSUME TablesInv, Single
    PROVE  TablesInv'
<1>0. TablesOK
  BY DEF TablesInv
<1>1. ASSUME NEW u \in Users, NEW w \in Users, DeleteFollow(u, w)
      PROVE  TablesInv'
  <2>1. TablesOK' /\ UNCHANGED <<video, comments, notes, req>>
    BY <1>0, <1>1 DEF DeleteFollow, TablesOK
  <2> QED BY <2>1, SingleQuiet
<1>2. ASSUME NEW u \in Users, UpdatePrivate(u) \/ DeactivateUser(u)
      PROVE  TablesInv'
  <2>1. TablesOK' /\ UNCHANGED <<video, comments, notes, req>>
    BY <1>0, <1>2 DEF UpdatePrivate, DeactivateUser, TablesOK
  <2> QED BY <2>1, SingleQuiet
<1>3. ASSUME NEW v \in Videos, MarkVideoDeleted(v)
      PROVE  TablesInv'
  <2>1. /\ video' = [video EXCEPT ![v] = "DELETED"] /\ video[v] = "READY"
        /\ UNCHANGED <<active, tombstoned, private, follows, likes, comments, likesCount,
                       commentsCount, notes, req>>
    BY <1>3 DEF MarkVideoDeleted
  <2>2. TablesOK'
    BY <1>0, <2>1 DEF TablesOK
  <2>3. \A w \in Videos : video'[w] = "NONE" <=> video[w] = "NONE"
    BY <1>0, <2>1 DEF TablesOK
  <2>4. ThreadsWhole'
    BY <1>0, <2>1, <2>3 DEF TablesInv, TablesOK, Comment, ThreadsWhole
  <2>5. ASSUME NEW r \in Requests PROVE Anchored(req[r])'
    <3>0. PICK o : o = req[r] /\ o = req'[r]
      BY <2>1
    <3>1. Anchored(o) /\ RequestOK(o)
      BY <2>5, <3>0 DEF TablesInv, Claims
    <3>2. Inserting(o) => o.video \in Videos
      BY <3>1 DEF RequestOK, Placed, Inserting
    <3> QED BY <2>1, <2>3, <3>0, <3>1, <3>2 DEF Anchored, Inserting, References
  <2> QED BY <2>1, <2>2, <2>4, <2>5, SingleStep
<1> QED BY <1>1, <1>2, <1>3, TablesDeleteVideoRow DEF Single

-----------------------------------------------------------------------------
(* The end of a transaction.                                                 *)

Writing(q) == q.op \in {"comment", "reply"}

Deletes(q, row) == <<row, "delete">> \in q.held

LEMMA CommitAt ==
    ASSUME TablesInv, NEW r \in Requests, Commit(r)
    PROVE  /\ req[r].pc = "commit" /\ RequestOK(req[r]) /\ Claims(req[r]) /\ comments[r] = NULL
           /\ Writing(req[r]) => Inserting(req[r])
<1>1. req[r].pc = "commit"
  BY DEF Commit, At
<1> QED BY <1>1 DEF TablesInv, Written, Writing, Inserting

(* What a commit makes of the videos and comments.                           *)
LEMMA CommitRows ==
    ASSUME TablesInv, NEW r \in Requests, Commit(r)
    PROVE  /\ video' = [v \in Videos |->
                            IF Deletes(req[r], VideoRow(v)) THEN "NONE" ELSE video[v]]
           /\ Writing(req[r]) =>
                comments'[r] = [video |-> req[r].video, user |-> req[r].user,
                                parent |-> req[r].comment]
           /\ \A c \in Requests : c # r \/ ~Writing(req[r]) =>
                comments'[c] = IF Deletes(req[r], CommentRow(c)) THEN NULL ELSE comments[c]
           /\ DOMAIN comments' = Requests
  BY DEF Commit, CommentAfter, Writing, Deletes

LEMMA LessIsNat ==
    \A count, n \in Nat : Less(count, n) \in Nat /\ Less(count, 1) \in Nat
  BY DEF Less

LEMMA CommitKinds ==
    ASSUME TablesInv, NEW r \in Requests, Commit(r)
    PROVE  TablesOK'
<1> DEFINE o == req[r]
<1>1. TablesOK /\ RequestOK(o) /\ o \in Request /\ o.pc = "commit"
  BY CommitAt DEF TablesInv
<1>2. video' \in [Videos -> {"READY", "DELETED", "NONE"}]
  BY <1>1, CommitRows DEF TablesOK
<1>3. /\ active' \subseteq Users /\ tombstoned' \subseteq Users /\ private' \subseteq Users
      /\ follows' \subseteq Users \X Users
  BY <1>1 DEF Commit, TablesOK
<1>4. likes' \in [Videos -> SUBSET Users]
  BY DEF Commit, LikesAfter
<1>5. likesCount' \in [Videos -> Nat]
  <2>1. \A v \in Videos : likesCount[v] \in Nat
    BY <1>1 DEF TablesOK
  <2>2. \A v \in Videos : likesCount[v] + 1 \in Nat /\ Less(likesCount[v], 1) \in Nat
    <3> SUFFICES ASSUME NEW v \in Videos
                 PROVE  likesCount[v] + 1 \in Nat /\ Less(likesCount[v], 1) \in Nat
      OBVIOUS
    <3>1. PICK k \in Nat : k = likesCount[v]
      BY <2>1
    <3>2. k + 1 \in Nat
      OBVIOUS
    <3>3. Less(k, 1) \in Nat
      BY LessIsNat, Zenon
    <3> QED BY <3>1, <3>2, <3>3
  <2> QED BY <2>1, <2>2 DEF Commit, LikesCountAfter
<1>6. commentsCount' \in [Videos -> Nat]
  <2>1. \A v \in Videos : commentsCount[v] \in Nat
    BY <1>1 DEF TablesOK
  <2>2. o.n \in Nat
    BY <1>1 DEF Request
  <2>3. \A v \in Videos : /\ commentsCount[v] + 1 \in Nat
                          /\ Less(commentsCount[v], o.n) \in Nat
                          /\ Less(commentsCount[v], 1) \in Nat
    <3> SUFFICES ASSUME NEW v \in Videos
                 PROVE  /\ commentsCount[v] + 1 \in Nat
                        /\ Less(commentsCount[v], o.n) \in Nat
                        /\ Less(commentsCount[v], 1) \in Nat
      OBVIOUS
    <3>1. PICK k \in Nat : k = commentsCount[v]
      BY <2>1
    <3>2. k + 1 \in Nat
      OBVIOUS
    <3>3. Less(k, o.n) \in Nat /\ Less(k, 1) \in Nat
      BY <2>2, LessIsNat, Zenon
    <3> QED BY <3>1, <3>2, <3>3
  <2>4. \A v \in Videos : CommentsCountAfter(r, v) \in Nat
    BY <2>1, <2>3 DEF CommentsCountAfter
  <2> QED BY <2>4 DEF Commit
<1>7. comments' \in [Requests -> Comment \cup {NULL}]
  <2>1. \A c \in Requests : comments[c] \in Comment \cup {NULL}
    BY <1>1 DEF TablesOK
  <2>2. Writing(o) =>
          [video |-> o.video, user |-> o.user, parent |-> o.comment] \in Comment
    BY <1>1 DEF RequestOK, Placed, Writing, Comment
  <2>3. \A c \in Requests : CommentAfter(r, c) \in Comment \cup {NULL}
    BY <2>1, <2>2 DEF CommentAfter, Writing
  <2> QED BY <2>3 DEF Commit
<1>8. notes' \subseteq Note
  <2>1. o.op \in {"like", "comment", "reply"} => o.user \in Users /\ Recipients(o) \subseteq Users
    BY <1>1, RecipientsAreUsers DEF RequestOK, Placed
  <2>2. NotesAfter(r) \subseteq Note
    BY <1>1, <2>1 DEF NotesAfter, TablesOK, Note
  <2> QED BY <2>2 DEF Commit
<1> QED BY <1>2, <1>3, <1>4, <1>5, <1>6, <1>7, <1>8 DEF TablesOK

(* A transaction that inserts deletes nothing.                               *)
LEMMA WritersKeep ==
    ASSUME NEW q, RequestOK(q), q.op \in {"like", "comment", "reply"}, NEW row
    PROVE  ~Deletes(q, row)
<1> SUFFICES ASSUME Deletes(q, row) PROVE FALSE
  OBVIOUS
<1> DEFINE x == <<row, "delete">>
<1>1. x[2] = "delete" /\ MayLock(q, x)
  BY DEF Deletes, RequestOK
<1> HIDE DEF x
<1> QED BY <1>1 DEF MayLock, References, Removals

LEMMA CommitThreads ==
    ASSUME TablesInv, NEW r \in Requests, Commit(r)
    PROVE  ThreadsWhole'
<1> DEFINE o == req[r]
<1>1. /\ TablesOK /\ RequestOK(o) /\ Claims(o) /\ ThreadsWhole /\ comments[r] = NULL
      /\ Writing(o) => Inserting(o)
      /\ o.pc = "commit"
  BY CommitAt DEF TablesInv
<1> SUFFICES ASSUME NEW c \in Requests, comments'[c] # NULL
             PROVE  /\ video'[comments'[c].video] # "NONE"
                    /\ comments'[c].parent # NULL =>
                         /\ comments'[comments'[c].parent] # NULL
                         /\ comments'[comments'[c].parent].video = comments'[c].video
  BY DEF ThreadsWhole
<1>2. CASE c = r /\ Writing(o)
  <2>1. comments'[c] = [video |-> o.video, user |-> o.user, parent |-> o.comment]
    BY <1>2, CommitRows
  <2>2. o.video \in Videos /\ (o.op = "comment" => o.comment = NULL)
    BY <1>1, <1>2 DEF RequestOK, Placed, Writing
  <2>3. \A row : ~Deletes(o, row)
    BY <1>1, <1>2, WritersKeep DEF Writing
  <2>4. video'[o.video] # "NONE"
    BY <1>1, <1>2, <2>2, <2>3, CommitRows DEF Claims, Anchored
  <2>5. ASSUME o.comment # NULL
        PROVE  comments'[o.comment] # NULL /\ comments'[o.comment].video = o.video
    <3>1. o.op = "reply" /\ o.comment \in Requests
      BY <1>1, <1>2, <2>2, <2>5 DEF Writing, RequestOK, Placed
    <3>2. comments[o.comment] # NULL /\ comments[o.comment].video = o.video
      BY <1>1, <1>2, <3>1 DEF Claims, Anchored, Addressed
    <3>3. comments'[o.comment] = comments[o.comment]
      BY <1>1, <2>3, <3>1, <3>2, CommitRows
    <3> QED BY <3>2, <3>3
  <2> QED BY <2>1, <2>4, <2>5
<1>3. CASE c # r \/ ~Writing(o)
  <2>1. comments'[c] = comments[c] /\ ~Deletes(o, CommentRow(c))
    BY <1>3, CommitRows
  <2>2. comments[c].video \in Videos /\ comments[c].parent \in Requests \cup {NULL}
    BY <1>1, <2>1 DEF TablesOK, Comment
  <2>3. video[comments[c].video] # "NONE" /\ ~Deletes(o, VideoRow(comments[c].video))
    BY <1>1, <2>1 DEF ThreadsWhole, Claims, Cascading, Deletes
  <2>4. video'[comments[c].video] # "NONE"
    <3>1. PICK v \in Videos : v = comments[c].video
      BY <2>2
    <3>2. ~Deletes(o, VideoRow(v)) /\ video[v] # "NONE"
      BY <2>3, <3>1
    <3>3. video'[v] = IF Deletes(o, VideoRow(v)) THEN "NONE" ELSE video[v]
      BY CommitRows
    <3> QED BY <3>1, <3>2, <3>3
  <2>5. ASSUME comments[c].parent # NULL
        PROVE  /\ comments'[comments[c].parent] # NULL
               /\ comments'[comments[c].parent].video = comments[c].video
    <3> DEFINE p == comments[c].parent
    <3>1. p \in Requests /\ comments[p] # NULL /\ comments[p].video = comments[c].video
      BY <1>1, <2>1, <2>2, <2>5 DEF ThreadsWhole
    <3>2. ~Deletes(o, CommentRow(p))
      BY <1>1, <2>1 DEF Claims, Cascading, Deletes
    <3>3. comments'[p] = comments[p]
      BY <1>1, <3>1, <3>2, CommitRows
    <3> QED BY <3>1, <3>3
  <2> QED BY <2>1, <2>4, <2>5
<1> QED BY <1>2, <1>3

(* What the other requests rely on: their locks keep this one's out.         *)
LEMMA CommitOthers ==
    ASSUME TablesInv, NEW r \in Requests, Commit(r), NEW s \in Requests \ {r},
           NEW t, t = req[s]
    PROVE  /\ Inserting(t) =>
                /\ video'[t.video] # "NONE"
                /\ t.op = "reply" => comments'[t.comment] # NULL
           /\ Cascading(t)'
<1> DEFINE o == req[r]
<1>1. /\ TablesOK /\ RequestOK(o) /\ Claims(o) /\ comments[r] = NULL /\ o.pc = "commit"
      /\ RequestOK(t) /\ Claims(t)
      /\ Writing(o) => Inserting(o)
  BY CommitAt DEF TablesInv
<1>2. \A x \in o.held, y \in t.held : x[1] = y[1] => ~Conflict(x[2], y[2])
  BY DEF TablesInv, LocksCompatible
<1>3. \A row : <<row, "reference">> \in t.held => ~Deletes(o, row)
  <2> SUFFICES ASSUME NEW row, <<row, "reference">> \in t.held, <<row, "delete">> \in o.held
               PROVE  FALSE
    BY DEF Deletes
  <2> DEFINE x == <<row, "delete">>
             y == <<row, "reference">>
  <2>1. x \in o.held /\ y \in t.held /\ x[1] = y[1] /\ x[2] = "delete" /\ y[2] = "reference"
    OBVIOUS
  <2> HIDE DEF x, y
  <2> QED BY <1>2, <2>1, Conflicts
<1>4. \A row : <<row, "reference">> \in o.held => ~Deletes(t, row)
  <2> SUFFICES ASSUME NEW row, <<row, "reference">> \in o.held, <<row, "delete">> \in t.held
               PROVE  FALSE
    BY DEF Deletes
  <2> DEFINE x == <<row, "reference">>
             y == <<row, "delete">>
  <2>1. x \in o.held /\ y \in t.held /\ x[1] = y[1] /\ x[2] = "reference" /\ y[2] = "delete"
    OBVIOUS
  <2> HIDE DEF x, y
  <2> QED BY <1>2, <2>1, Conflicts
<1>5. ASSUME Inserting(t)
      PROVE  /\ video'[t.video] # "NONE"
             /\ t.op = "reply" => comments'[t.comment] # NULL
  <2>1. t.video \in Videos /\ (t.op = "reply" => t.comment \in Requests)
    BY <1>1, <1>5 DEF RequestOK, Placed, Inserting
  <2>2. /\ <<VideoRow(t.video), "reference">> \in t.held
        /\ t.op = "reply" => <<CommentRow(t.comment), "reference">> \in t.held
        /\ video[t.video] # "NONE"
        /\ t.op = "reply" => comments[t.comment] # NULL
    BY <1>1, <1>5 DEF Claims, Anchored, References
  <2>3. /\ ~Deletes(o, VideoRow(t.video))
        /\ t.op = "reply" => ~Deletes(o, CommentRow(t.comment))
    BY <1>3, <2>2
  <2>4. video'[t.video] = IF Deletes(o, VideoRow(t.video)) THEN "NONE" ELSE video[t.video]
    <3>1. PICK v \in Videos : v = t.video
      BY <2>1
    <3>2. video'[v] = IF Deletes(o, VideoRow(v)) THEN "NONE" ELSE video[v]
      BY CommitRows
    <3> QED BY <3>1, <3>2
  <2>5. ASSUME t.op = "reply"
        PROVE  comments'[t.comment] # NULL
    <3>1. t.comment # r
      BY <1>1, <2>2, <2>5
    <3>2. comments'[t.comment] =
             IF Deletes(o, CommentRow(t.comment)) THEN NULL ELSE comments[t.comment]
      BY <2>1, <2>5, <3>1, CommitRows
    <3> QED BY <2>2, <2>3, <2>5, <3>2
  <2> QED BY <2>2, <2>3, <2>4, <2>5
<1>6. ASSUME NEW c \in Requests, comments'[c] # NULL
      PROVE  /\ Deletes(t, VideoRow(comments'[c].video)) => Deletes(t, CommentRow(c))
             /\ Deletes(t, CommentRow(comments'[c].parent)) => Deletes(t, CommentRow(c))
  <2>1. CASE c = r /\ Writing(o)
    <3>1. comments'[c] = [video |-> o.video, user |-> o.user, parent |-> o.comment]
      BY <2>1, CommitRows
    <3>2. /\ <<VideoRow(o.video), "reference">> \in o.held
          /\ o.op = "reply" => <<CommentRow(o.comment), "reference">> \in o.held
      BY <1>1, <2>1 DEF Claims, Anchored, References
    <3>3. ~Deletes(t, VideoRow(o.video)) /\ (o.op = "reply" => ~Deletes(t, CommentRow(o.comment)))
      BY <1>4, <3>2
    <3>4. o.op # "reply" => o.comment = NULL
      BY <1>1, <2>1 DEF RequestOK, Placed, Writing
    <3>5. ~Deletes(t, CommentRow(NULL))
      <4>1. t.held \subseteq Lock
        BY <1>1 DEF RequestOK, Request
      <4>2. CommentRow(NULL) \notin RowOf
        BY SocialConstants DEF RowOf, CommentRow
      <4> QED BY <4>1, <4>2 DEF Lock, Deletes
    <3> QED BY <3>1, <3>3, <3>4, <3>5
  <2>2. CASE c # r \/ ~Writing(o)
    <3>1. comments'[c] = comments[c]
      BY <1>6, <2>2, CommitRows
    <3> QED BY <1>1, <1>6, <3>1 DEF Claims, Cascading, Deletes
  <2> QED BY <2>1, <2>2
<1>7. Cascading(t)'
  <2>1. t' = t
    OBVIOUS
  <2> QED BY <1>6 DEF Cascading, Deletes
<1> QED BY <1>5, <1>7

LEMMA TablesCommit ==
    ASSUME TablesInv, NEW r \in Requests, Commit(r)
    PROVE  TablesInv'
<1> DEFINE o == req[r]
<1>1. /\ TablesOK /\ RequestOK(o) /\ Claims(o) /\ comments[r] = NULL /\ o.pc = "commit"
      /\ req \in [Requests -> Request]
  BY CommitAt DEF TablesInv
<1>2. PICK q : /\ req' = [req EXCEPT ![r] = q]
               /\ q.pc = "done" /\ q.held = {} /\ q.todo = {} /\ RequestOK(q) /\ Claims(q)
  BY Answered DEF Commit
<1>3. req' \in [Requests -> Request] /\ req'[r] = q /\ \A s \in Requests \ {r} : req'[s] = req[s]
  BY <1>1, <1>2 DEF RequestOK
<1>4. LocksCompatible'
  BY <1>1, <1>2, LocksStep DEF TablesInv
<1>5. Written'
  <2>1. \A s \in Requests : req[s].pc = "done" => req'[s].pc = "done"
    BY <1>2, <1>3
  <2>2. \A c \in Requests : comments'[c] # NULL => c = r \/ comments[c] # NULL
    BY CommitRows
  <2>3. \A n \in notes' : n \in notes \/ n.cause = r
    BY DEF Commit, NotesAfter
  <2>4. \A n \in notes : n.cause \in Requests
    BY <1>1 DEF TablesOK, Note
  <2> QED BY <1>2, <1>3, <2>1, <2>2, <2>3, <2>4 DEF TablesInv, Written
<1>6. ASSUME NEW s \in Requests
      PROVE  (RequestOK(req[s]) /\ Claims(req[s]))'
  <2>0. PICK t : t = req'[s]
    OBVIOUS
  <2>1. RequestOK(t)
    BY <1>2, <1>3, <1>6, <2>0 DEF TablesInv
  <2>2. RequestOK(req[s])'
    BY <2>0, <2>1 DEF RequestOK, MayLock, Placed, References
  <2>3. CASE s = r
    <3>1. ~Inserting(t) /\ t.held = {} /\ t.pc = "done"
      BY <1>2, <1>3, <2>0, <2>3 DEF Inserting
    <3>2. t.op \in {"reply", "delete_comment"} => t.comment \in Requests /\ req[t.comment].pc = "done"
      BY <1>2, <1>3, <2>0, <2>1, <2>3 DEF Claims, Addressed, RequestOK, Placed
    <3>3. t.op \in {"reply", "delete_comment"} => req'[t.comment].pc = "done"
      BY <1>1, <1>3, <3>2
    <3>4. Claims(req[s])'
      BY <2>0, <3>1, <3>3 DEF Claims, Addressed, Anchored, Cascading, Inserting
    <3> QED BY <2>2, <3>4
  <2>4. CASE s # r
    <3>1. t = req[s] /\ Claims(t)
      BY <1>3, <1>6, <2>0, <2>4 DEF TablesInv
    <3>2. t.op \in {"reply", "delete_comment"} =>
            t.comment \in Requests /\ req[t.comment].pc = "done" /\ t.comment # r
      BY <1>1, <2>1, <3>1 DEF Claims, Addressed, RequestOK, Placed
    <3>3. t.op \in {"reply", "delete_comment"} =>
            /\ req'[t.comment].pc = "done"
            /\ comments'[t.comment] # NULL => comments'[t.comment] = comments[t.comment]
      BY <1>3, <3>2, CommitRows
    <3>4. Addressed(req[s])'
      BY <2>0, <3>1, <3>3 DEF Claims, Addressed
    <3>5. /\ Inserting(t) =>
               /\ video'[t.video] # "NONE"
               /\ t.op = "reply" => comments'[t.comment] # NULL
          /\ Cascading(t)'
      BY <2>4, <3>1, CommitOthers
    <3>6. Anchored(req[s])' /\ Cascading(req[s])'
      BY <2>0, <3>1, <3>5 DEF Claims, Anchored, Inserting, References, Cascading
    <3> QED BY <2>2, <3>4, <3>6 DEF Claims
  <2> QED BY <2>3, <2>4
<1> QED BY <1>3, <1>4, <1>5, <1>6, CommitKinds, CommitThreads DEF TablesInv

-----------------------------------------------------------------------------
LEMMA TablesInit ==
    ASSUME Init
    PROVE  TablesInv
<1>1. TablesOK
  BY DEF Init, TablesOK
<1>2. \A c \in Requests : comments[c] = NULL
  BY DEF Init
<1>3. Idle \in Request
  BY DEF Idle, Request, Steps, Operations
<1>4. req \in [Requests -> Request] /\ \A r \in Requests : req[r] = Idle
  BY <1>3 DEF Init
<1>5. Idle.pc = "new" /\ Idle.op = "none" /\ Idle.held = {} /\ Idle.todo = {}
  BY DEF Idle
<1>6. RequestOK(Idle) /\ Claims(Idle)
  <2>1. Placed(Idle)
    BY <1>5, Statements DEF Placed, Removals
  <2> QED BY <1>3, <1>5, <2>1 DEF RequestOK, Claims, Addressed, Anchored, Inserting, Cascading
<1>7. LocksCompatible
  BY <1>4, <1>5 DEF LocksCompatible
<1>8. Written /\ ThreadsWhole
  BY <1>2 DEF Init, Written, ThreadsWhole
<1> QED BY <1>1, <1>4, <1>6, <1>7, <1>8 DEF TablesInv

LEMMA TablesStatement ==
    ASSUME TablesInv, NEW r \in Requests, Statement(r)
    PROVE  TablesInv'
  BY TablesInsertLike, TablesDeleteLike, TablesCounters, TablesInsertComment,
     TablesInsertNotification, TablesCountSubtree, TablesDeleteComment,
     TablesStartStatement, TablesLockRow, TablesCommit, TablesFail DEF Statement

LEMMA TablesStutter ==
    ASSUME TablesInv, UNCHANGED vars
    PROVE  TablesInv'
<1>1. TablesOK' /\ UNCHANGED <<video, comments, notes, req>>
  BY DEF TablesInv, TablesOK, vars, tables
<1> QED BY <1>1, SingleQuiet

LEMMA TablesNext ==
    ASSUME TablesInv, [Next]_vars
    PROVE  TablesInv'
<1>1. CASE \E r \in Requests : Begin(r) \/ Check(r) \/ Statement(r) \/ Follow(r)
  BY <1>1, TablesBegin, TablesCheck, TablesStatement, TablesFollow
<1>2. CASE Single
  BY <1>2, TablesSingle
<1>3. CASE AllDone \/ UNCHANGED vars
  BY <1>3, TablesStutter DEF AllDone
<1> QED BY <1>1, <1>2, <1>3 DEF Next

(* The row locks of the statements keep every transaction's view of its      *)
(* rows true until it ends, however the requests interleave.                 *)
THEOREM TablesInvariance ==
    Spec => []TablesInv
  BY TablesInit, TablesNext, PTL DEF Spec

(* Rows are of their kind, no counter is negative and only a request in      *)
(* flight holds locks, in every reachable state.                             *)
THEOREM TypesHold ==
    Spec => []TypeOK
<1>1. ASSUME TablesInv
      PROVE  TypeOK
  <2>1. ASSUME NEW r \in Requests
        PROVE  /\ req[r].pc \in {"new", "done"} => req[r].held = {} /\ req[r].todo = {}
               /\ \A held \in req[r].held \cup req[r].todo : held[1] \in RowOf
    <3>1. PICK o \in Request : o = req[r] /\ RequestOK(o)
      BY <1>1, <2>1 DEF TablesInv
    <3>2. o.held \subseteq Lock /\ o.todo \subseteq Lock
      BY DEF Request
    <3>3. \A x \in Lock : x[1] \in RowOf
      BY DEF Lock
    <3> QED BY <3>1, <3>2, <3>3 DEF RequestOK, Placed
  <2> QED BY <1>1, <2>1 DEF TablesInv, TablesOK, TypeOK
<1> QED BY <1>1, TablesInvariance, PTL

(* A reply has its parent, on the same video, and a comment has its video:   *)
(* an insert that races the deletion of what it refers to is refused or      *)
(* deleted with it, also while accounts are removed.                         *)
THEOREM ThreadsAreWhole ==
    Spec => []ThreadsWhole
<1>1. TablesInv => ThreadsWhole
  BY DEF TablesInv
<1> QED BY <1>1, TablesInvariance, PTL

-----------------------------------------------------------------------------
(* Without removals: likes and comments are announced.                       *)

(* How a request begins.                                                     *)
LEMMA BeginsAs ==
    ASSUME TablesInv, NEW r \in Requests, Begin(r)
    PROVE  \E q \in Request :
             /\ req' = [req EXCEPT ![r] = q]
             /\ q.held = {} /\ q.todo = {} /\ q.op \in Ops
             /\ q.pc \in {"video", "load", "target", "dec_likes"}
             /\ q.op \notin Removals => q.user \in active
             /\ q.op \in Removals => q.pc = "dec_likes"
             /\ UNCHANGED tables /\ MayBegin(r)
<1>0. UNCHANGED tables /\ MayBegin(r) /\ active \subseteq Users
  BY DEF Begin, BeginOnVideo, BeginOnComment, BeginFollow, BeginRemoval, TablesInv, TablesOK
<1>1. CASE BeginOnVideo(r)
  <2>1. PICK op \in Ops \cap {"like", "unlike", "comment"}, u \in active, v \in Videos :
            req' = [req EXCEPT ![r] = [Idle EXCEPT !.pc = "video", !.op = op,
                                                   !.user = u, !.video = v]]
    BY <1>1 DEF BeginOnVideo
  <2> DEFINE q == [Idle EXCEPT !.pc = "video", !.op = op, !.user = u, !.video = v]
  <2>2. /\ q \in Request /\ q.pc = "video" /\ q.op = op /\ q.user = u
        /\ q.held = {} /\ q.todo = {}
    BY <1>0 DEF Idle, Request, Steps, Operations
  <2> HIDE DEF q
  <2> QED BY <1>0, <2>1, <2>2 DEF q, Removals
<1>2. CASE BeginOnComment(r)
  <2>1. PICK op \in Ops \cap {"reply", "delete_comment"}, u \in active, c \in Requests :
            req' = [req EXCEPT ![r] = [Idle EXCEPT !.pc = "load", !.op = op,
                                                   !.user = u, !.comment = c]]
    BY <1>2 DEF BeginOnComment
  <2> DEFINE q == [Idle EXCEPT !.pc = "load", !.op = op, !.user = u, !.comment = c]
  <2>2. /\ q \in Request /\ q.pc = "load" /\ q.op = op /\ q.user = u
        /\ q.held = {} /\ q.todo = {}
    BY <1>0 DEF Idle, Request, Steps, Operations
  <2> HIDE DEF q
  <2> QED BY <1>0, <2>1, <2>2 DEF q, Removals
<1>3. CASE BeginFollow(r)
  <2>1. PICK u \in active, w \in Users :
            req' = [req EXCEPT ![r] = [Idle EXCEPT !.pc = "target", !.op = "follow",
                                                   !.user = u, !.peer = w]]
    BY <1>3 DEF BeginFollow
  <2> DEFINE q == [Idle EXCEPT !.pc = "target", !.op = "follow", !.user = u, !.peer = w]
  <2>2. /\ q \in Request /\ q.pc = "target" /\ q.op = "follow" /\ q.user = u
        /\ q.held = {} /\ q.todo = {}
    BY <1>0 DEF Idle, Request, Steps, Operations
  <2>3. "follow" \in Ops
    BY <1>3 DEF BeginFollow
  <2> HIDE DEF q
  <2> QED BY <1>0, <2>1, <2>2, <2>3 DEF q, Removals
<1>4. CASE BeginRemoval(r)
  <2>1. PICK op \in Ops \cap Removals, u \in Users :
            req' = [req EXCEPT ![r] = [Idle EXCEPT !.pc = "dec_likes", !.op = op, !.user = u]]
    BY <1>4 DEF BeginRemoval, Removals
  <2> DEFINE q == [Idle EXCEPT !.pc = "dec_likes", !.op = op, !.user = u]
  <2>2. /\ q \in Request /\ q.pc = "dec_likes" /\ q.op = op /\ q.user = u
        /\ q.held = {} /\ q.todo = {}
    BY Statements DEF Idle, Request, Steps, Operations
  <2> HIDE DEF q
  <2> QED BY <1>0, <2>1, <2>2 DEF q
<1> QED BY <1>1, <1>2, <1>3, <1>4 DEF Begin

(* A request keeps its operation once it has begun.                          *)
LEMMA OperationsStay ==
    ASSUME TablesInv, [Next]_vars, NEW s \in Requests
    PROVE  req'[s].op = req[s].op \/ (req[s].pc = "new" /\ req'[s].op \in Ops)
<1>1. req \in [Requests -> Request]
  BY DEF TablesInv
<1> USE DEF Request
<1>2. ASSUME NEW r \in Requests, Begin(r)
      PROVE  req'[s].op = req[s].op \/ (req[s].pc = "new" /\ req'[s].op \in Ops)
  <2>1. PICK q \in Request : req' = [req EXCEPT ![r] = q] /\ q.op \in Ops /\ MayBegin(r)
    BY <1>2, BeginsAs
  <2> QED BY <1>1, <2>1 DEF MayBegin, At
<1>3. ASSUME NEW r \in Requests, Check(r)
      PROVE  req'[s].op = req[s].op
  BY <1>1, <1>3 DEF Check, LoadComment, CheckVideo, CheckOwner, CheckFollow, Answer, Goto
<1>4. ASSUME NEW r \in Requests, Follow(r)
      PROVE  req'[s].op = req[s].op
  BY <1>1, <1>4 DEF Follow, LoadTarget, FollowUser, GetFollow, NotifyFollow, Answer, Goto
<1>5. ASSUME NEW r \in Requests, Statement(r)
      PROVE  req'[s].op = req[s].op
  <2>1. ASSUME NEW locks, NEW pc, Hold(r, locks, pc)
        PROVE  req'[s].op = req[s].op
    BY <1>1, <2>1 DEF Hold
  <2>2. CASE Answer(r)
    BY <1>1, <2>2 DEF Answer
  <2>3. CASE InsertLike(r) \/ IncrementLikesCount(r) \/ DeleteLike(r) \/ DecrementLikesCount(r)
    BY <2>1, <2>2, <2>3 DEF InsertLike, IncrementLikesCount, DeleteLike, DecrementLikesCount
  <2>4. CASE InsertComment(r) \/ IncrementCommentsCount(r) \/ InsertNotification(r)
    BY <2>1, <2>2, <2>4 DEF InsertComment, IncrementCommentsCount, InsertNotification
  <2>5. CASE DeleteCommentByID(r) \/ DecrementCommentsCountBy(r)
    BY <2>1, <2>5 DEF DeleteCommentByID, DecrementCommentsCountBy
  <2>6. CASE CountCommentSubtree(r) \/ StartStatement(r) \/ LockRow(r)
    <3>1. CASE CountCommentSubtree(r) \/ StartStatement(r)
      BY <1>1, <3>1 DEF CountCommentSubtree, StartStatement
    <3>2. CASE LockRow(r)
      <4>1. PICK todo, held : req' = [req EXCEPT ![r].todo = todo, ![r].held = held]
        BY <3>2 DEF LockRow
      <4> QED BY <1>1, <4>1
    <3> QED BY <2>6, <3>1, <3>2
  <2>7. CASE Commit(r) \/ Fail(r)
    BY <2>2, <2>7 DEF Commit, Fail
  <2> QED BY <1>5, <2>3, <2>4, <2>5, <2>6, <2>7 DEF Statement
<1>6. CASE Single \/ AllDone \/ UNCHANGED vars
  BY <1>6 DEF Single, DeleteFollow, UpdatePrivate, DeactivateUser, MarkVideoDeleted,
              DeleteVideoRow, AllDone, vars
<1> QED BY <1>2, <1>3, <1>4, <1>5, <1>6 DEF Next

(* Only a commit adds likes, comments or takes notifications away; no step   *)
(* adds a notification of a request that is over.                            *)
LEMMA TablesMove ==
    ASSUME TablesInv, [Next]_vars, \A r \in Requests : ~Commit(r)
    PROVE  /\ \A v \in Videos : likes'[v] \subseteq likes[v]
           /\ \A c \in Requests : comments'[c] # NULL => comments'[c] = comments[c]
           /\ notes \subseteq notes'
           /\ \A n \in notes' \ notes : n.cause \in Requests /\ req[n.cause].pc # "done"
<1>0. likes \in [Videos -> SUBSET Users]
  BY DEF TablesInv, TablesOK
<1>1. CASE UNCHANGED <<likes, comments, notes>>
  BY <1>1
<1>2. ASSUME NEW r \in Requests, NotifyFollow(r)
      PROVE  /\ UNCHANGED <<likes, comments>>
             /\ notes \subseteq notes'
             /\ \A n \in notes' \ notes : n.cause \in Requests /\ req[n.cause].pc # "done"
  BY <1>2 DEF NotifyFollow, At
<1>3. ASSUME NEW v \in Videos, DeleteVideoRow(v)
      PROVE  /\ \A w \in Videos : likes'[w] \subseteq likes[w]
             /\ \A c \in Requests : comments'[c] # NULL => comments'[c] = comments[c]
             /\ notes' = notes
  BY <1>0, <1>3 DEF DeleteVideoRow
<1>4. ASSUME NEW r \in Requests, Begin(r) \/ Check(r)
      PROVE  UNCHANGED <<likes, comments, notes>>
  BY <1>4 DEF Begin, BeginOnVideo, BeginOnComment, BeginFollow, BeginRemoval, Check, LoadComment,
              CheckVideo, CheckOwner, CheckFollow, tables
<1>5. ASSUME NEW r \in Requests, Statement(r)
      PROVE  UNCHANGED <<likes, comments, notes>>
  BY <1>5 DEF Statement, InsertLike, IncrementLikesCount, DeleteLike, DecrementLikesCount,
              InsertComment, IncrementCommentsCount, InsertNotification, CountCommentSubtree,
              DeleteCommentByID, DecrementCommentsCountBy, StartStatement, LockRow, Fail, tables
<1>6. ASSUME NEW r \in Requests, LoadTarget(r) \/ FollowUser(r) \/ GetFollow(r)
      PROVE  UNCHANGED <<likes, comments, notes>>
  BY <1>6 DEF LoadTarget, FollowUser, GetFollow, tables
<1>7. CASE Single
  <2>1. ASSUME NEW v \in Videos, MarkVideoDeleted(v)
        PROVE  UNCHANGED <<likes, comments, notes>>
    BY <2>1 DEF MarkVideoDeleted
  <2>2. ASSUME NEW u \in Users, NEW w \in Users,
               DeleteFollow(u, w) \/ UpdatePrivate(u) \/ DeactivateUser(u)
        PROVE  UNCHANGED <<likes, comments, notes>>
    BY <2>2 DEF DeleteFollow, UpdatePrivate, DeactivateUser
  <2> QED BY <1>1, <1>3, <1>7, <2>1, <2>2 DEF Single
<1>8. CASE AllDone \/ UNCHANGED vars
  BY <1>1, <1>8 DEF AllDone, vars, tables
<1> QED BY <1>1, <1>2, <1>4, <1>5, <1>6, <1>7, <1>8 DEF Next, Follow

(* Who is to hear of a comment, and who did.                                 *)
Owed(c) ==
    ({Owner[comments[c].video]} \cup {comments[p].user : p \in {comments[c].parent} \cap Requests})
      \ {comments[c].user}

Heard(c) == {n.to : n \in {n \in notes : n.cause = c}}

LikesAnnounced ==
    \A v \in Videos : \A u \in likes[v] \ {Owner[v]} :
        \E n \in notes : n.to = Owner[v] /\ n.actor = u /\ req[n.cause].op = "like"

CommentsAnnounced == \A c \in Requests : comments[c] # NULL => Heard(c) = Owed(c)

LEMMA AnnouncedParts == Announced <=> LikesAnnounced /\ CommentsAnnounced
  BY DEF Announced, LikesAnnounced, CommentsAnnounced, Heard, Owed

(* A comment that stays is owed to the same users: its parent stays too.     *)
LEMMA OwedStays ==
    ASSUME TablesInv, TablesInv', NEW c \in Requests, comments'[c] = comments[c], comments[c] # NULL,
           \A d \in Requests : comments[d] # NULL /\ comments'[d] # NULL => comments'[d] = comments[d]
    PROVE  Owed(c)' = Owed(c)
<1> DEFINE p == comments[c].parent
<1>1. p \in Requests \cup {NULL}
  BY DEF TablesInv, TablesOK, Comment
<1>2. p # NULL => comments[p] # NULL
  BY DEF TablesInv, ThreadsWhole
<1>3. p # NULL => comments'[p] # NULL
  BY DEF TablesInv, ThreadsWhole
<1>4. p # NULL => comments'[p] = comments[p]
  BY <1>1, <1>2, <1>3
<1>5. \A d \in {p} \cap Requests : comments'[d] = comments[d]
  BY <1>4, SocialConstants
<1> HIDE DEF p
<1>6. {comments'[d].user : d \in {p} \cap Requests} = {comments[d].user : d \in {p} \cap Requests}
  BY <1>5
<1> QED BY <1>6 DEF Owed, p

(* The notifications of requests that are over stay, and their operations.   *)
LEMMA LikesStayAnnounced ==
    ASSUME TablesInv, [Next]_vars, notes \subseteq notes',
           NEW v \in Videos, NEW u,
           \E n \in notes : n.to = Owner[v] /\ n.actor = u /\ req[n.cause].op = "like"
    PROVE  \E n \in notes' : n.to = Owner[v] /\ n.actor = u /\ req'[n.cause].op = "like"
<1>1. PICK n \in notes : n.to = Owner[v] /\ n.actor = u /\ req[n.cause].op = "like"
  OBVIOUS
<1>2. n.cause \in Requests /\ req[n.cause].pc = "done"
  BY DEF TablesInv, TablesOK, Note, Written
<1>3. req'[n.cause].op = req[n.cause].op
  BY <1>2, OperationsStay
<1> QED BY <1>1, <1>3

LEMMA AnnouncedMoves ==
    ASSUME TablesInv, TablesInv', Announced, [Next]_vars, \A r \in Requests : ~Commit(r)
    PROVE  Announced'
<1>1. /\ \A v \in Videos : likes'[v] \subseteq likes[v]
      /\ \A c \in Requests : comments'[c] # NULL => comments'[c] = comments[c]
      /\ notes \subseteq notes'
      /\ \A n \in notes' \ notes : n.cause \in Requests /\ req[n.cause].pc # "done"
  BY TablesMove
<1>2. LikesAnnounced'
  <2> SUFFICES ASSUME NEW v \in Videos, NEW u \in likes'[v] \ {Owner[v]}
               PROVE  \E n \in notes' : n.to = Owner[v] /\ n.actor = u /\ req'[n.cause].op = "like"
    BY DEF LikesAnnounced
  <2>1. \E n \in notes : n.to = Owner[v] /\ n.actor = u /\ req[n.cause].op = "like"
    BY <1>1, AnnouncedParts DEF LikesAnnounced
  <2> QED BY <1>1, <2>1, LikesStayAnnounced
<1>3. CommentsAnnounced'
  <2> SUFFICES ASSUME NEW c \in Requests, comments'[c] # NULL
               PROVE  Heard(c)' = Owed(c)'
    BY DEF CommentsAnnounced
  <2>1. comments'[c] = comments[c] /\ comments[c] # NULL
    BY <1>1
  <2>2. Owed(c)' = Owed(c)
    BY <1>1, <2>1, OwedStays
  <2>3. req[c].pc = "done"
    BY <2>1 DEF TablesInv, Written
  <2>4. \A n : n \in notes' /\ n.cause = c <=> n \in notes /\ n.cause = c
    BY <1>1, <2>3
  <2>5. Heard(c)' = Heard(c)
    BY <2>4 DEF Heard
  <2> QED BY <2>1, <2>2, <2>5, AnnouncedParts DEF CommentsAnnounced
<1> QED BY <1>2, <1>3, AnnouncedParts, PTL

(* What a transaction other than a removal deletes and inserts.              *)
LEMMA PlainLocks ==
    ASSUME NEW q, RequestOK(q), q.op \notin Removals
    PROVE  /\ \A n : ~Deletes(q, NoteRow(n))
           /\ \A u, v : <<LikeRow(u, v), "insert">> \in q.held =>
                q.op = "like" /\ u = q.user /\ v = q.video
<1>1. ASSUME NEW n, Deletes(q, NoteRow(n))
      PROVE  FALSE
  <2> DEFINE x == <<NoteRow(n), "delete">>
  <2>1. MayLock(q, x) /\ x[1] = NoteRow(n) /\ x[2] = "delete"
    BY <1>1 DEF Deletes, RequestOK
  <2>2. \A y, z : NoteRow(n) # LikeRow(y, z) /\ NoteRow(n) # CommentRow(y)
    BY RowsDiffer
  <2> HIDE DEF x
  <2> QED BY <2>1, <2>2 DEF MayLock, References
<1>2. ASSUME NEW u, NEW v, <<LikeRow(u, v), "insert">> \in q.held
      PROVE  q.op = "like" /\ u = q.user /\ v = q.video
  <2> DEFINE x == <<LikeRow(u, v), "insert">>
  <2>1. MayLock(q, x) /\ x[1] = LikeRow(u, v) /\ x[2] = "insert"
    BY <1>2 DEF RequestOK
  <2> HIDE DEF x
  <2>2. q.op = "like" /\ x = <<LikeRow(q.user, q.video), "insert">>
    BY <2>1 DEF MayLock, References
  <2>3. LikeRow(u, v) = LikeRow(q.user, q.video)
    BY <2>1, <2>2
  <2> QED BY <2>2, <2>3, RowNames
<1> QED BY <1>1, <1>2

LEMMA AnnouncedCommit ==
    ASSUME TablesInv, TablesInv', Announced, [Next]_vars, NEW r \in Requests, Commit(r),
           req[r].op \notin Removals
    PROVE  Announced'
<1> DEFINE o == req[r]
           new == {[to |-> u, actor |-> o.user, cause |-> r] : u \in Recipients(o)}
<1>1. /\ TablesOK /\ RequestOK(o) /\ Claims(o) /\ comments[r] = NULL /\ o.pc = "commit"
      /\ Writing(o) => Inserting(o)
  BY CommitAt DEF TablesInv
<1>2. /\ notes \subseteq notes'
      /\ \A n \in notes' : n \in notes \/ (o.op \in {"like", "comment", "reply"} /\ n \in new)
      /\ o.op \in {"like", "comment", "reply"} => new \subseteq notes'
  <2>1. notes' = NotesAfter(r)
    BY DEF Commit
  <2>2. \A n : <<NoteRow(n), "delete">> \notin req[r].held
    BY <1>1, PlainLocks DEF Deletes
  <2> QED BY <2>1, <2>2 DEF NotesAfter
<1> HIDE DEF new
<1>3. LikesAnnounced'
  <2> SUFFICES ASSUME NEW v \in Videos, NEW u \in likes'[v] \ {Owner[v]}
               PROVE  \E n \in notes' : n.to = Owner[v] /\ n.actor = u /\ req'[n.cause].op = "like"
    BY DEF LikesAnnounced
  <2>1. u \in likes[v] \/ <<LikeRow(u, v), "insert">> \in o.held
    BY DEF Commit, LikesAfter
  <2>2. CASE u \in likes[v]
    <3>1. \E n \in notes : n.to = Owner[v] /\ n.actor = u /\ req[n.cause].op = "like"
      BY <2>2, AnnouncedParts DEF LikesAnnounced
    <3> QED BY <1>2, <3>1, LikesStayAnnounced
  <2>3. CASE <<LikeRow(u, v), "insert">> \in o.held
    <3>1. o.op = "like" /\ u = o.user /\ v = o.video
      BY <1>1, <2>3, PlainLocks
    <3>2. o.comment = NULL
      BY <1>1, <3>1 DEF RequestOK, Placed
    <3>3. Owner[v] \in Recipients(o)
      BY <3>1 DEF Recipients
    <3> DEFINE n == [to |-> Owner[v], actor |-> o.user, cause |-> r]
    <3>4. n \in notes'
      BY <1>2, <3>1, <3>3 DEF new
    <3>5. req'[r].op = "like"
      BY <1>1, <3>1, OperationsStay
    <3> QED BY <3>1, <3>4, <3>5
  <2> QED BY <2>1, <2>2, <2>3
<1>4. CommentsAnnounced'
  <2> SUFFICES ASSUME NEW c \in Requests, comments'[c] # NULL
               PROVE  Heard(c)' = Owed(c)'
    BY DEF CommentsAnnounced
  <2>1. CASE c = r /\ Writing(o)
    <3>1. comments'[c] = [video |-> o.video, user |-> o.user, parent |-> o.comment]
      BY <2>1, CommitRows
    <3>2. \A n \in notes : n.cause # r
      BY <1>1 DEF TablesInv, Written
    <3>3. \A n : n \in notes' /\ n.cause = r <=> n \in new
      <4>1. \A n \in new : n.cause = r
        BY DEF new
      <4> QED BY <1>2, <2>1, <3>2, <4>1 DEF Writing
    <3>4. Heard(c)' = {n.to : n \in new}
      BY <2>1, <3>3 DEF Heard
    <3>5. {n.to : n \in new} = Recipients(o)
      <4>1. \A n \in new : n.to \in Recipients(o)
        BY DEF new
      <4>2. ASSUME NEW u \in Recipients(o)
            PROVE  \E n \in new : n.to = u
        <5> DEFINE n == [to |-> u, actor |-> o.user, cause |-> r]
        <5>1. n \in new /\ n.to = u
          BY DEF new
        <5> QED BY <5>1
      <4> QED BY <4>1, <4>2
    <3> DEFINE parents == {o.comment} \cap Requests
    <3>6. \A d \in parents : comments[d] # NULL /\ comments'[d] = comments[d]
      <4> SUFFICES ASSUME NEW d \in parents
                   PROVE  comments[d] # NULL /\ comments'[d] = comments[d]
        OBVIOUS
      <4>1. d = o.comment /\ d \in Requests /\ o.op = "reply"
        BY <1>1, <2>1, SocialConstants DEF RequestOK, Placed, Writing
      <4>2. comments[d] # NULL
        BY <1>1, <2>1, <4>1 DEF Claims, Anchored
      <4>3. ~Deletes(o, CommentRow(d))
        BY <1>1, <4>1, WritersKeep
      <4>4. d # r
        BY <1>1, <4>2
      <4> QED BY <4>1, <4>2, <4>3, <4>4, CommitRows
    <3> HIDE DEF parents
    <3>7. {comments'[d].user : d \in parents} =
            {comments[d].user : d \in {d \in parents : comments[d] # NULL}}
      BY <3>6
    <3>8. Owed(c)' = ({Owner[o.video]} \cup {comments'[d].user : d \in parents}) \ {o.user}
      BY <3>1 DEF Owed, parents
    <3>9. Recipients(o) = ({Owner[o.video]} \cup
              {comments[d].user : d \in {d \in parents : comments[d] # NULL}}) \ {o.user}
      BY DEF Recipients, parents
    <3> QED BY <3>4, <3>5, <3>7, <3>8, <3>9
  <2>2. CASE c # r \/ ~Writing(o)
    <3>1. comments'[c] = comments[c] /\ comments[c] # NULL
      BY <2>2, CommitRows
    <3>2. c # r
      BY <1>1, <3>1
    <3>3. \A d \in Requests : comments[d] # NULL /\ comments'[d] # NULL => comments'[d] = comments[d]
      BY <1>1, CommitRows
    <3>4. Owed(c)' = Owed(c)
      BY <3>1, <3>3, OwedStays
    <3>5. \A n : n \in notes' /\ n.cause = c <=> n \in notes /\ n.cause = c
      <4>1. \A n \in new : n.cause = r
        BY DEF new
      <4> QED BY <1>2, <3>2, <4>1
    <3>6. Heard(c)' = Heard(c)
      BY <3>5 DEF Heard
    <3> QED BY <3>1, <3>4, <3>6, AnnouncedParts DEF CommentsAnnounced
  <2> QED BY <2>1, <2>2
<1> QED BY <1>3, <1>4, AnnouncedParts, PTL

(* A like in the table has its notification, and a comment the ones to the   *)
(* owner of the video and the author of its parent and no other, whatever    *)
(* requests other than removals run at the same time.                        *)
THEOREM AnnouncedHolds ==
    ASSUME Ops \cap {"delete_me", "user_removed"} = {}
    PROVE  Spec => []Announced
<1> DEFINE Plain == \A r \in Requests : req[r].op \notin Removals
<1>1. Init => Plain /\ Announced
  <2> SUFFICES ASSUME Init PROVE Plain /\ Announced
    OBVIOUS
  <2>1. Plain
    BY DEF Init, Idle, Removals
  <2>2. Announced
    BY DEF Init, Announced
  <2> QED BY <2>1, <2>2
<1>2. Plain /\ Announced /\ TablesInv /\ TablesInv' /\ [Next]_vars => Plain' /\ Announced'
  <2> SUFFICES ASSUME Plain, Announced, TablesInv, TablesInv', [Next]_vars
               PROVE  Plain' /\ Announced'
    OBVIOUS
  <2>1. Plain'
    BY OperationsStay DEF Removals
  <2>2. Announced'
    BY AnnouncedMoves, AnnouncedCommit
  <2> QED BY <2>1, <2>2
<1> HIDE DEF Plain
<1> QED BY <1>1, <1>2, TablesInvariance, PTL DEF Spec

-----------------------------------------------------------------------------
(* Removals: the locks of their statements.                                  *)

(* A removal locks rows to delete them or move their counters, and the user  *)
(* it is about to tombstone it.                                              *)
RemovalOK(q) ==
    q.op \in Removals =>
        /\ \A x \in q.held \cup q.todo :
             /\ x[2] \in {"likes", "comments", "delete", "tombstone"}
             /\ x[2] = "tombstone" => x[1] = UserRow(q.user)
        /\ q.pc = "commit" => <<UserRow(q.user), "tombstone">> \in q.held \cup q.todo

(* A step of one request.                                                    *)
Act(r) == Begin(r) \/ Check(r) \/ Statement(r) \/ Follow(r)

(* It leaves the other requests where they are.                              *)
LEMMA OthersStay ==
    ASSUME TablesInv, NEW r \in Requests, NEW s \in Requests \ {r}, Act(r)
    PROVE  req'[s] = req[s]
<1>0. DOMAIN req = Requests
  BY DEF TablesInv
<1>1. CASE Begin(r)
  BY <1>0, <1>1 DEF Begin, BeginOnVideo, BeginOnComment, BeginFollow, BeginRemoval
<1>2. CASE Check(r)
  BY <1>0, <1>2 DEF Check, LoadComment, CheckVideo, CheckOwner, CheckFollow, Answer, Goto
<1>3. CASE Follow(r)
  BY <1>0, <1>3 DEF Follow, LoadTarget, FollowUser, GetFollow, NotifyFollow, Answer, Goto
<1>4. CASE Statement(r)
  <2>1. ASSUME NEW locks, NEW pc, Hold(r, locks, pc)
        PROVE  req'[s] = req[s]
    BY <1>0, <2>1 DEF Hold
  <2>2. CASE Answer(r)
    BY <1>0, <2>2 DEF Answer
  <2>3. CASE InsertLike(r) \/ IncrementLikesCount(r) \/ DeleteLike(r) \/ DecrementLikesCount(r)
    BY <2>1, <2>2, <2>3 DEF InsertLike, IncrementLikesCount, DeleteLike, DecrementLikesCount
  <2>4. CASE InsertComment(r) \/ IncrementCommentsCount(r) \/ InsertNotification(r)
    BY <2>1, <2>2, <2>4 DEF InsertComment, IncrementCommentsCount, InsertNotification
  <2>5. CASE DeleteCommentByID(r) \/ DecrementCommentsCountBy(r)
    BY <2>1, <2>5 DEF DeleteCommentByID, DecrementCommentsCountBy
  <2>6. CASE CountCommentSubtree(r) \/ StartStatement(r)
    BY <1>0, <2>6 DEF CountCommentSubtree, StartStatement
  <2>7. CASE LockRow(r)
    <3>1. PICK todo, held : req' = [req EXCEPT ![r].todo = todo, ![r].held = held]
      BY <2>7 DEF LockRow
    <3> QED BY <1>0, <3>1
  <2>8. CASE Commit(r) \/ Fail(r)
    BY <2>2, <2>8 DEF Commit, Fail
  <2> QED BY <1>4, <2>3, <2>4, <2>5, <2>6, <2>7, <2>8 DEF Statement
<1> QED BY <1>1, <1>2, <1>3, <1>4 DEF Act

(* Which step a request in flight can take, by where it is.                  *)
LEMMA StepsByPlace ==
    ASSUME NEW r \in Requests, Act(r)
    PROVE  \/ Begin(r) /\ req[r].pc = "new"
           \/ Fail(r) /\ req[r].pc \notin {"new", "done"}
           \/ LoadComment(r) /\ req[r].pc = "load"
           \/ CheckVideo(r) /\ req[r].pc = "video"
           \/ CheckOwner(r) /\ req[r].pc = "owner"
           \/ CheckFollow(r) /\ req[r].pc = "follower"
           \/ InsertLike(r) /\ req[r].pc = "insert_like"
           \/ IncrementLikesCount(r) /\ req[r].pc = "inc_likes"
           \/ DeleteLike(r) /\ req[r].pc = "delete_like"
           \/ DecrementLikesCount(r) /\ req[r].pc = "dec_like"
           \/ InsertComment(r) /\ req[r].pc = "insert_comment"
           \/ IncrementCommentsCount(r) /\ req[r].pc = "inc_comments"
           \/ InsertNotification(r) /\ req[r].pc = "notify"
           \/ CountCommentSubtree(r) /\ req[r].pc = "count"
           \/ DeleteCommentByID(r) /\ req[r].pc = "delete_comment"
           \/ DecrementCommentsCountBy(r) /\ req[r].pc = "dec_comments_by"
           \/ StartStatement(r) /\ req[r].pc \in DOMAIN NextStatement
           \/ LockRow(r)
           \/ Commit(r) /\ req[r].pc = "commit"
           \/ LoadTarget(r) /\ req[r].pc = "target"
           \/ FollowUser(r) /\ req[r].pc = "insert_follow"
           \/ GetFollow(r) /\ req[r].pc = "reload_follow"
           \/ NotifyFollow(r) /\ req[r].pc = "notify_follow"
<1>1. CASE Begin(r)
  BY <1>1 DEF Begin, BeginOnVideo, BeginOnComment, BeginFollow, BeginRemoval, MayBegin, At
<1>2. CASE Check(r)
  BY <1>2 DEF Check, LoadComment, CheckVideo, CheckOwner, CheckFollow, At
<1>3. CASE Follow(r)
  BY <1>3 DEF Follow, LoadTarget, FollowUser, GetFollow, NotifyFollow, At
<1>4. CASE Statement(r)
  BY <1>4 DEF Statement, InsertLike, IncrementLikesCount, DeleteLike, DecrementLikesCount,
              InsertComment, IncrementCommentsCount, InsertNotification, CountCommentSubtree,
              DeleteCommentByID, DecrementCommentsCountBy, StartStatement, Commit, Fail,
              InFlight, At
<1> QED BY <1>1, <1>2, <1>3, <1>4 DEF Act

LEMMA RemovalSteps ==
    ASSUME TablesInv, NEW r \in Requests, Act(r), req[r].op \in Removals
    PROVE  Begin(r) \/ StartStatement(r) \/ LockRow(r) \/ Commit(r) \/ Fail(r)
<1>1. PICK o : o = req[r] /\ RequestOK(o)
  BY DEF TablesInv
<1>2. o.pc \notin {"load", "video", "owner", "follower", "insert_like", "inc_likes", "delete_like",
                   "dec_like", "insert_comment", "inc_comments", "notify", "count",
                   "delete_comment", "dec_comments_by", "target", "insert_follow",
                   "reload_follow", "notify_follow"}
  BY <1>1 DEF RequestOK, Placed, Removals
<1> QED BY <1>1, <1>2, StepsByPlace

(* A row that is there goes when it is deleted.                              *)
LEMMA CascadeSelf ==
    ASSUME NEW row \in RowOf, Present(row)
    PROVE  row \in Cascade(row)
<1>1. ASSUME NEW c \in Requests, row = CommentRow(c)
      PROVE  row \in Cascade(row)
  <2>1. comments[c] # NULL
    BY <1>1 DEF Present, CommentRow
  <2>2. c \in Subtree(c)
    BY <2>1, SubtreeCloses
  <2> QED BY <1>1, <2>2, CascadeOf
<1> QED BY <1>1, RowCases, CascadeOf

(* What one row of a statement adds to the locks.                            *)
LEMMA LockRowMoves ==
    ASSUME TablesInv, NEW r \in Requests, LockRow(r)
    PROVE  \E lock \in req[r].todo, q \in Request :
             /\ req' = [req EXCEPT ![r] = q]
             /\ q.op = req[r].op /\ q.user = req[r].user /\ q.pc = req[r].pc
             /\ lock \in Lock /\ q.todo = req[r].todo \ {lock}
             /\ req[r].held \subseteq q.held
             /\ \A x \in q.held : x \in req[r].held \/ x[2] = lock[2]
             /\ lock[2] # "delete" => q.held \subseteq req[r].held \cup {lock}
             /\ Present(lock[1]) => lock \in q.held
<1> DEFINE o == req[r]
<1>1. PICK lock \in o.todo :
        LET rows == IF ~Present(lock[1]) THEN {}
                    ELSE IF lock[2] = "delete" THEN Cascade(lock[1]) ELSE {lock[1]}
        IN  req' = [req EXCEPT ![r].todo = @ \ {lock},
                               ![r].held = @ \cup {<<row, lock[2]>> : row \in rows}]
  BY DEF LockRow
<1>2. o \in Request /\ o.todo \subseteq Lock /\ o.held \subseteq Lock
  BY DEF TablesInv, Request
<1>3. lock \in Lock /\ lock[1] \in RowOf /\ lock = <<lock[1], lock[2]>>
  BY <1>2 DEF Lock
<1> DEFINE rows == IF ~Present(lock[1]) THEN {}
                   ELSE IF lock[2] = "delete" THEN Cascade(lock[1]) ELSE {lock[1]}
           locks == {<<row, lock[2]>> : row \in rows}
           q == [o EXCEPT !.todo = @ \ {lock}, !.held = @ \cup locks]
<1>4. req' = [req EXCEPT ![r] = q]
  BY <1>1 DEF TablesInv
<1>5. locks \subseteq Lock
  <2>1. rows \subseteq RowOf
    BY <1>3, CascadeKind DEF TablesInv
  <2> HIDE DEF rows
  <2> QED BY <1>3, <2>1 DEF Lock
<1>6. /\ q \in Request /\ q.op = o.op /\ q.user = o.user /\ q.pc = o.pc
      /\ q.todo = o.todo \ {lock} /\ q.held = o.held \cup locks
  <2>1. o.todo \ {lock} \in SUBSET Lock /\ o.held \cup locks \in SUBSET Lock
    BY <1>2, <1>5
  <2> HIDE DEF o, locks
  <2> QED BY <1>2, <2>1 DEF Request
<1>7. \A x \in locks : x[2] = lock[2]
  OBVIOUS
<1>8. lock[2] # "delete" => locks \subseteq {lock}
  BY <1>3
<1>9. Present(lock[1]) => lock \in locks
  BY <1>3, CascadeSelf
<1> HIDE DEF q, locks, rows
<1> QED BY <1>3, <1>4, <1>6, <1>7, <1>8, <1>9

(* Why a statement locks its rows.                                           *)
LEMMA SnapshotReasons ==
    ASSUME NEW u, NEW statement \in DOMAIN NextStatement, NEW x \in Snapshot(u, statement)
    PROVE  /\ x[2] \in {"likes", "comments", "delete", "tombstone"}
           /\ x[2] = "tombstone" => x[1] = UserRow(u)
<1>1. CASE statement = "dec_likes"
  BY <1>1 DEF Snapshot
<1>2. CASE statement = "dec_comments"
  BY <1>2 DEF Snapshot
<1>3. CASE statement = "tombstone"
  BY <1>3 DEF Snapshot
<1>4. CASE statement \in {"del_videos", "del_following", "del_followers"}
  BY <1>4 DEF Snapshot
<1>5. CASE statement \in {"del_likes", "del_comments", "del_inbox", "del_sent"}
  BY <1>5 DEF Snapshot
<1> QED BY <1>1, <1>2, <1>3, <1>4, <1>5, Statements

LEMMA RemovalStays ==
    ASSUME TablesInv, [Next]_vars, NEW s \in Requests, RemovalOK(req[s])
    PROVE  RemovalOK(req[s])'
<1>0. req \in [Requests -> Request]
  BY DEF TablesInv
<1>1. ASSUME NEW q, req'[s] = q, RemovalOK(q)
      PROVE  RemovalOK(req[s])'
  BY <1>1 DEF RemovalOK
<1>2. CASE req'[s] = req[s]
  BY <1>1, <1>2
<1>3. CASE Act(s)
  <2>1. CASE Begin(s)
    <3>1. PICK q \in Request :
             /\ req' = [req EXCEPT ![s] = q] /\ q.held = {} /\ q.todo = {}
             /\ q.pc \in {"video", "load", "target", "dec_likes"}
      BY <2>1, BeginsAs
    <3> QED BY <1>0, <1>1, <3>1 DEF RemovalOK
  <2>2. CASE ~Begin(s) /\ req[s].op \notin Removals
    <3>1. req'[s].op \notin Removals
      <4>1. req[s].pc # "new" \/ Fail(s) \/ LockRow(s)
        BY <1>3, <2>2, StepsByPlace, Statements
      <4>2. ~LockRow(s)
        BY <2>2 DEF TablesInv, RequestOK, Placed, LockRow
      <4>3. req[s].pc # "new"
        BY <4>1, <4>2 DEF Fail, InFlight
      <4> QED BY <2>2, <4>3, OperationsStay
    <3> QED BY <3>1 DEF RemovalOK
  <2>3. CASE ~Begin(s) /\ req[s].op \in Removals
    <3>1. CASE Answer(s)
      BY <1>0, <3>1, Answered, <1>1 DEF RemovalOK
    <3>2. CASE StartStatement(s)
      <4> DEFINE o == req[s]
                 q == [o EXCEPT !.todo = Snapshot(o.user, o.pc), !.pc = NextStatement[o.pc]]
      <4>1. req'[s] = q /\ o.pc \in DOMAIN NextStatement /\ o \in Request
        BY <1>0, <3>2 DEF StartStatement
      <4>2. /\ q.op = o.op /\ q.user = o.user /\ q.held = o.held
            /\ q.todo = Snapshot(o.user, o.pc) /\ q.pc = NextStatement[o.pc]
        BY <4>1 DEF Request
      <4> HIDE DEF q
      <4>3. q.pc = "commit" => <<UserRow(q.user), "tombstone">> \in q.todo
        BY <4>1, <4>2, Statements DEF Snapshot
      <4>4. RemovalOK(q)
        BY <2>3, <4>1, <4>2, <4>3, SnapshotReasons DEF RemovalOK
      <4> QED BY <1>1, <4>1, <4>4
    <3>3. CASE LockRow(s)
      <4> DEFINE o == req[s]
      <4>1. PICK lock \in o.todo, q \in Request :
             /\ req' = [req EXCEPT ![s] = q]
             /\ q.op = o.op /\ q.user = o.user /\ q.pc = o.pc
             /\ lock \in Lock /\ q.todo = o.todo \ {lock} /\ o.held \subseteq q.held
             /\ \A x \in q.held : x \in o.held \/ x[2] = lock[2]
             /\ lock[2] # "delete" => q.held \subseteq o.held \cup {lock}
             /\ Present(lock[1]) => lock \in q.held
        BY <3>3, LockRowMoves
      <4>2. /\ lock[2] \in {"likes", "comments", "delete", "tombstone"}
            /\ \A x \in o.held \cup o.todo :
                 /\ x[2] \in {"likes", "comments", "delete", "tombstone"}
                 /\ x[2] = "tombstone" => x[1] = UserRow(o.user)
        BY <2>3, <4>1 DEF RemovalOK
      <4>3. \A x \in q.held \cup q.todo :
                 /\ x[2] \in {"likes", "comments", "delete", "tombstone"}
                 /\ x[2] = "tombstone" => x[1] = UserRow(o.user)
        BY <4>1, <4>2
      <4>4. lock[1] = UserRow(o.user) => lock \in q.held
        BY <4>1 DEF Present, UserRow
      <4>5. q.pc = "commit" => <<UserRow(q.user), "tombstone">> \in q.held \cup q.todo
        <5> DEFINE x == <<UserRow(o.user), "tombstone">>
        <5>1. q.pc = "commit" => x \in o.held \cup o.todo
          BY <2>3, <4>1 DEF RemovalOK
        <5>2. x[1] = UserRow(o.user)
          OBVIOUS
        <5> HIDE DEF x
        <5>3. q.pc = "commit" => x \in q.held \cup q.todo
          BY <4>1, <4>4, <5>1, <5>2
        <5> QED BY <4>1, <5>3 DEF x
      <4>6. RemovalOK(q)
        BY <4>1, <4>3, <4>5 DEF RemovalOK
      <4>7. req'[s] = q
        BY <1>0, <4>1
      <4> QED BY <1>1, <4>6, <4>7
    <3> QED BY <1>3, <2>3, <3>1, <3>2, <3>3, RemovalSteps DEF Commit, Fail
  <2> QED BY <2>1, <2>2, <2>3
<1>4. CASE \E r \in Requests \ {s} : Act(r)
  BY <1>2, <1>4, OthersStay
<1>5. CASE Single \/ AllDone \/ UNCHANGED vars
  <2>1. req' = req
    BY <1>5 DEF Single, DeleteFollow, UpdatePrivate, DeactivateUser, MarkVideoDeleted,
                DeleteVideoRow, AllDone, vars
  <2> QED BY <1>2, <2>1
<1> QED BY <1>3, <1>4, <1>5 DEF Next, Act

-----------------------------------------------------------------------------
(* Comments and their counter, commit by commit.                             *)

(* The comments a transaction is about to delete.                            *)
Doomed(q) == {c \in Requests : Deletes(q, CommentRow(c))}

(* What a request knows of the comments it is going to count.                *)
Counted(q) ==
    /\ Writing(q) /\ q.pc \in {"notify", "commit"} => <<VideoRow(q.video), "comments">> \in q.held
    /\ q.op = "delete_comment" =>
         /\ q.pc \in {"count", "delete_comment"} => q.held = {}
         /\ q.pc = "delete_comment" /\ video[q.video] # "NONE" =>
              q.n = Cardinality(Subtree(q.comment))
         /\ q.pc = "dec_comments_by" => q.n > 0
         /\ q.pc \in {"dec_comments_by", "commit"} =>
              /\ Doomed(q) \subseteq CommentsOf(q.video)
              /\ video[q.video] # "NONE" => q.n = Cardinality(Doomed(q))
         /\ q.pc = "commit" /\ video[q.video] # "NONE" =>
              (<<VideoRow(q.video), "comments">> \in q.held <=> q.n > 0)

(* The comments of a video, and how many, do not change in other steps.      *)
LEMMA CountsMove ==
    ASSUME TablesInv, [Next]_vars, \A r \in Requests : ~Commit(r)
    PROVE  /\ commentsCount' = commentsCount /\ tombstoned' = tombstoned
           /\ \/ comments' = comments
              \/ \E v \in Videos : DeleteVideoRow(v)
           /\ \A v \in Videos : video[v] = "NONE" => video'[v] = "NONE"
<1>1. CASE UNCHANGED <<commentsCount, tombstoned, comments, video>>
  BY <1>1
<1>2. ASSUME NEW v \in Videos, MarkVideoDeleted(v) \/ DeleteVideoRow(v)
      PROVE  /\ commentsCount' = commentsCount /\ tombstoned' = tombstoned
             /\ comments' = comments \/ DeleteVideoRow(v)
             /\ \A w \in Videos : video[w] = "NONE" => video'[w] = "NONE"
  BY <1>2 DEF MarkVideoDeleted, DeleteVideoRow, TablesInv, TablesOK
<1>3. ASSUME NEW r \in Requests, Begin(r) \/ Check(r)
      PROVE  UNCHANGED <<commentsCount, tombstoned, comments, video>>
  BY <1>3 DEF Begin, BeginOnVideo, BeginOnComment, BeginFollow, BeginRemoval, Check, LoadComment,
              CheckVideo, CheckOwner, CheckFollow, tables
<1>4. ASSUME NEW r \in Requests, Statement(r)
      PROVE  UNCHANGED <<commentsCount, tombstoned, comments, video>>
  BY <1>4 DEF Statement, InsertLike, IncrementLikesCount, DeleteLike, DecrementLikesCount,
              InsertComment, IncrementCommentsCount, InsertNotification, CountCommentSubtree,
              DeleteCommentByID, DecrementCommentsCountBy, StartStatement, LockRow, Fail, tables
<1>5. ASSUME NEW r \in Requests, Follow(r)
      PROVE  UNCHANGED <<commentsCount, tombstoned, comments, video>>
  BY <1>5 DEF Follow, LoadTarget, FollowUser, GetFollow, NotifyFollow, tables
<1>6. ASSUME NEW u \in Users, NEW w \in Users,
             DeleteFollow(u, w) \/ UpdatePrivate(u) \/ DeactivateUser(u)
      PROVE  UNCHANGED <<commentsCount, tombstoned, comments, video>>
  BY <1>6 DEF DeleteFollow, UpdatePrivate, DeactivateUser
<1>7. CASE AllDone \/ UNCHANGED vars
  BY <1>1, <1>7 DEF AllDone, vars, tables
<1>8. CASE Single
  BY <1>1, <1>2, <1>6, <1>8 DEF Single
<1> QED BY <1>1, <1>3, <1>4, <1>5, <1>7, <1>8 DEF Next

(* A subtree is on one video.                                                *)
LEMMA SubtreeOnVideo ==
    ASSUME TablesInv, NEW c, NEW v,
           c \in Requests /\ comments[c] # NULL => comments[c].video = v
    PROVE  Subtree(c) \subseteq CommentsOf(v)
<1>1. c \in Requests /\ comments[c] # NULL => c \in CommentsOf(v)
  BY DEF CommentsOf
<1>2. ASSUME NEW d \in Requests, comments[d] # NULL, comments[d].parent \in CommentsOf(v)
      PROVE  d \in CommentsOf(v)
  BY <1>2, SocialConstants DEF TablesInv, ThreadsWhole, CommentsOf
<1> QED BY <1>1, <1>2, SubtreeLeast

(* The removal of another video leaves it alone.                             *)
LEMMA SubtreeStays ==
    ASSUME TablesInv, NEW v \in Videos, NEW w \in Videos \ {v}, DeleteVideoRow(w), NEW c,
           c \in Requests /\ comments[c] # NULL => comments[c].video = v
    PROVE  Subtree(c)' = Subtree(c)
<1> DEFINE rows == {d \in Requests : comments[d] # NULL}
           left == {d \in Requests : comments'[d] # NULL}
<1>1. /\ left \subseteq rows
      /\ \A d \in left : comments'[d] = comments[d]
      /\ \A d \in rows : comments[d].video # w => d \in left
  BY DEF DeleteVideoRow, CommentsOf
<1>2. \A d \in rows : comments[d].parent \in CommentsOf(v) => comments[d].video = v
  BY SocialConstants DEF TablesInv, ThreadsWhole, CommentsOf
<1>3. \A d \in CommentsOf(v) : d \in left
  BY <1>1 DEF CommentsOf
<1>4. Subtree(c) \subseteq CommentsOf(v)
  BY SubtreeOnVideo
<1> DEFINE Closed(S) == /\ c \in rows => c \in S
                        /\ \A d \in rows : comments[d].parent \in S => d \in S
           Closed1(S) == /\ c \in left => c \in S
                         /\ \A d \in left : comments'[d].parent \in S => d \in S
<1>5. /\ Subtree(c) = {d \in rows : \A S \in SUBSET rows : Closed(S) => d \in S}
      /\ Subtree(c)' = {d \in left : \A S \in SUBSET left : Closed1(S) => d \in S}
  BY DEF Subtree
<1>6. Closed(Subtree(c))
  BY SubtreeCloses
<1>7. Subtree(c) \subseteq left /\ Closed1(Subtree(c))
  BY <1>1, <1>3, <1>4, <1>6
<1>8. Subtree(c)' \subseteq Subtree(c)
  BY <1>5, <1>7
<1>9. ASSUME NEW S \in SUBSET left, Closed1(S)
      PROVE  Closed(S \cap CommentsOf(v))
  <2>1. c \in rows => c \in S /\ c \in CommentsOf(v)
    BY <1>1, <1>9 DEF CommentsOf
  <2>2. \A d \in rows : comments[d].parent \in S \cap CommentsOf(v) => d \in S /\ d \in CommentsOf(v)
    BY <1>1, <1>2, <1>9 DEF CommentsOf
  <2> QED BY <2>1, <2>2
<1>10. \A S \in SUBSET left : Closed1(S) => Subtree(c) \subseteq S
  <2> SUFFICES ASSUME NEW S \in SUBSET left, Closed1(S), NEW d \in Subtree(c)
               PROVE  d \in S
    OBVIOUS
  <2>1. S \cap CommentsOf(v) \in SUBSET rows
    BY <1>1
  <2>2. d \in S \cap CommentsOf(v)
    BY <1>5, <1>9, <2>1
  <2> QED BY <2>2
<1>11. Subtree(c) \subseteq Subtree(c)'
  BY <1>5, <1>7, <1>10
<1> QED BY <1>8, <1>11

(* A request that waits keeps what it knows.                                 *)
LEMMA CountedWaits ==
    ASSUME TablesInv, [Next]_vars, NEW s \in Requests, req'[s] = req[s], Counted(req[s]),
           s \in InFlight /\ req[s].op = "delete_comment" => \A r \in Requests : ~Commit(r)
    PROVE  Counted(req[s])'
<1>0. PICK q : q = req[s] /\ q = req'[s]
  OBVIOUS
<1>1. Counted(q) /\ RequestOK(q) /\ Addressed(q)
  BY <1>0 DEF TablesInv, Claims
<1>2. CASE q.op # "delete_comment" \/ q.pc \notin {"count", "delete_comment", "dec_comments_by", "commit"}
  BY <1>0, <1>1, <1>2 DEF Counted, Writing
<1>3. CASE q.op = "delete_comment" /\ q.pc \in {"count", "delete_comment", "dec_comments_by", "commit"}
  <2>1. q.video \in Videos /\ (comments[q.comment] # NULL => comments[q.comment].video = q.video)
    BY <1>1, <1>3 DEF RequestOK, Placed, Addressed
  <2>2. \A r \in Requests : ~Commit(r)
    BY <1>0, <1>3 DEF InFlight
  <2>3. /\ comments' = comments \/ \E w \in Videos : DeleteVideoRow(w)
        /\ video[q.video] = "NONE" => video'[q.video] = "NONE"
    BY <2>1, <2>2, CountsMove
  <2>4. /\ video'[q.video] # "NONE" => Subtree(q.comment)' = Subtree(q.comment)
        /\ Doomed(q) \subseteq CommentsOf(q.video) => Doomed(q) \subseteq CommentsOf(q.video)'
    <3>1. CASE comments' = comments
      BY <3>1 DEF Subtree, CommentsOf
    <3>2. ASSUME NEW w \in Videos, DeleteVideoRow(w), w # q.video
          PROVE  /\ Subtree(q.comment)' = Subtree(q.comment)
                 /\ CommentsOf(q.video) \subseteq CommentsOf(q.video)'
      <4>1. Subtree(q.comment)' = Subtree(q.comment)
        BY <2>1, <3>2, SubtreeStays
      <4>2. \A c \in CommentsOf(q.video) : comments'[c] = comments[c]
        BY <3>2 DEF DeleteVideoRow, CommentsOf
      <4> QED BY <4>1, <4>2 DEF CommentsOf
    <3>3. CASE DeleteVideoRow(q.video)
      <4>1. video'[q.video] = "NONE"
        BY <2>1, <3>3 DEF DeleteVideoRow, TablesInv, TablesOK
      <4>2. ASSUME NEW c \in Doomed(q), c \in CommentsOf(q.video)
            PROVE  FALSE
        <5> DEFINE x == <<CommentRow(c), "delete">>
        <5>1. x \in q.held /\ x[1] = CommentRow(c)
          BY DEF Doomed, Deletes
        <5>2. CommentRow(c) \in Cascade(VideoRow(q.video))
          BY <4>2, CascadeOf
        <5>3. \A y \in q.held : y[1] \notin Cascade(VideoRow(q.video))
          BY <1>0, <3>3 DEF DeleteVideoRow
        <5> QED BY <5>1, <5>2, <5>3
      <4> QED BY <4>1, <4>2
    <3> QED BY <2>3, <3>1, <3>2, <3>3
  <2>5. Doomed(q)' = Doomed(q)
    BY DEF Doomed, Deletes
  <2> QED BY <1>0, <1>1, <1>3, <2>3, <2>4, <2>5 DEF Counted, Writing, Doomed, Deletes
<1> QED BY <1>2, <1>3

(* Nothing is known where nothing is counted.                                *)
LEMMA NothingCounted ==
    ASSUME NEW s, NEW q, q = req'[s],
           \/ q.op \notin {"comment", "reply", "delete_comment"}
           \/ q.pc \notin {"notify", "commit", "count", "delete_comment", "dec_comments_by"}
    PROVE  Counted(req[s])'
  BY DEF Counted, Writing

LEMMA CountedDeletes ==
    ASSUME TablesInv, NEW r \in Requests, DeleteCommentByID(r), Counted(req[r])
    PROVE  Counted(req[r])'
<1> DEFINE o == req[r]
           rows == Cascade(CommentRow(o.comment))
           locks == {<<x, "delete">> : x \in rows}
           pc == IF o.n > 0 THEN "dec_comments_by" ELSE "commit"
           new == [o EXCEPT !.held = @ \cup locks, !.pc = pc]
<1>0. PICK q : q = new
  OBVIOUS
<1>1. /\ RequestOK(o) /\ Addressed(o) /\ o \in Request /\ o.pc = "delete_comment"
      /\ req \in [Requests -> Request]
      /\ UNCHANGED tables /\ Hold(r, locks, pc)
  BY DEF TablesInv, Claims, DeleteCommentByID, At
<1>2. /\ o.op = "delete_comment" /\ o.video \in Videos /\ o.comment \in Requests
      /\ comments[o.comment] # NULL => comments[o.comment].video = o.video
  BY <1>1 DEF RequestOK, Placed, Addressed
<1>3. o.held = {} /\ (video[o.video] # "NONE" => o.n = Cardinality(Subtree(o.comment))) /\ o.n \in Nat
  BY <1>1, <1>2 DEF Counted, Request
<1>4. /\ q.op = o.op /\ q.video = o.video /\ q.n = o.n /\ q.pc = pc
      /\ q.held = locks /\ q.comment = o.comment
  <2> HIDE DEF o, locks, pc
  <2> QED BY <1>0, <1>1, <1>3 DEF Request
<1>5. req'[r] = q /\ video' = video /\ comments' = comments
  BY <1>0, <1>1 DEF Hold, tables
<1> HIDE DEF new
<1>6. rows = {CommentRow(d) : d \in Subtree(o.comment)} /\ Subtree(o.comment) \subseteq Requests
  BY CascadeOf, SubtreeCloses
<1>7. Doomed(q) = Subtree(o.comment)
  <2>1. \A d : Deletes(q, CommentRow(d)) <=> CommentRow(d) \in rows
    BY <1>4 DEF Deletes
  <2> HIDE DEF rows
  <2> QED BY <1>6, <2>1, RowNames DEF Doomed
<1>8. Doomed(q) \subseteq CommentsOf(q.video)
  BY <1>2, <1>4, <1>7, SubtreeOnVideo
<1>9. <<VideoRow(q.video), "comments">> \notin q.held
  <2>1. \A x \in locks : x[2] = "delete"
    OBVIOUS
  <2> DEFINE y == <<VideoRow(q.video), "comments">>
  <2>2. y[2] # "delete"
    OBVIOUS
  <2> HIDE DEF locks, y
  <2>3. y \notin q.held
    BY <1>4, <2>1, <2>2
  <2> QED BY <2>3 DEF y
<1>10. CommentsOf(q.video)' = CommentsOf(q.video) /\ Doomed(q)' = Doomed(q)
  BY <1>5 DEF CommentsOf, Doomed, Deletes
<1>11. q.n \in Nat /\ (q.pc = "dec_comments_by" => q.n > 0) /\ (q.pc = "commit" => ~(q.n > 0))
  BY <1>3, <1>4
<1>12. video[q.video] # "NONE" => q.n = Cardinality(Doomed(q))
  BY <1>3, <1>4, <1>7
<1>13. q.op = "delete_comment" /\ q.pc \in {"dec_comments_by", "commit"}
  BY <1>2, <1>4
<1> HIDE DEF o, pc, locks, rows
<1> QED BY <1>5, <1>8, <1>9, <1>10, <1>11, <1>12, <1>13 DEF Counted, Writing, Doomed, Deletes

LEMMA CountedTransaction ==
    ASSUME TablesInv, NEW r \in Requests, Counted(req[r]),
           \/ IncrementCommentsCount(r) \/ InsertNotification(r)
           \/ CountCommentSubtree(r) \/ DecrementCommentsCountBy(r)
    PROVE  Counted(req[r])'
<1>0. PICK o \in Request : o = req[r] /\ RequestOK(o) /\ Counted(o)
  BY DEF TablesInv
<1>1. req \in [Requests -> Request] /\ video' = video /\ comments' = comments
  BY DEF TablesInv, IncrementCommentsCount, InsertNotification, CountCommentSubtree,
         DecrementCommentsCountBy, tables
<1>2. ASSUME NEW locks, NEW pc, Hold(r, locks, pc)
      PROVE  \E q : /\ q = req'[r] /\ q.op = o.op /\ q.video = o.video /\ q.comment = o.comment
                    /\ q.n = o.n /\ q.pc = pc /\ q.held = o.held \cup locks
  <2> DEFINE new == [o EXCEPT !.held = @ \cup locks, !.pc = pc]
  <2>1. req'[r] = new
    BY <1>0, <1>1, <1>2 DEF Hold
  <2>2. /\ new.op = o.op /\ new.video = o.video /\ new.comment = o.comment
        /\ new.n = o.n /\ new.pc = pc /\ new.held = o.held \cup locks
    BY DEF Request
  <2> HIDE DEF new
  <2> QED BY <2>1, <2>2
<1>3. CASE IncrementCommentsCount(r)
  <2> DEFINE lock == <<VideoRow(o.video), "comments">>
  <2>1. PICK q : /\ q = req'[r] /\ q.op = o.op /\ q.video = o.video /\ q.pc = "notify"
                 /\ q.held = o.held \cup {lock}
    BY <1>0, <1>2, <1>3 DEF IncrementCommentsCount
  <2>2. q.op # "delete_comment"
    BY <1>0, <1>3, <2>1 DEF RequestOK, Placed, IncrementCommentsCount, At
  <2> QED BY <2>1, <2>2 DEF Counted
<1>4. CASE InsertNotification(r)
  <2>1. PICK q, locks : /\ q = req'[r] /\ q.op = o.op /\ q.video = o.video /\ q.pc = "commit"
                        /\ q.held = o.held \cup locks
    BY <1>2, <1>4 DEF InsertNotification
  <2>2. q.op # "delete_comment" /\ o.pc = "notify"
    BY <1>0, <1>4, <2>1 DEF RequestOK, Placed, InsertNotification, At
  <2>3. Writing(q) => <<VideoRow(q.video), "comments">> \in q.held
    BY <1>0, <2>1, <2>2 DEF Counted, Writing
  <2> QED BY <2>1, <2>2, <2>3 DEF Counted, Writing
<1>5. CASE CountCommentSubtree(r)
  <2>0. PICK k : k = Cardinality(Subtree(o.comment))
    OBVIOUS
  <2> DEFINE new == [o EXCEPT !.n = k, !.pc = "delete_comment"]
  <2>1. PICK q : /\ q = req'[r] /\ q.op = o.op /\ q.comment = o.comment /\ q.n = k
                 /\ q.pc = "delete_comment" /\ q.held = o.held
    <3>1. req'[r] = new
      BY <1>0, <1>1, <1>5, <2>0 DEF CountCommentSubtree
    <3>2. /\ new.op = o.op /\ new.comment = o.comment /\ new.n = k /\ new.pc = "delete_comment"
          /\ new.held = o.held
      BY DEF Request
    <3> HIDE DEF new
    <3> QED BY <3>1, <3>2
  <2>2. o.op = "delete_comment" /\ o.held = {}
    BY <1>0, <1>5 DEF RequestOK, Placed, CountCommentSubtree, At, Counted
  <2>3. Subtree(q.comment)' = Subtree(q.comment)
    BY <1>1 DEF Subtree
  <2>4. q.n = Cardinality(Subtree(q.comment)')
    BY <2>0, <2>1, <2>3
  <2> QED BY <2>1, <2>2, <2>4 DEF Counted, Writing
<1>6. CASE DecrementCommentsCountBy(r)
  <2> DEFINE lock == <<VideoRow(o.video), "comments">>
             locks == IF Present(VideoRow(o.video)) THEN {lock} ELSE {}
  <2>1. PICK q : /\ q = req'[r] /\ q.op = o.op /\ q.video = o.video /\ q.comment = o.comment
                 /\ q.n = o.n /\ q.pc = "commit" /\ q.held = o.held \cup locks
    BY <1>0, <1>2, <1>6 DEF DecrementCommentsCountBy
  <2>2. o.op = "delete_comment" /\ o.pc = "dec_comments_by" /\ o.video \in Videos
    BY <1>0, <1>6 DEF RequestOK, Placed, DecrementCommentsCountBy, At
  <2>3. /\ o.n > 0 /\ Doomed(o) \subseteq CommentsOf(o.video)
        /\ video[o.video] # "NONE" => o.n = Cardinality(Doomed(o))
    BY <1>0, <2>2 DEF Counted
  <2>4. video[o.video] # "NONE" => lock \in q.held
    <3>1. Present(VideoRow(o.video)) <=> video[o.video] # "NONE"
      BY DEF Present, VideoRow
    <3> QED BY <2>1, <3>1
  <2>5. Doomed(q) = Doomed(o)
    <3>1. \A row : <<row, "delete">> \notin locks
      OBVIOUS
    <3> HIDE DEF locks
    <3> QED BY <2>1, <3>1 DEF Doomed, Deletes
  <2>6. CommentsOf(q.video)' = CommentsOf(q.video) /\ Doomed(q)' = Doomed(q)
    BY <1>1 DEF CommentsOf, Doomed, Deletes
  <2> HIDE DEF locks
  <2> QED BY <1>1, <2>1, <2>2, <2>3, <2>4, <2>5, <2>6 DEF Counted, Writing, Doomed, Deletes
<1> QED BY <1>3, <1>4, <1>5, <1>6

LEMMA CountedActs ==
    ASSUME TablesInv, [Next]_vars, NEW r \in Requests, Act(r), Counted(req[r])
    PROVE  Counted(req[r])'
<1>0. PICK o \in Request : o = req[r] /\ RequestOK(o)
  BY DEF TablesInv
<1>1. req \in [Requests -> Request]
  BY DEF TablesInv
<1>2. CASE req'[r].pc \notin {"notify", "commit", "count", "delete_comment", "dec_comments_by"}
  BY <1>2, NothingCounted
<1>3. CASE o.pc # "new" /\ o.op \notin {"comment", "reply", "delete_comment"}
  <2>1. req'[r].op = o.op
    BY <1>0, <1>3, OperationsStay
  <2> QED BY <1>3, <2>1, NothingCounted
<1>4. CASE Answer(r)
  <2>1. req'[r].pc = "done"
    BY <1>1, <1>4 DEF Answer, Request
  <2> QED BY <1>2, <2>1
<1>5. CASE Begin(r)
  <2>1. PICK q \in Request : /\ req' = [req EXCEPT ![r] = q]
                             /\ q.pc \in {"video", "load", "target", "dec_likes"}
    BY <1>5, BeginsAs
  <2>2. req'[r].pc \notin {"notify", "commit", "count", "delete_comment", "dec_comments_by"}
    BY <1>1, <2>1
  <2> QED BY <1>2, <2>2
<1>6. CASE LoadComment(r) /\ o.pc = "load" /\ ~Answer(r)
  <2>0. o.held = {}
    BY <1>0, <1>6 DEF RequestOK, Placed
  <2>1. PICK pc, v :
            /\ pc \in {"count", "video"}
            /\ req' = [req EXCEPT ![r].pc = pc, ![r].video = v]
            /\ pc = "count" => o.op = "delete_comment"
    BY <1>0, <1>6 DEF LoadComment
  <2>2. req'[r].pc = pc /\ req'[r].held = {} /\ req'[r].op = o.op
    BY <1>0, <1>1, <2>0, <2>1 DEF Request
  <2>3. PICK q : q = req'[r]
    OBVIOUS
  <2> QED BY <2>1, <2>2, <2>3 DEF Counted, Writing
<1>7. CASE (CheckVideo(r) \/ CheckOwner(r) \/ CheckFollow(r)) /\ ~Answer(r)
  <2>1. PICK pc : Goto(r, pc) /\ pc \in {"owner", "follower", FirstStatement(o.op)}
    BY <1>0, <1>7 DEF CheckVideo, CheckOwner, CheckFollow
  <2>2. pc \in {"owner", "follower", "insert_like", "delete_like", "insert_comment"}
    <3>1. FirstStatement(o.op) \in {"insert_like", "delete_like", "insert_comment"}
      BY DEF FirstStatement
    <3> QED BY <2>1, <3>1
  <2>3. req'[r].pc = pc
    BY <1>1, <2>1 DEF Goto, Request
  <2> QED BY <1>2, <2>2, <2>3
<1>8. CASE InsertComment(r) /\ ~Answer(r)
  <2>1. PICK locks : Hold(r, locks, "inc_comments")
    BY <1>8 DEF InsertComment
  <2>2. req'[r].pc = "inc_comments"
    BY <1>1, <2>1 DEF Hold, Request
  <2> QED BY <1>2, <2>2
<1>9. CASE o.pc \in {"insert_like", "inc_likes", "delete_like", "dec_like", "target",
                     "insert_follow", "reload_follow", "notify_follow"} \cup DOMAIN NextStatement
  BY <1>0, <1>3, <1>9, Statements DEF RequestOK, Placed, Removals
<1>10. CASE LockRow(r)
  <2>1. o.op \in Removals /\ o.pc # "new"
    BY <1>0, <1>10 DEF LockRow, RequestOK, Placed
  <2> QED BY <1>3, <2>1 DEF Removals
<1> QED BY <1>0, <1>4, <1>5, <1>6, <1>7, <1>8, <1>9, <1>10, StepsByPlace, CountedDeletes,
           CountedTransaction DEF Commit, Fail

-----------------------------------------------------------------------------
(* What the counter and the comments of a video become in a commit.          *)
LEMMA CommentsFinite ==
    ASSUME NEW v
    PROVE  IsFiniteSet(CommentsOf(v)) /\ Cardinality(CommentsOf(v)) \in Nat
<1>1. IsFiniteSet(CommentsOf(v))
  BY SocialConstants, FS_Subset DEF CommentsOf
<1> QED BY <1>1, FS_CardinalityType

LEMMA CommitWriting ==
    ASSUME TablesInv, NEW r \in Requests, Commit(r), Counted(req[r]), Writing(req[r]),
           NEW v \in Videos, commentsCount[v] = Cardinality(CommentsOf(v))
    PROVE  commentsCount'[v] = Cardinality(CommentsOf(v)')
<1>0. PICK o : o = req[r] /\ RequestOK(o) /\ Claims(o) /\ o.pc = "commit" /\ Writing(o)
  BY CommitAt DEF TablesInv
<1>1. comments[r] = NULL /\ o.op # "delete_comment"
  BY <1>0, CommitAt DEF Writing
<1>2. <<VideoRow(v), "comments">> \in o.held <=> v = o.video
  <2> DEFINE x == <<VideoRow(v), "comments">>
  <2>1. x[1] = VideoRow(v) /\ x[2] = "comments"
    OBVIOUS
  <2>2. v = o.video => x \in o.held
    BY <1>0 DEF Counted
  <2>3. x \in o.held => MayLock(o, x)
    BY <1>0 DEF RequestOK
  <2> HIDE DEF x
  <2>4. x \in o.held => VideoRow(v) = VideoRow(o.video)
    BY <1>0, <2>1, <2>3, RowsDiffer DEF MayLock, References, Writing, Removals
  <2>5. x \in o.held <=> v = o.video
    BY <2>2, <2>4, RowNames
  <2> QED BY <2>5 DEF x
<1>3. \A c \in Requests \ {r} : comments'[c] = comments[c]
  <2>1. \A c \in Requests : ~Deletes(o, CommentRow(c))
    BY <1>0, WritersKeep DEF Writing
  <2> QED BY <1>0, <2>1, CommitRows
<1>4. comments'[r] # NULL /\ comments'[r].video = o.video
  <2>1. comments'[r] = [video |-> o.video, user |-> o.user, parent |-> o.comment]
    BY <1>0, CommitRows
  <2>2. comments'[r] \in Comment
    BY <1>0, <2>1 DEF RequestOK, Placed, Writing, Comment
  <2>3. NULL \notin Comment
    BY SocialConstants
  <2> QED BY <2>1, <2>2, <2>3
<1>5. CommentsOf(v)' = IF v = o.video THEN CommentsOf(v) \cup {r} ELSE CommentsOf(v)
  BY <1>1, <1>3, <1>4 DEF CommentsOf
<1>6. commentsCount'[v] = IF v = o.video THEN commentsCount[v] + 1 ELSE commentsCount[v]
  BY <1>0, <1>2 DEF Commit, CommentsCountAfter, Writing
<1>7. r \notin CommentsOf(v)
  BY <1>1 DEF CommentsOf
<1>8. Cardinality(CommentsOf(v) \cup {r}) = Cardinality(CommentsOf(v)) + 1
  BY <1>7, CommentsFinite, FS_AddElement
<1> QED BY <1>5, <1>6, <1>8

LEMMA CommitDeleting ==
    ASSUME TablesInv, NEW r \in Requests, Commit(r), Counted(req[r]), req[r].op = "delete_comment",
           NEW v \in Videos, video'[v] # "NONE",
           video[v] # "NONE" => commentsCount[v] = Cardinality(CommentsOf(v))
    PROVE  commentsCount'[v] = Cardinality(CommentsOf(v)')
<1>0. PICK o \in Request : o = req[r] /\ RequestOK(o) /\ o.pc = "commit" /\ Counted(o)
  BY CommitAt DEF TablesInv
<1>1. /\ o.op = "delete_comment" /\ ~Writing(o) /\ o.n \in Nat
      /\ Doomed(o) \subseteq CommentsOf(o.video)
  BY <1>0 DEF Writing, Counted, Request
<1>2. commentsCount[v] = Cardinality(CommentsOf(v)) /\ video[v] # "NONE"
  BY CommitRows
<1>3. CommentsOf(v)' = CommentsOf(v) \ Doomed(o)
  <2>1. \A c \in Requests : comments'[c] = IF c \in Doomed(o) THEN NULL ELSE comments[c]
    BY <1>0, <1>1, CommitRows DEF Doomed
  <2> QED BY <2>1 DEF CommentsOf
<1>4. commentsCount'[v] = IF <<VideoRow(v), "comments">> \in o.held
                          THEN Less(commentsCount[v], o.n) ELSE commentsCount[v]
  BY <1>0, <1>1 DEF Commit, CommentsCountAfter
<1>5. CASE v = o.video
  <2>1. o.n = Cardinality(Doomed(o)) /\ (<<VideoRow(v), "comments">> \in o.held <=> o.n > 0)
    BY <1>0, <1>1, <1>2, <1>5 DEF Counted
  <2>2. Doomed(o) \subseteq CommentsOf(v)
    BY <1>1, <1>5
  <2>3. /\ IsFiniteSet(Doomed(o)) /\ Cardinality(Doomed(o)) <= Cardinality(CommentsOf(v))
    BY <2>2, CommentsFinite, FS_Subset
  <2>4. Cardinality(CommentsOf(v) \ Doomed(o)) = Cardinality(CommentsOf(v)) - Cardinality(Doomed(o))
    <3>1. Cardinality(CommentsOf(v) \ Doomed(o))
            = Cardinality(CommentsOf(v)) - Cardinality(CommentsOf(v) \cap Doomed(o))
      BY CommentsFinite, FS_Difference
    <3>2. CommentsOf(v) \cap Doomed(o) = Doomed(o)
      BY <2>2
    <3> QED BY <3>1, <3>2
  <2>5. \A a, n \in Nat : n <= a => Less(a, n) = a - n
    BY DEF Less
  <2>6. Less(commentsCount[v], o.n) = Cardinality(CommentsOf(v)')
    BY <1>1, <1>2, <1>3, <2>1, <2>3, <2>4, <2>5, CommentsFinite
  <2>7. o.n = 0 => commentsCount[v] = Cardinality(CommentsOf(v)')
    BY <1>2, <1>3, <2>1, <2>4, CommentsFinite
  <2> QED BY <1>1, <1>4, <2>1, <2>6, <2>7
<1>6. CASE v # o.video
  <2>1. CommentsOf(v)' = CommentsOf(v)
    BY <1>1, <1>3, <1>6 DEF CommentsOf
  <2>2. <<VideoRow(v), "comments">> \notin o.held
    <3> DEFINE x == <<VideoRow(v), "comments">>
    <3>1. x[1] = VideoRow(v) /\ x[2] = "comments" /\ (x \in o.held => MayLock(o, x))
      BY <1>0 DEF RequestOK
    <3> HIDE DEF x
    <3>2. x \in o.held => VideoRow(v) = VideoRow(o.video)
      BY <1>1, <3>1 DEF MayLock, Removals
    <3>3. x \notin o.held
      BY <1>6, <3>2, RowNames
    <3> QED BY <3>3 DEF x
  <2> QED BY <1>2, <1>4, <2>1, <2>2
<1> QED BY <1>5, <1>6

LEMMA CommitPlain ==
    ASSUME TablesInv, NEW r \in Requests, Commit(r),
           req[r].op \notin Removals \cup {"comment", "reply", "delete_comment"},
           NEW v \in Videos
    PROVE  commentsCount'[v] = commentsCount[v] /\ CommentsOf(v)' = CommentsOf(v)
<1>0. PICK o : /\ o = req[r] /\ RequestOK(o)
               /\ o.op \notin Removals \cup {"comment", "reply", "delete_comment"}
  BY DEF TablesInv
<1>1. ~Writing(o) /\ \A c \in Requests : ~Deletes(o, CommentRow(c))
  <2>1. ASSUME NEW c \in Requests, Deletes(o, CommentRow(c))
        PROVE  FALSE
    <3> DEFINE x == <<CommentRow(c), "delete">>
    <3>1. x[1] = CommentRow(c) /\ x[2] = "delete" /\ MayLock(o, x)
      BY <1>0, <2>1 DEF RequestOK, Deletes
    <3> HIDE DEF x
    <3> QED BY <1>0, <3>1, RowsDiffer DEF MayLock, References
  <2> QED BY <1>0, <2>1 DEF Writing
<1>2. <<VideoRow(v), "comments">> \notin o.held
  <2> DEFINE x == <<VideoRow(v), "comments">>
  <2>1. x[1] = VideoRow(v) /\ x[2] = "comments" /\ (x \in o.held => MayLock(o, x))
    BY <1>0 DEF RequestOK
  <2> HIDE DEF x
  <2>2. x \notin o.held
    BY <1>0, <2>1, RowsDiffer DEF MayLock, References
  <2> QED BY <2>2 DEF x
<1>3. commentsCount'[v] = commentsCount[v]
  BY <1>0, <1>2 DEF Commit, CommentsCountAfter
<1>4. CommentsOf(v)' = CommentsOf(v)
  BY <1>0, <1>1, CommitRows DEF CommentsOf
<1> QED BY <1>3, <1>4

(* A removal that commits has tombstoned its user.                           *)
LEMMA CommitTombstones ==
    ASSUME TablesInv, NEW r \in Requests, Commit(r), RemovalOK(req[r]), req[r].op \in Removals
    PROVE  tombstoned' # {}
<1>1. PICK o : o = req[r] /\ RequestOK(o) /\ o.pc = "commit" /\ o.todo = {} /\ RemovalOK(o)
  BY CommitAt DEF Commit, TablesInv
<1>2. o.user \in Users /\ <<UserRow(o.user), "tombstone">> \in o.held
  BY <1>1 DEF RequestOK, Placed, RemovalOK, Removals
<1> QED BY <1>1, <1>2 DEF Commit

LEMMA CommentsMove ==
    ASSUME TablesInv, [Next]_vars, CommentsExact,
           \A r \in Requests : RemovalOK(req[r]) /\ Counted(req[r])
    PROVE  CommentsExact'
<1> SUFFICES ASSUME tombstoned' = {}, NEW v \in Videos, video'[v] # "NONE"
             PROVE  commentsCount'[v] = Cardinality(CommentsOf(v)')
  BY DEF CommentsExact
<1>1. CASE \A r \in Requests : ~Commit(r)
  <2>1. /\ commentsCount' = commentsCount /\ tombstoned = {} /\ video[v] # "NONE"
        /\ comments' = comments \/ \E w \in Videos : DeleteVideoRow(w)
    BY <1>1, CountsMove
  <2>2. CommentsOf(v)' = CommentsOf(v)
    <3>1. CASE comments' = comments
      BY <3>1 DEF CommentsOf
    <3>2. ASSUME NEW w \in Videos, DeleteVideoRow(w)
          PROVE  CommentsOf(v)' = CommentsOf(v)
      <4>1. w # v
        BY <3>2 DEF DeleteVideoRow, TablesInv, TablesOK
      <4> QED BY <3>2, <4>1 DEF DeleteVideoRow, CommentsOf
    <3> QED BY <2>1, <3>1, <3>2
  <2> QED BY <2>1, <2>2 DEF CommentsExact
<1>2. ASSUME NEW r \in Requests, Commit(r)
      PROVE  commentsCount'[v] = Cardinality(CommentsOf(v)')
  <2>1. tombstoned = {} /\ video[v] # "NONE" /\ Counted(req[r]) /\ RemovalOK(req[r])
    BY <1>2, CommitRows DEF Commit
  <2>2. commentsCount[v] = Cardinality(CommentsOf(v))
    BY <2>1 DEF CommentsExact
  <2>3. req[r].op \notin Removals
    BY <1>2, <2>1, CommitTombstones
  <2> QED BY <1>2, <2>1, <2>2, <2>3, CommitWriting, CommitDeleting, CommitPlain DEF Writing
<1> QED BY <1>1, <1>2

-----------------------------------------------------------------------------
(* An account that was removed leaves nothing behind but what ran beside its *)
(* removal.                                                                  *)

Deletions == {"del_videos", "del_following", "del_followers", "del_likes", "del_comments",
              "del_inbox", "del_sent"}

(* The deletions that a removal at pc has started.                           *)
Behind(pc) ==
    CASE pc = "del_following" -> {"del_videos"}
      [] pc = "del_followers" -> {"del_videos", "del_following"}
      [] pc = "del_likes" -> {"del_videos", "del_following", "del_followers"}
      [] pc = "del_comments" -> {"del_videos", "del_following", "del_followers", "del_likes"}
      [] pc = "del_inbox" -> Deletions \ {"del_inbox", "del_sent"}
      [] pc = "del_sent" -> Deletions \ {"del_sent"}
      [] pc \in {"tombstone", "commit"} -> Deletions
      [] OTHER -> {}

Reached(r) ==
    IF r \in committed THEN Deletions ELSE IF Removing(r) THEN Behind(req[r].pc) ELSE {}

(* A row that a request beside removal r put there, or a notification that   *)
(* answers a comment of one.                                                 *)
Excused(r, x) ==
    \/ \E u \in Users, v \in Videos : x = <<LikeRow(u, v), "delete">> /\ LateLike(r, u, v)
    \/ \E f \in Users \X Users : x = <<FollowRow(f[1], f[2]), "delete">> /\ LateFollow(r, f)
    \/ \E c \in Requests : x = <<CommentRow(c), "delete">> /\ LateComment(r, c)
    \/ \E n \in Note : /\ x = <<NoteRow(n), "delete">>
                       /\ LateNote(r, n) /\ req[n.cause].pc # "new"

(* Of the rows its deletions are about, a removal has locked or is about to  *)
(* lock those that are not excused.                                          *)
Covered(r) ==
    \A statement \in Reached(r) : \A x \in Snapshot(req[r].user, statement) :
        x \in req[r].held \cup req[r].todo \/ Excused(r, x)

(* A request that works for a removed user, or is about to follow one, was   *)
(* let in before the removal committed.                                      *)
Admitted(r, s) ==
    \/ <<r, s>> \in beside
    \/ /\ req[s].op \notin Removals => req[s].user # req[r].user
       /\ req[s].pc \in {"insert_follow", "reload_follow", "notify_follow"} =>
            req[s].peer # req[r].user

(* The inductive invariant behind NothingLeft.                               *)
LeftInv ==
    /\ beside \subseteq Requests \X Requests /\ committed \subseteq Requests
    /\ \A p \in beside : req[p[1]].pc # "new" /\ req[p[2]].pc # "new"
    /\ \A r \in committed : Removing(r) /\ req[r].pc = "done" /\ req[r].user \in tombstoned
    /\ active \cap tombstoned = {}
    /\ Meetings \subseteq beside
    /\ \A r \in committed, s \in InFlight : Admitted(r, s)
    /\ \A r \in Requests : Covered(r) /\ RemovalOK(req[r])

LEMMA BehindIsDeletions == \A pc : Behind(pc) \subseteq Deletions
  BY DEF Behind, Deletions

(* No row is added.                                                          *)
Shrinks ==
    /\ \A v \in Videos : likes'[v] \subseteq likes[v]
    /\ \A c \in Requests : comments'[c] # NULL => comments'[c] = comments[c]
    /\ follows' \subseteq follows /\ notes' \subseteq notes
    /\ \A v \in Videos : video[v] = "NONE" => video'[v] = "NONE"

LEMMA ShrinkMoves ==
    ASSUME TablesInv, [Next]_vars,
           \A r \in Requests : ~Commit(r) /\ ~FollowUser(r) /\ ~NotifyFollow(r)
    PROVE  Shrinks /\ tombstoned' = tombstoned /\ active' \subseteq active
<1>0. DOMAIN likes = Videos /\ DOMAIN comments = Requests
  BY DEF TablesInv, TablesOK
<1>1. CASE UNCHANGED tables
  BY <1>1 DEF Shrinks, tables
<1>2. ASSUME NEW v \in Videos, MarkVideoDeleted(v) \/ DeleteVideoRow(v)
      PROVE  Shrinks /\ tombstoned' = tombstoned /\ active' \subseteq active
  <2>1. CASE MarkVideoDeleted(v)
    BY <2>1 DEF MarkVideoDeleted, Shrinks, TablesInv, TablesOK
  <2>2. CASE DeleteVideoRow(v)
    <3>1. /\ \A w \in Videos : likes'[w] \subseteq likes[w]
          /\ \A w \in Videos : video[w] = "NONE" => video'[w] = "NONE"
      BY <2>2 DEF DeleteVideoRow, TablesInv, TablesOK
    <3>2. \A c \in Requests : comments'[c] # NULL => comments'[c] = comments[c]
      BY <2>2 DEF DeleteVideoRow
    <3> QED BY <2>2, <3>1, <3>2 DEF DeleteVideoRow, Shrinks
  <2> QED BY <1>2, <2>1, <2>2
<1>3. ASSUME NEW r \in Requests, Begin(r) \/ Check(r)
      PROVE  UNCHANGED tables
  BY <1>3 DEF Begin, BeginOnVideo, BeginOnComment, BeginFollow, BeginRemoval, Check, LoadComment,
              CheckVideo, CheckOwner, CheckFollow
<1>4. ASSUME NEW r \in Requests, Statement(r)
      PROVE  UNCHANGED tables
  BY <1>4 DEF Statement, InsertLike, IncrementLikesCount, DeleteLike, DecrementLikesCount,
              InsertComment, IncrementCommentsCount, InsertNotification, CountCommentSubtree,
              DeleteCommentByID, DecrementCommentsCountBy, StartStatement, LockRow, Fail
<1>5. ASSUME NEW r \in Requests, Follow(r)
      PROVE  UNCHANGED tables
  BY <1>5 DEF Follow, LoadTarget, GetFollow
<1>6. ASSUME NEW u \in Users, NEW w \in Users,
             DeleteFollow(u, w) \/ UpdatePrivate(u) \/ DeactivateUser(u)
      PROVE  Shrinks /\ tombstoned' = tombstoned /\ active' \subseteq active
  BY <1>6 DEF DeleteFollow, UpdatePrivate, DeactivateUser, Shrinks
<1>7. CASE AllDone \/ UNCHANGED vars
  BY <1>1, <1>7 DEF AllDone, vars
<1>8. CASE Single
  BY <1>2, <1>6, <1>8 DEF Single
<1> QED BY <1>1, <1>3, <1>4, <1>5, <1>7, <1>8 DEF Next

LEMMA ShrinkSnapshot ==
    ASSUME Shrinks, NEW u, NEW statement \in Deletions
    PROVE  Snapshot(u, statement)' \subseteq Snapshot(u, statement)
<1>1. CASE statement = "del_videos"
  BY <1>1 DEF Snapshot, Shrinks
<1>2. CASE statement = "del_following"
  BY <1>2 DEF Snapshot, Shrinks
<1>3. CASE statement = "del_followers"
  BY <1>3 DEF Snapshot, Shrinks
<1>4. CASE statement = "del_likes"
  BY <1>4 DEF Snapshot, Shrinks
<1>5. CASE statement = "del_comments"
  BY <1>5 DEF Snapshot, Shrinks
<1>6. CASE statement = "del_inbox"
  BY <1>6 DEF Snapshot, Shrinks
<1>7. CASE statement = "del_sent"
  BY <1>7 DEF Snapshot, Shrinks
<1> QED BY <1>1, <1>2, <1>3, <1>4, <1>5, <1>6, <1>7 DEF Deletions

(* A statement deletes rows that are there.                                  *)
LEMMA SnapshotPresent ==
    ASSUME TablesOK, NEW u, NEW statement \in Deletions, NEW x \in Snapshot(u, statement)
    PROVE  Present(x[1])
<1>1. CASE statement = "del_videos"
  BY <1>1 DEF Snapshot, Present, VideoRow
<1>2. CASE statement = "del_following"
  <2>1. PICK f \in follows : x = <<FollowRow(f[1], f[2]), "delete">>
    BY <1>2 DEF Snapshot
  <2>2. f = <<f[1], f[2]>>
    BY <2>1 DEF TablesOK
  <2> QED BY <2>1, <2>2 DEF Present, FollowRow
<1>3. CASE statement = "del_followers"
  <2>1. PICK f \in follows : x = <<FollowRow(f[1], f[2]), "delete">>
    BY <1>3 DEF Snapshot
  <2>2. f = <<f[1], f[2]>>
    BY <2>1 DEF TablesOK
  <2> QED BY <2>1, <2>2 DEF Present, FollowRow
<1>4. CASE statement = "del_likes"
  BY <1>4 DEF Snapshot, Present, LikeRow
<1>5. CASE statement = "del_comments"
  BY <1>5 DEF Snapshot, Present, CommentRow
<1>6. CASE statement = "del_inbox"
  BY <1>6 DEF Snapshot, Present, NoteRow
<1>7. CASE statement = "del_sent"
  BY <1>7 DEF Snapshot, Present, NoteRow
<1> QED BY <1>1, <1>2, <1>3, <1>4, <1>5, <1>6, <1>7 DEF Deletions

LEMMA BehindNext ==
    \A pc \in DOMAIN NextStatement : Behind(NextStatement[pc]) \subseteq Behind(pc) \cup {pc}
<1> SUFFICES ASSUME NEW pc \in DOMAIN NextStatement
             PROVE  Behind(NextStatement[pc]) \subseteq Behind(pc) \cup {pc}
  OBVIOUS
<1>1. CASE pc \in {"dec_likes", "dec_comments", "del_videos"}
  BY <1>1, Statements DEF Behind
<1>2. CASE pc = "del_following"
  BY <1>2, Statements DEF Behind
<1>3. CASE pc = "del_followers"
  BY <1>3, Statements DEF Behind
<1>4. CASE pc = "del_likes"
  BY <1>4, Statements DEF Behind
<1>5. CASE pc = "del_comments"
  BY <1>5, Statements DEF Behind, Deletions
<1>6. CASE pc \in {"del_inbox", "del_sent", "tombstone"}
  BY <1>6, Statements DEF Behind, Deletions
<1> QED BY <1>1, <1>2, <1>3, <1>4, <1>5, <1>6, Statements

(* A request works for one user, and about one peer or comment (or, if it is *)
(* a like, one video), from beginning to end.                                *)
LEMMA CallerStays ==
    ASSUME TablesInv, NEW r \in Requests, Act(r), ~Begin(r)
    PROVE  /\ req'[r].user = req[r].user /\ req'[r].peer = req[r].peer
           /\ req'[r].op = req[r].op /\ req'[r].comment = req[r].comment
           /\ req[r].op = "like" => req'[r].video = req[r].video
<1> DEFINE Same == /\ req'[r].user = req[r].user /\ req'[r].peer = req[r].peer
                   /\ req'[r].op = req[r].op /\ req'[r].comment = req[r].comment
                   /\ req[r].op = "like" => req'[r].video = req[r].video
<1>0. req \in [Requests -> Request]
  BY DEF TablesInv
<1> USE DEF Request
<1>1. CASE Answer(r)
  BY <1>0, <1>1 DEF Answer
<1>2. CASE Check(r)
  BY <1>0, <1>2 DEF Check, LoadComment, CheckVideo, CheckOwner, CheckFollow, Answer, Goto
<1>3. CASE Follow(r)
  BY <1>0, <1>3 DEF Follow, LoadTarget, FollowUser, GetFollow, NotifyFollow, Answer, Goto
<1>4. ASSUME NEW locks, NEW pc, Hold(r, locks, pc)
      PROVE  Same
  BY <1>0, <1>4 DEF Hold
<1>5. CASE InsertLike(r) \/ IncrementLikesCount(r) \/ DeleteLike(r) \/ DecrementLikesCount(r)
  BY <1>1, <1>4, <1>5 DEF InsertLike, IncrementLikesCount, DeleteLike, DecrementLikesCount
<1>6. CASE InsertComment(r) \/ IncrementCommentsCount(r) \/ InsertNotification(r)
  BY <1>1, <1>4, <1>6 DEF InsertComment, IncrementCommentsCount, InsertNotification
<1>7. CASE DeleteCommentByID(r) \/ DecrementCommentsCountBy(r)
  BY <1>4, <1>7 DEF DeleteCommentByID, DecrementCommentsCountBy
<1>8. CASE CountCommentSubtree(r) \/ StartStatement(r)
  BY <1>0, <1>8 DEF CountCommentSubtree, StartStatement
<1>9. CASE LockRow(r)
  <2>1. PICK todo, held : req' = [req EXCEPT ![r].todo = todo, ![r].held = held]
    BY <1>9 DEF LockRow
  <2> QED BY <1>0, <2>1
<1> QED BY <1>1, <1>2, <1>3, <1>5, <1>6, <1>7, <1>8, <1>9 DEF Act, Statement, Commit, Fail

LEMMA StaysBegun ==
    ASSUME TablesInv, NEW r \in Requests, Act(r)
    PROVE  req'[r].pc # "new"
<1>0. req \in [Requests -> Request]
  BY DEF TablesInv
<1>1. CASE Answer(r)
  BY <1>0, <1>1 DEF Answer, Request
<1>2. ASSUME NEW pc, pc # "new", Goto(r, pc)
      PROVE  req'[r].pc # "new"
  BY <1>0, <1>2 DEF Goto, Request
<1>3. ASSUME NEW locks, NEW pc, pc # "new", Hold(r, locks, pc)
      PROVE  req'[r].pc # "new"
  BY <1>0, <1>3 DEF Hold, Request
<1>4. CASE Begin(r)
  <2>1. PICK q \in Request : /\ req' = [req EXCEPT ![r] = q]
                             /\ q.pc \in {"video", "load", "target", "dec_likes"}
    BY <1>4, BeginsAs
  <2> QED BY <1>0, <2>1
<1>5. CASE Check(r)
  <2>1. \A op : FirstStatement(op) # "new"
    BY DEF FirstStatement
  <2>2. CASE LoadComment(r)
    BY <1>0, <1>1, <2>2 DEF LoadComment, Request
  <2>3. CASE CheckVideo(r)
    BY <1>1, <1>2, <2>1, <2>3 DEF CheckVideo
  <2>4. CASE CheckOwner(r)
    BY <1>1, <1>2, <2>1, <2>4 DEF CheckOwner
  <2>5. CASE CheckFollow(r)
    BY <1>1, <1>2, <2>1, <2>5 DEF CheckFollow
  <2> QED BY <1>5, <2>2, <2>3, <2>4, <2>5 DEF Check
<1>6. CASE Follow(r)
  BY <1>1, <1>2, <1>6 DEF Follow, LoadTarget, FollowUser, GetFollow, NotifyFollow
<1>7. CASE InsertLike(r) \/ IncrementLikesCount(r) \/ DeleteLike(r) \/ DecrementLikesCount(r)
  BY <1>1, <1>3, <1>7 DEF InsertLike, IncrementLikesCount, DeleteLike, DecrementLikesCount
<1>8. CASE InsertComment(r) \/ IncrementCommentsCount(r) \/ InsertNotification(r)
  BY <1>1, <1>3, <1>8 DEF InsertComment, IncrementCommentsCount, InsertNotification
<1>9. CASE DeleteCommentByID(r) \/ DecrementCommentsCountBy(r)
  BY <1>3, <1>9 DEF DeleteCommentByID, DecrementCommentsCountBy
<1>10. CASE CountCommentSubtree(r)
  BY <1>0, <1>10 DEF CountCommentSubtree, Request
<1>11. CASE StartStatement(r)
  <2>1. req[r].pc \in DOMAIN NextStatement /\ req'[r].pc = NextStatement[req[r].pc]
    BY <1>0, <1>11 DEF StartStatement, Request
  <2> QED BY <2>1, Statements
<1>12. CASE LockRow(r)
  <2>1. PICK q \in Request : req' = [req EXCEPT ![r] = q] /\ q.pc = req[r].pc
    BY <1>12, LockRowMoves
  <2>2. req[r].pc # "new"
    <3>1. req[r].todo # {}
      BY <1>12 DEF LockRow
    <3> QED BY <3>1 DEF TablesInv, RequestOK, Placed
  <2> QED BY <1>0, <2>1, <2>2
<1> QED BY <1>1, <1>4, <1>5, <1>6, <1>7, <1>8, <1>9, <1>10, <1>11, <1>12
        DEF Act, Statement, Commit, Fail

(* A request that does not act stays where it is.                            *)
LEMMA Waits ==
    ASSUME TablesInv, [Next]_vars, NEW s \in Requests, ~Act(s)
    PROVE  req'[s] = req[s]
<1>1. CASE Single \/ AllDone \/ UNCHANGED vars
  BY <1>1 DEF Single, DeleteFollow, UpdatePrivate, DeactivateUser, MarkVideoDeleted,
              DeleteVideoRow, AllDone, vars
<1> QED BY <1>1, OthersStay DEF Next, Act

LEMMA FieldsStay ==
    ASSUME TablesInv, [Next]_vars, NEW s \in Requests, req[s].pc # "new"
    PROVE  /\ req'[s].user = req[s].user /\ req'[s].peer = req[s].peer
           /\ req'[s].op = req[s].op /\ req'[s].comment = req[s].comment
           /\ req[s].op = "like" => req'[s].video = req[s].video
           /\ req'[s].pc # "new"
<1>1. CASE ~Act(s)
  BY <1>1, Waits
<1>2. CASE Act(s)
  <2>1. ~Begin(s)
    BY DEF Begin, BeginOnVideo, BeginOnComment, BeginFollow, BeginRemoval, MayBegin, At
  <2> QED BY <1>2, <2>1, CallerStays, StaysBegun
<1> QED BY <1>1, <1>2

(* What is excused stays excused.                                            *)
LEMMA ExcusedStays ==
    ASSUME TablesInv, [Next]_vars, LeftInv, Watch, NEW r \in Requests, NEW x, Excused(r, x)
    PROVE  Excused(r, x)'
<1>1. Beside(r) \subseteq Beside(r)' /\ Beside(r) \subseteq Requests
  BY DEF Watch, Beside
<1>2. \A s \in Beside(r) : req[s].pc # "new"
  BY DEF Beside, LeftInv
<1>3. CASE \E u \in Users, v \in Videos :
             x = <<LikeRow(u, v), "delete">> /\ LateLike(r, u, v)
  <2>1. PICK u \in Users, v \in Videos :
             x = <<LikeRow(u, v), "delete">> /\ LateLike(r, u, v)
    BY <1>3
  <2>2. PICK s \in Beside(r) : req[s].op = "like" /\ req[s].user = u /\ req[s].video = v
    BY <2>1 DEF LateLike
  <2>3. s \in Beside(r)' /\ req'[s].op = "like" /\ req'[s].user = u /\ req'[s].video = v
    BY <1>1, <1>2, <2>2, FieldsStay
  <2>4. LateLike(r, u, v)'
    BY <2>3 DEF LateLike
  <2> QED BY <2>1, <2>4 DEF Excused, LikeRow
<1>4. CASE \E f \in Users \X Users :
             x = <<FollowRow(f[1], f[2]), "delete">> /\ LateFollow(r, f)
  <2>1. PICK f \in Users \X Users :
             x = <<FollowRow(f[1], f[2]), "delete">> /\ LateFollow(r, f)
    BY <1>4
  <2>2. PICK s \in Beside(r) : req[s].op = "follow" /\ f = <<req[s].user, req[s].peer>>
    BY <2>1 DEF LateFollow
  <2>3. s \in Beside(r)' /\ req'[s].op = "follow" /\ f = <<req'[s].user, req'[s].peer>>
    BY <1>1, <1>2, <2>2, FieldsStay
  <2>4. LateFollow(r, f)'
    BY <2>3 DEF LateFollow
  <2> QED BY <2>1, <2>4 DEF Excused, FollowRow
<1>5. CASE \E c \in Requests : x = <<CommentRow(c), "delete">> /\ LateComment(r, c)
  BY <1>1, <1>5 DEF Excused, LateComment, CommentRow
<1>6. CASE \E n \in Note : /\ x = <<NoteRow(n), "delete">>
                           /\ LateNote(r, n) /\ req[n.cause].pc # "new"
  <2>1. PICK n \in Note : /\ x = <<NoteRow(n), "delete">>
                          /\ LateNote(r, n) /\ req[n.cause].pc # "new"
    BY <1>6
  <2>2. n.cause \in Requests
    BY DEF Note
  <2>3. req'[n.cause].comment = req[n.cause].comment /\ req'[n.cause].pc # "new"
    BY <2>1, <2>2, FieldsStay
  <2>4. LateNote(r, n)'
    BY <1>1, <2>1, <2>3 DEF LateNote
  <2> QED BY <2>1, <2>3, <2>4 DEF Excused, NoteRow
<1> QED BY <1>3, <1>4, <1>5, <1>6 DEF Excused

(* A removal takes rows and adds none.                                       *)
LEMMA RemovalShrinks ==
    ASSUME TablesInv, NEW r \in Requests, Commit(r), Removing(r), RemovalOK(req[r])
    PROVE  Shrinks
<1>0. PICK o \in Request : o = req[r] /\ RemovalOK(o) /\ o.op \in Removals
  BY DEF TablesInv, Removing
<1>1. ~Writing(o) /\ o.op \notin {"like", "comment", "reply"}
  BY <1>0 DEF Writing, Removals
<1>2. \A row : <<row, "insert">> \notin o.held
  <2> SUFFICES ASSUME NEW row, <<row, "insert">> \in o.held
               PROVE  FALSE
    OBVIOUS
  <2> DEFINE x == <<row, "insert">>
  <2>1. x[2] = "insert" /\ x \in o.held \cup o.todo
    OBVIOUS
  <2> HIDE DEF x
  <2> QED BY <1>0, <2>1 DEF RemovalOK
<1>3. \A v \in Videos : likes'[v] \subseteq likes[v]
  BY <1>0, <1>2 DEF Commit, LikesAfter
<1>4. notes' \subseteq notes /\ follows' \subseteq follows
  BY <1>0, <1>1 DEF Commit, NotesAfter
<1>5. \A c \in Requests : comments'[c] # NULL => comments'[c] = comments[c]
  BY <1>0, <1>1, CommitRows
<1> QED BY <1>3, <1>4, <1>5, CommitRows DEF Shrinks

(* What puts row x of user u into the tables.                                *)
Inserts(s, u, x) ==
    LET q == req[s]
        told(w) == <<NoteRow([to |-> w, actor |-> q.user, cause |-> s]), "delete">>
    IN  /\ s \in InFlight
        /\ \/ Commit(s) /\ q.op = "like" /\ u = q.user /\ x = <<LikeRow(u, q.video), "delete">>
           \/ Commit(s) /\ Writing(q) /\ u = q.user /\ x = <<CommentRow(s), "delete">>
           \/ /\ Commit(s) /\ q.op \in {"like", "comment", "reply"}
              /\ \E w \in Recipients(q) : u \in {w, q.user} /\ x = told(w)
           \/ FollowUser(s) /\ u \in {q.user, q.peer} /\ x = <<FollowRow(q.user, q.peer), "delete">>
           \/ NotifyFollow(s) /\ u \in {q.user, q.peer} /\ x = told(q.peer)

LEMMA FollowInserts ==
    ASSUME TablesInv, NEW s \in Requests, FollowUser(s) \/ NotifyFollow(s), NEW u,
           NEW statement \in Deletions, NEW x \in Snapshot(u, statement)',
           x \notin Snapshot(u, statement)
    PROVE  Inserts(s, u, x)
<1>0. PICK o \in Request : o = req[s] /\ o.op = "follow" /\ s \in InFlight
  BY DEF TablesInv, FollowUser, NotifyFollow, At, InFlight, RequestOK, Placed
<1>1. CASE FollowUser(s)
  <2>1. follows' = follows \cup {<<o.user, o.peer>>}
    BY <1>0, <1>1 DEF FollowUser
  <2>2. statement \in {"del_following", "del_followers"}
    <3>1. CASE statement \in {"del_likes", "del_comments", "del_videos"}
      BY <1>1, <3>1 DEF FollowUser, Snapshot, CommentsOf
    <3>2. CASE statement \in {"del_inbox", "del_sent"}
      BY <1>1, <3>2 DEF FollowUser, Snapshot
    <3> QED BY <3>1, <3>2 DEF Deletions
  <2>3. PICK f \in follows' : x = <<FollowRow(f[1], f[2]), "delete">> /\ u \in {f[1], f[2]}
    <3>1. CASE statement = "del_following"
      BY <3>1 DEF Snapshot, FollowRow
    <3>2. CASE statement = "del_followers"
      BY <3>2 DEF Snapshot, FollowRow
    <3> QED BY <2>2, <3>1, <3>2
  <2>4. f \notin follows
    <3> SUFFICES ASSUME f \in follows PROVE FALSE
      OBVIOUS
    <3>1. CASE statement = "del_following"
      <4>1. PICK g \in follows' : x = <<FollowRow(g[1], g[2]), "delete">> /\ u = g[1]
        BY <3>1 DEF Snapshot, FollowRow
      <4>2. g[1] = f[1]
        BY <2>3, <4>1, RowNames
      <4> QED BY <2>3, <3>1, <4>1, <4>2 DEF Snapshot
    <3>2. CASE statement = "del_followers"
      <4>1. PICK g \in follows' : x = <<FollowRow(g[1], g[2]), "delete">> /\ u = g[2]
        BY <3>2 DEF Snapshot, FollowRow
      <4>2. g[2] = f[2]
        BY <2>3, <4>1, RowNames
      <4> QED BY <2>3, <3>2, <4>1, <4>2 DEF Snapshot
    <3> QED BY <2>2, <3>1, <3>2
  <2>5. f = <<o.user, o.peer>>
    BY <2>1, <2>4
  <2> QED BY <1>0, <1>1, <2>3, <2>5 DEF Inserts
<1>2. CASE NotifyFollow(s)
  <2> DEFINE new == [to |-> o.peer, actor |-> o.user, cause |-> s]
  <2>1. notes' = notes \cup {new}
    BY <1>0, <1>2 DEF NotifyFollow
  <2>2. statement \in {"del_inbox", "del_sent"}
    <3>1. CASE statement \in {"del_likes", "del_comments", "del_videos"}
      BY <1>2, <3>1 DEF NotifyFollow, Snapshot, CommentsOf
    <3>2. CASE statement \in {"del_following", "del_followers"}
      BY <1>2, <3>2 DEF NotifyFollow, Snapshot
    <3> QED BY <3>1, <3>2 DEF Deletions
  <2>3. PICK n \in notes' : /\ x = <<NoteRow(n), "delete">> /\ u \in {n.to, n.actor}
                            /\ n \notin notes
    <3>1. CASE statement = "del_inbox"
      BY <3>1 DEF Snapshot, NoteRow
    <3>2. CASE statement = "del_sent"
      BY <3>2 DEF Snapshot, NoteRow
    <3> QED BY <2>2, <3>1, <3>2
  <2>4. n = new
    BY <2>1, <2>3
  <2>5. new.to = o.peer /\ new.actor = o.user
    OBVIOUS
  <2> QED BY <1>0, <1>2, <2>3, <2>4, <2>5 DEF Inserts
<1> QED BY <1>1, <1>2

LEMMA CommitInserts ==
    ASSUME TablesInv, NEW s \in Requests, Commit(s), ~Removing(s), NEW u \in Users,
           NEW statement \in Deletions, NEW x \in Snapshot(u, statement)',
           x \notin Snapshot(u, statement)
    PROVE  Inserts(s, u, x)
<1>0. PICK o \in Request : /\ o = req[s] /\ RequestOK(o) /\ o.op \notin Removals
                           /\ o.pc = "commit" /\ s \in InFlight
  BY CommitAt DEF TablesInv, Removing, InFlight
<1>1. CASE statement = "del_videos"
  <2>1. \A v \in Videos : video'[v] # "NONE" => video[v] # "NONE"
    BY CommitRows
  <2> QED BY <1>1, <2>1 DEF Snapshot
<1>2. CASE statement \in {"del_following", "del_followers"}
  BY <1>2 DEF Commit, Snapshot
<1>3. CASE statement = "del_likes"
  <2>1. PICK v \in Videos : x = <<LikeRow(u, v), "delete">> /\ u \in likes'[v]
    BY <1>3 DEF Snapshot, LikeRow
  <2>2. u \notin likes[v]
    BY <1>3, <2>1 DEF Snapshot
  <2>3. <<LikeRow(u, v), "insert">> \in o.held
    BY <1>0, <2>1, <2>2 DEF Commit, LikesAfter
  <2>4. o.op = "like" /\ u = o.user /\ v = o.video
    BY <1>0, <2>3, PlainLocks
  <2> QED BY <1>0, <2>1, <2>4 DEF Inserts
<1>4. CASE statement = "del_comments"
  <2>1. PICK c \in Requests : /\ x = <<CommentRow(c), "delete">>
                              /\ comments'[c] # NULL /\ comments'[c].user = u
    BY <1>4 DEF Snapshot, CommentRow
  <2>2. comments'[c] # comments[c]
    BY <1>4, <2>1 DEF Snapshot
  <2>3. c = s /\ Writing(o)
    BY <1>0, <2>1, <2>2, CommitRows
  <2>4. comments'[s] = [video |-> o.video, user |-> o.user, parent |-> o.comment]
    BY <1>0, <2>3, CommitRows
  <2>5. u = o.user
    BY <2>1, <2>3, <2>4
  <2> QED BY <1>0, <2>1, <2>3, <2>5 DEF Inserts
<1>5. CASE statement \in {"del_inbox", "del_sent"}
  <2>1. PICK n \in notes' : /\ x = <<NoteRow(n), "delete">> /\ u \in {n.to, n.actor}
                            /\ n \notin notes
    <3>1. CASE statement = "del_inbox"
      BY <3>1 DEF Snapshot, NoteRow
    <3>2. CASE statement = "del_sent"
      BY <3>2 DEF Snapshot, NoteRow
    <3> QED BY <1>5, <3>1, <3>2
  <2>2. PICK w \in Recipients(o) : /\ o.op \in {"like", "comment", "reply"}
                                   /\ n = [to |-> w, actor |-> o.user, cause |-> s]
    BY <1>0, <2>1 DEF Commit, NotesAfter
  <2>3. n.to = w /\ n.actor = o.user
    BY <2>2
  <2> QED BY <1>0, <2>1, <2>2, <2>3 DEF Inserts
<1> QED BY <1>1, <1>2, <1>3, <1>4, <1>5 DEF Deletions

(* A row that was not there before was put there by a request that acts.     *)
LEMMA NewRows ==
    ASSUME TablesInv, [Next]_vars, \A r \in Requests : RemovalOK(req[r]),
           NEW u \in Users, NEW statement \in Deletions, NEW x \in Snapshot(u, statement)',
           x \notin Snapshot(u, statement)
    PROVE  \E s \in Requests : Inserts(s, u, x)
<1>1. ~Shrinks
  BY ShrinkSnapshot
<1>2. PICK s \in Requests : Commit(s) \/ FollowUser(s) \/ NotifyFollow(s)
  BY <1>1, ShrinkMoves
<1>3. CASE FollowUser(s) \/ NotifyFollow(s)
  BY <1>3, FollowInserts
<1>4. CASE Commit(s)
  BY <1>1, <1>4, RemovalShrinks, CommitInserts
<1> QED BY <1>2, <1>3, <1>4

(* It is excused, if it is about the user of a removal.                      *)
LEMMA BesideExcuses ==
    ASSUME TablesInv, [Next]_vars, LeftInv, Watch, NEW r \in Requests, NEW s \in Beside(r),
           NEW u \in Users, NEW x, Inserts(s, u, x)
    PROVE  Excused(r, x)'
<1>0. PICK o \in Request : /\ o = req[s] /\ RequestOK(o) /\ s \in Requests
                           /\ o.pc # "new"
  BY DEF TablesInv, LeftInv, Beside
<1>1. /\ req'[s].op = o.op /\ req'[s].user = o.user /\ req'[s].peer = o.peer
      /\ o.op = "like" => req'[s].video = o.video
      /\ req'[s].pc # "new"
  BY <1>0, FieldsStay
<1>2. s \in Beside(r)'
  BY <1>0 DEF Beside, Watch
<1>3. ASSUME NEW w \in Users, o.user \in Users,
             x = <<NoteRow([to |-> w, actor |-> o.user, cause |-> s]), "delete">>
      PROVE  Excused(r, x)'
  <2> DEFINE n == [to |-> w, actor |-> o.user, cause |-> s]
  <2>1. n \in Note /\ n.cause = s
    BY <1>0, <1>3 DEF Note
  <2>2. LateNote(r, n)'
    BY <1>2, <2>1 DEF LateNote
  <2>3. x = <<NoteRow(n)', "delete">>
    BY <1>3 DEF NoteRow
  <2> HIDE DEF n
  <2> QED BY <1>0, <1>1, <2>1, <2>2, <2>3 DEF Excused
<1>4. CASE Commit(s) /\ o.op = "like" /\ u = o.user /\ x = <<LikeRow(u, o.video), "delete">>
  <2>1. o.video \in Videos
    BY <1>0, <1>4 DEF RequestOK, Placed
  <2>2. LateLike(r, u, o.video)'
    BY <1>1, <1>2, <1>4 DEF LateLike
  <2>3. x = <<LikeRow(u, o.video)', "delete">>
    BY <1>4 DEF LikeRow
  <2> QED BY <2>1, <2>2, <2>3 DEF Excused
<1>5. CASE Commit(s) /\ Writing(o) /\ x = <<CommentRow(s), "delete">>
  BY <1>0, <1>2, <1>5 DEF Excused, LateComment, CommentRow
<1>6. CASE /\ Commit(s) /\ o.op \in {"like", "comment", "reply"}
           /\ \E w \in Recipients(o) :
                x = <<NoteRow([to |-> w, actor |-> o.user, cause |-> s]), "delete">>
  <2>1. Recipients(o) \subseteq Users /\ o.user \in Users
    BY <1>0, <1>6, CommitAt, RecipientsAreUsers DEF TablesInv, RequestOK, Placed
  <2> QED BY <1>3, <1>6, <2>1
<1>7. CASE FollowUser(s) /\ x = <<FollowRow(o.user, o.peer), "delete">>
  <2>1. o.op = "follow" /\ o.user \in Users /\ o.peer \in Users
    BY <1>0, <1>7 DEF FollowUser, At, RequestOK, Placed
  <2> DEFINE f == <<o.user, o.peer>>
  <2>2. LateFollow(r, f)'
    BY <1>1, <1>2, <2>1 DEF LateFollow
  <2>3. f \in Users \X Users /\ x = <<FollowRow(f[1], f[2])', "delete">>
    BY <1>7, <2>1 DEF FollowRow
  <2> HIDE DEF f
  <2> QED BY <2>2, <2>3 DEF Excused
<1>8. CASE /\ NotifyFollow(s)
           /\ x = <<NoteRow([to |-> o.peer, actor |-> o.user, cause |-> s]), "delete">>
  <2>1. o.user \in Users /\ o.peer \in Users
    BY <1>0, <1>8 DEF NotifyFollow, At, RequestOK, Placed
  <2> QED BY <1>3, <1>8, <2>1
<1> QED BY <1>0, <1>4, <1>5, <1>6, <1>7, <1>8 DEF Inserts

(* Once the removal has committed, a request that did not run beside it can  *)
(* only tell the user of a reply to a comment that is excused.               *)
LEMMA LateExcuses ==
    ASSUME TablesInv, [Next]_vars, LeftInv, Watch, NEW r \in committed, NEW s \in Requests \ Beside(r),
           NEW x, Inserts(s, req[r].user, x)
    PROVE  Excused(r, x)'
<1>0. PICK q \in Request, o \in Request :
         /\ q = req[r] /\ o = req[s] /\ RequestOK(q) /\ RequestOK(o) /\ Claims(o)
         /\ r \in Requests /\ q.op \in Removals /\ q.pc = "done"
  BY DEF TablesInv, LeftInv, Removing
<1>1. q.user \in Users /\ q.held = {} /\ q.todo = {}
  BY <1>0 DEF RequestOK, Placed
<1>2. s \in InFlight /\ o.op \in {"like", "comment", "reply", "follow"}
  BY <1>0 DEF Inserts, Writing, FollowUser, NotifyFollow, At, RequestOK, Placed
<1>3. /\ o.user # q.user
      /\ o.pc \in {"insert_follow", "reload_follow", "notify_follow"} => o.peer # q.user
  BY <1>0, <1>2 DEF LeftInv, Admitted, Beside, Removals
<1>4. /\ Commit(s) /\ o.op \in {"like", "comment", "reply"} /\ q.user \in Recipients(o)
      /\ x = <<NoteRow([to |-> q.user, actor |-> o.user, cause |-> s]), "delete">>
  BY <1>0, <1>3 DEF Inserts, FollowUser, NotifyFollow, At
<1>5. \A statement \in Deletions : \A y \in Snapshot(q.user, statement) : Excused(r, y)
  BY <1>0, <1>1 DEF LeftInv, Covered, Reached
<1>6. Owner[o.video] # q.user
  <2> SUFFICES ASSUME Owner[o.video] = q.user
               PROVE  FALSE
    OBVIOUS
  <2>1. o.video \in Videos /\ video[o.video] # "NONE"
    BY <1>0, <1>4, CommitAt DEF Claims, Anchored, Inserting, RequestOK, Placed
  <2>2. <<VideoRow(o.video), "delete">> \in Snapshot(q.user, "del_videos")
    BY <2>1 DEF Snapshot
  <2>3. Excused(r, <<VideoRow(o.video), "delete">>)
    BY <1>5, <2>2 DEF Deletions
  <2> QED BY <2>3, RowsDiffer DEF Excused
<1>7. PICK c \in Requests : c = o.comment /\ comments[c] # NULL /\ comments[c].user = q.user
  BY <1>4, <1>6 DEF Recipients
<1>8. c \in Beside(r)
  <2>1. <<CommentRow(c), "delete">> \in Snapshot(q.user, "del_comments")
    BY <1>7 DEF Snapshot
  <2>2. Excused(r, <<CommentRow(c), "delete">>)
    BY <1>5, <2>1 DEF Deletions
  <2>3. PICK d \in Requests : CommentRow(c) = CommentRow(d) /\ LateComment(r, d)
    BY <2>2, RowsDiffer DEF Excused
  <2> QED BY <2>3, RowNames DEF LateComment
<1>9. req'[s].comment = o.comment /\ req'[s].pc # "new" /\ o.user \in Users
  BY <1>0, <1>2, FieldsStay DEF InFlight, RequestOK, Placed
<1>10. c \in Beside(r)'
  BY <1>8 DEF Beside, Watch
<1> DEFINE n == [to |-> q.user, actor |-> o.user, cause |-> s]
<1>11. n \in Note /\ n.cause = s
  BY <1>1, <1>9 DEF Note
<1>12. LateNote(r, n)'
  BY <1>7, <1>9, <1>10, <1>11 DEF LateNote
<1>13. x = <<NoteRow(n)', "delete">>
  BY <1>4 DEF NoteRow
<1> HIDE DEF n
<1> QED BY <1>9, <1>11, <1>12, <1>13 DEF Excused

LEMMA CoveredWaits ==
    ASSUME TablesInv, [Next]_vars, LeftInv, Watch, NEW r \in Requests, ~Act(r)
    PROVE  Covered(r)'
<1>0. PICK o \in Request : o = req[r] /\ o = req'[r] /\ RequestOK(o)
  BY Waits DEF TablesInv
<1>1. r \in committed' <=> r \in committed
  BY DEF Watch, Act, Statement
<1>2. Reached(r)' = Reached(r)
  BY <1>0, <1>1 DEF Reached, Removing
<1> SUFFICES ASSUME NEW statement \in Reached(r), NEW x \in Snapshot(o.user, statement)'
             PROVE  x \in o.held \cup o.todo \/ Excused(r, x)'
  BY <1>0, <1>2 DEF Covered
<1>3. Removing(r) /\ o.user \in Users
  BY <1>0 DEF Reached, LeftInv, Removing, RequestOK, Placed
<1>4. statement \in Deletions
  BY BehindIsDeletions DEF Reached
<1>5. CASE x \in Snapshot(o.user, statement)
  <2>1. x \in o.held \cup o.todo \/ Excused(r, x)
    BY <1>0, <1>5 DEF LeftInv, Covered
  <2> QED BY <2>1, ExcusedStays
<1>6. CASE x \notin Snapshot(o.user, statement)
  <2>1. PICK s \in Requests : Inserts(s, o.user, x)
    BY <1>3, <1>4, <1>6, NewRows DEF LeftInv
  <2>2. CASE s \in Beside(r)
    BY <1>3, <2>1, <2>2, BesideExcuses
  <2>3. CASE s \notin Beside(r) /\ r \in committed
    BY <1>0, <2>1, <2>3, LateExcuses
  <2>4. CASE r \notin committed
    <3>1. o.pc \notin {"new", "done"}
      BY <1>0, <1>3, <2>4 DEF Reached, Behind
    <3>2. r # s /\ s \in InFlight
      BY <2>1 DEF Inserts, Act, Statement, Follow
    <3>3. <<r, s>> \in Meetings
      BY <1>0, <1>3, <3>1, <3>2 DEF Meetings, InFlight
    <3>4. s \in Beside(r)
      BY <3>3 DEF LeftInv, Beside
    <3> QED BY <2>2, <3>4
  <2> QED BY <2>2, <2>3, <2>4
<1> QED BY <1>5, <1>6

(* What a removal has locked to delete is gone when it commits.              *)
LEMMA CommitErases ==
    ASSUME TablesInv, NEW r \in Requests, Commit(r), Removing(r), NEW u,
           NEW statement \in Deletions, NEW x \in Snapshot(u, statement)'
    PROVE  x \notin req[r].held
<1>0. PICK o \in Request : /\ o = req[r] /\ ~Writing(o)
                           /\ o.op \notin {"like", "comment", "reply"}
  BY DEF TablesInv, Removing, Removals, Writing
<1>1. CASE statement = "del_videos"
  <2>1. PICK v \in Videos : x = <<VideoRow(v), "delete">> /\ video'[v] # "NONE"
    BY <1>1 DEF Snapshot, VideoRow
  <2> QED BY <2>1, CommitRows DEF Deletes
<1>2. CASE statement \in {"del_following", "del_followers"}
  <2>1. PICK f \in follows' : x = <<FollowRow(f[1], f[2]), "delete">>
    BY <1>2 DEF Snapshot, FollowRow
  <2> QED BY <2>1 DEF Commit
<1>3. CASE statement = "del_likes"
  <2>1. PICK v \in Videos : x = <<LikeRow(u, v), "delete">> /\ u \in likes'[v]
    BY <1>3 DEF Snapshot, LikeRow
  <2> QED BY <2>1 DEF Commit, LikesAfter
<1>4. CASE statement = "del_comments"
  <2>1. PICK c \in Requests : x = <<CommentRow(c), "delete">> /\ comments'[c] # NULL
    BY <1>4 DEF Snapshot, CommentRow
  <2> QED BY <1>0, <2>1, CommitRows DEF Deletes
<1>5. CASE statement \in {"del_inbox", "del_sent"}
  <2>1. PICK n \in notes' : x = <<NoteRow(n), "delete">>
    BY <1>5 DEF Snapshot, NoteRow
  <2> QED BY <1>0, <2>1 DEF Commit, NotesAfter
<1> QED BY <1>1, <1>2, <1>3, <1>4, <1>5 DEF Deletions

LEMMA CoveredCommit ==
    ASSUME TablesInv, [Next]_vars, LeftInv, Watch, NEW r \in Requests, Commit(r)
    PROVE  Covered(r)'
<1>0. PICK o \in Request : /\ o = req[r] /\ o.pc = "commit" /\ o.todo = {} /\ RequestOK(o)
                           /\ Removing(r) <=> o.op \in Removals
  BY DEF TablesInv, Commit, At, Removing
<1>1. PICK q : q = req'[r] /\ q.op = o.op /\ q.user = o.user
  BY <1>0, FieldsStay
<1>2. r \notin committed
  BY <1>0 DEF LeftInv
<1>3. CASE ~Removing(r)
  BY <1>0, <1>1, <1>2, <1>3 DEF Covered, Reached, Watch, Removing
<1>4. CASE Removing(r)
  <2>1. Reached(r)' = Deletions
    BY <1>4 DEF Reached, Watch
  <2> SUFFICES ASSUME NEW statement \in Deletions, NEW x \in Snapshot(o.user, statement)'
               PROVE  Excused(r, x)'
    BY <1>1, <2>1 DEF Covered
  <2>2. x \in Snapshot(o.user, statement)
    BY <1>4, RemovalShrinks, ShrinkSnapshot DEF LeftInv
  <2>3. x \notin o.held
    BY <1>0, <1>4, CommitErases
  <2>4. Reached(r) = Deletions
    <3>1. Behind("commit") = Deletions
      BY DEF Behind
    <3> QED BY <1>0, <1>2, <1>4, <3>1 DEF Reached
  <2>5. \A y \in Snapshot(o.user, statement) : y \in o.held \cup o.todo \/ Excused(r, y)
    <3>1. Covered(r)
      BY DEF LeftInv
    <3> QED BY <1>0, <2>4, <3>1, Zenon DEF Covered
  <2>6. Excused(r, x)
    BY <1>0, <2>2, <2>3, <2>5
  <2> QED BY <2>6, ExcusedStays
<1> QED BY <1>3, <1>4

LEMMA CoveredRemoval ==
    ASSUME TablesInv, [Next]_vars, LeftInv, Watch, NEW r \in Requests,
           StartStatement(r) \/ LockRow(r), ~Commit(r)
    PROVE  Covered(r)'
<1>0. PICK o \in Request : o = req[r] /\ RequestOK(o) /\ o.op \in Removals
  BY Statements DEF TablesInv, StartStatement, LockRow, RequestOK, Placed
<1>1. req \in [Requests -> Request] /\ TablesOK
  BY DEF TablesInv
<1>2. UNCHANGED tables
  BY DEF StartStatement, LockRow
<1>3. \A u, statement : Snapshot(u, statement)' = Snapshot(u, statement)
  BY <1>2 DEF tables, Snapshot, CommentsOf
<1>4. r \notin committed /\ r \notin committed'
  <2>1. o.pc \notin {"new", "done"}
    BY <1>0, Statements DEF StartStatement, LockRow, RequestOK, Placed
  <2> QED BY <1>0, <2>1 DEF LeftInv, Watch
<1>5. \A statement \in Behind(o.pc) : \A x \in Snapshot(o.user, statement) :
         x \in o.held \cup o.todo \/ Excused(r, x)
  BY <1>0, <1>4 DEF LeftInv, Covered, Reached, Removing
<1>6. ASSUME NEW q, q = req'[r], q.op = o.op, q.user = o.user,
             \A statement \in Behind(q.pc) : \A x \in Snapshot(o.user, statement) :
                x \in q.held \cup q.todo \/ Excused(r, x)
      PROVE  Covered(r)'
  <2>1. Reached(r)' \subseteq Behind(q.pc)
    BY <1>4, <1>6 DEF Reached
  <2> SUFFICES ASSUME NEW statement \in Behind(q.pc), NEW x \in Snapshot(o.user, statement)'
               PROVE  x \in q.held \cup q.todo \/ Excused(r, x)'
    BY <1>6, <2>1 DEF Covered
  <2>2. x \in q.held \cup q.todo \/ Excused(r, x)
    BY <1>3, <1>6
  <2> QED BY <2>2, ExcusedStays
<1>7. CASE StartStatement(r)
  <2>0. PICK todo : todo = Snapshot(o.user, o.pc)
    OBVIOUS
  <2> DEFINE new == [o EXCEPT !.todo = todo, !.pc = NextStatement[o.pc]]
  <2>1. req'[r] = new /\ o.pc \in DOMAIN NextStatement /\ o.todo = {}
    BY <1>0, <1>1, <1>7, <2>0 DEF StartStatement
  <2>2. /\ new.op = o.op /\ new.user = o.user /\ new.held = o.held
        /\ new.todo = todo /\ new.pc = NextStatement[o.pc]
    BY DEF Request
  <2> HIDE DEF new
  <2>3. \A statement \in Behind(new.pc) : \A x \in Snapshot(o.user, statement) :
            x \in new.held \cup new.todo \/ Excused(r, x)
    BY <1>5, <2>0, <2>1, <2>2, BehindNext
  <2> QED BY <1>6, <2>1, <2>2, <2>3
<1>8. CASE LockRow(r)
  <2>1. PICK lock \in o.todo, q \in Request :
             /\ req' = [req EXCEPT ![r] = q]
             /\ q.op = o.op /\ q.user = o.user /\ q.pc = o.pc
             /\ lock \in Lock /\ q.todo = o.todo \ {lock} /\ o.held \subseteq q.held
             /\ Present(lock[1]) => lock \in q.held
    BY <1>0, <1>8, LockRowMoves
  <2>2. ASSUME NEW statement \in Behind(o.pc), NEW x \in Snapshot(o.user, statement)
        PROVE  x \in q.held \cup q.todo \/ Excused(r, x)
    <3>1. Present(x[1]) /\ (x \in o.held \cup o.todo \/ Excused(r, x))
      BY <1>1, <1>5, SnapshotPresent, BehindIsDeletions
    <3> QED BY <2>1, <3>1
  <2>3. q = req'[r]
    BY <1>1, <2>1
  <2> QED BY <1>6, <2>1, <2>2, <2>3
<1> QED BY <1>7, <1>8

LEMMA CoveredActs ==
    ASSUME TablesInv, [Next]_vars, LeftInv, Watch, NEW r \in Requests, Act(r)
    PROVE  Covered(r)'
<1>0. PICK o \in Request : o = req[r] /\ RequestOK(o)
  BY DEF TablesInv
<1>1. req \in [Requests -> Request]
  BY DEF TablesInv
<1>2. r \notin committed
  <2>1. CASE LockRow(r)
    <3>1. o.todo # {}
      BY <1>0, <2>1 DEF LockRow
    <3>2. o.pc # "done"
      BY <1>0, <3>1 DEF RequestOK, Placed
    <3> QED BY <1>0, <3>2 DEF LeftInv
  <2>2. CASE ~LockRow(r)
    <3>1. o.pc # "done"
      BY <1>0, <2>2, StepsByPlace, Statements
    <3> QED BY <1>0, <3>1 DEF LeftInv
  <2> QED BY <2>1, <2>2
<1>3. CASE Commit(r)
  BY <1>3, CoveredCommit
<1>4. CASE ~Commit(r) /\ (StartStatement(r) \/ LockRow(r))
  BY <1>4, CoveredRemoval
<1>5. CASE ~Commit(r) /\ ~StartStatement(r) /\ ~LockRow(r)
  <2>1. r \notin committed'
    BY <1>2, <1>5 DEF Watch
  <2>2. CASE Begin(r)
    <3>1. PICK q \in Request : /\ req' = [req EXCEPT ![r] = q]
                               /\ q.pc \in {"video", "load", "target", "dec_likes"}
      BY <2>2, BeginsAs
    <3>2. Behind(req'[r].pc) = {}
      BY <1>1, <3>1 DEF Behind
    <3> QED BY <2>1, <3>2 DEF Covered, Reached
  <2>3. CASE Fail(r)
    <3>1. req'[r].pc = "done"
      BY <1>1, <2>3 DEF Fail, Answer, Request
    <3>2. Behind(req'[r].pc) = {}
      BY <3>1 DEF Behind
    <3> QED BY <2>1, <3>2 DEF Covered, Reached
  <2>4. CASE ~Begin(r) /\ ~Fail(r)
    <3>1. o.op \notin Removals
      BY <1>0, <1>5, <2>4, RemovalSteps
    <3>2. req'[r].op = o.op
      BY <1>0, <2>4, CallerStays
    <3> QED BY <2>1, <3>1, <3>2 DEF Covered, Reached, Removing
  <2> QED BY <2>2, <2>3, <2>4
<1> QED BY <1>3, <1>4, <1>5

LEMMA ActsInFlight ==
    ASSUME TablesInv, NEW s \in Requests, Act(s), ~Begin(s)
    PROVE  s \in InFlight
<1>0. PICK o \in Request : o = req[s] /\ RequestOK(o)
  BY DEF TablesInv
<1>1. CASE LockRow(s)
  <2>1. o.todo # {}
    BY <1>0, <1>1 DEF LockRow
  <2>2. o.pc \notin {"new", "done"}
    BY <1>0, <2>1 DEF RequestOK, Placed
  <2> QED BY <1>0, <2>2 DEF InFlight
<1>2. CASE ~LockRow(s)
  <2>1. o.pc \notin {"new", "done"}
    BY <1>0, <1>2, StepsByPlace, Statements
  <2> QED BY <1>0, <2>1 DEF InFlight
<1> QED BY <1>1, <1>2

LEMMA TombsStay ==
    ASSUME TablesInv, [Next]_vars, active \cap tombstoned = {}
    PROVE  tombstoned \subseteq tombstoned' /\ active' \cap tombstoned' = {}
<1>1. ASSUME NEW r \in Requests, Commit(r)
      PROVE  tombstoned \subseteq tombstoned' /\ active' \cap tombstoned' = {}
  BY <1>1 DEF Commit
<1>2. ASSUME NEW r \in Requests, FollowUser(r) \/ NotifyFollow(r)
      PROVE  tombstoned \subseteq tombstoned' /\ active' \cap tombstoned' = {}
  BY <1>2 DEF FollowUser, NotifyFollow
<1>3. CASE \A r \in Requests : ~Commit(r) /\ ~FollowUser(r) /\ ~NotifyFollow(r)
  BY <1>3, ShrinkMoves
<1> QED BY <1>1, <1>2, <1>3

LEMMA CommittedStays ==
    ASSUME TablesInv, [Next]_vars, LeftInv, Watch, NEW r \in committed'
    PROVE  /\ r \in Requests /\ Removing(r)' /\ req'[r].pc = "done"
           /\ req'[r].user \in tombstoned' /\ req'[r].user = req[r].user
<1>0. r \in Requests
  BY DEF Watch, LeftInv
<1>1. PICK o \in Request : o = req[r] /\ RequestOK(o) /\ RemovalOK(o)
  BY <1>0 DEF TablesInv, LeftInv
<1>2. CASE r \in committed
  <2>1. o.pc = "done" /\ o.op \in Removals /\ o.user \in tombstoned
    BY <1>1, <1>2 DEF LeftInv, Removing
  <2>2. ~Act(r)
    <3>1. ~Begin(r)
      BY <1>1, <2>1 DEF Begin, BeginOnVideo, BeginOnComment, BeginFollow, BeginRemoval, MayBegin, At
    <3>2. r \notin InFlight
      BY <1>1, <2>1 DEF InFlight
    <3> QED BY <1>0, <3>1, <3>2, ActsInFlight
  <2>3. req'[r] = o
    BY <1>0, <1>1, <2>2, Waits
  <2> QED BY <1>0, <1>1, <2>1, <2>3, TombsStay DEF LeftInv, Removing
<1>3. CASE r \notin committed
  <2>1. Commit(r) /\ o.op \in Removals
    BY <1>1, <1>3 DEF Watch, Removing
  <2>2. o.pc = "commit" /\ o.todo = {}
    BY <1>1, <2>1 DEF Commit, At
  <2>3. <<UserRow(o.user), "tombstone">> \in o.held /\ o.user \in Users
    BY <1>1, <2>1, <2>2 DEF RemovalOK, RequestOK, Placed
  <2>4. o.user \in tombstoned'
    BY <1>1, <2>1, <2>3 DEF Commit
  <2>5. req'[r].user = o.user /\ req'[r].op = o.op /\ req'[r].pc = "done"
    BY <1>0, <1>1, <2>1 DEF Commit, Answer, TablesInv, Request
  <2> QED BY <1>0, <1>1, <2>1, <2>4, <2>5 DEF Removing
<1> QED BY <1>2, <1>3

LEMMA AdmittedStays ==
    ASSUME TablesInv, TablesInv', [Next]_vars, LeftInv, Watch,
           NEW r \in committed', NEW s \in InFlight'
    PROVE  Admitted(r, s)'
<1>0. PICK o \in Request : o = req[s] /\ s \in Requests /\ RequestOK(o) /\ r \in Requests
  BY CommittedStays DEF TablesInv, InFlight
<1>1. req \in [Requests -> Request]
  BY DEF TablesInv
<1>2. CASE <<r, s>> \in beside
  BY <1>2 DEF Admitted, Watch
<1>3. CASE r \notin committed
  <2>1. Commit(r) /\ Removing(r)
    BY <1>3 DEF Watch
  <2>2. r # s
    BY CommittedStays DEF InFlight
  <2>3. req'[s] = req[s]
    BY <1>0, <2>1, <2>2, OthersStay DEF Act, Statement
  <2>4. r \in InFlight /\ s \in InFlight
    BY <1>0, <2>1, <2>3 DEF InFlight, Commit, At
  <2>5. <<r, s>> \in Meetings
    BY <2>1, <2>2, <2>4 DEF Meetings
  <2> QED BY <1>2, <2>5 DEF LeftInv
<1>4. CASE r \in committed /\ <<r, s>> \notin beside
  <2>0. PICK u : u = req[r].user /\ u = req'[r].user /\ u \in tombstoned /\ u \notin active
    BY <1>4, CommittedStays DEF LeftInv
  <2>1. ASSUME NEW q, q = req'[s], q.op \notin Removals => q.user # u,
               q.pc \in {"insert_follow", "reload_follow", "notify_follow"} => q.peer # u
        PROVE  Admitted(r, s)'
    BY <2>0, <2>1 DEF Admitted
  <2>2. CASE Begin(s)
    <3>1. PICK q \in Request : /\ req' = [req EXCEPT ![s] = q]
                               /\ q.pc \in {"video", "load", "target", "dec_likes"}
                               /\ q.op \notin Removals => q.user \in active
      BY <1>0, <2>2, BeginsAs
    <3>2. q = req'[s]
      BY <1>0, <1>1, <3>1
    <3> QED BY <2>0, <2>1, <3>1, <3>2
  <2>3. CASE ~Begin(s)
    <3>1. s \in InFlight
      BY <1>0, <2>3, ActsInFlight, Waits DEF InFlight
    <3>2. /\ o.op \notin Removals => o.user # u
          /\ o.pc \in {"insert_follow", "reload_follow", "notify_follow"} => o.peer # u
      BY <1>0, <1>4, <2>0, <3>1 DEF LeftInv, Admitted
    <3>3. PICK q : q = req'[s] /\ q.op = o.op /\ q.user = o.user /\ q.peer = o.peer /\ Placed(q)
      BY <1>0, <3>1, FieldsStay DEF InFlight, TablesInv, RequestOK
    <3>4. CASE ~Act(s)
      BY <1>0, <2>1, <3>2, <3>4, Waits
    <3>5. CASE Act(s) /\ o.pc \in {"insert_follow", "reload_follow", "notify_follow"}
      BY <2>1, <3>2, <3>3, <3>5
    <3>6. CASE Act(s) /\ LoadTarget(s)
      <4>1. q.pc = "done" \/ o.peer \in active
        BY <1>0, <1>1, <3>3, <3>6 DEF LoadTarget, Answer, Request
      <4> QED BY <2>0, <2>1, <3>2, <3>3, <4>1
    <3>7. CASE /\ Act(s) /\ ~LoadTarget(s)
               /\ o.pc \notin {"insert_follow", "reload_follow", "notify_follow"}
      <4>1. q.pc \notin {"insert_follow", "reload_follow", "notify_follow"}
        <5>1. CASE o.op = "follow"
          <6>1. o.pc \notin {"new", "load", "video", "owner", "follower"}
            BY <1>0, <3>1, <5>1 DEF RequestOK, Placed, InFlight
          <6>2. Fail(s) \/ Commit(s)
            BY <1>0, <2>3, <3>7, <5>1, <6>1, StepsByPlace, Statements
               DEF RequestOK, Placed, Removals, LockRow
          <6> QED BY <1>0, <1>1, <3>3, <6>2 DEF Fail, Commit, Answer, Request
        <5>2. CASE o.op # "follow"
          BY <3>3, <5>2 DEF Placed
        <5> QED BY <5>1, <5>2
      <4> QED BY <2>1, <3>2, <3>3, <4>1
    <3> QED BY <3>4, <3>5, <3>6, <3>7
  <2> QED BY <2>2, <2>3
<1> QED BY <1>2, <1>3, <1>4

LEMMA LeftNext ==
    ASSUME TablesInv, TablesInv', [Next]_vars, LeftInv, Watch
    PROVE  LeftInv'
<1>1. beside' \subseteq Requests \X Requests /\ committed' \subseteq Requests
  BY DEF Watch, LeftInv, Meetings, InFlight
<1>2. ASSUME NEW p \in beside'
      PROVE  req'[p[1]].pc # "new" /\ req'[p[2]].pc # "new"
  <2>1. CASE p \in beside
    <3>1. /\ p[1] \in Requests /\ req[p[1]].pc # "new"
          /\ p[2] \in Requests /\ req[p[2]].pc # "new"
      BY <2>1 DEF LeftInv
    <3> QED BY <3>1, FieldsStay
  <2>2. CASE p \in Meetings'
    BY <2>2 DEF Meetings, InFlight
  <2> QED BY <1>2, <2>1, <2>2 DEF Watch
<1>3. \A r \in Requests : Covered(r)'
  BY CoveredWaits, CoveredActs
<1>4. \A r \in Requests : RemovalOK(req[r])'
  BY RemovalStays DEF LeftInv
<1>5. active' \cap tombstoned' = {}
  BY TombsStay DEF LeftInv
<1>6. Meetings' \subseteq beside'
  BY DEF Watch
<1> QED BY <1>1, <1>2, <1>3, <1>4, <1>5, <1>6, CommittedStays, AdmittedStays DEF LeftInv

(* What a removal has not locked any more is excused.                        *)
LEMMA LeftImplies ==
    ASSUME TablesInv, LeftInv
    PROVE  NothingLeft
<1> SUFFICES ASSUME NEW r \in committed
             PROVE  LET u == req[r].user
                    IN  /\ \A v \in Videos : Owner[v] = u => video[v] = "NONE"
                        /\ \A v \in Videos : u \in likes[v] => LateLike(r, u, v)
                        /\ \A c \in Requests :
                             comments[c] # NULL /\ comments[c].user = u => LateComment(r, c)
                        /\ \A f \in follows : u \in {f[1], f[2]} => LateFollow(r, f)
                        /\ \A n \in notes : u \in {n.to, n.actor} => LateNote(r, n)
  BY DEF NothingLeft
<1>0. PICK o \in Request : /\ o = req[r] /\ r \in Requests /\ RequestOK(o)
                           /\ o.pc = "done" /\ Covered(r)
  BY DEF TablesInv, LeftInv
<1>1. \A statement \in Deletions : \A x \in Snapshot(o.user, statement) : Excused(r, x)
  BY <1>0 DEF Covered, Reached, RequestOK, Placed
<1>2. ASSUME NEW v \in Videos, Owner[v] = o.user, video[v] # "NONE"
      PROVE  FALSE
  <2>1. <<VideoRow(v), "delete">> \in Snapshot(o.user, "del_videos")
    BY <1>2 DEF Snapshot
  <2>2. Excused(r, <<VideoRow(v), "delete">>)
    BY <1>1, <2>1 DEF Deletions
  <2> QED BY <2>2, RowsDiffer DEF Excused
<1>3. ASSUME NEW v \in Videos, o.user \in likes[v]
      PROVE  LateLike(r, o.user, v)
  <2>1. <<LikeRow(o.user, v), "delete">> \in Snapshot(o.user, "del_likes")
    BY <1>3 DEF Snapshot
  <2>2. Excused(r, <<LikeRow(o.user, v), "delete">>)
    BY <1>1, <2>1 DEF Deletions
  <2>3. PICK w, z : LikeRow(o.user, v) = LikeRow(w, z) /\ LateLike(r, w, z)
    BY <2>2, RowsDiffer DEF Excused
  <2> QED BY <2>3, RowNames
<1>4. ASSUME NEW c \in Requests, comments[c] # NULL, comments[c].user = o.user
      PROVE  LateComment(r, c)
  <2>1. <<CommentRow(c), "delete">> \in Snapshot(o.user, "del_comments")
    BY <1>4 DEF Snapshot
  <2>2. Excused(r, <<CommentRow(c), "delete">>)
    BY <1>1, <2>1 DEF Deletions
  <2>3. PICK d : CommentRow(c) = CommentRow(d) /\ LateComment(r, d)
    BY <2>2, RowsDiffer DEF Excused
  <2> QED BY <2>3, RowNames
<1>5. ASSUME NEW f \in follows, o.user \in {f[1], f[2]}
      PROVE  LateFollow(r, f)
  <2>1. \/ <<FollowRow(f[1], f[2]), "delete">> \in Snapshot(o.user, "del_following")
        \/ <<FollowRow(f[1], f[2]), "delete">> \in Snapshot(o.user, "del_followers")
    BY <1>5 DEF Snapshot
  <2>2. Excused(r, <<FollowRow(f[1], f[2]), "delete">>)
    BY <1>1, <2>1 DEF Deletions
  <2>3. PICK g \in Users \X Users : /\ FollowRow(f[1], f[2]) = FollowRow(g[1], g[2])
                                    /\ LateFollow(r, g)
    BY <2>2, RowsDiffer DEF Excused
  <2>4. f = g
    BY <2>3, RowNames DEF TablesInv, TablesOK
  <2> QED BY <2>3, <2>4
<1>6. ASSUME NEW n \in notes, o.user \in {n.to, n.actor}
      PROVE  LateNote(r, n)
  <2>1. \/ <<NoteRow(n), "delete">> \in Snapshot(o.user, "del_inbox")
        \/ <<NoteRow(n), "delete">> \in Snapshot(o.user, "del_sent")
    BY <1>6 DEF Snapshot
  <2>2. Excused(r, <<NoteRow(n), "delete">>)
    BY <1>1, <2>1 DEF Deletions
  <2>3. PICK m : NoteRow(n) = NoteRow(m) /\ LateNote(r, m)
    BY <2>2, RowsDiffer DEF Excused
  <2> QED BY <2>3, RowNames
<1> QED BY <1>0, <1>2, <1>3, <1>4, <1>5, <1>6

-----------------------------------------------------------------------------
(* Comments stay counted while nothing but removals that fail, and nothing   *)
(* that moves the subtree of a deletion, has run beside.                     *)

(* What has spoilt no count, and no later step can make undone.              *)
Settled ==
    /\ tombstoned = {}
    /\ \A p \in beside :
        req[p[1]].op = "delete_comment" => req[p[2]].op \notin {"reply", "delete_comment"}

(* The inductive invariant behind CommentsKept.                              *)
CountsInv == Settled => CommentsExact /\ \A r \in Requests : Counted(req[r])

LEMMA SettledBefore ==
    ASSUME TablesInv, [Next]_vars, LeftInv, Watch, Settled'
    PROVE  Settled
<1>1. tombstoned = {}
  BY TombsStay DEF LeftInv, Settled
<1>2. ASSUME NEW p \in beside, req[p[1]].op = "delete_comment"
      PROVE  req[p[2]].op \notin {"reply", "delete_comment"}
  <2>1. /\ p[1] \in Requests /\ req[p[1]].pc # "new"
        /\ p[2] \in Requests /\ req[p[2]].pc # "new"
    BY DEF LeftInv
  <2>2. req'[p[1]].op = req[p[1]].op /\ req'[p[2]].op = req[p[2]].op
    BY <2>1, FieldsStay
  <2>3. p \in beside'
    BY DEF Watch
  <2> QED BY <1>2, <2>2, <2>3 DEF Settled
<1> QED BY <1>1, <1>2 DEF Settled

(* A new comment, which answers none, and a transaction that writes no       *)
(* comment leave every row and every other subtree as they are.              *)
LEMMA CommitAside ==
    ASSUME TablesInv, NEW r \in Requests, Commit(r),
           req[r].op \notin Removals \cup {"reply", "delete_comment"}
    PROVE  /\ \A v \in Videos : CommentsOf(v) \subseteq CommentsOf(v)'
           /\ \A c \in Requests \ {r} : Subtree(c)' = Subtree(c)
<1>0. PICK o : /\ o = req[r] /\ RequestOK(o) /\ comments[r] = NULL
               /\ o.op \notin Removals \cup {"reply", "delete_comment"}
  BY CommitAt
<1>1. \A c \in Requests : ~Deletes(o, CommentRow(c))
  <2> SUFFICES ASSUME NEW c \in Requests, Deletes(o, CommentRow(c))
               PROVE  FALSE
    OBVIOUS
  <2> DEFINE x == <<CommentRow(c), "delete">>
  <2>1. x[1] = CommentRow(c) /\ x[2] = "delete" /\ MayLock(o, x)
    BY <1>0 DEF RequestOK, Deletes
  <2> HIDE DEF x
  <2> QED BY <1>0, <2>1, RowsDiffer DEF MayLock, References
<1>2. \A c \in Requests \ {r} : comments'[c] = comments[c]
  BY <1>0, <1>1, CommitRows
<1>3. comments'[r] = NULL \/ comments'[r].parent = NULL
  <2>1. CASE Writing(o)
    <3>1. o.op = "comment"
      BY <1>0, <2>1 DEF Writing
    <3>2. o.comment = NULL
      BY <1>0, <3>1 DEF RequestOK, Placed
    <3>3. comments'[r] = [video |-> o.video, user |-> o.user, parent |-> o.comment]
      BY <1>0, <2>1, CommitRows
    <3> QED BY <3>2, <3>3
  <2>2. CASE ~Writing(o)
    BY <1>0, <1>1, <2>2, CommitRows
  <2> QED BY <2>1, <2>2
<1>4. \A v \in Videos : CommentsOf(v) \subseteq CommentsOf(v)'
  BY <1>0, <1>2 DEF CommentsOf
<1>5. ASSUME NEW c \in Requests \ {r}
      PROVE  Subtree(c)' = Subtree(c)
  <2> DEFINE rows == {d \in Requests : comments[d] # NULL}
             more == {d \in Requests : comments'[d] # NULL}
             Closed(S) == /\ c \in rows => c \in S
                          /\ \A d \in rows : comments[d].parent \in S => d \in S
             Closed1(S) == /\ c \in more => c \in S
                           /\ \A d \in more : comments'[d].parent \in S => d \in S
  <2>1. /\ Subtree(c) = {d \in rows : \A S \in SUBSET rows : Closed(S) => d \in S}
        /\ Subtree(c)' = {d \in more : \A S \in SUBSET more : Closed1(S) => d \in S}
    BY DEF Subtree
  <2>2. /\ rows \subseteq more
        /\ c \in more => c \in rows
        /\ \A d \in more : d = r \/ (d \in rows /\ comments'[d] = comments[d])
        /\ r \in more => comments'[r].parent = NULL
    BY <1>0, <1>2, <1>3
  <2>3. NULL \notin Requests
    BY SocialConstants
  <2>4. ASSUME NEW S \in SUBSET rows, Closed(S)
        PROVE  S \in SUBSET more /\ Closed1(S)
    <3>1. S \subseteq Requests /\ S \in SUBSET more
      BY <2>2
    <3>2. ASSUME NEW d \in more, comments'[d].parent \in S
          PROVE  d \in S
      <4>1. d # r
        BY <2>2, <2>3, <3>1, <3>2
      <4>2. d \in rows /\ comments[d].parent \in S
        BY <2>2, <3>2, <4>1
      <4> QED BY <2>4, <4>2
    <3> QED BY <2>2, <2>4, <3>1, <3>2
  <2>5. ASSUME NEW S \in SUBSET more, Closed1(S)
        PROVE  S \cap rows \in SUBSET rows /\ Closed(S \cap rows)
    <3>1. ASSUME NEW d \in rows, comments[d].parent \in S
          PROVE  d \in S
      <4>1. d \in more /\ comments'[d].parent = comments[d].parent
        BY <1>0, <1>2, <2>2
      <4> QED BY <2>5, <3>1, <4>1
    <3>2. c \in rows => c \in S
      BY <2>2, <2>5
    <3> QED BY <3>1, <3>2
  <2>6. Closed(Subtree(c)) /\ Subtree(c) \in SUBSET rows
    BY SubtreeCloses
  <2>7. Subtree(c)' \subseteq Subtree(c)
    BY <2>1, <2>4, <2>6
  <2>8. ASSUME NEW d \in Subtree(c)
        PROVE  d \in Subtree(c)'
    <3>1. d \in more
      BY <2>1, <2>2
    <3>2. ASSUME NEW S \in SUBSET more, Closed1(S)
          PROVE  d \in S
      <4>1. S \cap rows \in SUBSET rows /\ Closed(S \cap rows)
        BY <2>5, <3>2
      <4>2. \A R \in SUBSET rows : Closed(R) => d \in R
        BY <2>1
      <4>3. d \in S \cap rows
        <5> HIDE DEF Closed, rows
        <5> QED BY <4>1, <4>2
      <4> QED BY <4>3
    <3> QED BY <2>1, <3>1, <3>2
  <2> QED BY <2>7, <2>8
<1> QED BY <1>4, <1>5

(* So the deletion of a comment may wait for it.                             *)
LEMMA CountedAside ==
    ASSUME TablesInv, NEW s \in Requests, req'[s] = req[s], Counted(req[s]),
           req[s].op = "delete_comment", NEW r \in Requests, Commit(r),
           req[r].op \notin Removals \cup {"reply", "delete_comment"}
    PROVE  Counted(req[s])'
<1>0. PICK q : q = req[s] /\ q = req'[s] /\ q.op = "delete_comment"
  OBVIOUS
<1>1. Counted(q) /\ RequestOK(q) /\ Addressed(q)
  BY <1>0 DEF TablesInv, Claims
<1>2. CASE q.pc \notin {"count", "delete_comment", "dec_comments_by", "commit"}
  BY <1>0, <1>1, <1>2 DEF Counted, Writing
<1>3. CASE q.pc \in {"count", "delete_comment", "dec_comments_by", "commit"}
  <2>1. q.video \in Videos /\ q.comment \in Requests \ {r}
    <3>1. req[r].pc = "commit"
      BY CommitAt
    <3> QED BY <1>0, <1>1, <1>3, <3>1 DEF RequestOK, Placed, Addressed
  <2>2. video'[q.video] # "NONE" => video[q.video] # "NONE"
    BY <2>1, CommitRows
  <2>3. /\ CommentsOf(q.video) \subseteq CommentsOf(q.video)'
        /\ Subtree(q.comment)' = Subtree(q.comment)
    BY <2>1, CommitAside
  <2>4. Doomed(q)' = Doomed(q)
    BY DEF Doomed, Deletes
  <2> QED BY <1>0, <1>1, <1>3, <2>2, <2>3, <2>4 DEF Counted, Writing, Doomed, Deletes
<1> QED BY <1>2, <1>3

LEMMA CountsNext ==
    ASSUME TablesInv, [Next]_vars, LeftInv, Watch, CountsInv
    PROVE  CountsInv'
<1> SUFFICES ASSUME Settled'
             PROVE  CommentsExact' /\ \A r \in Requests : Counted(req[r])'
  BY DEF CountsInv
<1>1. Settled /\ CommentsExact /\ \A r \in Requests : Counted(req[r]) /\ RemovalOK(req[r])
  BY SettledBefore DEF CountsInv, LeftInv
<1>2. CommentsExact'
  BY <1>1, CommentsMove
<1>3. ASSUME NEW s \in Requests
      PROVE  Counted(req[s])'
  <2>1. CASE Act(s)
    BY <1>1, <2>1, CountedActs
  <2>2. CASE ~Act(s) /\ (s \in InFlight /\ req[s].op = "delete_comment" =>
                            \A r \in Requests : ~Commit(r))
    BY <1>1, <2>2, Waits, CountedWaits
  <2>3. ASSUME ~Act(s), s \in InFlight, req[s].op = "delete_comment",
               NEW r \in Requests, Commit(r)
        PROVE  Counted(req[s])'
    <3>1. r # s
      BY <2>3 DEF Act, Statement
    <3>2. r \in InFlight
      BY <2>3, CommitAt DEF InFlight
    <3>3. <<s, r>> \in beside
      BY <2>3, <3>1, <3>2 DEF Meetings, LeftInv
    <3>4. req[r].op \notin {"reply", "delete_comment"}
      BY <1>1, <2>3, <3>3 DEF Settled
    <3>5. req[r].op \notin Removals
      BY <1>1, <2>3, CommitTombstones DEF Settled
    <3> QED BY <1>1, <2>3, <3>4, <3>5, Waits, CountedAside
  <2> QED BY <2>1, <2>2, <2>3
<1> QED BY <1>2, <1>3

(* The two invariants hold together with that of the tables.                 *)
LEMMA BesideInvariance ==
    RemovalSpec => [](TablesInv /\ LeftInv /\ CountsInv)
<1>1. RemovalInit => LeftInv /\ CountsInv
  <2> SUFFICES ASSUME RemovalInit PROVE LeftInv /\ CountsInv
    OBVIOUS
  <2>1. \A r \in Requests : req[r] = Idle
    BY DEF RemovalInit, Init
  <2>2. Idle.pc = "new" /\ Idle.op = "none"
    BY DEF Idle
  <2>3. InFlight = {}
    BY <2>1, <2>2 DEF InFlight
  <2>4. \A r \in Requests : Covered(r) /\ RemovalOK(req[r]) /\ Counted(req[r])
    BY <2>1, <2>2 DEF RemovalInit, Covered, Reached, Removing, RemovalOK, Removals, Counted, Writing
  <2>5. CommentsExact
    <3>1. \A v \in Videos : CommentsOf(v) = {} /\ commentsCount[v] = 0
      BY DEF RemovalInit, Init, CommentsOf
    <3> QED BY <3>1, FS_EmptySet DEF CommentsExact
  <2> QED BY <2>3, <2>4, <2>5 DEF RemovalInit, Init, LeftInv, CountsInv, Meetings
<1>2. TablesInv /\ TablesInv' /\ LeftInv /\ CountsInv /\ [RemovalNext]_removalVars
        => LeftInv' /\ CountsInv'
  <2> SUFFICES ASSUME TablesInv, TablesInv', LeftInv, CountsInv, [RemovalNext]_removalVars
               PROVE  LeftInv' /\ CountsInv'
    OBVIOUS
  <2>1. CASE Next /\ Watch
    BY <2>1, LeftNext, CountsNext
  <2>2. CASE UNCHANGED removalVars
    <3>1. \A r \in Requests : ~Commit(r)
      BY <2>2 DEF removalVars, vars, Commit, At, Answer, TablesInv, Request
    <3>2. Meetings' = Meetings
      BY <2>2 DEF removalVars, vars, Meetings, InFlight, Removing
    <3>3. Watch
      BY <2>2, <3>1, <3>2 DEF Watch, removalVars, LeftInv
    <3>4. [Next]_vars
      BY <2>2 DEF removalVars
    <3> QED BY <3>3, <3>4, LeftNext, CountsNext
  <2> QED BY <2>1, <2>2 DEF RemovalNext
<1>3. RemovalInit => Init
  BY DEF RemovalInit
<1>4. [RemovalNext]_removalVars => [Next]_vars
  BY DEF RemovalNext, removalVars
<1> QED BY <1>1, <1>2, <1>3, <1>4, TablesInvariance, PTL DEF RemovalSpec, Spec

(* However many requests run beside it, the removal of an account takes      *)
(* along every row of its user but those that a request in flight beside it  *)
(* inserted, and the answers to comments that one did; and no later request  *)
(* adds to them.  The tables are those of Social: the history variables      *)
(* restrict no step.                                                         *)
THEOREM NothingIsLeft ==
    RemovalSpec => []NothingLeft
<1>1. TablesInv /\ LeftInv => NothingLeft
  BY LeftImplies
<1> QED BY <1>1, BesideInvariance, PTL

(* For any number of requests in flight comments_count is the number of      *)
(* comments, replies included, until a comment is deleted beside a reply or  *)
(* another deletion, or an account is removed (CommentsExact says why).      *)
THEOREM CommentsAreKept ==
    RemovalSpec => []CommentsKept
<1>1. CountsInv => CommentsKept
  <2>1. tombstoned # {} => CommentsExact
    BY DEF CommentsExact
  <2> QED BY <2>1 DEF CountsInv, Settled, CommentsKept
<1> QED BY <1>1, BesideInvariance, PTL
=============================================================================
