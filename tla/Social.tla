------------------------------- MODULE Social -------------------------------
(* The social tables of PostgreSQL (likes, comments, follows, notifications  *)
(* and the denormalised counters of videos) under the concurrent requests of *)
(* api-gateway: like, unlike, comment, reply, delete comment, follow, and    *)
(* the cascade that removes an account.                                      *)
(*                                                                           *)
(* A request is one HTTP request.  Every SQL statement it sends is a step.   *)
(* Transactions run at READ COMMITTED, the default of PostgreSQL: the        *)
(* tables hold what is committed; what a transaction has written shows as    *)
(* the row locks it holds, each with the reason it was taken, and takes      *)
(* effect in Commit.  A step that needs a lock another request holds in a    *)
(* conflicting way is not enabled: it waits.  A request that creates a       *)
(* comment gives it its own name, so identifiers are never reused.           *)
EXTENDS Integers, FiniteSets

CONSTANTS
    Users,      \* local users, all of them already created
    Videos,     \* videos that finished transcoding
    Owner,      \* Owner[v]: the user a video belongs to
    Requests,   \* requests, each of which runs once
    Ops,        \* the operations this instance may perform
    MaxActive,  \* how many requests may be in flight at a time
    NULL

(* A row of comments and a row of notifications.                             *)
Comment == [video : Videos, user : Users, parent : Requests \cup {NULL}]
Note == [to : Users, actor : Users, cause : Requests]

ASSUME SocialConstants ==
    /\ IsFiniteSet(Users)
    /\ IsFiniteSet(Requests)
    /\ Owner \in [Videos -> Users]
    /\ MaxActive \in Nat
    /\ NULL \notin Users \cup Videos \cup Requests \cup Comment

VARIABLES
    video,          \* video[v]: "READY", "DELETED", or "NONE" once the row is gone
    active,         \* users with is_active
    tombstoned,     \* users TombstoneUser was applied to
    private,        \* users with is_private
    follows,        \* pairs <<follower, followee>>
    likes,          \* likes[v]: the users with a row in likes for v
    comments,       \* comments[c]: the row of comment c, or NULL
    likesCount,     \* videos.likes_count
    commentsCount,  \* videos.comments_count
    notes,          \* rows of notifications
    req             \* req[r]: what request r has done so far

tables == <<video, active, tombstoned, private, follows, likes, comments,
            likesCount, commentsCount, notes>>
vars == <<tables, req>>

-----------------------------------------------------------------------------
(* Rows, and the locks a transaction holds on them until it ends.            *)

VideoRow(v) == <<"video", v>>
UserRow(u) == <<"user", u>>
CommentRow(c) == <<"comment", c>>
LikeRow(u, v) == <<"like", u, v>>
FollowRow(u, w) == <<"follow", u, w>>
NoteRow(n) == <<"note", n>>

(* Why a row is locked: it is inserted, deleted or its key changes; one of   *)
(* its counters is updated; or a foreign key of a new row refers to it.      *)
Exclusive == {"insert", "delete", "tombstone"}
Counter == {"likes", "comments"}
Conflict(x, y) == x \in Exclusive \/ y \in Exclusive \/ {x, y} \subseteq Counter

(* Request r would get the lock on this row at once.                         *)
Free(r, row, why) ==
    \A s \in Requests \ {r} : \A held \in req[s].held :
        held[1] = row => ~Conflict(held[2], why)

CommentsOf(v) == {c \in Requests : comments[c] # NULL /\ comments[c].video = v}

(* CountCommentSubtree, and what deleting c takes along: the least set that  *)
(* has c, if it is there, and every reply to a comment it has.               *)
Subtree(c) ==
    LET rows == {d \in Requests : comments[d] # NULL}
        Closed(S) == /\ c \in rows => c \in S
                     /\ \A d \in rows : comments[d].parent \in S => d \in S
    IN  {d \in rows : \A S \in SUBSET rows : Closed(S) => d \in S}

Present(row) ==
    CASE row[1] = "video" -> video[row[2]] # "NONE"
      [] row[1] = "comment" -> comments[row[2]] # NULL
      [] row[1] = "like" -> row[2] \in likes[row[3]]
      [] row[1] = "follow" -> <<row[2], row[3]>> \in follows
      [] row[1] = "note" -> row[2] \in notes
      [] OTHER -> TRUE

(* The rows that go when this one is deleted: the foreign keys of likes and  *)
(* comments say ON DELETE CASCADE.                                           *)
Cascade(row) ==
    CASE row[1] = "video" ->
            {row} \cup {LikeRow(u, row[2]) : u \in likes[row[2]]}
                  \cup {CommentRow(c) : c \in CommentsOf(row[2])}
      [] row[1] = "comment" -> {CommentRow(c) : c \in Subtree(row[2])}
      [] OTHER -> {row}

-----------------------------------------------------------------------------
(* Requests.                                                                 *)

Idle == [pc |-> "new", op |-> "none", user |-> NULL, video |-> NULL,
         peer |-> NULL, comment |-> NULL, n |-> 0, todo |-> {}, held |-> {}]

InFlight == {r \in Requests : req[r].pc \notin {"new", "done"}}
At(r, pc) == req[r].pc = pc

Goto(r, pc) == req' = [req EXCEPT ![r].pc = pc]

(* Take locks and go on with the next statement of the transaction.          *)
Hold(r, locks, pc) ==
    req' = [req EXCEPT ![r].held = @ \cup locks, ![r].pc = pc]

(* The request is answered; whatever its transaction had not committed is    *)
(* rolled back and its locks are released.                                   *)
Answer(r) == req' = [req EXCEPT ![r].pc = "done", ![r].todo = {}, ![r].held = {}]

MayBegin(r) == At(r, "new") /\ Cardinality(InFlight) < MaxActive

(* The authentication middleware lets an active user through; nothing later  *)
(* in the request looks at is_active of the caller again.                    *)
BeginOnVideo(r) ==
    /\ MayBegin(r)
    /\ \E op \in Ops \cap {"like", "unlike", "comment"}, u \in active, v \in Videos :
         req' = [req EXCEPT ![r] = [Idle EXCEPT !.pc = "video", !.op = op,
                                                !.user = u, !.video = v]]
    /\ UNCHANGED tables

BeginOnComment(r) ==
    /\ MayBegin(r)
    /\ \E op \in Ops \cap {"reply", "delete_comment"}, u \in active, c \in Requests \ {r} :
         /\ comments[c] # NULL
         /\ req' = [req EXCEPT ![r] = [Idle EXCEPT !.pc = "load", !.op = op,
                                                   !.user = u, !.comment = c]]
    /\ UNCHANGED tables

BeginFollow(r) ==
    /\ MayBegin(r)
    /\ "follow" \in Ops
    /\ \E u \in active : \E w \in Users \ {u} :
         req' = [req EXCEPT ![r] = [Idle EXCEPT !.pc = "target", !.op = "follow",
                                                !.user = u, !.peer = w]]
    /\ UNCHANGED tables

(* DELETE /api/users/me by the user, or the webhook event user.removed,      *)
(* which may be delivered again for a user that is gone already.             *)
BeginRemoval(r) ==
    /\ MayBegin(r)
    /\ \E op \in Ops \cap {"delete_me", "user_removed"}, u \in Users :
         /\ op = "delete_me" => u \in active
         /\ req' = [req EXCEPT ![r] = [Idle EXCEPT !.pc = "dec_likes", !.op = op, !.user = u]]
    /\ UNCHANGED tables

(* GetCommentByID of the reply and the delete handler.                       *)
LoadComment(r) ==
    LET q == req[r]
        c == comments[q.comment]
    IN  /\ At(r, "load")
        /\ \/ c = NULL /\ Answer(r)
           \/ /\ c # NULL
              /\ q.op = "delete_comment"
              /\ IF c.user = q.user
                 THEN req' = [req EXCEPT ![r].pc = "count", ![r].video = c.video]
                 ELSE Answer(r)
           \/ /\ c # NULL
              /\ q.op = "reply"
              /\ req' = [req EXCEPT ![r].pc = "video", ![r].video = c.video]
        /\ UNCHANGED tables

-----------------------------------------------------------------------------
(* assertVideoOwnerOrVisible: three reads, each of which may be stale by the *)
(* time the transaction runs.                                                *)

FirstStatement(op) ==
    CASE op = "like" -> "insert_like"
      [] op = "unlike" -> "delete_like"
      [] OTHER -> "insert_comment"

CheckVideo(r) ==
    LET q == req[r]
    IN  /\ At(r, "video")
        /\ IF video[q.video] = "NONE" THEN Answer(r)
           ELSE IF Owner[q.video] = q.user THEN Goto(r, FirstStatement(q.op))
           ELSE IF video[q.video] = "READY" THEN Goto(r, "owner")
           ELSE Answer(r)
        /\ UNCHANGED tables

CheckOwner(r) ==
    LET o == Owner[req[r].video]
    IN  /\ At(r, "owner")
        /\ IF o \notin active THEN Answer(r)
           ELSE Goto(r, IF o \in private THEN "follower" ELSE FirstStatement(req[r].op))
        /\ UNCHANGED tables

CheckFollow(r) ==
    /\ At(r, "follower")
    /\ IF <<req[r].user, Owner[req[r].video]>> \in follows
       THEN Goto(r, FirstStatement(req[r].op))
       ELSE Answer(r)
    /\ UNCHANGED tables

-----------------------------------------------------------------------------
(* The transactions of LikeVideo, UnlikeVideo, CreateComment, ReplyComment.  *)

(* What the foreign keys of a new like or comment refer to.                  *)
References(q) == {<<VideoRow(q.video), "reference">>, <<UserRow(q.user), "reference">>}

MutInsertLike(r) ==
    LET q == req[r]
    IN  /\ At(r, "insert_like")
        /\ Free(r, LikeRow(q.user, q.video), "insert")
        /\ \A ref \in References(q) : Free(r, ref[1], ref[2])
        /\ Hold(r, References(q) \cup {<<LikeRow(q.user, q.video), "insert">>}, "inc_likes")
        /\ UNCHANGED tables

(* InsertLike: ON CONFLICT DO NOTHING waits for a transaction that inserts   *)
(* or deletes the same key, and returns no row if the like is there.         *)
InsertLike(r) ==
    LET q == req[r]
    IN  /\ At(r, "insert_like")
        /\ Free(r, LikeRow(q.user, q.video), "insert")
        /\ \/ q.user \in likes[q.video] /\ Answer(r)
           \/ /\ q.user \notin likes[q.video]
              /\ \A ref \in References(q) : Free(r, ref[1], ref[2])
              /\ IF video[q.video] = "NONE"
                 THEN Answer(r)
                 ELSE Hold(r, References(q) \cup {<<LikeRow(q.user, q.video), "insert">>},
                           "inc_likes")
        /\ UNCHANGED tables

IncrementLikesCount(r) ==
    LET row == VideoRow(req[r].video)
    IN  /\ At(r, "inc_likes")
        /\ Free(r, row, "likes")
        /\ Hold(r, {<<row, "likes">>}, "notify")
        /\ UNCHANGED tables

(* DeleteLike sees committed rows only: a like that another transaction is   *)
(* still inserting is not there, one that is being deleted is waited for.    *)
DeleteLike(r) ==
    LET q == req[r]
    IN  /\ At(r, "delete_like")
        /\ \/ q.user \notin likes[q.video] /\ Answer(r)
           \/ /\ q.user \in likes[q.video]
              /\ Free(r, LikeRow(q.user, q.video), "delete")
              /\ Hold(r, {<<LikeRow(q.user, q.video), "delete">>}, "dec_like")
        /\ UNCHANGED tables

DecrementLikesCount(r) ==
    LET row == VideoRow(req[r].video)
    IN  /\ At(r, "dec_like")
        /\ Free(r, row, "likes")
        /\ Hold(r, {<<row, "likes">>}, "commit")
        /\ UNCHANGED tables

MutInsertComment(r) ==
    LET q == req[r]
    IN  /\ At(r, "insert_comment")
        /\ \A ref \in References(q) : Free(r, ref[1], ref[2])
        /\ IF video[q.video] = "NONE" THEN Answer(r)
           ELSE Hold(r, References(q), "inc_comments")
        /\ UNCHANGED tables

(* InsertComment, with a parent if it is a reply: fk_comments_parent refuses *)
(* a parent that is gone.                                                    *)
InsertComment(r) ==
    LET q == req[r]
        refs == References(q) \cup
                (IF q.op = "reply" THEN {<<CommentRow(q.comment), "reference">>} ELSE {})
    IN  /\ At(r, "insert_comment")
        /\ \A ref \in refs : Free(r, ref[1], ref[2])
        /\ IF \E ref \in refs : ~Present(ref[1])
           THEN Answer(r)
           ELSE Hold(r, refs, "inc_comments")
        /\ UNCHANGED tables

IncrementCommentsCount(r) ==
    LET row == VideoRow(req[r].video)
    IN  /\ At(r, "inc_comments")
        /\ Free(r, row, "comments")
        /\ Hold(r, {<<row, "comments">>}, "notify")
        /\ UNCHANGED tables

MutRecipients(q) == {Owner[q.video]} \ {q.user}

(* Who hears of a like, a comment or a reply: the owner of the video and the *)
(* author of the parent, but never the actor.                                *)
Recipients(q) ==
    ({Owner[q.video]} \cup
     {comments[c].user : c \in {c \in {q.comment} \cap Requests : comments[c] # NULL}})
      \ {q.user}

(* insertSocialNotification for every recipient, inside the transaction.     *)
InsertNotification(r) ==
    LET q == req[r]
        refs == {<<UserRow(u), "reference">> : u \in
                    IF Recipients(q) = {} THEN {} ELSE Recipients(q) \cup {q.user}}
    IN  /\ At(r, "notify")
        /\ \A ref \in refs : Free(r, ref[1], ref[2])
        /\ Hold(r, refs, "commit")
        /\ UNCHANGED tables

-----------------------------------------------------------------------------
(* The transaction of DeleteComment.                                         *)

CountCommentSubtree(r) ==
    /\ At(r, "count")
    /\ req' = [req EXCEPT ![r].n = Cardinality(Subtree(req[r].comment)),
                          ![r].pc = "delete_comment"]
    /\ UNCHANGED tables

(* DeleteCommentByID and its cascade, which sees the replies that have been  *)
(* committed since they were counted.                                        *)
DeleteCommentByID(r) ==
    LET rows == Cascade(CommentRow(req[r].comment))
    IN  /\ At(r, "delete_comment")
        /\ \A row \in rows : Free(r, row, "delete")
        /\ Hold(r, {<<row, "delete">> : row \in rows},
                IF req[r].n > 0 THEN "dec_comments_by" ELSE "commit")
        /\ UNCHANGED tables

DecrementCommentsCountBy(r) ==
    LET row == VideoRow(req[r].video)
    IN  /\ At(r, "dec_comments_by")
        /\ Free(r, row, "comments")
        /\ Hold(r, IF Present(row) THEN {<<row, "comments">>} ELSE {}, "commit")
        /\ UNCHANGED tables

-----------------------------------------------------------------------------
(* The transaction of deleteUserData.  A statement that touches many rows    *)
(* reads the committed rows it is about when it starts (todo), then locks    *)
(* them one by one, in any order; a row that vanished while it waited is     *)
(* passed over.                                                              *)

MutNextStatement ==
    [dec_likes |-> "dec_comments", dec_comments |-> "del_videos",
     del_videos |-> "del_following", del_following |-> "del_followers",
     del_followers |-> "del_likes", del_likes |-> "del_comments",
     del_comments |-> "del_inbox", del_inbox |-> "tombstone",
     tombstone |-> "commit"]


NextStatement ==
    [dec_likes |-> "dec_comments", dec_comments |-> "del_videos",
     del_videos |-> "del_following", del_following |-> "del_followers",
     del_followers |-> "del_likes", del_likes |-> "del_comments",
     del_comments |-> "del_inbox", del_inbox |-> "del_sent",
     del_sent |-> "tombstone", tombstone |-> "commit"]

(* The rows a statement of the cascade is about, and why it locks them.      *)
Snapshot(u, statement) ==
    CASE statement = "dec_likes" ->
            {<<VideoRow(v), "likes">> : v \in {v \in Videos : u \in likes[v]}}
      [] statement = "dec_comments" ->
            {<<VideoRow(v), "comments">> :
                v \in {v \in Videos : \E c \in CommentsOf(v) : comments[c].user = u}}
      [] statement = "del_videos" ->
            {<<VideoRow(v), "delete">> :
                v \in {v \in Videos : Owner[v] = u /\ video[v] # "NONE"}}
      [] statement = "del_following" ->
            {<<FollowRow(f[1], f[2]), "delete">> : f \in {f \in follows : f[1] = u}}
      [] statement = "del_followers" ->
            {<<FollowRow(f[1], f[2]), "delete">> : f \in {f \in follows : f[2] = u}}
      [] statement = "del_likes" ->
            {<<LikeRow(u, v), "delete">> : v \in {v \in Videos : u \in likes[v]}}
      [] statement = "del_comments" ->
            {<<CommentRow(c), "delete">> :
                c \in {c \in Requests : comments[c] # NULL /\ comments[c].user = u}}
      [] statement = "del_inbox" ->
            {<<NoteRow(n), "delete">> : n \in {n \in notes : n.to = u}}
      [] statement = "del_sent" ->
            {<<NoteRow(n), "delete">> : n \in {n \in notes : n.actor = u}}
      [] statement = "tombstone" -> {<<UserRow(u), "tombstone">>}

StartStatement(r) ==
    LET q == req[r]
    IN  /\ q.pc \in DOMAIN NextStatement
        /\ q.todo = {}
        /\ req' = [req EXCEPT ![r].todo = Snapshot(q.user, q.pc),
                              ![r].pc = NextStatement[q.pc]]
        /\ UNCHANGED tables

LockRow(r) ==
    /\ \E lock \in req[r].todo :
         LET rows == IF ~Present(lock[1]) THEN {}
                     ELSE IF lock[2] = "delete" THEN Cascade(lock[1])
                     ELSE {lock[1]}
         IN  /\ \A row \in rows : Free(r, row, lock[2])
             /\ req' = [req EXCEPT ![r].todo = @ \ {lock},
                                   ![r].held = @ \cup {<<row, lock[2]>> : row \in rows}]
    /\ UNCHANGED tables

-----------------------------------------------------------------------------
(* The end of a transaction.                                                 *)

MutLess(count, n) == count - n

(* GREATEST(count - n, 0), and the guard likes_count > 0.                    *)
Less(count, n) == IF count > n THEN count - n ELSE 0

LikesAfter(r, v) ==
    {u \in Users :
        /\ <<LikeRow(u, v), "delete">> \notin req[r].held
        /\ u \in likes[v] \/ <<LikeRow(u, v), "insert">> \in req[r].held}

LikesCountAfter(r, v) ==
    IF <<VideoRow(v), "likes">> \notin req[r].held THEN likesCount[v]
    ELSE IF req[r].op = "like" THEN likesCount[v] + 1
    ELSE Less(likesCount[v], 1)

MutCommentsCountAfter(r, v) ==
    IF <<VideoRow(v), "comments">> \notin req[r].held THEN commentsCount[v]
    ELSE IF req[r].op \in {"comment", "reply"} THEN commentsCount[v] + 1
    ELSE Less(commentsCount[v], 1)

CommentsCountAfter(r, v) ==
    IF <<VideoRow(v), "comments">> \notin req[r].held THEN commentsCount[v]
    ELSE IF req[r].op \in {"comment", "reply"} THEN commentsCount[v] + 1
    ELSE Less(commentsCount[v], IF req[r].op = "delete_comment" THEN req[r].n ELSE 1)

CommentAfter(r, c) ==
    IF c = r /\ req[r].op \in {"comment", "reply"}
    THEN [video |-> req[r].video, user |-> req[r].user, parent |-> req[r].comment]
    ELSE IF <<CommentRow(c), "delete">> \in req[r].held THEN NULL
    ELSE comments[c]

NotesAfter(r) ==
    {n \in notes : <<NoteRow(n), "delete">> \notin req[r].held} \cup
    (IF req[r].op \in {"like", "comment", "reply"}
     THEN {[to |-> u, actor |-> req[r].user, cause |-> r] : u \in Recipients(req[r])}
     ELSE {})

Commit(r) ==
    LET removed == {u \in Users : <<UserRow(u), "tombstone">> \in req[r].held}
    IN  /\ At(r, "commit")
        /\ req[r].todo = {}
        /\ likes' = [v \in Videos |-> LikesAfter(r, v)]
        /\ likesCount' = [v \in Videos |-> LikesCountAfter(r, v)]
        /\ comments' = [c \in Requests |-> CommentAfter(r, c)]
        /\ commentsCount' = [v \in Videos |-> CommentsCountAfter(r, v)]
        /\ notes' = NotesAfter(r)
        /\ follows' = {f \in follows : <<FollowRow(f[1], f[2]), "delete">> \notin req[r].held}
        /\ video' = [v \in Videos |->
                        IF <<VideoRow(v), "delete">> \in req[r].held THEN "NONE" ELSE video[v]]
        /\ tombstoned' = tombstoned \cup removed
        /\ active' = active \ removed
        /\ Answer(r)
        /\ UNCHANGED private

(* A statement fails, the client goes away, PostgreSQL breaks a deadlock or  *)
(* the gateway crashes: the deferred rollback of the transaction runner.     *)
Fail(r) ==
    /\ r \in InFlight
    /\ Answer(r)
    /\ UNCHANGED tables

-----------------------------------------------------------------------------
(* FollowUser: four statements without a transaction.                        *)

LoadTarget(r) ==
    /\ At(r, "target")
    /\ IF req[r].peer \in active THEN Goto(r, "insert_follow") ELSE Answer(r)
    /\ UNCHANGED tables

FollowUser(r) ==
    LET u == req[r].user
        w == req[r].peer
    IN  /\ At(r, "insert_follow")
        /\ Free(r, FollowRow(u, w), "insert")
        /\ \/ <<u, w>> \in follows
           \/ Free(r, UserRow(u), "reference") /\ Free(r, UserRow(w), "reference")
        /\ follows' = follows \cup {<<u, w>>}
        /\ Goto(r, "reload_follow")
        /\ UNCHANGED <<video, active, tombstoned, private, likes, comments, likesCount,
                       commentsCount, notes>>

GetFollow(r) ==
    /\ At(r, "reload_follow")
    /\ IF <<req[r].user, req[r].peer>> \in follows THEN Goto(r, "notify_follow") ELSE Answer(r)
    /\ UNCHANGED tables

(* insertFollowNotification: its failure only costs the notification.        *)
NotifyFollow(r) ==
    LET u == req[r].user
        w == req[r].peer
    IN  /\ At(r, "notify_follow")
        /\ Free(r, UserRow(u), "reference")
        /\ Free(r, UserRow(w), "reference")
        /\ notes' = notes \cup {[to |-> w, actor |-> u, cause |-> r]}
        /\ Answer(r)
        /\ UNCHANGED <<video, active, tombstoned, private, follows, likes, comments,
                       likesCount, commentsCount>>

-----------------------------------------------------------------------------
(* Requests of one statement.                                                *)

(* UnfollowUser.                                                             *)
DeleteFollow(u, w) ==
    /\ "unfollow" \in Ops
    /\ u \in active
    /\ <<u, w>> \in follows
    /\ \A s \in Requests : <<FollowRow(u, w), "delete">> \notin req[s].held
    /\ follows' = follows \ {<<u, w>>}
    /\ UNCHANGED <<video, active, tombstoned, private, likes, comments, likesCount,
                   commentsCount, notes, req>>

(* UpdateMe changes is_private.                                              *)
UpdatePrivate(u) ==
    /\ "private" \in Ops
    /\ u \in active
    /\ \A s \in Requests : <<UserRow(u), "tombstone">> \notin req[s].held
    /\ private' = IF u \in private THEN private \ {u} ELSE private \cup {u}
    /\ UNCHANGED <<video, active, tombstoned, follows, likes, comments, likesCount,
                   commentsCount, notes, req>>

(* The webhook event user.deactivated.                                       *)
DeactivateUser(u) ==
    /\ "deactivate" \in Ops
    /\ \A s \in Requests : <<UserRow(u), "tombstone">> \notin req[s].held
    /\ active' = active \ {u}
    /\ UNCHANGED <<video, tombstoned, private, follows, likes, comments, likesCount,
                   commentsCount, notes, req>>

(* The row is marked, and a day later removed with what refers to it.        *)
MarkVideoDeleted(v) ==
    /\ "delete_video" \in Ops
    /\ video[v] = "READY"
    /\ Owner[v] \in active
    /\ \A s \in Requests : \A held \in req[s].held :
         held[1] = VideoRow(v) => ~Conflict(held[2], "likes")
    /\ video' = [video EXCEPT ![v] = "DELETED"]
    /\ UNCHANGED <<active, tombstoned, private, follows, likes, comments, likesCount,
                   commentsCount, notes, req>>

DeleteVideoRow(v) ==
    /\ video[v] = "DELETED"
    /\ \A s \in Requests : \A held \in req[s].held : held[1] \notin Cascade(VideoRow(v))
    /\ video' = [video EXCEPT ![v] = "NONE"]
    /\ likes' = [likes EXCEPT ![v] = {}]
    /\ comments' = [c \in Requests |-> IF c \in CommentsOf(v) THEN NULL ELSE comments[c]]
    /\ UNCHANGED <<active, tombstoned, private, follows, likesCount, commentsCount, notes, req>>

-----------------------------------------------------------------------------
Init ==
    /\ video = [v \in Videos |-> "READY"]
    /\ active = Users
    /\ tombstoned = {}
    /\ private = {}
    /\ follows = {}
    /\ likes = [v \in Videos |-> {}]
    /\ comments = [c \in Requests |-> NULL]
    /\ likesCount = [v \in Videos |-> 0]
    /\ commentsCount = [v \in Videos |-> 0]
    /\ notes = {}
    /\ req = [r \in Requests |-> Idle]

Begin(r) == BeginOnVideo(r) \/ BeginOnComment(r) \/ BeginFollow(r) \/ BeginRemoval(r)

Check(r) == LoadComment(r) \/ CheckVideo(r) \/ CheckOwner(r) \/ CheckFollow(r)

Statement(r) ==
    \/ InsertLike(r) \/ IncrementLikesCount(r)
    \/ DeleteLike(r) \/ DecrementLikesCount(r)
    \/ InsertComment(r) \/ IncrementCommentsCount(r) \/ InsertNotification(r)
    \/ CountCommentSubtree(r) \/ DeleteCommentByID(r) \/ DecrementCommentsCountBy(r)
    \/ StartStatement(r) \/ LockRow(r)
    \/ Commit(r) \/ Fail(r)

Follow(r) == LoadTarget(r) \/ FollowUser(r) \/ GetFollow(r) \/ NotifyFollow(r)

Single ==
    \/ \E u, w \in Users : DeleteFollow(u, w)
    \/ \E u \in Users : UpdatePrivate(u) \/ DeactivateUser(u)
    \/ \E v \in Videos : MarkVideoDeleted(v) \/ DeleteVideoRow(v)

(* Every request has run.                                                    *)
AllDone == (\A r \in Requests : At(r, "done")) /\ UNCHANGED vars

Next ==
    \/ \E r \in Requests : Begin(r) \/ Check(r) \/ Statement(r) \/ Follow(r)
    \/ Single
    \/ AllDone

Spec == Init /\ [][Next]_vars

-----------------------------------------------------------------------------
(* Properties.                                                               *)

RowOf == ({"video"} \X Videos) \cup ({"user"} \X Users) \cup ({"comment"} \X Requests) \cup
         ({"like"} \X Users \X Videos) \cup ({"follow"} \X Users \X Users) \cup
         ({"note"} \X Note)

(* Type correctness: the tables hold rows of their kind, counters never go   *)
(* below zero (chk_videos_counters), and a request holds locks only while it *)
(* is in flight.                                                             *)
TypeOK ==
    /\ video \in [Videos -> {"READY", "DELETED", "NONE"}]
    /\ active \subseteq Users /\ tombstoned \subseteq Users /\ private \subseteq Users
    /\ follows \subseteq Users \X Users
    /\ likes \in [Videos -> SUBSET Users]
    /\ comments \in [Requests -> Comment \cup {NULL}]
    /\ likesCount \in [Videos -> Nat]
    /\ commentsCount \in [Videos -> Nat]
    /\ notes \subseteq Note
    /\ \A r \in Requests :
         /\ req[r].pc \in {"new", "done"} => req[r].held = {} /\ req[r].todo = {}
         /\ \A held \in req[r].held \cup req[r].todo : held[1] \in RowOf

(* likes_count is the number of rows in likes, whatever likes and unlikes of *)
(* the same user and video run at the same time: the row is inserted or      *)
(* deleted and the counter moved in one transaction, and only if a row was.  *)
LikesExact ==
    \A v \in Videos : video[v] # "NONE" => likesCount[v] = Cardinality(likes[v])

(* The transaction of a like that inserts its row, and of an unlike that     *)
(* deletes it.                                                               *)
Liking(q) == q.op = "like" /\ q.pc \in {"inc_likes", "notify", "commit"}
Unliking(q) == q.op = "unlike" /\ q.pc \in {"dec_like", "commit"}

(* The request has locked the row of its video to move likes_count.          *)
Counting(q) == (Liking(q) /\ q.pc # "inc_likes") \/ (Unliking(q) /\ q.pc # "dec_like")

(* What a request other than the removal of an account may be doing: it      *)
(* holds the lock on a like, and on the counter, exactly in those parts of   *)
(* those transactions.                                                       *)
LikeRequest(q) ==
    /\ DOMAIN q = DOMAIN Idle
    /\ q.todo = {}
    /\ q.op \notin {"delete_me", "user_removed"}
    /\ q.pc \notin DOMAIN NextStatement
    /\ q.pc \in {"video", "owner", "follower"} => q.op \in {"like", "unlike", "comment", "reply"}
    /\ q.pc = "notify" => q.op \in {"like", "comment", "reply", "delete_comment"}
    /\ q.pc \in {"insert_like", "inc_likes"} => q.op = "like"
    /\ q.pc \in {"delete_like", "dec_like"} => q.op = "unlike"
    /\ q.pc \in {"load", "insert_comment", "inc_comments", "count", "delete_comment",
                 "dec_comments_by"} => q.op \in {"comment", "reply", "delete_comment"}
    /\ q.pc \in {"target", "insert_follow", "reload_follow", "notify_follow"} => q.op = "follow"
    /\ q.op \in {"like", "unlike"} => q.user \in Users /\ q.video \in Videos
    /\ \A u \in Users, v \in Videos :
         /\ <<LikeRow(u, v), "insert">> \in q.held <=> Liking(q) /\ u = q.user /\ v = q.video
         /\ <<LikeRow(u, v), "delete">> \in q.held <=> Unliking(q) /\ u = q.user /\ v = q.video
    /\ \A v \in Videos : <<VideoRow(v), "likes">> \in q.held <=> Counting(q) /\ v = q.video

(* No two transactions work on the same like.                                *)
LikesExclusive ==
    \A r, s \in Requests :
        /\ r # s
        /\ Liking(req[r]) \/ Unliking(req[r])
        /\ Liking(req[s]) \/ Unliking(req[s])
        => req[r].user # req[s].user \/ req[r].video # req[s].video

(* What a like or unlike found of its row stays true until it commits.       *)
LikesFound ==
    \A r \in Requests :
        /\ Liking(req[r]) => req[r].user \notin likes[req[r].video]
        /\ Unliking(req[r]) => req[r].user \in likes[req[r].video]

(* The inductive invariant behind LikesExact, as long as no account is       *)
(* removed: with the lock on its like a transaction keeps what it found, so  *)
(* the row and the counter move together when it commits.                    *)
LikesInv ==
    /\ likes \in [Videos -> SUBSET Users]
    /\ likesCount \in [Videos -> Nat]
    /\ DOMAIN video = Videos
    /\ DOMAIN req = Requests
    /\ \A r \in Requests : LikeRequest(req[r])
    /\ LikesExclusive
    /\ LikesFound
    /\ LikesExact

(* comments_count is the number of comments of the video, replies included,  *)
(* as long as no account is removed (DecrementCommentsForUser subtracts one  *)
(* per video, however many comments go).                                     *)
CommentsExact ==
    tombstoned = {} =>
        \A v \in Videos : video[v] # "NONE" => commentsCount[v] = Cardinality(CommentsOf(v))

(* A reply outlives neither its parent nor changes the video: an insert that *)
(* races the deletion of its parent is refused or deleted with it.           *)
ThreadsWhole ==
    \A c \in Requests : comments[c] # NULL =>
        /\ video[comments[c].video] # "NONE"
        /\ comments[c].parent # NULL =>
             /\ comments[comments[c].parent] # NULL
             /\ comments[comments[c].parent].video = comments[c].video

(* A like or a comment that is in the table was announced to the owner of    *)
(* the video, and a reply to the author of its parent, unless that is the    *)
(* actor: the notification is part of the same transaction.                  *)
Announced ==
    /\ \A v \in Videos : \A u \in likes[v] \ {Owner[v]} :
         \E n \in notes : n.to = Owner[v] /\ n.actor = u /\ req[n.cause].op = "like"
    /\ \A c \in Requests : comments[c] # NULL =>
         LET parents == {comments[c].parent} \cap Requests
             owed == ({Owner[comments[c].video]} \cup {comments[p].user : p \in parents})
                       \ {comments[c].user}
         IN  {n.to : n \in {n \in notes : n.cause = c}} = owed
=============================================================================
