---------------------------- MODULE SocialProofs ----------------------------
(* likes_count equals the number of likes, for any numbers of users, videos  *)
(* and concurrent requests, as long as no account is removed.                *)
EXTENDS Social, TLAPS, FiniteSetTheorems

(* A step that changes no table but only one request keeps the invariant if  *)
(* the request is still one the invariant knows, and what it newly claims of *)
(* its like is true and claimed by no other request.                         *)
LEMMA RequestStep ==
    ASSUME LikesInv,
           NEW r \in Requests,
           likes' = likes, likesCount' = likesCount, video' = video,
           DOMAIN req' = Requests,
           \A s \in Requests \ {r} : req'[s] = req[s],
           LikeRequest(req'[r]),
           Liking(req'[r]) => req'[r].user \notin likes[req'[r].video],
           Unliking(req'[r]) => req'[r].user \in likes[req'[r].video],
           Liking(req'[r]) \/ Unliking(req'[r]) =>
              \A s \in Requests \ {r} :
                  Liking(req[s]) \/ Unliking(req[s]) =>
                      req'[r].user # req[s].user \/ req'[r].video # req[s].video
    PROVE  LikesInv'
<1>1. \A s \in Requests : LikeRequest(req'[s])
  BY DEF LikesInv
<1>2. LikesExclusive'
  BY DEF LikesInv, LikesExclusive, Liking, Unliking
<1>3. LikesFound'
  BY DEF LikesInv, LikesFound, Liking, Unliking
<1>4. LikesExact'
  BY DEF LikesInv, LikesExact
<1>5. \A s \in Requests : LikeRequest(req[s])'
  BY <1>1 DEF LikeRequest, Liking, Unliking, Counting
<1> QED
  BY <1>2, <1>3, <1>4, <1>5 DEF LikesInv

(* A request that is answered holds nothing and claims nothing.              *)
LEMMA AnswerStep ==
    ASSUME LikesInv, NEW r \in Requests, Answer(r),
           likes' = likes, likesCount' = likesCount, video' = video
    PROVE  LikesInv'
<1> USE DEF LikesInv
<1>1. DOMAIN req' = Requests /\ \A s \in Requests \ {r} : req'[s] = req[s]
  BY DEF Answer
<1>2. LikeRequest(req'[r]) /\ ~Liking(req'[r]) /\ ~Unliking(req'[r])
  BY DEF Answer, LikeRequest, Idle, NextStatement, Liking, Unliking, Counting
<1> QED
  BY <1>1, <1>2, RequestStep

(* A step outside the transactions that only moves the program counter.      *)
LEMMA GotoStep ==
    ASSUME LikesInv, NEW r \in Requests, NEW pc, Goto(r, pc),
           likes' = likes, likesCount' = likesCount, video' = video,
           ~Liking(req[r]), ~Unliking(req[r]),
           LikeRequest([req[r] EXCEPT !.pc = pc]),
           pc \notin {"inc_likes", "notify", "dec_like", "commit"}
    PROVE  LikesInv'
<1> USE DEF LikesInv
<1>1. DOMAIN req' = Requests /\ \A s \in Requests \ {r} : req'[s] = req[s]
  BY DEF Goto
<1>2. req'[r] = [req[r] EXCEPT !.pc = pc]
  BY DEF Goto
<1>3. req'[r].pc = pc
  BY <1>2 DEF LikeRequest, Idle
<1>4. ~Liking(req'[r]) /\ ~Unliking(req'[r])
  BY <1>3 DEF Liking, Unliking
<1> QED
  BY <1>1, <1>2, <1>4, RequestStep

(* A request begins.                                                         *)
LEMMA BeginKeeps ==
    ASSUME LikesInv, Ops \cap {"delete_me", "user_removed"} = {},
           NEW r \in Requests, Begin(r), active \subseteq Users
    PROVE  LikesInv'
<1> USE DEF LikesInv
<1> DEFINE q == req'[r]
<1>1. /\ likes' = likes /\ likesCount' = likesCount /\ video' = video
      /\ DOMAIN req' = Requests
      /\ \A s \in Requests \ {r} : req'[s] = req[s]
  BY DEF Begin, BeginOnVideo, BeginOnComment, BeginFollow, BeginRemoval, tables
<1>2. LikeRequest(req'[r]) /\ ~Liking(req'[r]) /\ ~Unliking(req'[r])
  <2> USE DEF LikeRequest, Idle, NextStatement, Liking, Unliking, Counting
  <2>1. CASE BeginOnVideo(r)
    BY <2>1 DEF BeginOnVideo
  <2>2. CASE BeginOnComment(r)
    BY <2>2 DEF BeginOnComment
  <2>3. CASE BeginFollow(r)
    BY <2>3 DEF BeginFollow
  <2>4. CASE BeginRemoval(r)
    BY <2>4 DEF BeginRemoval
  <2> QED
    BY <2>1, <2>2, <2>3, <2>4 DEF Begin
<1> QED
  BY <1>1, <1>2, RequestStep

(* The reads before the transaction.                                         *)
LEMMA CheckKeeps ==
    ASSUME LikesInv, NEW r \in Requests, Check(r)
    PROVE  LikesInv'
<1>1. likes' = likes /\ likesCount' = likesCount /\ video' = video
  BY DEF Check, LoadComment, CheckVideo, CheckOwner, CheckFollow, tables
<1>2. LikeRequest(req[r]) /\ DOMAIN req = Requests
  BY DEF LikesInv
<1>3. ~Liking(req[r]) /\ ~Unliking(req[r])
  BY DEF Check, LoadComment, CheckVideo, CheckOwner, CheckFollow, At, Liking, Unliking
<1>4. CASE Answer(r)
  BY <1>1, <1>4, AnswerStep
<1>5. CASE req[r].pc \in {"video", "owner", "follower"} /\ Goto(r, FirstStatement(req[r].op))
  <2>1. LikeRequest([req[r] EXCEPT !.pc = FirstStatement(req[r].op)])
    BY <1>2, <1>3, <1>5 DEF LikeRequest, FirstStatement, Idle, NextStatement, Liking, Unliking, Counting
  <2>2. FirstStatement(req[r].op) \notin {"inc_likes", "notify", "dec_like", "commit"}
    BY DEF FirstStatement
  <2> QED
    BY <1>1, <1>3, <1>5, <2>1, <2>2, GotoStep
<1>6. ASSUME NEW pc \in {"owner", "follower"}, Goto(r, pc), req[r].pc \in {"video", "owner"}
      PROVE  LikesInv'
  <2>1. LikeRequest([req[r] EXCEPT !.pc = pc])
    BY <1>2, <1>3, <1>6 DEF LikeRequest, Idle, NextStatement, Liking, Unliking, Counting
  <2> QED
    BY <1>1, <1>3, <1>6, <2>1, GotoStep
<1>7. CASE LoadComment(r) /\ ~Answer(r)
  <2>1. DOMAIN req' = Requests /\ \A s \in Requests \ {r} : req'[s] = req[s]
    BY <1>2, <1>7 DEF LoadComment
  <2>2. LikeRequest(req'[r]) /\ ~Liking(req'[r]) /\ ~Unliking(req'[r])
    BY <1>2, <1>7 DEF LoadComment, At, LikeRequest, Idle, NextStatement, Liking, Unliking, Counting
  <2> QED
    BY <1>1, <2>1, <2>2, RequestStep
<1>8. CASE CheckVideo(r)
  BY <1>4, <1>5, <1>6, <1>8 DEF CheckVideo, At
<1>9. CASE CheckOwner(r)
  BY <1>4, <1>5, <1>6, <1>9 DEF CheckOwner, At
<1>10. CASE CheckFollow(r)
  BY <1>4, <1>5, <1>10 DEF CheckFollow, At
<1> QED
  BY <1>4, <1>7, <1>8, <1>9, <1>10 DEF Check

(* Who holds a lock on a like is working on it; InsertLike and DeleteLike    *)
(* wait for such a request.                                                  *)
LEMMA FreeLike ==
    ASSUME LikesInv, NEW r \in Requests, NEW u \in Users, NEW v \in Videos,
           NEW why \in {"insert", "delete"}, Free(r, LikeRow(u, v), why),
           NEW s \in Requests \ {r}, Liking(req[s]) \/ Unliking(req[s])
    PROVE  u # req[s].user \/ v # req[s].video
<1>1. LikeRequest(req[s])
  BY DEF LikesInv
<1>2. SUFFICES ASSUME u = req[s].user, v = req[s].video
               PROVE  FALSE
  OBVIOUS
<1>3. PICK w \in {"insert", "delete"} : <<LikeRow(u, v), w>> \in req[s].held
  BY <1>1, <1>2 DEF LikeRequest
<1>4. ~Conflict(w, why)
  <2>1. \A held \in req[s].held : held[1] = LikeRow(u, v) => ~Conflict(held[2], why)
    BY DEF Free
  <2> QED
    BY <1>3, <2>1
<1> QED
  BY <1>4 DEF Conflict, Exclusive

(* The statements of a like and an unlike.                                   *)
LEMMA LikeStatementKeeps ==
    ASSUME LikesInv, NEW r \in Requests,
           \/ InsertLike(r) \/ IncrementLikesCount(r)
           \/ DeleteLike(r) \/ DecrementLikesCount(r)
    PROVE  LikesInv'
<1>1. likes' = likes /\ likesCount' = likesCount /\ video' = video
  BY DEF InsertLike, IncrementLikesCount, DeleteLike, DecrementLikesCount, tables
<1>2. LikeRequest(req[r]) /\ DOMAIN req = Requests
  BY DEF LikesInv
<1>3. CASE Answer(r)
  BY <1>1, <1>3, AnswerStep
<1> DEFINE q == req[r]
           like == LikeRow(q.user, q.video)
<1>4. ASSUME NEW locks, NEW pc, Hold(r, locks, pc)
      PROVE  /\ DOMAIN req' = Requests
             /\ \A s \in Requests \ {r} : req'[s] = req[s]
             /\ DOMAIN req'[r] = DOMAIN Idle
             /\ req'[r].held = q.held \cup locks /\ req'[r].pc = pc
             /\ req'[r].user = q.user /\ req'[r].video = q.video
             /\ req'[r].op = q.op /\ req'[r].todo = q.todo
  BY <1>2, <1>4 DEF Hold, LikeRequest, Idle
<1>5. CASE InsertLike(r) /\ ~Answer(r)
  <2>1. /\ q.pc = "insert_like" /\ q.op = "like" /\ q.user \in Users /\ q.video \in Videos
        /\ q.user \notin likes[q.video]
        /\ Free(r, like, "insert")
        /\ Hold(r, References(q) \cup {<<like, "insert">>}, "inc_likes")
    BY <1>2, <1>5 DEF InsertLike, At, LikeRequest
  <2>2. LikeRequest(req'[r])
    <3>1. req'[r].held = q.held \cup References(q) \cup {<<like, "insert">>}
      BY <1>4, <2>1
    <3>2. ~Liking(q) /\ ~Unliking(q) /\ ~Counting(q)
      BY <2>1 DEF Liking, Unliking, Counting
    <3>3. Liking(req'[r]) /\ ~Unliking(req'[r]) /\ ~Counting(req'[r])
      BY <1>4, <2>1 DEF Liking, Unliking, Counting
    <3>4. \A u \in Users, v \in Videos :
            /\ <<LikeRow(u, v), "insert">> \in req'[r].held <=> u = q.user /\ v = q.video
            /\ <<LikeRow(u, v), "delete">> \notin req'[r].held
      BY <1>2, <3>1, <3>2 DEF LikeRequest, References, LikeRow, VideoRow, UserRow
    <3>5. \A v \in Videos : <<VideoRow(v), "likes">> \notin req'[r].held
      BY <1>2, <3>1, <3>2 DEF LikeRequest, References, LikeRow, VideoRow, UserRow
    <3> QED
      BY <1>2, <1>4, <2>1, <3>3, <3>4, <3>5 DEF LikeRequest, NextStatement
  <2>3. ~Unliking(req'[r])
    BY <1>4, <2>1 DEF Unliking
  <2>4. \A s \in Requests \ {r} : Liking(req[s]) \/ Unliking(req[s]) =>
            q.user # req[s].user \/ q.video # req[s].video
    BY <2>1, FreeLike
  <2> QED
    BY <1>1, <1>4, <2>1, <2>2, <2>3, <2>4, RequestStep
<1>6. CASE DeleteLike(r) /\ ~Answer(r)
  <2>1. /\ q.pc = "delete_like" /\ q.op = "unlike" /\ q.user \in Users /\ q.video \in Videos
        /\ q.user \in likes[q.video]
        /\ Free(r, like, "delete")
        /\ Hold(r, {<<like, "delete">>}, "dec_like")
    BY <1>2, <1>6 DEF DeleteLike, At, LikeRequest
  <2>2. LikeRequest(req'[r])
    <3>1. req'[r].held = q.held \cup {<<like, "delete">>}
      BY <1>4, <2>1
    <3>2. ~Liking(q) /\ ~Unliking(q) /\ ~Counting(q)
      BY <2>1 DEF Liking, Unliking, Counting
    <3>3. ~Liking(req'[r]) /\ Unliking(req'[r]) /\ ~Counting(req'[r])
      BY <1>4, <2>1 DEF Liking, Unliking, Counting
    <3>4. \A u \in Users, v \in Videos :
            /\ <<LikeRow(u, v), "insert">> \notin req'[r].held
            /\ <<LikeRow(u, v), "delete">> \in req'[r].held <=> u = q.user /\ v = q.video
      BY <1>2, <3>1, <3>2 DEF LikeRequest, LikeRow
    <3>5. \A v \in Videos : <<VideoRow(v), "likes">> \notin req'[r].held
      BY <1>2, <3>1, <3>2 DEF LikeRequest, LikeRow, VideoRow
    <3> QED
      BY <1>2, <1>4, <2>1, <3>3, <3>4, <3>5 DEF LikeRequest, NextStatement
  <2>3. ~Liking(req'[r])
    BY <1>4, <2>1 DEF Liking
  <2>4. \A s \in Requests \ {r} : Liking(req[s]) \/ Unliking(req[s]) =>
            q.user # req[s].user \/ q.video # req[s].video
    BY <2>1, FreeLike
  <2> QED
    BY <1>1, <1>4, <2>1, <2>2, <2>3, <2>4, RequestStep
<1>7. CASE IncrementLikesCount(r) \/ DecrementLikesCount(r)
  <2>1. PICK pc \in {"notify", "commit"} : Hold(r, {<<VideoRow(q.video), "likes">>}, pc)
    BY <1>7 DEF IncrementLikesCount, DecrementLikesCount
  <2>2. \/ /\ q.pc = "inc_likes" /\ q.op = "like" /\ pc = "notify"
           /\ q.user \in Users /\ q.video \in Videos
        \/ /\ q.pc = "dec_like" /\ q.op = "unlike" /\ pc = "commit"
           /\ q.user \in Users /\ q.video \in Videos
    <3>1. CASE IncrementLikesCount(r)
      <4>1. req'[r].pc = "notify"
        BY <1>4, <3>1 DEF IncrementLikesCount
      <4> QED
        BY <1>2, <1>4, <2>1, <3>1, <4>1 DEF IncrementLikesCount, At, LikeRequest
    <3>2. CASE DecrementLikesCount(r)
      <4>1. req'[r].pc = "commit"
        BY <1>4, <3>2 DEF DecrementLikesCount
      <4> QED
        BY <1>2, <1>4, <2>1, <3>2, <4>1 DEF DecrementLikesCount, At, LikeRequest
    <3> QED
      BY <1>7, <3>1, <3>2
  <2>3. /\ Liking(req'[r]) <=> Liking(q)
        /\ Unliking(req'[r]) <=> Unliking(q)
        /\ Counting(req'[r]) /\ ~Counting(q)
    BY <1>4, <2>1, <2>2 DEF Liking, Unliking, Counting
  <2>4. LikeRequest(req'[r])
    <3>1. req'[r].held = q.held \cup {<<VideoRow(q.video), "likes">>}
      BY <1>4, <2>1
    <3>2. \A u \in Users, v \in Videos :
            /\ <<LikeRow(u, v), "insert">> \in req'[r].held <=> <<LikeRow(u, v), "insert">> \in q.held
            /\ <<LikeRow(u, v), "delete">> \in req'[r].held <=> <<LikeRow(u, v), "delete">> \in q.held
      BY <3>1 DEF LikeRow, VideoRow
    <3>3. \A v \in Videos : <<VideoRow(v), "likes">> \in req'[r].held <=> v = q.video
      BY <1>2, <2>3, <3>1 DEF LikeRequest, VideoRow
    <3> QED
      BY <1>2, <1>4, <2>1, <2>2, <2>3, <3>2, <3>3 DEF LikeRequest, NextStatement
  <2>5. Liking(q) \/ Unliking(q)
    BY <2>2 DEF Liking, Unliking
  <2> QED
    BY <1>1, <1>4, <2>1, <2>3, <2>4, <2>5, RequestStep DEF LikesInv, LikesFound, LikesExclusive
<1> QED
  BY <1>3, <1>5, <1>6, <1>7

(* Locks on rows that are no likes, and for other reasons than likes_count.  *)
OtherLocks(locks) ==
    /\ \A u \in Users, v \in Videos, why \in {"insert", "delete"} :
         <<LikeRow(u, v), why>> \notin locks
    /\ \A v \in Videos : <<VideoRow(v), "likes">> \notin locks

(* Taking such locks keeps the invariant, if the request goes on within the  *)
(* same part of its transaction.                                             *)
LEMMA OtherHold ==
    ASSUME LikesInv, NEW r \in Requests, NEW locks, NEW pc, Hold(r, locks, pc),
           OtherLocks(locks),
           likes' = likes, likesCount' = likesCount, video' = video,
           \/ req[r].op \in {"comment", "reply", "delete_comment"}
           \/ req[r].op = "like" /\ req[r].pc = "notify" /\ pc = "commit",
           pc \in {"inc_comments", "notify", "commit", "dec_comments_by"},
           pc \in {"inc_comments", "dec_comments_by"} =>
              req[r].op \in {"comment", "reply", "delete_comment"}
    PROVE  LikesInv'
<1>1. LikeRequest(req[r]) /\ DOMAIN req = Requests
  BY DEF LikesInv
<1>2. /\ DOMAIN req' = Requests
      /\ \A s \in Requests \ {r} : req'[s] = req[s]
      /\ DOMAIN req'[r] = DOMAIN Idle
      /\ req'[r].held = req[r].held \cup locks /\ req'[r].pc = pc
      /\ req'[r].user = req[r].user /\ req'[r].video = req[r].video
      /\ req'[r].op = req[r].op /\ req'[r].todo = req[r].todo
  BY <1>1 DEF Hold, LikeRequest, Idle
<1>3. /\ Liking(req'[r]) <=> Liking(req[r])
      /\ Unliking(req'[r]) <=> Unliking(req[r])
      /\ Counting(req'[r]) <=> Counting(req[r])
  BY <1>2 DEF Liking, Unliking, Counting
<1>4. LikeRequest(req'[r])
  <2>1. \A u \in Users, v \in Videos, why \in {"insert", "delete"} :
            <<LikeRow(u, v), why>> \in req'[r].held <=> <<LikeRow(u, v), why>> \in req[r].held
    BY <1>2 DEF OtherLocks
  <2>2. \A v \in Videos :
            <<VideoRow(v), "likes">> \in req'[r].held <=> <<VideoRow(v), "likes">> \in req[r].held
    BY <1>2 DEF OtherLocks
  <2> QED
    BY <1>1, <1>2, <1>3, <2>1, <2>2 DEF LikeRequest, NextStatement
<1> QED
  BY <1>2, <1>3, <1>4, RequestStep DEF LikesInv, LikesFound, LikesExclusive

(* The statements about comments and notifications.                          *)
LEMMA CommentStatementKeeps ==
    ASSUME LikesInv, NEW r \in Requests,
           \/ InsertComment(r) \/ IncrementCommentsCount(r) \/ InsertNotification(r)
           \/ CountCommentSubtree(r) \/ DeleteCommentByID(r) \/ DecrementCommentsCountBy(r)
    PROVE  LikesInv'
<1>1. likes' = likes /\ likesCount' = likesCount /\ video' = video
  BY DEF InsertComment, IncrementCommentsCount, InsertNotification, CountCommentSubtree,
         DeleteCommentByID, DecrementCommentsCountBy, tables
<1>2. LikeRequest(req[r]) /\ DOMAIN req = Requests
  BY DEF LikesInv
<1>3. CASE Answer(r)
  BY <1>1, <1>3, AnswerStep
<1> DEFINE q == req[r]
<1>4. CASE InsertComment(r) /\ ~Answer(r)
  <2> DEFINE refs == References(q) \cup
                (IF q.op = "reply" THEN {<<CommentRow(q.comment), "reference">>} ELSE {})
  <2>1. Hold(r, refs, "inc_comments") /\ q.pc = "insert_comment"
    BY <1>4 DEF InsertComment, At
  <2>2. OtherLocks(refs)
    BY DEF OtherLocks, References, LikeRow, VideoRow, UserRow, CommentRow
  <2>3. q.op \in {"comment", "reply", "delete_comment"}
    BY <1>2, <2>1 DEF LikeRequest
  <2> QED
    BY <1>1, <2>1, <2>2, <2>3, OtherHold
<1>5. CASE IncrementCommentsCount(r)
  <2>1. OtherLocks({<<VideoRow(q.video), "comments">>})
    BY DEF OtherLocks, LikeRow, VideoRow
  <2>2. q.op \in {"comment", "reply", "delete_comment"}
    BY <1>2, <1>5 DEF IncrementCommentsCount, At, LikeRequest
  <2> QED
    BY <1>1, <1>5, <2>1, <2>2, OtherHold DEF IncrementCommentsCount
<1>6. CASE InsertNotification(r)
  <2>1. PICK us : Hold(r, {<<UserRow(u), "reference">> : u \in us}, "commit")
    BY <1>6 DEF InsertNotification
  <2>2. OtherLocks({<<UserRow(u), "reference">> : u \in us})
    BY DEF OtherLocks, LikeRow, VideoRow, UserRow
  <2>3. q.pc = "notify" /\ q.op \in {"like", "comment", "reply", "delete_comment"}
    BY <1>2, <1>6 DEF InsertNotification, At, LikeRequest
  <2> QED
    BY <1>1, <2>1, <2>2, <2>3, OtherHold
<1>7. CASE CountCommentSubtree(r)
  <2>1. DOMAIN req' = Requests /\ \A s \in Requests \ {r} : req'[s] = req[s]
    BY <1>2, <1>7 DEF CountCommentSubtree
  <2>2. PICK n : req' = [req EXCEPT ![r].n = n, ![r].pc = "delete_comment"]
    BY <1>7 DEF CountCommentSubtree
  <2>3. q.op \in {"comment", "reply", "delete_comment"}
    BY <1>2, <1>7 DEF CountCommentSubtree, At, LikeRequest
  <2>4. LikeRequest(req'[r]) /\ ~Liking(req'[r]) /\ ~Unliking(req'[r])
    BY <1>2, <2>2, <2>3 DEF LikeRequest, Idle, NextStatement, Liking, Unliking, Counting
  <2> QED
    BY <1>1, <2>1, <2>4, RequestStep
<1>8. CASE DeleteCommentByID(r)
  <2>1. q.op \in {"comment", "reply", "delete_comment"}
    BY <1>2, <1>8 DEF DeleteCommentByID, At, LikeRequest
  <2>2. Cascade(CommentRow(q.comment)) = {CommentRow(c) : c \in Subtree(q.comment)}
    <3>1. CommentRow(q.comment)[1] = "comment" /\ CommentRow(q.comment)[2] = q.comment
      BY DEF CommentRow
    <3> QED
      BY <3>1 DEF Cascade
  <2> DEFINE locks == {<<row, "delete">> : row \in Cascade(CommentRow(q.comment))}
  <2>3. OtherLocks(locks)
    <3> HIDE DEF locks
    <3>1. \A row : row \in Cascade(CommentRow(q.comment)) => row[1] = "comment"
      BY <2>2 DEF CommentRow
    <3>2. \A lock \in locks : lock[1][1] = "comment"
      BY <3>1 DEF locks
    <3> QED
      BY <3>2 DEF OtherLocks, LikeRow, VideoRow
  <2>4. PICK pc \in {"dec_comments_by", "commit"} : Hold(r, locks, pc)
    BY <1>8 DEF DeleteCommentByID
  <2> HIDE DEF locks
  <2> QED
    BY <1>1, <2>1, <2>3, <2>4, OtherHold
<1>9. CASE DecrementCommentsCountBy(r)
  <2>1. PICK locks \in SUBSET {<<VideoRow(q.video), "comments">>} : Hold(r, locks, "commit")
    BY <1>9 DEF DecrementCommentsCountBy
  <2>2. OtherLocks(locks)
    BY <2>1 DEF OtherLocks, LikeRow, VideoRow
  <2>3. q.op \in {"comment", "reply", "delete_comment"}
    BY <1>2, <1>9 DEF DecrementCommentsCountBy, At, LikeRequest
  <2> QED
    BY <1>1, <2>1, <2>2, <2>3, OtherHold
<1> QED
  BY <1>3, <1>4, <1>5, <1>6, <1>7, <1>8, <1>9

(* The steps of a follow.                                                    *)
LEMMA FollowKeeps ==
    ASSUME LikesInv, NEW r \in Requests, Follow(r)
    PROVE  LikesInv'
<1>1. likes' = likes /\ likesCount' = likesCount /\ video' = video
  BY DEF Follow, LoadTarget, FollowUser, GetFollow, NotifyFollow, tables
<1>2. LikeRequest(req[r])
  BY DEF LikesInv
<1>3. CASE Answer(r)
  BY <1>1, <1>3, AnswerStep
<1>4. CASE ~Answer(r)
  <2>1. /\ req[r].pc \in {"target", "insert_follow", "reload_follow"}
        /\ \/ Goto(r, "insert_follow") \/ Goto(r, "reload_follow") \/ Goto(r, "notify_follow")
    BY <1>4 DEF Follow, LoadTarget, FollowUser, GetFollow, NotifyFollow, At
  <2>2. PICK pc \in {"insert_follow", "reload_follow", "notify_follow"} : Goto(r, pc)
    BY <2>1
  <2>3. /\ ~Liking(req[r]) /\ ~Unliking(req[r])
        /\ LikeRequest([req[r] EXCEPT !.pc = pc])
    BY <1>2, <2>1 DEF LikeRequest, Idle, NextStatement, Liking, Unliking, Counting
  <2> QED
    BY <1>1, <2>2, <2>3, GotoStep
<1> QED
  BY <1>3, <1>4

(* The commit: the row and the counter of the like move together.            *)
LEMMA CommitKeeps ==
    ASSUME LikesInv, IsFiniteSet(Users), NEW r \in Requests, Commit(r)
    PROVE  LikesInv'
<1> DEFINE q == req[r]
<1>1. LikeRequest(q) /\ q.pc = "commit"
  BY DEF LikesInv, Commit, At
<1>2. /\ DOMAIN req' = Requests
      /\ \A s \in Requests \ {r} : req'[s] = req[s]
      /\ LikeRequest(req'[r]) /\ ~Liking(req'[r]) /\ ~Unliking(req'[r])
  BY <1>1 DEF LikesInv, Commit, Answer, LikeRequest, Idle, NextStatement, Liking, Unliking, Counting
<1>3. \A v \in Videos :
        likes'[v] = IF v = q.video /\ Liking(q) THEN likes[v] \cup {q.user}
                    ELSE IF v = q.video /\ Unliking(q) THEN likes[v] \ {q.user}
                    ELSE likes[v]
  <2> SUFFICES ASSUME NEW v \in Videos
               PROVE  likes'[v] = IF v = q.video /\ Liking(q) THEN likes[v] \cup {q.user}
                                  ELSE IF v = q.video /\ Unliking(q) THEN likes[v] \ {q.user}
                                  ELSE likes[v]
    OBVIOUS
  <2>1. likes'[v] = LikesAfter(r, v) /\ likes[v] \subseteq Users
    BY DEF Commit, LikesInv
  <2>2. \A u \in Users :
          /\ <<LikeRow(u, v), "insert">> \in q.held <=> Liking(q) /\ u = q.user /\ v = q.video
          /\ <<LikeRow(u, v), "delete">> \in q.held <=> Unliking(q) /\ u = q.user /\ v = q.video
    BY <1>1 DEF LikeRequest
  <2>3. Liking(q) => q.user \in Users /\ ~Unliking(q)
    BY <1>1 DEF LikeRequest, Liking, Unliking
  <2> QED
    BY <2>1, <2>2, <2>3 DEF LikesAfter
<1>4. \A v \in Videos :
        likesCount'[v] = IF v = q.video /\ Liking(q) THEN likesCount[v] + 1
                         ELSE IF v = q.video /\ Unliking(q) THEN Less(likesCount[v], 1)
                         ELSE likesCount[v]
  <2>1. Counting(q) <=> Liking(q) \/ Unliking(q)
    BY <1>1 DEF Liking, Unliking, Counting
  <2>2. Liking(q) => q.op = "like"
    BY DEF Liking
  <2>3. Unliking(q) => q.op # "like"
    BY DEF Unliking
  <2>4. \A v \in Videos : likesCount'[v] = LikesCountAfter(r, v)
    BY DEF Commit
  <2>5. \A v \in Videos : <<VideoRow(v), "likes">> \in q.held <=> Counting(q) /\ v = q.video
    BY <1>1 DEF LikeRequest
  <2> QED
    BY <2>1, <2>2, <2>3, <2>4, <2>5 DEF LikesCountAfter
<1>5. Liking(q) \/ Unliking(q) => q.user \in Users /\ q.video \in Videos
  BY <1>1 DEF LikeRequest, Liking, Unliking
<1>6. likes' \in [Videos -> SUBSET Users]
  BY DEF Commit, LikesAfter
<1>7. likesCount' \in [Videos -> Nat]
  <2>1. \A v \in Videos : likesCount'[v] \in Nat
    BY <1>4 DEF LikesInv, Less
  <2> QED
    BY <2>1 DEF Commit
<1>8. DOMAIN video' = Videos /\ \A v \in Videos : video'[v] # "NONE" => video[v] # "NONE"
  BY DEF Commit
<1>9. LikesExclusive'
  BY <1>2 DEF LikesInv, LikesExclusive, Liking, Unliking
<1>10. LikesFound'
  <2> SUFFICES ASSUME NEW s \in Requests \ {r}
               PROVE  /\ Liking(req[s]) => req[s].user \notin likes'[req[s].video]
                      /\ Unliking(req[s]) => req[s].user \in likes'[req[s].video]
    BY <1>2 DEF LikesFound, Liking, Unliking
  <2>1. Liking(req[s]) \/ Unliking(req[s]) => req[s].user \in Users /\ req[s].video \in Videos
    BY DEF LikesInv, LikeRequest, Liking, Unliking
  <2>2. /\ Liking(req[s]) => req[s].user \notin likes[req[s].video]
        /\ Unliking(req[s]) => req[s].user \in likes[req[s].video]
    BY DEF LikesInv, LikesFound
  <2>3. /\ Liking(q) \/ Unliking(q)
        /\ Liking(req[s]) \/ Unliking(req[s])
        => q.user # req[s].user \/ q.video # req[s].video
    BY DEF LikesInv, LikesExclusive
  <2> QED
    BY <1>3, <2>1, <2>2, <2>3
<1>11. LikesExact'
  <2> SUFFICES ASSUME NEW v \in Videos, video[v] # "NONE"
               PROVE  likesCount'[v] = Cardinality(likes'[v])
    BY <1>8 DEF LikesExact
  <2>1. likesCount[v] = Cardinality(likes[v]) /\ likesCount[v] \in Nat
    BY DEF LikesInv, LikesExact
  <2>2. IsFiniteSet(likes[v])
    BY FS_Subset DEF LikesInv
  <2>3. CASE v = q.video /\ Liking(q)
    <3>1. q.user \notin likes[v]
      BY <2>3 DEF LikesInv, LikesFound
    <3>2. Cardinality(likes[v] \cup {q.user}) = Cardinality(likes[v]) + 1
      BY <2>2, <3>1, FS_AddElement
    <3> QED
      BY <1>3, <1>4, <2>1, <2>3, <3>2
  <2>4. CASE v = q.video /\ Unliking(q)
    <3>1. q.user \in likes[v] /\ ~Liking(q)
      BY <2>4 DEF LikesInv, LikesFound, Liking, Unliking
    <3>2. Cardinality(likes[v] \ {q.user}) = Cardinality(likes[v]) - 1
      BY <2>2, <3>1, FS_RemoveElement
    <3>3. Cardinality(likes[v]) > 0
      BY <2>1, <2>2, <3>1, FS_EmptySet
    <3>4. likesCount'[v] = likesCount[v] - 1
      BY <1>4, <2>1, <2>4, <3>1, <3>3 DEF Less
    <3> QED
      BY <1>3, <2>1, <2>4, <3>1, <3>2, <3>4
  <2> QED
    BY <1>3, <1>4, <2>1, <2>3, <2>4
<1>12. \A s \in Requests : LikeRequest(req[s])'
  <2>1. \A s \in Requests : LikeRequest(req'[s])
    BY <1>2 DEF LikesInv
  <2> QED
    BY <2>1 DEF LikeRequest, Liking, Unliking, Counting
<1> QED
  BY <1>2, <1>6, <1>7, <1>8, <1>9, <1>10, <1>11, <1>12 DEF LikesInv

(* A video row is removed with its likes only if no request works on one.    *)
LEMMA DeleteVideoRowKeeps ==
    ASSUME LikesInv, NEW v \in Videos, DeleteVideoRow(v)
    PROVE  LikesInv'
<1>1. req' = req /\ likesCount' = likesCount
  BY DEF DeleteVideoRow
<1>2. likes' = [likes EXCEPT ![v] = {}] /\ video' = [video EXCEPT ![v] = "NONE"]
  BY DEF DeleteVideoRow
<1>3. ASSUME NEW s \in Requests, Unliking(req[s])
      PROVE  req[s].video # v
  <2>1. LikeRequest(req[s]) /\ req[s].user \in likes[req[s].video]
    BY <1>3 DEF LikesInv, LikesFound
  <2>2. SUFFICES ASSUME req[s].video = v PROVE FALSE
    OBVIOUS
  <2>3. <<LikeRow(req[s].user, v), "delete">> \in req[s].held
    BY <1>3, <2>1, <2>2 DEF LikeRequest, Unliking
  <2>4. LikeRow(req[s].user, v) \in Cascade(VideoRow(v))
    <3>1. VideoRow(v)[1] = "video" /\ VideoRow(v)[2] = v
      BY DEF VideoRow
    <3>2. Cascade(VideoRow(v)) = {VideoRow(v)} \cup {LikeRow(u, v) : u \in likes[v]}
                                   \cup {CommentRow(c) : c \in CommentsOf(v)}
      BY <3>1 DEF Cascade
    <3> QED
      BY <2>1, <2>2, <3>2
  <2>5. \A held \in req[s].held : held[1] \notin Cascade(VideoRow(v))
    BY DEF DeleteVideoRow
  <2> QED
    BY <2>3, <2>4, <2>5
<1>4. LikesFound'
  BY <1>1, <1>2, <1>3 DEF LikesInv, LikesFound, Liking, Unliking, LikeRequest
<1>5. LikesExclusive'
  BY <1>1 DEF LikesInv, LikesExclusive, Liking, Unliking
<1>6. LikesExact'
  BY <1>1, <1>2 DEF LikesInv, LikesExact
<1>7. \A s \in Requests : LikeRequest(req[s])'
  BY <1>1 DEF LikesInv, LikeRequest, Liking, Unliking, Counting
<1> QED
  BY <1>1, <1>2, <1>4, <1>5, <1>6, <1>7 DEF LikesInv

(* The requests of one statement.                                            *)
LEMMA SingleKeeps ==
    ASSUME LikesInv, Single
    PROVE  LikesInv'
<1>1. ASSUME req' = req, likes' = likes, likesCount' = likesCount, DOMAIN video' = Videos,
             \A v \in Videos : video'[v] # "NONE" => video[v] # "NONE"
      PROVE  LikesInv'
  <2>1. LikesFound' /\ LikesExclusive'
    BY <1>1 DEF LikesInv, LikesFound, LikesExclusive, Liking, Unliking
  <2>2. LikesExact'
    BY <1>1 DEF LikesInv, LikesExact
  <2>3. \A s \in Requests : LikeRequest(req[s])'
    BY <1>1 DEF LikesInv, LikeRequest, Liking, Unliking, Counting
  <2> QED
    BY <1>1, <2>1, <2>2, <2>3 DEF LikesInv
<1>2. ASSUME NEW v \in Videos, DeleteVideoRow(v)
      PROVE  LikesInv'
  BY <1>2, DeleteVideoRowKeeps
<1>3. ASSUME NEW v \in Videos, MarkVideoDeleted(v)
      PROVE  LikesInv'
  BY <1>1, <1>3 DEF MarkVideoDeleted, LikesInv
<1>4. ASSUME NEW u \in Users, UpdatePrivate(u) \/ DeactivateUser(u)
      PROVE  LikesInv'
  BY <1>1, <1>4 DEF UpdatePrivate, DeactivateUser, LikesInv
<1>5. ASSUME NEW u \in Users, NEW w \in Users, DeleteFollow(u, w)
      PROVE  LikesInv'
  BY <1>1, <1>5 DEF DeleteFollow, LikesInv
<1> QED
  BY <1>2, <1>3, <1>4, <1>5 DEF Single

(* Without the removal of accounts LikesInv is invariant: locks on a like    *)
(* make its transactions take turns, and LikesExact follows.                 *)
THEOREM LikesInvariance ==
    ASSUME Ops \cap {"delete_me", "user_removed"} = {}
    PROVE  Spec => []LikesInv
<1> DEFINE Inv == LikesInv /\ active \subseteq Users
<1>1. Init => Inv
  <2> SUFFICES ASSUME Init PROVE Inv
    OBVIOUS
  <2> USE DEF Init
  <2>1. \A r \in Requests : LikeRequest(req[r]) /\ ~Liking(req[r]) /\ ~Unliking(req[r])
    BY DEF LikeRequest, Idle, NextStatement, Liking, Unliking, Counting
  <2>2. LikesExclusive /\ LikesFound
    BY <2>1 DEF LikesExclusive, LikesFound
  <2>3. LikesExact
    BY FS_EmptySet DEF LikesExact
  <2> QED
    BY <2>1, <2>2, <2>3 DEF LikesInv
<1>2. Inv /\ [Next]_vars => Inv'
  <2> SUFFICES ASSUME LikesInv, active \subseteq Users, [Next]_vars
               PROVE  Inv'
    OBVIOUS
  <2>1. active' \subseteq Users
    BY DEF Next, vars, tables, Begin, BeginOnVideo, BeginOnComment, BeginFollow, BeginRemoval,
           Check, LoadComment, CheckVideo, CheckOwner, CheckFollow, Statement, InsertLike,
           IncrementLikesCount, DeleteLike, DecrementLikesCount, InsertComment,
           IncrementCommentsCount, InsertNotification, CountCommentSubtree, DeleteCommentByID,
           DecrementCommentsCountBy, StartStatement, LockRow, Commit, Fail, Follow, LoadTarget,
           FollowUser, GetFollow, NotifyFollow, Single, DeleteFollow, UpdatePrivate,
           DeactivateUser, MarkVideoDeleted, DeleteVideoRow, AllDone
  <2>2. ASSUME NEW r \in Requests, Statement(r)
        PROVE  LikesInv'
    <3>1. req[r].todo = {} /\ req[r].pc \notin DOMAIN NextStatement
      BY DEF LikesInv, LikeRequest
    <3>2. ~StartStatement(r) /\ ~LockRow(r)
      BY <3>1 DEF StartStatement, LockRow
    <3>3. CASE Fail(r)
      BY <3>3, AnswerStep DEF Fail, tables
    <3>4. CASE Commit(r)
      BY <3>4, CommitKeeps, SocialConstants
    <3> QED
      BY <2>2, <3>2, <3>3, <3>4, LikeStatementKeeps, CommentStatementKeeps DEF Statement
  <2>3. CASE UNCHANGED vars
    <3>1. req' = req /\ likes' = likes /\ likesCount' = likesCount /\ video' = video
      BY <2>3 DEF vars, tables
    <3>2. LikesFound' /\ LikesExclusive' /\ LikesExact'
      BY <3>1 DEF LikesInv, LikesFound, LikesExclusive, LikesExact, Liking, Unliking
    <3>3. \A s \in Requests : LikeRequest(req[s])'
      BY <3>1 DEF LikesInv, LikeRequest, Liking, Unliking, Counting
    <3> QED
      BY <2>1, <3>1, <3>2, <3>3 DEF LikesInv
  <2>4. CASE Next
    BY <2>1, <2>2, <2>3, <2>4, BeginKeeps, CheckKeeps, FollowKeeps, SingleKeeps DEF Next, AllDone
  <2> QED
    BY <2>3, <2>4
<1> QED
  BY <1>1, <1>2, PTL DEF Spec

(* likes_count is the number of likes in every reachable state, for any      *)
(* number of users, videos and requests in flight.                           *)
THEOREM LikesAreExact ==
    ASSUME Ops \cap {"delete_me", "user_removed"} = {}
    PROVE  Spec => []LikesExact
<1>1. LikesInv => LikesExact
  BY DEF LikesInv
<1> QED
  BY <1>1, LikesInvariance, PTL
=============================================================================
