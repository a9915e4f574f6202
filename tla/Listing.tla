------------------------------- MODULE Listing ------------------------------
(***************************************************************************)
(* The paged lists of the api-gateway, as a client meets them that walks    *)
(* one of them from the first page to the last while the tables change:     *)
(*                                                                          *)
(*   feed           HomeFeed                 handlers/feed.go               *)
(*   videos         GetUserVideos            handlers/user.go               *)
(*   followers      ListFollowers            handlers/user_follow.go        *)
(*   following      ListFollowing                                           *)
(*   comments       ListComments             handlers/social.go             *)
(*   notifications  NotificationHandler.List handlers/notification.go       *)
(*   found videos, found users   Search      handlers/search.go             *)
(*                                                                          *)
(* All but the last two are keyset lists: WHERE (created_at, id) < cursor   *)
(* ORDER BY created_at DESC, id DESC LIMIT n.  A row is known by its place in *)
(* that order, which it keeps for life; a row that is inserted may take any *)
(* free place, created_at being the start of its transaction.  Search goes by *)
(* OFFSET in an order that changes: views_count, or the number of followers. *)
(***************************************************************************)
EXTENDS Integers, FiniteSets

CONSTANTS
    Keys,           \* places in the order of (created_at, id)
    Own,            \* those of them that are videos of the viewer (feed, search)
    DefaultLimit,   \* user.go videoListDefaultLimit
    MaxLimit,       \* user.go videoListMaxLimit
    NoLimit,        \* a request without ?limit=
    RawLimits,      \* the limits that clients send
    maxOffset,      \* search.go maxOffset
    MaxRank,        \* bound on views_count and on the followers of a user
    MaxChanges      \* bound on the changes beside one walk

ASSUME ListingAssumption ==
    /\ Keys \subseteq Nat \ {0}
    /\ Own \subseteq Keys
    /\ MaxLimit \in Nat \ {0}
    /\ DefaultLimit \in 1 .. MaxLimit
    /\ NoLimit \notin Int
    /\ RawLimits \subseteq Int \cup {NoLimit}
    /\ maxOffset \in Nat
    /\ MaxRank \in Nat
    /\ MaxChanges \in Nat

VARIABLES
    list,      \* the list that is walked
    row,       \* the rows of its table, by place
    rank,      \* what search orders by: views_count, the number of followers
    target,    \* the user (and video) it is about, as the viewer stands to it
    walk,      \* the client and its request
    changes    \* changes so far

listingVars == <<list, row, rank, target, walk, changes>>

KeysetLists == {"feed", "videos", "followers", "following", "comments", "notifications"}
OffsetLists == {"found videos", "found users"}
Lists == KeysetLists \cup OffsetLists
VideoLists == {"feed", "videos", "found videos"}
FollowLists == {"followers", "following"}

(* "hidden": PENDING_UPLOAD, PROCESSING or FAILED.  "row": a row of a table that
   has no status; of users, one that is active.  A row that is gone does not
   come back. *)
RowStates(l) ==
    IF l \in VideoLists THEN {"none", "hidden", "READY", "DELETED", "gone"}
    ELSE IF l = "notifications" THEN {"none", "row", "read", "gone"}
    ELSE {"none", "row", "gone"}

(* mine: it is the viewer; ready: the video of a comment list is READY. *)
Target == [mine: BOOLEAN, ready: BOOLEAN, active: BOOLEAN, private: BOOLEAN,
           followed: BOOLEAN]

-----------------------------------------------------------------------------
(* The rows that each query is about, before cursor and LIMIT. *)

ListFeedVideos ==
    {k \in Keys \ Own :
        row[k] = "READY" /\ target.active /\ (target.private => target.followed)}

SearchVideos ==
    {k \in Keys :
        /\ row[k] = "READY"
        /\ k \notin Own => target.active /\ (target.private => target.followed)}

SearchUsers == {k \in Keys : row[k] = "row"}

ListVideosByUser(isOwner) ==
    {k \in Keys : IF isOwner THEN row[k] \in {"hidden", "READY"} ELSE row[k] = "READY"}

ListFollowers == {k \in Keys : row[k] = "row"}

ListFollowing == {k \in Keys : row[k] = "row"}

ListCommentsByVideo == {k \in Keys : row[k] = "row"}

ListNotifications == {k \in Keys : row[k] \in {"row", "read"}}

Eligible ==
    CASE list = "feed" -> ListFeedVideos
      [] list = "found videos" -> SearchVideos
      [] list = "found users" -> SearchUsers
      [] list = "videos" -> ListVideosByUser(target.mine)
      [] list = "followers" -> ListFollowers
      [] list = "following" -> ListFollowing
      [] list = "comments" -> ListCommentsByVideo
      [] list = "notifications" -> ListNotifications

-----------------------------------------------------------------------------
(* walk.pc: "idle" between two requests; "video", "user", "follow" the reads of
   the gate; "query"; "ended" after a page without next_cursor, "refused" after
   a 4xx.  status: what the response has out, 0 for nothing.  cursor: the place
   of the last row, 0 for none; offset, for search.  shown: there are rows in
   the body of the response.
   The rest is history: rows received, rows received more than once, rows that
   the query was about all the time since the walk began, and what held at some
   time since the request came. *)
Standing(t) ==
    {c \in {"ready", "active", "open"} :
        \/ c = "ready" /\ (t.ready \/ t.mine)
        \/ c = "active" /\ t.active
        \/ c = "open" /\ (t.mine \/ ~t.private \/ t.followed)}

NewWalk == [pc |-> "idle", status |-> 0, cursor |-> 0, offset |-> 0, seen |-> {},
            twice |-> {}, steady |-> Eligible, held |-> {}, shown |-> FALSE]

WalkAt(pc) == walk.pc = pc

(* The chain of a request: comments start with the video, the lists of a user
   with the user, the others have no gate. *)
GateStep ==
    CASE list = "comments" -> "video"
      [] list \in {"videos", "followers", "following"} -> "user"
      [] OTHER -> "query"

Request ==
    /\ WalkAt("idle")
    /\ walk' = [walk EXCEPT !.pc = GateStep, !.status = 0, !.shown = FALSE,
                          !.held = Standing(target)]
    /\ UNCHANGED <<list, row, rank, target, changes>>

(* A client asks again after a 500 and gives up after a 4xx. *)
NextPc(status) == IF status = 500 THEN "idle" ELSE "refused"

Answer(status, pc) == walk' = [walk EXCEPT !.status = status, !.pc = pc]

(* RespondError in the gate.  assertCanSeeFollowList hands its callers the nil
   of a response that is out, and they go on to the query; the others return. *)
Refuse(status) ==
    Answer(status, IF list \in FollowLists THEN "query" ELSE NextPc(status))

Pass(pc) == walk' = [walk EXCEPT !.pc = pc]

(* assertVideoOwnerOrVisible: the owner is through. *)
GetVideoByID ==
    /\ WalkAt("video")
    /\ \/ target.mine /\ Pass("query")
       \/ ~target.mine /\ target.ready /\ Pass("user")
       \/ ~target.mine /\ ~target.ready /\ Refuse(404)
       \/ Refuse(500)
    /\ UNCHANGED <<list, row, rank, target, changes>>

(* GetUserVideos, assertCanSeeFollowList, assertOwnerActiveVisible. *)
GetUserByID ==
    /\ WalkAt("user")
    /\ \/ ~target.active /\ Refuse(404)
       \/ target.active /\ (target.mine \/ ~target.private) /\ Pass("query")
       \/ target.active /\ ~target.mine /\ target.private /\ Pass("follow")
       \/ Refuse(500)
    /\ UNCHANGED <<list, row, rank, target, changes>>

(* Mutant: only the error of the query is looked at. *)
MutIsFollowing ==
    /\ WalkAt("follow")
    /\ Pass("query")
    /\ UNCHANGED <<list, row, rank, target, changes>>

IsFollowing ==
    /\ WalkAt("follow")
    /\ \/ target.followed /\ Pass("query")
       \/ ~target.followed /\ Refuse(404)
       \/ Refuse(500)
    /\ UNCHANGED <<list, row, rank, target, changes>>

(* 0 stands for the error: not a number, or not above 0. *)
parseLimit(raw) ==
    IF raw = NoLimit THEN DefaultLimit
    ELSE IF raw <= 0 THEN 0
    ELSE IF raw > MaxLimit THEN MaxLimit
    ELSE raw

(* LIMIT n on rows in descending order: the n foremost, or all there are. *)
IsPage(page, rows, n) ==
    /\ page \subseteq rows
    /\ \A k \in page, j \in rows : j > k => j \in page
    /\ \/ Cardinality(page) = n
       \/ Cardinality(page) < n /\ page = rows

(* Mutant: the cursor row is part of the next page. *)
MutBefore(cursor) == {k \in Eligible : cursor = 0 \/ k <= cursor}

(* DecodeCursor and the WHERE clause; no cursor is the first page. *)
Before(cursor) == {k \in Eligible : cursor = 0 \/ k < cursor}

(* What the client makes of a page that came with 200. *)
Received(page) ==
    [walk EXCEPT !.seen = @ \cup page, !.twice = @ \cup (page \cap walk.seen),
                 !.shown = page # {}]

NextPage(page, cursor, offset) ==
    walk' = [Received(page) EXCEPT !.cursor = cursor, !.offset = offset, !.pc = "idle"]

LastPage(page) == walk' = [Received(page) EXCEPT !.pc = "ended"]

(* Mutant: a next_cursor only if there are more rows than were asked for. *)
MutServe(page, n) == LastPage(page)

(* A full page has a next_cursor, EncodeCursor of its last row. *)
Serve(page, n) ==
    IF Cardinality(page) = n
    THEN \E k \in page :
            /\ \A j \in page : j >= k
            /\ NextPage(page, k, walk.offset)
    ELSE LastPage(page)

(* A page behind an error envelope: the status stays, the rows are in the body,
   and the client, which goes by the status, makes nothing of them. *)
AppendPage(page) == walk' = [walk EXCEPT !.shown = page # {}, !.pc = NextPc(walk.status)]

(* What the six keyset handlers do after their gate, all alike.  A request that
   was refused and came on gets its page too, or a second envelope: a wrong
   limit or cursor, a query that fails. *)
KeysetPage ==
    /\ WalkAt("query") /\ list \in KeysetLists
    /\ \/ /\ walk.status # 0
          /\ \/ \E raw \in RawLimits, page \in SUBSET Keys :
                   /\ parseLimit(raw) # 0
                   /\ IsPage(page, Before(walk.cursor), parseLimit(raw))
                   /\ AppendPage(page)
             \/ Pass(NextPc(walk.status))
       \/ /\ walk.status = 0
          /\ \/ \E raw \in RawLimits, page \in SUBSET Keys :
                   /\ parseLimit(raw) # 0
                   /\ IsPage(page, Before(walk.cursor), parseLimit(raw))
                   /\ Serve(page, parseLimit(raw))
             \/ \E status \in {400, 500} :   \* limit or cursor; the query failed
                   Answer(status, NextPc(status))
    /\ UNCHANGED <<list, row, rank, target, changes>>

(* ORDER BY views_count DESC, created_at DESC, id DESC; follower count and
   username. *)
Ahead(j, k) == rank[j] > rank[k] \/ (rank[j] = rank[k] /\ j > k)

(* Mutant: limit + 1 is fetched and shown. *)
MutWindow(offset, n) ==
    {k \in Eligible : Cardinality({j \in Eligible : Ahead(j, k)}) \in offset .. offset + n}

(* LIMIT n OFFSET offset. *)
Window(offset, n) ==
    {k \in Eligible : Cardinality({j \in Eligible : Ahead(j, k)}) \in offset .. offset + n - 1}

(* Search: one row more than asked for tells whether there is a next page;
   parseOffsetCursor refuses an offset beyond maxOffset, its own too. *)
Search ==
    /\ WalkAt("query") /\ list \in OffsetLists
    /\ \/ /\ walk.offset <= maxOffset
          /\ \E raw \in RawLimits :
                LET n == parseLimit(raw) IN
                /\ n # 0
                /\ IF Cardinality(Eligible) > walk.offset + n
                   THEN NextPage(Window(walk.offset, n), walk.cursor, walk.offset + n)
                   ELSE LastPage(Window(walk.offset, n))
       \/ \E status \in {400, 500} :
             Answer(status, NextPc(status))
    /\ UNCHANGED <<list, row, rank, target, changes>>

-----------------------------------------------------------------------------
(* What goes on beside the walk.  The other modules say when; here it may
   happen at any time. *)
Change ==
    /\ changes < MaxChanges
    /\ changes' = changes + 1
    /\ UNCHANGED list
    /\ walk' = [walk EXCEPT !.steady = @ \cap Eligible',
                            !.held = @ \cup Standing(target')]

(* The lives of the rows: VideoTable's for a video, made and deleted for the
   others; DeleteMe and the cascades take any row. *)
Moves ==
    {<<"none", "hidden">>, <<"hidden", "READY">>, <<"hidden", "DELETED">>,
     <<"READY", "DELETED">>, <<"DELETED", "gone">>, <<"hidden", "gone">>,
     <<"READY", "gone">>, <<"none", "row">>, <<"row", "gone">>, <<"read", "gone">>}

RowChange ==
    /\ \E k \in Keys, s \in RowStates(list) :
          /\ <<row[k], s>> \in Moves
          /\ row' = [row EXCEPT ![k] = s]
    /\ UNCHANGED <<rank, target>>
    /\ Change

(* MarkAllNotificationsRead, one statement. *)
MarkAllRead ==
    /\ list = "notifications"
    /\ row' = [k \in Keys |-> IF row[k] = "row" THEN "read" ELSE row[k]]
    /\ UNCHANGED <<rank, target>>
    /\ Change

(* TrackView: the guard, then views_count + 1. *)
TrackView ==
    /\ list = "found videos"
    /\ \E k \in Keys :
          /\ k \in Own \/ row[k] = "READY"
          /\ rank[k] < MaxRank
          /\ rank' = [rank EXCEPT ![k] = @ + 1]
    /\ UNCHANGED <<row, target>>
    /\ Change

(* Follows and unfollows that move a user in the search. *)
FollowersChange ==
    /\ list = "found users"
    /\ \E k \in Keys, n \in 0 .. MaxRank :
          rank' = [rank EXCEPT ![k] = n]
    /\ UNCHANGED <<row, target>>
    /\ Change

(* UpdateMe of the target: is_private is written when the body has it. *)
UpdateMe ==
    /\ \E p \in BOOLEAN : target' = [target EXCEPT !.private = p]
    /\ UNCHANGED <<row, rank>>
    /\ Change

(* The viewer follows the target or stops; the target is deactivated; the video
   of the comments is deleted. *)
Follow ==
    /\ ~target.mine
    /\ \E f \in BOOLEAN : target' = [target EXCEPT !.followed = f]
    /\ UNCHANGED <<row, rank>>
    /\ Change

Leave ==
    /\ ~target.mine
    /\ \/ target' = [target EXCEPT !.active = FALSE]
       \/ target' = [target EXCEPT !.ready = FALSE]
    /\ UNCHANGED <<row, rank>>
    /\ Change

ListingInit ==
    /\ list \in Lists
    /\ row \in [Keys -> RowStates(list) \ {"gone"}]
    /\ rank \in [Keys -> IF list \in OffsetLists THEN 0 .. MaxRank ELSE {0}]
    /\ target \in Target
    /\ list \in {"feed", "notifications"} \cup OffsetLists => ~target.mine
    /\ list # "comments" => target.ready
    /\ target.mine => target.active /\ ~target.followed
    /\ walk = NewWalk
    /\ changes = 0

(* The handlers, each by the reads it makes one after the other. *)
HomeFeed == list = "feed" /\ KeysetPage

GetUserVideos == list = "videos" /\ (GetUserByID \/ IsFollowing \/ KeysetPage)

GetFollowers == list = "followers" /\ (GetUserByID \/ IsFollowing \/ KeysetPage)

GetFollowing == list = "following" /\ (GetUserByID \/ IsFollowing \/ KeysetPage)

ListComments ==
    list = "comments" /\ (GetVideoByID \/ GetUserByID \/ IsFollowing \/ KeysetPage)

GetNotifications == list = "notifications" /\ KeysetPage

Handle ==
    HomeFeed \/ GetUserVideos \/ GetFollowers \/ GetFollowing \/ ListComments
        \/ GetNotifications \/ Search

Others == RowChange \/ MarkAllRead \/ TrackView \/ FollowersChange \/ UpdateMe \/ Follow \/ Leave

ListingNext ==
    \/ Request \/ Handle
    \/ Others
    \/ (WalkAt("ended") \/ WalkAt("refused")) /\ UNCHANGED listingVars

ListingSpec == ListingInit /\ [][ListingNext]_listingVars

-----------------------------------------------------------------------------
Walk == [pc: {"idle", "video", "user", "follow", "query", "ended", "refused"},
         status: {0, 400, 404, 500}, cursor: Keys \cup {0}, offset: Nat,
         seen: SUBSET Keys, twice: SUBSET Keys, steady: SUBSET Keys,
         held: SUBSET {"ready", "active", "open"}, shown: BOOLEAN]

ListTypeOK ==
    /\ list \in Lists
    /\ row \in [Keys -> {"none", "hidden", "READY", "DELETED", "row", "read", "gone"}]
    /\ rank \in [Keys -> Nat]
    /\ target \in Target
    /\ walk \in Walk
    /\ changes \in 0 .. MaxChanges

(* No row comes twice in a walk through a keyset list, whatever is inserted and
   deleted meanwhile, whatever limits the client asks for, and although it asks
   again after a 500 (cursor.go: the tie-breaker; the six queries). *)
NoRepeat == list \in KeysetLists => walk.twice = {}

(* A walk that got a page without next_cursor has had every row that the list
   was about all the time (feed.go HomeFeed: "a short page is by definition the
   last one"). *)
Complete == list \in KeysetLists /\ WalkAt("ended") => walk.steady \subseteq walk.seen

(* While nothing changes, search neither repeats nor leaves out a row (search.go
   Search: limit + 1 rows, offset + limit).  With changes it does both. *)
QuietSearch ==
    list \in OffsetLists /\ changes = 0 =>
        /\ walk.twice = {}
        /\ WalkAt("ended") => walk.seen = Eligible

(* The conditions of the gate of each list. *)
Gate ==
    CASE list \in {"videos"} \cup FollowLists -> {"active", "open"}
      [] list = "comments" -> IF target.mine THEN {} ELSE {"ready", "active", "open"}
      [] OTHER -> {}

(* The rows of a response are about a user or a video that the viewer could see:
   each condition held at some time since the request came, although they are
   read one by one and may change in between (GetUserVideos,
   assertVideoOwnerOrVisible).  The two follow lists that were refused are
   excepted: assertCanSeeFollowList does not stop them. *)
ServedWasVisible ==
    [][walk'.shown /\ ~walk.shown =>
           \/ Gate \subseteq walk.held
           \/ list \in FollowLists /\ walk.status # 0]_listingVars

(* user_follow.go:214-218, ListFollowers: "a private account is hidden from
   non-followers (404, not 403) so private users cannot be enumerated.  Owner
   always sees their own follower list."  ListFollowing: "Same visibility rule". *)
FollowListHidden == list \in FollowLists /\ walk.shown => "open" \in walk.held

(* What a keyset walk has had and may still get, by the cursor. *)
Progress ==
    list \in KeysetLists =>
        /\ walk.twice = {}
        /\ walk.steady \subseteq Eligible
        /\ WalkAt("ended") \/ \A k \in walk.seen : walk.cursor # 0 /\ k >= walk.cursor
        /\ walk.cursor # 0 => \A k \in walk.steady : k >= walk.cursor => k \in walk.seen
        /\ WalkAt("ended") => walk.steady \subseteq walk.seen

(* What the reads of the gate have found. *)
Found ==
    /\ walk.pc \in {"video", "user", "follow", "query"} => Standing(target) \subseteq walk.held
    /\ walk.pc \in {"video", "user", "follow"} => walk.status = 0
    /\ WalkAt("video") => list = "comments"
    /\ walk.pc \in {"user", "follow"} =>
          /\ list \in {"comments", "videos", "followers", "following"}
          /\ list = "comments" => ~target.mine /\ "ready" \in walk.held
    /\ WalkAt("follow") => "active" \in walk.held
    /\ WalkAt("query") => Gate \subseteq walk.held \/ (list \in FollowLists /\ walk.status # 0)

(* The inductive invariant. *)
ListInv == ListTypeOK /\ Progress /\ Found
=============================================================================
