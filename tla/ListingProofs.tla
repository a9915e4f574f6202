--------------------------- MODULE ListingProofs ----------------------------
(* Theorems about Listing for any table, any limits and any changes.  The    *)
(* argument: in a keyset walk the cursor parts the places into those that    *)
(* were received and those that may still come; a row that was there all the *)
(* time is on one of the two sides, and a page without next_cursor takes the *)
(* whole of the second.  A walk by offset has had the places below it, which *)
(* are the same places only while nothing changes.                           *)
EXTENDS Listing, FiniteSetTheorems, TLAPS

USE DEF KeysetLists, OffsetLists, Lists, FollowLists

(* Why rows may be in the body of a response. *)
Allowed == Gate \subseteq walk.held \/ (list \in FollowLists /\ walk.status # 0)

LEMMA EligibleIsKeys == ASSUME list \in Lists PROVE Eligible \subseteq Keys
BY DEF Eligible, ListFeedVideos, SearchVideos, ListVideosByUser, ListFollowers, ListFollowing,
       ListCommentsByVideo, ListNotifications, SearchUsers

LEMMA StandingIsConditions ==
    ASSUME NEW t PROVE Standing(t) \in SUBSET {"ready", "active", "open"}
BY DEF Standing

LEMMA RankChange ==
    ASSUME NEW f \in [Keys -> Nat], NEW k \in Keys, NEW n \in Nat
    PROVE  [f EXCEPT ![k] = n] \in [Keys -> Nat]
OBVIOUS

(* The fields that a step of the request leaves alone. *)
Same(w, v) ==
    /\ v.cursor = w.cursor /\ v.offset = w.offset
    /\ v.seen = w.seen /\ v.twice = w.twice /\ v.steady = w.steady

LEMMA PassSteps ==
    ASSUME walk \in Walk, NEW pc \in {"idle", "video", "user", "follow", "query", "refused"},
           Pass(pc)
    PROVE  /\ walk' \in Walk /\ Same(walk, walk')
           /\ walk'.pc = pc /\ walk'.status = walk.status /\ walk'.held = walk.held
           /\ walk'.shown = walk.shown
<1>1. [walk EXCEPT !.pc = pc] \in Walk
  BY DEF Walk
<1> QED BY <1>1 DEF Pass, Walk, Same

LEMMA StatusSteps ==
    ASSUME walk \in Walk, NEW st \in {400, 404, 500}, NEW pc \in {"idle", "query", "refused"},
           Answer(st, pc)
    PROVE  /\ walk' \in Walk /\ Same(walk, walk')
           /\ walk'.pc = pc /\ walk'.status = st /\ walk'.held = walk.held
           /\ walk'.shown = walk.shown
<1> DEFINE a == [walk EXCEPT !.status = st]
           b == [a EXCEPT !.pc = pc]
<1>1. a \in Walk
  BY DEF Walk
<1>2. b \in Walk
  <2> HIDE DEF a
  <2> QED BY <1>1 DEF Walk
<1>3. walk' \in Walk
  BY <1>2 DEF Answer
<1>4. /\ Same(walk, walk') /\ walk'.pc = pc /\ walk'.status = st /\ walk'.held = walk.held
      /\ walk'.shown = walk.shown
  BY DEF Walk, Same, Answer
<1> QED BY <1>3, <1>4

LEMMA ShownSteps ==
    ASSUME NEW w \in Walk, NEW t \in BOOLEAN
    PROVE  [w EXCEPT !.shown = t] \in Walk
BY DEF Walk

LEMMA RequestSteps ==
    ASSUME walk \in Walk, Request
    PROVE  /\ walk' \in Walk /\ Same(walk, walk')
           /\ walk'.pc = GateStep /\ walk'.status = 0 /\ walk'.held = Standing(target)
           /\ walk'.shown = FALSE
<1> DEFINE h == Standing(target)
           g == GateStep
           a == [walk EXCEPT !.pc = g]
           b == [a EXCEPT !.status = 0]
           d == [b EXCEPT !.shown = FALSE]
           c == [d EXCEPT !.held = h]
<1>0. h \in SUBSET {"ready", "active", "open"} /\ g \in {"video", "user", "query"}
  BY StandingIsConditions DEF GateStep
<1>1. walk' = [walk EXCEPT !.pc = g, !.status = 0, !.shown = FALSE, !.held = h]
  BY DEF Request
<1> HIDE DEF g, h
<1>2. a \in Walk
  BY <1>0 DEF Walk
<1>3. b \in Walk
  <2> HIDE DEF a
  <2> QED BY <1>2 DEF Walk
<1>7. d \in Walk
  <2> HIDE DEF b
  <2> QED BY <1>3, ShownSteps
<1>4. c \in Walk
  <2> HIDE DEF d
  <2> QED BY <1>0, <1>7 DEF Walk
<1>5. walk' \in Walk
  BY <1>1, <1>4
<1>6. /\ Same(walk, walk') /\ walk'.pc = g /\ walk'.status = 0 /\ walk'.held = h
      /\ walk'.shown = FALSE
  BY <1>1 DEF Walk, Same
<1> QED BY <1>5, <1>6 DEF g, h

LEMMA ChangeSteps ==
    ASSUME walk \in Walk, Change
    PROVE  /\ walk' \in Walk /\ walk'.pc = walk.pc /\ walk'.status = walk.status
           /\ walk'.cursor = walk.cursor /\ walk'.seen = walk.seen /\ walk'.twice = walk.twice
           /\ walk'.steady = walk.steady \cap Eligible'
           /\ walk'.held = walk.held \cup Standing(target') /\ walk'.shown = walk.shown
<1> DEFINE S == walk.steady \cap Eligible'
           h == walk.held \cup Standing(target')
           a == [walk EXCEPT !.steady = S]
           b == [a EXCEPT !.held = h]
<1>0. S \in SUBSET Keys /\ h \in SUBSET {"ready", "active", "open"}
  BY StandingIsConditions DEF Walk
<1>1. walk' = [walk EXCEPT !.steady = S, !.held = h]
  BY DEF Change
<1> HIDE DEF S, h
<1>2. a \in Walk
  BY <1>0 DEF Walk
<1>3. b \in Walk
  <2> HIDE DEF a
  <2> QED BY <1>0, <1>2 DEF Walk
<1>4. walk' \in Walk
  BY <1>1, <1>3
<1>5. /\ walk'.pc = walk.pc /\ walk'.status = walk.status
      /\ walk'.cursor = walk.cursor /\ walk'.seen = walk.seen /\ walk'.twice = walk.twice
      /\ walk'.steady = S /\ walk'.held = h /\ walk'.shown = walk.shown
  BY <1>1 DEF Walk
<1> QED BY <1>4, <1>5 DEF S, h

(* A step of the request that gets nothing new. *)
LEMMA MoveKeeps ==
    ASSUME ListInv, UNCHANGED <<list, row, rank, target, changes>>,
           walk' \in Walk, Same(walk, walk'), ~WalkAt("ended"), walk'.pc # "ended", Found'
    PROVE  ListInv'
<1>1. Eligible' = Eligible
  BY DEF Eligible, ListFeedVideos, SearchVideos, ListVideosByUser, ListFollowers,
         ListFollowing, ListCommentsByVideo, ListNotifications, SearchUsers
<1>2. ListTypeOK'
  BY DEF ListInv, ListTypeOK
<1>3. Progress'
  BY <1>1 DEF ListInv, Progress, WalkAt, Same
<1> QED BY <1>2, <1>3 DEF ListInv

(* A change of the tables: what was there all the time can only become less,
   what held can only become more. *)
LEMMA ChangeKeeps ==
    ASSUME ListInv, Change, target' \in Target, target'.mine = target.mine,
           row' \in [Keys -> {"none", "hidden", "READY", "DELETED", "row", "read", "gone"}],
           rank' \in [Keys -> Nat]
    PROVE  ListInv'
<1>0. walk \in Walk /\ list \in Lists /\ changes \in 0 .. MaxChanges
  BY DEF ListInv, ListTypeOK
<1>1. /\ walk' \in Walk /\ walk'.pc = walk.pc /\ walk'.status = walk.status
      /\ walk'.cursor = walk.cursor /\ walk'.seen = walk.seen /\ walk'.twice = walk.twice
      /\ walk'.steady = walk.steady \cap Eligible'
      /\ walk'.held = walk.held \cup Standing(target')
  BY <1>0, ChangeSteps
<1>2. list' = list /\ changes < MaxChanges /\ changes' = changes + 1
  BY DEF Change
<1>3. MaxChanges \in Nat
  BY ListingAssumption
<1>4. changes' \in 0 .. MaxChanges
  <2>1. changes \in 0 .. MaxChanges
    BY <1>0
  <2>2. changes < MaxChanges /\ changes' = changes + 1
    BY <1>2
  <2> QED BY <1>3, <2>1, <2>2
<1>5. Gate' = Gate
  BY <1>2 DEF Gate
<1>6. ListTypeOK'
  BY <1>0, <1>1, <1>2, <1>4 DEF ListTypeOK
<1>7. Progress'
  BY <1>1, <1>2 DEF ListInv, Progress, WalkAt
<1>8. Found'
  BY <1>1, <1>2, <1>5 DEF ListInv, Found, WalkAt
<1> QED BY <1>6, <1>7, <1>8 DEF ListInv

LEMMA OthersKeep == ASSUME ListInv, Others PROVE ListInv'
<1> USE DEF ListInv, ListTypeOK
<1>1. CASE RowChange
  <2>1. Change /\ UNCHANGED <<rank, target>>
    BY <1>1 DEF RowChange
  <2>2. row' \in [Keys -> {"none", "hidden", "READY", "DELETED", "row", "read", "gone"}]
    BY <1>1 DEF RowChange, RowStates
  <2> QED BY <2>1, <2>2, ChangeKeeps
<1>2. CASE MarkAllRead
  <2>1. Change /\ UNCHANGED <<rank, target>>
    BY <1>2 DEF MarkAllRead
  <2>2. row' \in [Keys -> {"none", "hidden", "READY", "DELETED", "row", "read", "gone"}]
    BY <1>2 DEF MarkAllRead
  <2> QED BY <2>1, <2>2, ChangeKeeps
<1>3. CASE TrackView
  <2>1. Change /\ UNCHANGED <<row, target>>
    BY <1>3 DEF TrackView
  <2>2. rank' \in [Keys -> Nat]
    <3>1. PICK k \in Keys : rank' = [rank EXCEPT ![k] = @ + 1]
      BY <1>3 DEF TrackView
    <3>2. rank \in [Keys -> Nat] /\ rank[k] + 1 \in Nat
      <4>1. rank \in [Keys -> Nat]
        OBVIOUS
      <4> HIDE DEF ListInv, ListTypeOK
      <4> QED BY <4>1
    <3>3. rank' = [rank EXCEPT ![k] = rank[k] + 1]
      BY <3>1
    <3> HIDE DEF ListInv, ListTypeOK
    <3> QED BY <3>2, <3>3, RankChange
  <2> QED BY <2>1, <2>2, ChangeKeeps
<1>4. CASE FollowersChange
  <2>1. Change /\ UNCHANGED <<row, target>>
    BY <1>4 DEF FollowersChange
  <2>2. rank' \in [Keys -> Nat]
    <3>1. PICK k \in Keys, n \in 0 .. MaxRank : rank' = [rank EXCEPT ![k] = n]
      BY <1>4 DEF FollowersChange
    <3>2. rank \in [Keys -> Nat] /\ n \in Nat
      <4>1. rank \in [Keys -> Nat] /\ MaxRank \in Nat
        BY ListingAssumption
      <4> HIDE DEF ListInv, ListTypeOK
      <4> QED BY <4>1
    <3> HIDE DEF ListInv, ListTypeOK
    <3> QED BY <3>1, <3>2, RankChange
  <2> QED BY <2>1, <2>2, ChangeKeeps
<1>5. CASE UpdateMe
  <2>1. Change /\ UNCHANGED <<row, rank>>
    BY <1>5 DEF UpdateMe
  <2>2. target' \in Target /\ target'.mine = target.mine
    <3>1. PICK p \in BOOLEAN : target' = [target EXCEPT !.private = p]
      BY <1>5 DEF UpdateMe
    <3> QED BY <3>1 DEF Target
  <2> QED BY <2>1, <2>2, ChangeKeeps
<1>6. CASE Follow
  <2>1. Change /\ UNCHANGED <<row, rank>>
    BY <1>6 DEF Follow
  <2>2. target' \in Target /\ target'.mine = target.mine
    <3>1. PICK f \in BOOLEAN : target' = [target EXCEPT !.followed = f]
      BY <1>6 DEF Follow
    <3> QED BY <3>1 DEF Target
  <2> QED BY <2>1, <2>2, ChangeKeeps
<1>7. CASE Leave
  <2>1. Change /\ UNCHANGED <<row, rank>>
    BY <1>7 DEF Leave
  <2>2. target' \in Target /\ target'.mine = target.mine
    BY <1>7 DEF Leave, Target
  <2> QED BY <2>1, <2>2, ChangeKeeps
<1> QED BY <1>1, <1>2, <1>3, <1>4, <1>5, <1>6, <1>7 DEF Others

-----------------------------------------------------------------------------
(* The request, up to the query. *)

LEMMA RequestKeeps == ASSUME ListInv, Request PROVE ListInv' /\ (walk'.shown => walk.shown)
<1>1. walk \in Walk /\ list \in Lists
  BY DEF ListInv, ListTypeOK
<1>2. /\ walk' \in Walk /\ Same(walk, walk')
      /\ walk'.pc = GateStep /\ walk'.status = 0 /\ walk'.held = Standing(target) /\ walk'.shown = FALSE
  BY <1>1, RequestSteps
<1>3. UNCHANGED <<list, row, rank, target, changes>> /\ ~WalkAt("ended")
  BY DEF Request, WalkAt
<1>4. GateStep \in {"video", "user", "query"}
  BY DEF GateStep
<1>5. Found'
  BY <1>1, <1>2, <1>3 DEF Found, WalkAt, GateStep, Gate
<1> QED BY <1>2, <1>3, <1>4, <1>5, MoveKeeps DEF Same

LEMMA NextPcIs == ASSUME NEW st PROVE NextPc(st) \in {"idle", "refused"}
BY DEF NextPc

LEMMA RefuseKeeps ==
    ASSUME ListInv, UNCHANGED <<list, row, rank, target, changes>>,
           walk.pc \in {"video", "user", "follow"}, NEW st \in {400, 404, 500}, Refuse(st)
    PROVE  ListInv' /\ (walk'.shown => walk.shown)
<1>1. walk \in Walk
  BY DEF ListInv, ListTypeOK
<1>2. PICK pc \in {"idle", "query", "refused"} :
          Answer(st, pc) /\ (pc = "query" => list \in FollowLists)
  BY NextPcIs DEF Refuse
<1>3. /\ walk' \in Walk /\ Same(walk, walk')
      /\ walk'.pc = pc /\ walk'.status = st /\ walk'.held = walk.held /\ walk'.shown = walk.shown
  BY <1>1, <1>2, StatusSteps
<1>4. ~WalkAt("ended") /\ walk'.pc # "ended"
  BY <1>3 DEF WalkAt
<1>5. Standing(target) \subseteq walk.held
  BY DEF ListInv, Found
<1>6. Found'
  BY <1>2, <1>3, <1>5 DEF Found, WalkAt
<1> QED BY <1>3, <1>4, <1>6, MoveKeeps DEF Same

LEMMA PassKeeps ==
    ASSUME ListInv, UNCHANGED <<list, row, rank, target, changes>>,
           ~WalkAt("ended"), NEW pc \in {"idle", "user", "follow", "query", "refused"}, Pass(pc),
           pc \in {"user", "follow", "query"} => Standing(target) \subseteq walk.held,
           pc \in {"user", "follow"} =>
                /\ walk.status = 0
                /\ list \in {"comments", "videos", "followers", "following"}
                /\ list = "comments" => ~target.mine /\ "ready" \in walk.held,
           pc = "follow" => "active" \in walk.held,
           pc = "query" => Allowed
    PROVE  ListInv' /\ (walk'.shown => walk.shown)
<1>1. walk \in Walk
  BY DEF ListInv, ListTypeOK
<1>2. /\ walk' \in Walk /\ Same(walk, walk')
      /\ walk'.pc = pc /\ walk'.status = walk.status /\ walk'.held = walk.held /\ walk'.shown = walk.shown
  BY <1>1, PassSteps
<1>3. Gate' = Gate
  BY DEF Gate
<1>4. Found'
  BY <1>2, <1>3 DEF Found, WalkAt, Allowed
<1>5. walk'.pc # "ended"
  BY <1>2
<1> QED BY <1>2, <1>4, <1>5, MoveKeeps DEF Same

LEMMA GetVideoByIDKeeps == ASSUME ListInv, GetVideoByID PROVE ListInv' /\ (walk'.shown => walk.shown)
<1>1. /\ UNCHANGED <<list, row, rank, target, changes>> /\ ~WalkAt("ended")
      /\ walk.pc = "video"
  BY DEF GetVideoByID, WalkAt
<1>2. /\ list = "comments" /\ walk.status = 0
      /\ Standing(target) \subseteq walk.held
  BY <1>1 DEF ListInv, Found, WalkAt
<1>3. CASE target.mine /\ Pass("query")
  <2>1. Gate = {}
    BY <1>2, <1>3 DEF Gate
  <2> QED BY <1>1, <1>2, <1>3, <2>1, PassKeeps DEF Allowed
<1>4. CASE ~target.mine /\ target.ready /\ Pass("user")
  <2>1. "ready" \in walk.held
    BY <1>2, <1>4 DEF Standing
  <2> QED BY <1>1, <1>2, <1>4, <2>1, PassKeeps
<1>5. CASE Refuse(404) \/ Refuse(500)
  BY <1>1, <1>5, RefuseKeeps
<1> QED BY <1>3, <1>4, <1>5 DEF GetVideoByID

LEMMA GetUserByIDKeeps == ASSUME ListInv, GetUserByID PROVE ListInv' /\ (walk'.shown => walk.shown)
<1>1. /\ UNCHANGED <<list, row, rank, target, changes>> /\ ~WalkAt("ended")
      /\ walk.pc = "user"
  BY DEF GetUserByID, WalkAt
<1>2. /\ list \in {"comments", "videos", "followers", "following"} /\ walk.status = 0
      /\ list = "comments" => ~target.mine /\ "ready" \in walk.held
      /\ Standing(target) \subseteq walk.held
  BY <1>1 DEF ListInv, Found, WalkAt
<1>3. CASE target.active /\ (target.mine \/ ~target.private) /\ Pass("query")
  <2>1. {"active", "open"} \subseteq walk.held
    BY <1>2, <1>3 DEF Standing
  <2>2. Gate \subseteq walk.held
    BY <1>2, <2>1 DEF Gate
  <2> QED BY <1>1, <1>2, <1>3, <2>2, PassKeeps DEF Allowed
<1>4. CASE target.active /\ ~target.mine /\ target.private /\ Pass("follow")
  <2>1. "active" \in walk.held
    BY <1>2, <1>4 DEF Standing
  <2> QED BY <1>1, <1>2, <1>4, <2>1, PassKeeps
<1>5. CASE Refuse(404) \/ Refuse(500)
  BY <1>1, <1>5, RefuseKeeps
<1> QED BY <1>3, <1>4, <1>5 DEF GetUserByID

LEMMA IsFollowingKeeps == ASSUME ListInv, IsFollowing PROVE ListInv' /\ (walk'.shown => walk.shown)
<1>1. /\ UNCHANGED <<list, row, rank, target, changes>> /\ ~WalkAt("ended")
      /\ walk.pc = "follow"
  BY DEF IsFollowing, WalkAt
<1>2. /\ list \in {"comments", "videos", "followers", "following"} /\ walk.status = 0
      /\ list = "comments" => ~target.mine /\ "ready" \in walk.held
      /\ Standing(target) \subseteq walk.held /\ "active" \in walk.held
  BY <1>1 DEF ListInv, Found, WalkAt
<1>3. CASE target.followed /\ Pass("query")
  <2>1. "open" \in walk.held
    BY <1>2, <1>3 DEF Standing
  <2>2. Gate \subseteq walk.held
    BY <1>2, <2>1 DEF Gate
  <2> QED BY <1>1, <1>2, <1>3, <2>2, PassKeeps DEF Allowed
<1>4. CASE Refuse(404) \/ Refuse(500)
  BY <1>1, <1>4, RefuseKeeps
<1> QED BY <1>3, <1>4 DEF IsFollowing

-----------------------------------------------------------------------------
(* The pages. *)

LEMMA ReceivedSteps ==
    ASSUME walk \in Walk, NEW page \in SUBSET Keys
    PROVE  LET r == Received(page) IN
           /\ r \in Walk /\ r.cursor = walk.cursor /\ r.steady = walk.steady
           /\ r.held = walk.held /\ r.status = walk.status /\ r.offset = walk.offset
           /\ r.seen = walk.seen \cup page
           /\ r.twice = walk.twice \cup (page \cap walk.seen)
<1> DEFINE S == walk.seen \cup page
           T == walk.twice \cup (page \cap walk.seen)
           a == [walk EXCEPT !.seen = S]
           b == [a EXCEPT !.twice = T]
           d == [b EXCEPT !.shown = page # {}]
<1>0. S \in SUBSET Keys /\ T \in SUBSET Keys
  BY DEF Walk
<1>1. Received(page) = [walk EXCEPT !.seen = S, !.twice = T, !.shown = page # {}]
  BY DEF Received
<1> HIDE DEF S, T
<1>2. a \in Walk
  BY <1>0 DEF Walk
<1>3. b \in Walk
  <2> HIDE DEF a
  <2> QED BY <1>0, <1>2 DEF Walk
<1>6. d \in Walk
  <2> HIDE DEF b
  <2>1. (page # {}) \in BOOLEAN
    OBVIOUS
  <2> QED BY <1>3, <2>1, ShownSteps
<1>4. Received(page) \in Walk
  BY <1>1, <1>6
<1> DEFINE r == Received(page)
<1>5. /\ r.cursor = walk.cursor /\ r.steady = walk.steady
      /\ r.held = walk.held /\ r.status = walk.status /\ r.offset = walk.offset
      /\ r.seen = S /\ r.twice = T
  BY <1>1 DEF Walk
<1> QED BY <1>4, <1>5 DEF S, T

LEMMA LastPageSteps ==
    ASSUME walk \in Walk, NEW page \in SUBSET Keys, LastPage(page)
    PROVE  /\ walk' \in Walk /\ walk'.pc = "ended" /\ walk'.steady = walk.steady
           /\ walk'.cursor = walk.cursor /\ walk'.seen = walk.seen \cup page
           /\ walk'.twice = walk.twice \cup (page \cap walk.seen)
<1> DEFINE r == Received(page)
           a == [r EXCEPT !.pc = "ended"]
<1>1. /\ r \in Walk /\ r.cursor = walk.cursor /\ r.steady = walk.steady
      /\ r.seen = walk.seen \cup page /\ r.twice = walk.twice \cup (page \cap walk.seen)
  BY ReceivedSteps
<1>2. walk' = a
  BY DEF LastPage
<1> HIDE DEF r
<1>3. a \in Walk
  BY <1>1 DEF Walk
<1>4. a.pc = "ended" /\ a.steady = r.steady /\ a.cursor = r.cursor /\ a.seen = r.seen
      /\ a.twice = r.twice
  BY <1>1 DEF Walk
<1> HIDE DEF a
<1> QED BY <1>1, <1>2, <1>3, <1>4

LEMMA NextPageSteps ==
    ASSUME walk \in Walk, NEW page \in SUBSET Keys, NEW c \in Keys \cup {0}, NEW o \in Nat,
           NextPage(page, c, o)
    PROVE  /\ walk' \in Walk /\ walk'.pc = "idle" /\ walk'.steady = walk.steady
           /\ walk'.cursor = c /\ walk'.offset = o /\ walk'.seen = walk.seen \cup page
           /\ walk'.twice = walk.twice \cup (page \cap walk.seen)
<1> DEFINE r == Received(page)
           a == [r EXCEPT !.cursor = c]
           b == [a EXCEPT !.offset = o]
           d == [b EXCEPT !.pc = "idle"]
<1>1. /\ r \in Walk /\ r.steady = walk.steady
      /\ r.seen = walk.seen \cup page /\ r.twice = walk.twice \cup (page \cap walk.seen)
  BY ReceivedSteps
<1>2. walk' = d
  BY DEF NextPage
<1> HIDE DEF r
<1>3. a \in Walk /\ a.cursor = c /\ a.steady = r.steady /\ a.seen = r.seen /\ a.twice = r.twice
  BY <1>1 DEF Walk
<1> HIDE DEF a
<1>4. b \in Walk /\ b.cursor = a.cursor /\ b.steady = a.steady /\ b.seen = a.seen
      /\ b.twice = a.twice /\ b.offset = o
  BY <1>3 DEF Walk
<1> HIDE DEF b
<1>5. d \in Walk /\ d.cursor = b.cursor /\ d.steady = b.steady /\ d.seen = b.seen
      /\ d.twice = b.twice /\ d.pc = "idle" /\ d.offset = b.offset
  BY <1>4 DEF Walk
<1> HIDE DEF d
<1> QED BY <1>1, <1>2, <1>3, <1>4, <1>5

LEMMA LimitIs == ASSUME NEW raw \in RawLimits, parseLimit(raw) # 0 PROVE parseLimit(raw) \in Nat
BY ListingAssumption DEF parseLimit

(* The heart of the argument: a page of a keyset list. *)
LEMMA PageKeeps ==
    ASSUME ListInv, list \in KeysetLists, WalkAt("query"),
           UNCHANGED <<list, row, rank, target, changes>>,
           NEW page \in SUBSET Keys, NEW n, IsPage(page, Before(walk.cursor), n), Serve(page, n)
    PROVE  ListInv'
<1>0. /\ walk \in Walk /\ list \in Lists /\ rank \in [Keys -> Nat] /\ target \in Target
      /\ row \in [Keys -> {"none", "hidden", "READY", "DELETED", "row", "read", "gone"}]
      /\ changes \in 0 .. MaxChanges
  BY DEF ListInv, ListTypeOK
<1>1. Eligible' = Eligible
  BY DEF Eligible, ListFeedVideos, SearchVideos, ListVideosByUser, ListFollowers,
         ListFollowing, ListCommentsByVideo, ListNotifications, SearchUsers
<1>2. /\ list' = list /\ rank' = rank /\ target' = target /\ row' = row /\ changes' = changes
  OBVIOUS
<1>3. /\ walk.seen \subseteq Keys /\ walk.steady \subseteq Keys /\ walk.cursor \in Keys \cup {0}
      /\ walk.offset \in Nat
  BY <1>0 DEF Walk
<1>4. Keys \subseteq Nat \ {0}
  BY ListingAssumption
<1>5. /\ walk.twice = {} /\ walk.steady \subseteq Eligible
      /\ \A k \in walk.seen : walk.cursor # 0 /\ k >= walk.cursor
      /\ walk.cursor # 0 => \A k \in walk.steady : k >= walk.cursor => k \in walk.seen
  BY DEF ListInv, Progress, WalkAt
<1>6. \A k \in page : walk.cursor = 0 \/ k < walk.cursor
  BY DEF IsPage, Before
<1> DEFINE c == walk.cursor
<1>a. c \in Nat /\ page \subseteq Nat /\ walk.seen \subseteq Nat /\ walk.steady \subseteq Nat
  <2>1. Keys \subseteq Nat
    BY <1>4
  <2>2. c \in Keys \cup {0} /\ page \subseteq Keys /\ walk.seen \subseteq Keys
        /\ walk.steady \subseteq Keys
    BY <1>3
  <2>3. 0 \in Nat
    OBVIOUS
  <2> HIDE DEF c
  <2>4. Keys \cup {0} \subseteq Nat
    BY <2>1, <2>3
  <2> QED BY <2>1, <2>2, <2>4, Zenon
<1>b. /\ \A k \in walk.seen : c # 0 /\ k >= c
      /\ \A k \in walk.steady : c # 0 /\ k >= c => k \in walk.seen
      /\ \A k \in page : c = 0 \/ k < c
  BY <1>5, <1>6
<1> HIDE DEF c
<1>7. page \cap walk.seen = {}
  <2>1. ASSUME NEW k \in page, k \in walk.seen PROVE FALSE
    <3>1. k \in Nat /\ c \in Nat /\ k < c /\ k >= c
      BY <1>a, <1>b, <2>1
    <3> QED BY <3>1
  <2> QED BY <2>1
<1>8. \A k \in walk.steady : k \in Before(walk.cursor) \/ k \in walk.seen
  <2>1. ASSUME NEW k \in walk.steady, k \notin walk.seen PROVE c = 0 \/ k < c
    <3>1. k \in Nat /\ c \in Nat /\ (c = 0 \/ ~(k >= c))
      BY <1>a, <1>b, <2>1
    <3> QED BY <3>1
  <2>2. \A k \in walk.steady : k \in Eligible
    BY <1>5
  <2> QED BY <2>1, <2>2 DEF Before, c
<1>9. CASE LastPage(page) /\ page = Before(walk.cursor)
  <2>1. /\ walk' \in Walk /\ walk'.pc = "ended" /\ walk'.steady = walk.steady
        /\ walk'.cursor = walk.cursor /\ walk'.seen = walk.seen \cup page
        /\ walk'.twice = walk.twice \cup (page \cap walk.seen)
    BY <1>0, <1>9, LastPageSteps
  <2>2. ListTypeOK'
    BY <1>0, <1>2, <2>1 DEF ListTypeOK
  <2>3. walk'.twice = {} /\ walk'.steady \subseteq walk'.seen
    BY <1>5, <1>7, <1>8, <1>9, <2>1
  <2>4. Progress'
    BY <1>1, <1>2, <1>5, <2>1, <2>3 DEF Progress, WalkAt
  <2>5. Found'
    BY <2>1 DEF Found, WalkAt
  <2> QED BY <2>2, <2>4, <2>5 DEF ListInv
<1>10. ASSUME NEW k \in page, \A j \in page : j >= k, NextPage(page, k, walk.offset)
       PROVE  ListInv'
  <2>0. k \in Keys \cup {0}
    OBVIOUS
  <2>1. /\ walk' \in Walk /\ walk'.pc = "idle" /\ walk'.steady = walk.steady
        /\ walk'.cursor = k /\ walk'.seen = walk.seen \cup page
        /\ walk'.twice = walk.twice \cup (page \cap walk.seen)
    BY <1>0, <1>3, <1>10, <2>0, NextPageSteps
  <2>2. ListTypeOK'
    BY <1>0, <1>2, <2>1 DEF ListTypeOK
  <2>3. walk'.twice = {}
    BY <1>5, <1>7, <2>1
  <2>4. k \in Nat /\ k # 0
    BY <1>4
  <2>5. \A j \in walk.seen : j >= k
    <3>1. ASSUME NEW j \in walk.seen PROVE j >= k
      <4>1. j \in Nat /\ c \in Nat /\ k < c /\ j >= c
        BY <1>a, <1>b, <3>1
      <4> QED BY <2>4, <4>1
    <3> QED BY <3>1
  <2>6. \A j \in walk'.seen : j >= k
    BY <1>10, <2>1, <2>5
  <2>7. ASSUME NEW j \in walk.steady, j >= k PROVE j \in walk'.seen
    <3>1. CASE j \in walk.seen \/ j = k
      BY <2>1, <3>1
    <3>2. CASE j \in Before(walk.cursor) /\ j # k
      <4>1. j \in Nat
        BY <1>3, <1>4
      <4>2. j > k
        BY <2>4, <2>7, <3>2, <4>1
      <4>3. j \in page
        BY <3>2, <4>2 DEF IsPage
      <4> QED BY <2>1, <4>3
    <3> QED BY <1>8, <3>1, <3>2
  <2>8. Progress'
    BY <1>1, <1>2, <1>5, <2>1, <2>3, <2>4, <2>6, <2>7 DEF Progress, WalkAt
  <2>9. Found'
    BY <2>1 DEF Found, WalkAt
  <2> QED BY <2>2, <2>8, <2>9 DEF ListInv
<1>11. CASE Cardinality(page) = n
  BY <1>10, <1>11 DEF Serve
<1>12. CASE Cardinality(page) # n
  <2>1. page = Before(walk.cursor) /\ LastPage(page)
    BY <1>12 DEF Serve, IsPage
  <2> QED BY <1>9, <2>1
<1> QED BY <1>11, <1>12

(* KeysetPage does one of three things. *)
LEMMA KeysetPageCases ==
    ASSUME KeysetPage
    PROVE  \/ walk.status # 0 /\ Pass(NextPc(walk.status))
           \/ /\ walk.status # 0
              /\ \E page \in SUBSET Keys : AppendPage(page)
           \/ /\ walk.status = 0
              /\ \E page \in SUBSET Keys, n \in Nat :
                    IsPage(page, Before(walk.cursor), n) /\ Serve(page, n)
           \/ \E status \in {400, 500} : Answer(status, NextPc(status))
<1>1. CASE walk.status # 0 /\ Pass(NextPc(walk.status))
  BY <1>1
<1>2. ASSUME walk.status = 0, NEW raw \in RawLimits, NEW page \in SUBSET Keys,
             parseLimit(raw) # 0, IsPage(page, Before(walk.cursor), parseLimit(raw)),
             Serve(page, parseLimit(raw))
      PROVE  \E q \in SUBSET Keys, n \in Nat :
                IsPage(q, Before(walk.cursor), n) /\ Serve(q, n)
  BY <1>2, LimitIs
<1>3. CASE \E status \in {400, 500} : Answer(status, NextPc(status))
  BY <1>3
<1>4. CASE walk.status # 0 /\ \E page \in SUBSET Keys : AppendPage(page)
  BY <1>4
<1> QED BY <1>1, <1>2, <1>3, <1>4 DEF KeysetPage

(* A 4xx or 5xx in place of a page, or after a gate that refused. *)
LEMMA FailureKeeps ==
    ASSUME ListInv, UNCHANGED <<list, row, rank, target, changes>>, WalkAt("query"),
           NEW st \in {400, 500}, Answer(st, NextPc(st))
    PROVE  ListInv' /\ (walk'.shown => walk.shown)
<1>1. walk \in Walk
  BY DEF ListInv, ListTypeOK
<1>2. PICK pc \in {"idle", "refused"} : pc = NextPc(st)
  BY NextPcIs
<1>3. /\ walk' \in Walk /\ Same(walk, walk')
      /\ walk'.pc = pc /\ walk'.status = st /\ walk'.held = walk.held /\ walk'.shown = walk.shown
  BY <1>1, <1>2, StatusSteps
<1>4. ~WalkAt("ended") /\ walk'.pc # "ended"
  BY <1>3 DEF WalkAt
<1>5. Found'
  BY <1>3 DEF Found, WalkAt
<1> QED BY <1>3, <1>4, <1>5, MoveKeeps DEF Same

(* A page behind the envelope of a gate that refused. *)
LEMMA AppendKeeps ==
    ASSUME ListInv, UNCHANGED <<list, row, rank, target, changes>>, WalkAt("query"),
           list \in KeysetLists, walk.status # 0, NEW page \in SUBSET Keys, AppendPage(page)
    PROVE  ListInv' /\ Allowed
<1> DEFINE pc == NextPc(walk.status)
           t == (page # {})
           a == [walk EXCEPT !.shown = t]
           b == [a EXCEPT !.pc = pc]
<1>0. walk \in Walk /\ pc \in {"idle", "refused"} /\ t \in BOOLEAN
  BY NextPcIs DEF ListInv, ListTypeOK
<1>1. walk' = [walk EXCEPT !.shown = t, !.pc = pc]
  BY DEF AppendPage
<1> HIDE DEF pc, t
<1>2. a \in Walk
  BY <1>0 DEF Walk
<1>3. b \in Walk
  <2> HIDE DEF a
  <2> QED BY <1>0, <1>2 DEF Walk
<1>4. walk' \in Walk /\ Same(walk, walk') /\ walk'.pc = pc
  BY <1>0, <1>1, <1>3 DEF Walk, Same
<1>5. Found'
  BY <1>0, <1>4 DEF Found, WalkAt
<1>6. ListInv'
  BY <1>0, <1>4, <1>5, MoveKeeps DEF WalkAt
<1> QED BY <1>6 DEF ListInv, Found, Allowed

LEMMA KeysetPageKeeps ==
    ASSUME ListInv, KeysetPage
    PROVE  ListInv' /\ (walk'.shown /\ ~walk.shown => Allowed)
<1>1. /\ UNCHANGED <<list, row, rank, target, changes>> /\ WalkAt("query")
      /\ list \in KeysetLists
  BY DEF KeysetPage
<1>2. CASE walk.status # 0 /\ Pass(NextPc(walk.status))
  <2>1. PICK pc \in {"idle", "refused"} : pc = NextPc(walk.status)
    BY NextPcIs
  <2>2. Pass(pc) /\ ~WalkAt("ended")
    BY <1>1, <1>2, <2>1 DEF WalkAt
  <2> QED BY <1>1, <2>2, PassKeeps
<1>3. ASSUME walk.status = 0, NEW page \in SUBSET Keys, NEW n \in Nat,
             IsPage(page, Before(walk.cursor), n), Serve(page, n)
      PROVE  ListInv' /\ Allowed
  <2>1. ListInv'
    BY <1>1, <1>3, PageKeeps
  <2> QED BY <1>1, <2>1 DEF ListInv, Found, Allowed
<1>4. ASSUME NEW st \in {400, 500}, Answer(st, NextPc(st))
      PROVE  ListInv' /\ (walk'.shown => walk.shown)
  BY <1>1, <1>4, FailureKeeps
<1>5. ASSUME walk.status # 0, NEW page \in SUBSET Keys, AppendPage(page)
      PROVE  ListInv' /\ Allowed
  BY <1>1, <1>5, AppendKeeps
<1> QED BY <1>2, <1>3, <1>4, <1>5, KeysetPageCases

LEMMA SearchKeeps ==
    ASSUME ListInv, Search
    PROVE  ListInv' /\ (walk'.shown /\ ~walk.shown => Allowed)
<1>0. /\ walk \in Walk /\ list \in Lists /\ rank \in [Keys -> Nat] /\ target \in Target
      /\ row \in [Keys -> {"none", "hidden", "READY", "DELETED", "row", "read", "gone"}]
      /\ changes \in 0 .. MaxChanges
  BY DEF ListInv, ListTypeOK
<1>1. /\ UNCHANGED <<list, row, rank, target, changes>> /\ WalkAt("query")
      /\ list \in OffsetLists
  BY DEF Search
<1>2. walk.cursor \in Keys \cup {0} /\ walk.offset \in Nat
  BY <1>0 DEF Walk
<1>3. Gate = {}
  BY <1>1 DEF Gate
<1>4. /\ list' = list /\ rank' = rank /\ target' = target /\ row' = row /\ changes' = changes
  BY <1>1
<1>5. ASSUME NEW raw \in RawLimits, parseLimit(raw) # 0,
             \/ NextPage(Window(walk.offset, parseLimit(raw)), walk.cursor,
                         walk.offset + parseLimit(raw))
             \/ LastPage(Window(walk.offset, parseLimit(raw)))
      PROVE  ListInv'
  <2> DEFINE n == parseLimit(raw)
             page == Window(walk.offset, n)
             o == walk.offset + n
  <2>1. n \in Nat
    BY <1>5, LimitIs
  <2>2. page \in SUBSET Keys
    BY <1>0, EligibleIsKeys DEF Window
  <2>3. NextPage(page, walk.cursor, o) \/ LastPage(page)
    BY <1>5
  <2>4. o \in Nat
    <3> HIDE DEF n
    <3> QED BY <1>2, <2>1
  <2> HIDE DEF n, page, o
  <2>5. walk' \in Walk /\ walk'.pc \in {"idle", "ended"}
    BY <1>0, <1>2, <2>2, <2>3, <2>4, NextPageSteps, LastPageSteps
  <2>6. ListTypeOK'
    BY <1>0, <1>4, <2>5 DEF ListTypeOK
  <2>7. Progress'
    BY <1>1, <1>4 DEF Progress
  <2>8. Found'
    BY <2>5 DEF Found, WalkAt
  <2> QED BY <2>6, <2>7, <2>8 DEF ListInv
<1>6. ASSUME NEW st \in {400, 500}, Answer(st, NextPc(st)) PROVE ListInv'
  BY <1>1, <1>6, FailureKeeps
<1>7. ListInv'
  BY <1>5, <1>6 DEF Search
<1> QED BY <1>3, <1>7 DEF Allowed

-----------------------------------------------------------------------------
LEMMA RangeGrows ==
    ASSUME NEW S, NEW T, NEW f \in [Keys -> S], S \subseteq T
    PROVE  f \in [Keys -> T]
OBVIOUS

LEMMA InitHolds == ASSUME ListingInit PROVE ListInv
<1>1. list \in Lists /\ target \in Target /\ changes = 0 /\ walk = NewWalk
  BY DEF ListingInit
<1>2. row \in [Keys -> {"none", "hidden", "READY", "DELETED", "row", "read", "gone"}]
  BY DEF ListingInit, RowStates
<1>3. rank \in [Keys -> Nat]
  <2>1. MaxRank \in Nat
    BY ListingAssumption
  <2>2. rank \in [Keys -> IF list \in OffsetLists THEN 0 .. MaxRank ELSE {0}]
    BY DEF ListingInit
  <2> DEFINE R == IF list \in OffsetLists THEN 0 .. MaxRank ELSE {0}
  <2>3. R \subseteq Nat
    <3>1. CASE list \in OffsetLists
      <4>1. R = 0 .. MaxRank
        BY <3>1
      <4> HIDE DEF R
      <4> QED BY <2>1, <4>1
    <3>2. CASE list \notin OffsetLists
      <4>1. R = {0}
        BY <3>2
      <4> HIDE DEF R
      <4> QED BY <4>1
    <3> QED BY <3>1, <3>2
  <2>4. rank \in [Keys -> R]
    BY <2>2
  <2> HIDE DEF R
  <2> QED BY <2>3, <2>4, RangeGrows
<1>4. walk \in Walk
  <2> DEFINE S == Eligible
  <2>1. S \in SUBSET Keys
    BY <1>1, EligibleIsKeys
  <2>2. walk = [pc |-> "idle", status |-> 0, cursor |-> 0, offset |-> 0, seen |-> {},
                twice |-> {}, steady |-> S, held |-> {}, shown |-> FALSE]
    BY <1>1 DEF NewWalk
  <2> HIDE DEF S
  <2> QED BY <2>1, <2>2 DEF Walk
<1>5. changes \in 0 .. MaxChanges
  <2>1. changes = 0 /\ MaxChanges \in Nat
    BY <1>1, ListingAssumption
  <2> QED BY <2>1
<1>6. ListTypeOK
  BY <1>1, <1>2, <1>3, <1>4, <1>5 DEF ListTypeOK
<1>7. Progress
  BY <1>1 DEF Progress, NewWalk, WalkAt
<1>8. Found
  BY <1>1 DEF Found, NewWalk, WalkAt
<1> QED BY <1>6, <1>7, <1>8 DEF ListInv

LEMMA NextKeeps ==
    ASSUME ListInv, [ListingNext]_listingVars
    PROVE  ListInv' /\ (walk'.shown /\ ~walk.shown => Allowed)
<1>1. CASE Request
  BY <1>1, RequestKeeps
<1>2. CASE GetVideoByID
  BY <1>2, GetVideoByIDKeeps
<1>3. CASE GetUserByID
  BY <1>3, GetUserByIDKeeps
<1>4. CASE IsFollowing
  BY <1>4, IsFollowingKeeps
<1>5. CASE KeysetPage
  BY <1>5, KeysetPageKeeps
<1>6. CASE Search
  BY <1>6, SearchKeeps
<1>7. CASE Others
  <2>1. Change
    BY <1>7 DEF Others, RowChange, MarkAllRead, TrackView, FollowersChange, UpdateMe, Follow, Leave
  <2>2. walk \in Walk
    BY DEF ListInv, ListTypeOK
  <2>3. walk'.shown => walk.shown
    BY <2>1, <2>2, ChangeSteps
  <2> QED BY <1>7, <2>3, OthersKeep
<1>8. CASE UNCHANGED listingVars
  <2>1. /\ list' = list /\ row' = row /\ rank' = rank /\ target' = target
        /\ walk' = walk /\ changes' = changes
    BY <1>8 DEF listingVars
  <2>2. Eligible' = Eligible /\ Gate' = Gate
    BY <2>1 DEF Eligible, ListFeedVideos, SearchVideos, ListVideosByUser, ListFollowers,
                ListFollowing, ListCommentsByVideo, ListNotifications, SearchUsers, Gate
  <2>3. ListTypeOK'
    BY <2>1 DEF ListInv, ListTypeOK
  <2>4. Progress' /\ Found'
    BY <2>1, <2>2 DEF ListInv, Progress, Found, WalkAt
  <2> QED BY <2>1, <2>3, <2>4 DEF ListInv
<1> QED BY <1>1, <1>2, <1>3, <1>4, <1>5, <1>6, <1>7, <1>8 DEF ListingNext, Handle, HomeFeed, GetUserVideos,
    GetFollowers, GetFollowing, ListComments, GetNotifications

(* A request moves the walk only by a page: every other answer leaves what the
   client has and where it is. *)
LEMMA StatusKeepsWalk ==
    ASSUME ListInv, NEW st \in {400, 500}, Answer(st, NextPc(st))
    PROVE  Same(walk, walk') /\ walk'.pc \in {"idle", "refused"}
<1> DEFINE pc == NextPc(st)
<1>1. pc \in {"idle", "refused"} /\ walk \in Walk /\ Answer(st, pc)
  BY NextPcIs DEF ListInv, ListTypeOK
<1> HIDE DEF pc
<1>2. Same(walk, walk') /\ walk'.pc = pc
  BY <1>1, StatusSteps
<1> QED BY <1>1, <1>2

-----------------------------------------------------------------------------
(* Search. *)

(* The number of rows that come before k. *)
Place(k) == Cardinality({j \in Eligible : Ahead(j, k)})

(* As long as nothing changes, a client has had exactly the places below its
   offset, or all of them. *)
Quiet ==
    list \in OffsetLists /\ changes = 0 =>
        /\ walk.twice = {}
        /\ WalkAt("ended") => walk.seen = Eligible
        /\ WalkAt("ended") \/ walk.seen = {k \in Eligible : Place(k) < walk.offset}

(* Where a place is, by the offset and the limit of a page. *)
LEMMA Windows ==
    ASSUME NEW p \in Nat, NEW o \in Nat, NEW n \in Nat
    PROVE  /\ p \in o .. o + n - 1 <=> p >= o /\ p < o + n
           /\ ~(p >= o /\ p < o)
           /\ p < o + n <=> p < o \/ (p >= o /\ p < o + n)
           /\ o + n \in Nat
           /\ \A c \in Nat : p < c /\ ~(c > o + n) => p < o + n
OBVIOUS

(* The rows are finitely many, and no row comes before itself. *)
LEMMA PlacesAre ==
    ASSUME ListInv, IsFiniteSet(Keys), NEW k \in Eligible
    PROVE  Place(k) \in Nat /\ Cardinality(Eligible) \in Nat /\ Place(k) < Cardinality(Eligible)
<1> DEFINE A == {j \in Eligible : Ahead(j, k)}
<1>1. Eligible \subseteq Keys /\ rank \in [Keys -> Nat] /\ Keys \subseteq Nat
  BY EligibleIsKeys, ListingAssumption DEF ListInv, ListTypeOK
<1>2. IsFiniteSet(Eligible)
  BY <1>1, FS_Subset
<1>3. k \notin A
  <2>1. rank[k] \in Nat /\ k \in Nat
    BY <1>1
  <2>2. ~(rank[k] > rank[k]) /\ ~(k > k)
    BY <2>1
  <2> QED BY <2>2 DEF Ahead
<1>4. A \subseteq Eligible /\ A # Eligible
  BY <1>3
<1> HIDE DEF A
<1>5. /\ IsFiniteSet(A) /\ Cardinality(A) <= Cardinality(Eligible)
      /\ Cardinality(A) # Cardinality(Eligible)
  BY <1>2, <1>4, FS_Subset
<1>6. Cardinality(A) \in Nat /\ Cardinality(Eligible) \in Nat
  BY <1>2, <1>5, FS_CardinalityType
<1>7. Cardinality(A) < Cardinality(Eligible)
  BY <1>5, <1>6
<1> QED BY <1>6, <1>7 DEF Place, A

(* A page takes the places from the offset on, as many as its limit. *)
LEMMA WindowIs ==
    ASSUME ListInv, IsFiniteSet(Keys), NEW o \in Nat, NEW n \in Nat
    PROVE  Window(o, n) = {k \in Eligible : Place(k) >= o /\ Place(k) < o + n}
<1>1. ASSUME NEW k \in Eligible
      PROVE  Place(k) \in o .. o + n - 1 <=> Place(k) >= o /\ Place(k) < o + n
  <2>1. Place(k) \in Nat
    BY PlacesAre
  <2> QED BY <2>1, Windows
<1> QED BY <1>1 DEF Window, Place

(* A page of Search while nothing changes. *)
LEMMA QuietPage ==
    ASSUME ListInv, Quiet, IsFiniteSet(Keys), list \in OffsetLists, changes = 0, ~WalkAt("ended"),
           UNCHANGED <<list, row, rank, target, changes>>, NEW n \in Nat,
           IF Cardinality(Eligible) > walk.offset + n
           THEN NextPage(Window(walk.offset, n), walk.cursor, walk.offset + n)
           ELSE LastPage(Window(walk.offset, n))
    PROVE  Quiet'
<1> DEFINE page == Window(walk.offset, n)
           o == walk.offset
           c == walk.cursor
           next == o + n
<1>0. walk \in Walk
  BY DEF ListInv, ListTypeOK
<1>1. o \in Nat /\ c \in Keys \cup {0}
  BY <1>0 DEF Walk
<1>2. page \in SUBSET Keys
  BY EligibleIsKeys DEF ListInv, ListTypeOK, Window
<1>3. walk.twice = {} /\ walk.seen = {k \in Eligible : Place(k) < o}
  BY DEF Quiet
<1>4. Eligible' = Eligible /\ \A k : Place(k)' = Place(k)
  <2>1. Eligible' = Eligible
    BY DEF Eligible, ListFeedVideos, SearchVideos, ListVideosByUser, ListFollowers,
           ListFollowing, ListCommentsByVideo, ListNotifications, SearchUsers
  <2>2. ASSUME NEW k PROVE Place(k)' = Place(k)
    BY <2>1 DEF Place, Ahead
  <2> QED BY <2>1, <2>2
<1>5. \A k \in Eligible : Place(k) \in Nat
  BY PlacesAre
<1> HIDE DEF o
<1>6. page = {k \in Eligible : Place(k) >= o /\ Place(k) < o + n}
  BY <1>1, WindowIs DEF o
<1> HIDE DEF page
<1>7. page \cap walk.seen = {}
  BY <1>1, <1>3, <1>5, <1>6, Windows
<1>10. walk.seen \cup page = {k \in Eligible : Place(k) < o + n}
  <2>1. ASSUME NEW k \in Eligible
        PROVE  Place(k) < o + n <=> Place(k) < o \/ (Place(k) >= o /\ Place(k) < o + n)
    BY <1>1, <1>5, Windows
  <2> QED BY <1>3, <1>6, <2>1
<1>11. next \in Nat
  BY <1>1, Windows
<1> HIDE DEF c, next
<1>8. CASE NextPage(page, c, next)
  <2>1. /\ walk'.pc = "idle" /\ walk'.offset = next /\ walk'.seen = walk.seen \cup page
        /\ walk'.twice = walk.twice \cup (page \cap walk.seen)
    BY <1>0, <1>1, <1>2, <1>8, <1>11, NextPageSteps
  <2>2. walk'.twice = {}
    BY <1>3, <1>7, <2>1
  <2>3. walk'.seen = {k \in Eligible : Place(k) < walk'.offset}
    BY <1>10, <2>1 DEF next
  <2> QED BY <1>4, <2>1, <2>2, <2>3 DEF Quiet, WalkAt
<1>9. CASE LastPage(page) /\ ~(Cardinality(Eligible) > next)
  <2>1. /\ walk'.pc = "ended" /\ walk'.seen = walk.seen \cup page
        /\ walk'.twice = walk.twice \cup (page \cap walk.seen)
    BY <1>0, <1>2, <1>9, LastPageSteps
  <2>2. ASSUME NEW k \in Eligible PROVE Place(k) < o + n
    <3>1. Place(k) \in Nat /\ Cardinality(Eligible) \in Nat /\ Place(k) < Cardinality(Eligible)
      BY PlacesAre
    <3> QED BY <1>1, <1>9, <3>1, Windows DEF next
  <2>3. walk.seen \cup page = Eligible
    BY <1>10, <2>2
  <2>4. walk'.twice = {} /\ walk'.seen = Eligible
    BY <1>3, <1>7, <2>1, <2>3
  <2> QED BY <1>4, <2>1, <2>4 DEF Quiet, WalkAt
<1> QED BY <1>8, <1>9 DEF page, c, next, o

LEMMA CountIs == ASSUME NEW m \in Nat, NEW c \in 0 .. m PROVE c + 1 # 0
OBVIOUS

(* Nothing else moves a quiet walk. *)
LEMMA QuietKeeps ==
    ASSUME ListInv, Quiet, IsFiniteSet(Keys), [ListingNext]_listingVars
    PROVE  Quiet'
<1> SUFFICES ASSUME list' \in OffsetLists, changes' = 0 PROVE Quiet'
  BY DEF Quiet
<1>0. walk \in Walk /\ changes + 1 # 0
  <2>1. walk \in Walk /\ changes \in 0 .. MaxChanges
    BY DEF ListInv, ListTypeOK
  <2>2. MaxChanges \in Nat
    BY ListingAssumption
  <2> QED BY <2>1, <2>2, CountIs
<1>1. ASSUME UNCHANGED <<list, row, rank, target, changes>>, ~WalkAt("ended"),
             Same(walk, walk'), walk'.pc # "ended"
      PROVE  Quiet'
  <2>1. Eligible' = Eligible /\ \A k : Place(k)' = Place(k)
    BY <1>1 DEF Place, Ahead, Eligible, ListFeedVideos, SearchVideos, ListVideosByUser,
       ListFollowers, ListFollowing, ListCommentsByVideo, ListNotifications, SearchUsers
  <2> QED BY <1>1, <2>1 DEF Quiet, Same, WalkAt
<1>2. CASE Request
  <2>1. UNCHANGED <<list, row, rank, target, changes>> /\ ~WalkAt("ended")
    BY <1>2 DEF Request, WalkAt
  <2>2. Same(walk, walk') /\ walk'.pc = GateStep
    BY <1>0, <1>2, RequestSteps
  <2> QED BY <1>1, <2>1, <2>2 DEF GateStep
<1>3. CASE Search
  <2>1. /\ UNCHANGED <<list, row, rank, target, changes>> /\ ~WalkAt("ended")
        /\ list \in OffsetLists /\ changes = 0
    BY <1>3 DEF Search, WalkAt
  <2>2. CASE \E status \in {400, 500} : Answer(status, NextPc(status))
    BY <1>1, <2>1, <2>2, StatusKeepsWalk
  <2>3. ASSUME NEW lim \in RawLimits, parseLimit(lim) # 0,
               IF Cardinality(Eligible) > walk.offset + parseLimit(lim)
               THEN NextPage(Window(walk.offset, parseLimit(lim)), walk.cursor,
                             walk.offset + parseLimit(lim))
               ELSE LastPage(Window(walk.offset, parseLimit(lim)))
        PROVE  Quiet'
    BY <2>1, <2>3, LimitIs, QuietPage
  <2> QED BY <1>3, <2>2, <2>3 DEF Search
<1>4. CASE Others
  <2>1. changes' = changes + 1
    BY <1>4 DEF Others, RowChange, MarkAllRead, TrackView, FollowersChange, UpdateMe, Follow,
       Leave, Change
  <2> QED BY <1>0, <2>1
<1>5. CASE UNCHANGED listingVars
  <2>1. Eligible' = Eligible /\ \A k : Place(k)' = Place(k)
    BY <1>5 DEF listingVars, Place, Ahead, Eligible, ListFeedVideos, SearchVideos,
       ListVideosByUser, ListFollowers, ListFollowing, ListCommentsByVideo, ListNotifications,
       SearchUsers
  <2> QED BY <1>5, <2>1 DEF listingVars, Quiet, WalkAt
<1>6. CASE Handle /\ ~Search
  <2>1. list \notin OffsetLists
    BY <1>6 DEF Handle, HomeFeed, GetUserVideos, GetFollowers, GetFollowing, ListComments,
       GetNotifications
  <2>2. KeysetPage \/ GetVideoByID \/ GetUserByID \/ IsFollowing
    BY <1>6 DEF Handle, HomeFeed, GetUserVideos, GetFollowers, GetFollowing, ListComments,
       GetNotifications
  <2>3. list' = list
    BY <2>2 DEF KeysetPage, GetVideoByID, GetUserByID, IsFollowing
  <2> QED BY <2>1, <2>3
<1> QED BY <1>2, <1>3, <1>4, <1>5, <1>6 DEF ListingNext

(* The walk keeps to what its cursor says, whatever changes beside it. *)
THEOREM ListingInvariant == ListingSpec => []ListInv
<1>1. ListingInit => ListInv
  BY InitHolds
<1>2. ListInv /\ [ListingNext]_listingVars => ListInv'
  BY NextKeeps
<1> QED BY <1>1, <1>2, PTL DEF ListingSpec

(* No row comes twice in a walk through a keyset list (cursor.go, the six
   list queries). *)
THEOREM NoRowRepeats == ListingSpec => []NoRepeat
<1>1. ListInv => NoRepeat
  BY DEF ListInv, Progress, NoRepeat
<1> QED BY <1>1, ListingInvariant, PTL

(* A page without next_cursor is the last one: nothing that was there all the
   time is missing (feed.go HomeFeed and the other five). *)
THEOREM WalksAreComplete == ListingSpec => []Complete
<1>1. ListInv => Complete
  BY DEF ListInv, Progress, Complete
<1> QED BY <1>1, ListingInvariant, PTL

(* The rows of a response were visible, but for the two follow lists that were
   refused and came all the same (assertCanSeeFollowList, GetUserVideos,
   assertVideoOwnerOrVisible). *)
THEOREM PagesWereVisible == ListingSpec => ServedWasVisible
<1>1. ListInv /\ [ListingNext]_listingVars
         => [walk'.shown /\ ~walk.shown => Allowed]_listingVars
  BY NextKeeps
<1> QED BY <1>1, ListingInvariant, PTL DEF ListingSpec, ServedWasVisible, Allowed

(* Search by offset neither repeats nor leaves out a row while nothing changes:
   limit + 1 tells whether rows are left, and the next offset is the number of
   rows received (search.go Search).  A table is finite. *)
THEOREM SearchIsQuiet ==
    ASSUME IsFiniteSet(Keys)
    PROVE  ListingSpec => []QuietSearch
<1>1. ListingInit => Quiet
  <2> SUFFICES ASSUME ListingInit PROVE Quiet
    OBVIOUS
  <2>1. walk.twice = {} /\ walk.seen = {} /\ walk.offset = 0 /\ walk.pc = "idle"
    BY DEF ListingInit, NewWalk
  <2>2. \A k \in Eligible : ~(Place(k) < 0)
    <3>1. ASSUME NEW k \in Eligible PROVE ~(Place(k) < 0)
      <4>1. Place(k) \in Nat
        BY InitHolds, PlacesAre
      <4> QED BY <4>1
    <3> QED BY <3>1
  <2> QED BY <2>1, <2>2 DEF Quiet, WalkAt
<1>2. ListInv /\ Quiet /\ [ListingNext]_listingVars => Quiet'
  BY QuietKeeps
<1>3. Quiet => QuietSearch
  BY DEF Quiet, QuietSearch
<1> QED BY <1>1, <1>2, <1>3, ListingInvariant, PTL DEF ListingSpec

=============================================================================
