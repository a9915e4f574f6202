--------------------------- MODULE PlaybackProofs ---------------------------
(***************************************************************************)
(* The four properties of Playback, proved for every value of its constants *)
(* from the inductive invariant PlayInv.  What relates the requests to the   *)
(* end of the video is Lasting: a video that was READY while a request is on  *)
(* its way is READY, or was deleted so recently that the cleanup must wait;   *)
(* an owner who was active then is, or left so recently that the sweep must.  *)
(***************************************************************************)
EXTENDS Playback, TLAPS

(* Quotient and remainder of the clock by the ticks of a second (time.Unix). *)
LEMMA DivMod ==
    ASSUME NEW n \in Nat, NEW s \in Nat \ {0}
    PROVE  n \div s \in Nat /\ n % s \in 0 .. s - 1 /\ n = s * (n \div s) + (n % s)
  BY SMT

(* The start of a whole number of seconds is kept in order by a multiple. *)
LEMMA Multiple ==
    ASSUME NEW s \in Nat \ {0}, NEW x \in Nat, NEW y \in Nat, x > y
    PROVE  s * x \in Nat /\ s * y \in Nat /\ s * x >= s * y + s
<1>1. PICK k \in Nat : x = y + 1 + k
  <2>1. x - y - 1 \in Nat /\ x = y + 1 + (x - y - 1)
    OBVIOUS
  <2> QED BY <2>1
<1>2. s * x = s * y + s + s * k
  BY <1>1
<1>3. s * k \in Nat /\ s * y \in Nat /\ s * x \in Nat
  OBVIOUS
<1> QED BY <1>2, <1>3

(* Unix of an instant is that of an earlier one or more. *)
LEMMA UnixMonotone ==
    ASSUME NEW a \in Nat, NEW b \in Nat, a <= b
    PROVE  Unix(a) \in Nat /\ Unix(b) \in Nat /\ Unix(a) <= Unix(b)
<1>0. Second \in Nat \ {0}
  BY PlaybackAssumption
<1> DEFINE x == a \div Second
<1> DEFINE y == b \div Second
<1> DEFINE c == a % Second
<1> DEFINE d == b % Second
<1>1. x \in Nat /\ y \in Nat /\ c \in 0 .. Second - 1 /\ d \in 0 .. Second - 1
      /\ a = Second * x + c /\ b = Second * y + d
  BY <1>0, DivMod
<1> HIDE DEF x, y, c, d
<1>2. CASE x > y
  <2>1. Second * x \in Nat /\ Second * y \in Nat /\ Second * x >= Second * y + Second
    BY <1>0, <1>1, <1>2, Multiple
  <2> QED BY <1>0, <1>1, <2>1
<1>3. CASE ~(x > y)
  <2>1. x <= y
    BY <1>1, <1>3
  <2> QED BY <1>1, <2>1 DEF x, y, Unix
<1> QED BY <1>2, <1>3

(* A whole second later Unix is more. *)
LEMMA UnixLater ==
    ASSUME NEW a \in Nat, NEW b \in Nat, a + Second <= b
    PROVE  Unix(a) < Unix(b)
<1>0. Second \in Nat \ {0}
  BY PlaybackAssumption
<1> DEFINE x == a \div Second
<1> DEFINE y == b \div Second
<1> DEFINE c == a % Second
<1> DEFINE d == b % Second
<1>1. x \in Nat /\ y \in Nat /\ c \in 0 .. Second - 1 /\ d \in 0 .. Second - 1
      /\ a = Second * x + c /\ b = Second * y + d
  BY <1>0, DivMod
<1> HIDE DEF x, y, c, d
<1>2. CASE x > y
  <2>1. Unix(a) = x /\ Unix(b) = y
    BY DEF x, y, Unix
  <2>2. x <= y
    BY <1>0, <1>1, <2>1, UnixMonotone
  <2> QED BY <1>1, <1>2, <2>2
<1>3. CASE x = y
  <2>1. Second * x \in Nat /\ a = Second * x + c /\ b = Second * x + d
    BY <1>0, <1>1, <1>3
  <2> QED BY <1>0, <1>1, <2>1
<1>4. CASE x < y
  BY <1>4 DEF x, y, Unix
<1> QED BY <1>1, <1>2, <1>3, <1>4

(* The lifetimes are numbers of ticks. *)
LEMMA Lifetimes ==
    /\ TTL \in Nat /\ MaxServe \in Nat /\ cleanupGrace \in Nat /\ sweepGrace \in Nat
    /\ MaxServe + TTL < cleanupGrace /\ MaxServe + TTL < sweepGrace
  BY PlaybackAssumption

-----------------------------------------------------------------------------
(* Between two requests a client has nothing on its way. *)
LEMMA IdleOnItsWay ==
    ASSUME PlayTypeOK
    PROVE  Idle \in PlayRecord /\ OnItsWay(Idle)
<1>1. Idle \in PlayRecord
  BY DEF Idle, PlayRecord, Kinds, NULL, Token
<1>2. OnItsWay(Idle)
  BY Lifetimes DEF Idle, PlayTypeOK, OnItsWay, Learnt, NULL
<1> QED BY <1>1, <1>2

(* A step of one request leaves the clock, the video and the owner alone. *)
LEMMA RequestStep ==
    ASSUME PlayInv, NEW p \in Clients, NEW q \in PlayRecord,
           req' = [req EXCEPT ![p] = q], OnItsWay(q),
           UNCHANGED <<now, video, owner, ownerChanges>>,
           tokens' \in SUBSET Token, urls' \in SUBSET Url, TokensOK', UrlsOK', UrlsInTime'
    PROVE  PlayInv'
<1>1. PlayTypeOK'
  BY DEF PlayInv, PlayTypeOK
<1>2. VideoOK' /\ OwnerOK'
  BY DEF PlayInv, VideoOK, OwnerOK, Kept, SweepDue
<1>3. ASSUME NEW r \in Clients
      PROVE  OnItsWay(req[r])'
  <2>1. OnItsWay(req[r]) /\ req \in [Clients -> PlayRecord]
    BY <1>3 DEF PlayInv, PlayTypeOK
  <2>2. CASE r = p
    <3>1. req'[r] = q
      BY <2>1, <2>2
    <3> QED BY <3>1 DEF OnItsWay, Lasting, Kept, SweepDue, Learnt, Holding
  <2>3. CASE r # p
    <3>1. req'[r] = req[r]
      BY <1>3, <2>1, <2>3
    <3> QED BY <2>1, <3>1 DEF OnItsWay, Lasting, Kept, SweepDue, Learnt, Holding
  <2> QED BY <2>2, <2>3
<1> QED BY <1>1, <1>2, <1>3 DEF PlayInv

(* ... and, unless it grants something, what was granted. *)
LEMMA QuietStep ==
    ASSUME PlayInv, NEW p \in Clients, NEW q \in PlayRecord,
           req' = [req EXCEPT ![p] = q], OnItsWay(q), Quiet
    PROVE  PlayInv'
<1>1. UNCHANGED <<now, video, owner, ownerChanges>> /\ tokens' = tokens /\ urls' = urls
  BY DEF Quiet
<1>2. tokens' \in SUBSET Token /\ urls' \in SUBSET Url
  BY <1>1 DEF PlayInv, PlayTypeOK
<1>3. TokensOK'
  BY <1>1 DEF PlayInv, TokensOK, Unix
<1>4. UrlsOK' /\ UrlsInTime'
  BY <1>1 DEF PlayInv, UrlsOK, UrlsInTime, Kept, SweepDue
<1> QED BY <1>1, <1>2, <1>3, <1>4, RequestStep

(* An answer. *)
LEMMA DoneStep ==
    ASSUME PlayInv, NEW p \in Clients, Done(p), Quiet
    PROVE  PlayInv'
<1>1. PlayTypeOK
  BY DEF PlayInv
<1>2. Idle \in PlayRecord /\ OnItsWay(Idle)
  BY <1>1, IdleOnItsWay
<1>3. req' = [req EXCEPT ![p] = Idle]
  BY DEF Done
<1> QED BY <1>2, <1>3, QuietStep

(* The places a request passes. *)
OnTheWay == {"list", "detail", "active", "follow", "thumb", "mint", "verify",
             "row", "object", "master", "segments"}

(* A request of which another part is known. *)
LEMMA NextPlace ==
    ASSUME PlayInv, NEW p \in Clients, ~At(p, "idle"), NEW q \in PlayRecord,
           q.since = req[p].since, q.thumb <= now + TTL, q.held = req[p].held, Learnt(q),
           req' = [req EXCEPT ![p] = q], Quiet
    PROVE  PlayInv'
<1>1. OnItsWay(req[p]) /\ req[p].pc # "idle"
  BY DEF PlayInv, At
<1>2. OnItsWay(q)
  BY <1>1 DEF OnItsWay, Lasting
<1> QED BY <1>2, QuietStep

LEMMA GotoStep ==
    ASSUME PlayInv, NEW p \in Clients, ~At(p, "idle"), NEW pc \in OnTheWay,
           Learnt([req[p] EXCEPT !.pc = pc]), Goto(p, pc), Quiet
    PROVE  PlayInv'
<1> DEFINE q == [req[p] EXCEPT !.pc = pc]
<1>1. req \in [Clients -> PlayRecord] /\ req[p] \in PlayRecord /\ OnItsWay(req[p])
  BY DEF PlayInv, PlayTypeOK
<1>2. q \in PlayRecord
  BY <1>1 DEF PlayRecord, OnTheWay
<1>3. q.since = req[p].since /\ q.thumb = req[p].thumb /\ q.held = req[p].held
  BY <1>1 DEF PlayRecord
<1>4. req' = [req EXCEPT ![p] = q]
  BY <1>1 DEF Goto
<1>5. q.thumb <= now + TTL
  BY <1>1, <1>3 DEF OnItsWay
<1>6. Learnt(q)
  OBVIOUS
<1> HIDE DEF q
<1> QED BY <1>2, <1>3, <1>4, <1>5, <1>6, NextPlace

(* What a request holds, for a step that moves it on. *)
LEMMA Moved ==
    ASSUME PlayInv, NEW p \in Clients, NEW pc \in OnTheWay
    PROVE  /\ req[p] \in PlayRecord /\ OnItsWay(req[p]) /\ Learnt(req[p])
           /\ [req[p] EXCEPT !.pc = pc].pc = pc
           /\ [req[p] EXCEPT !.pc = pc].kind = req[p].kind
           /\ [req[p] EXCEPT !.pc = pc].held = req[p].held
           /\ [req[p] EXCEPT !.pc = pc].status = req[p].status
           /\ [req[p] EXCEPT !.pc = pc].private = req[p].private
<1>1. req[p] \in PlayRecord /\ OnItsWay(req[p])
  BY DEF PlayInv, PlayTypeOK
<1> QED BY <1>1 DEF PlayRecord, OnItsWay
-----------------------------------------------------------------------------
(* Ask: nothing is learnt yet, and what holds now is held. *)
LEMMA AskKeeps ==
    ASSUME PlayInv, NEW p \in Clients, Ask(p)
    PROVE  PlayInv'
<1>1. PICK kind \in Kinds, tok \in tokens \cup {Bad}, variant \in BOOLEAN :
          req' = [req EXCEPT ![p] = Asked(kind, tok, variant)]
  BY DEF Ask
<1>2. Quiet
  BY DEF Ask
<1> DEFINE q == Asked(kind, tok, variant)
<1>3. now \in Nat /\ tok \in Token \cup {Bad}
  BY <1>1 DEF PlayInv, PlayTypeOK
<1>4. FirstPc(kind) \in {"detail", "list", "verify", "row"}
      /\ (FirstPc(kind) = "list" => kind = "feed")
      /\ (FirstPc(kind) = "detail" => kind \in {"detail", "own"})
      /\ (FirstPc(kind) = "verify" => kind = "token")
      /\ (FirstPc(kind) = "row" => kind = "jwt")
  BY <1>1 DEF FirstPc, Kinds
<1>5. Holding(video, owner) \in SUBSET {"ready", "active", "open"}
  BY DEF Holding
<1>6. q \in PlayRecord
  BY <1>1, <1>3, <1>4, <1>5 DEF Asked, PlayRecord, NULL
<1>7. q.pc = FirstPc(kind) /\ q.kind = kind /\ q.since = now /\ q.thumb = NULL
      /\ q.held = Holding(video, owner)
  BY DEF Asked
<1> HIDE DEF q
<1>8. Learnt(q)
  BY <1>4, <1>7 DEF Learnt
<1>9. Lasting(q)
  BY <1>7 DEF Lasting, Holding
<1>10. OnItsWay(q)
  BY <1>3, <1>7, <1>8, <1>9, Lifetimes DEF OnItsWay, NULL
<1> QED BY <1>1, <1>2, <1>6, <1>10, QuietStep DEF q

(* A step that is an answer or goes on with another record. *)
LEMMA ListVideoKeeps ==
    ASSUME PlayInv, NEW p \in Clients, ListVideo(p)
    PROVE  PlayInv'
<1>1. Quiet /\ ~At(p, "idle") /\ req[p].pc = "list"
  BY DEF ListVideo, At
<1>2. CASE Done(p)
  BY <1>1, <1>2, DoneStep
<1>3. CASE Holding(video, owner) = {"ready", "active", "open"} /\ Goto(p, "thumb")
  <2>1. Learnt([req[p] EXCEPT !.pc = "thumb"])
    BY <1>1, <1>3, Moved DEF Learnt, OnTheWay, OnItsWay
  <2> QED BY <1>1, <1>3, <2>1, GotoStep DEF OnTheWay
<1> QED BY <1>2, <1>3 DEF ListVideo

LEMMA GetVideoDetailKeeps ==
    ASSUME PlayInv, NEW p \in Clients, GetVideoDetail(p)
    PROVE  PlayInv'
<1>1. Quiet /\ ~At(p, "idle") /\ req[p].pc = "detail"
  BY DEF GetVideoDetail, At
<1>2. CASE Done(p)
  BY <1>1, <1>2, DoneStep
<1>3. req[p] \in PlayRecord /\ OnItsWay(req[p]) /\ Learnt(req[p])
      /\ Holding(video, owner) \subseteq req[p].held
  BY <1>1, Moved DEF OnTheWay, OnItsWay
<1>4. CASE req[p].kind = "own" /\ video.status = "READY" /\ Goto(p, "thumb")
  <2>1. "ready" \in req[p].held
    BY <1>3, <1>4 DEF Holding
  <2>2. Learnt([req[p] EXCEPT !.pc = "thumb"])
    BY <1>4, <2>1, Moved DEF Learnt, OnTheWay
  <2> QED BY <1>1, <1>4, <2>2, GotoStep DEF OnTheWay
<1>5. CASE /\ req[p].kind # "own"
           /\ req' = [req EXCEPT ![p] = [@ EXCEPT !.pc = "active", !.status = video.status,
                                                  !.private = owner.private]]
  <2> DEFINE q == [req[p] EXCEPT !.pc = "active", !.status = video.status,
                                 !.private = owner.private]
  <2>1. req' = [req EXCEPT ![p] = q]
    BY <1>5 DEF PlayInv, PlayTypeOK
  <2>2. video.status \in {"hidden", "READY", "DELETED", "gone"} /\ owner.private \in BOOLEAN
    BY DEF PlayInv, PlayTypeOK, Owner
  <2>3. q \in PlayRecord
    BY <1>3, <2>2 DEF PlayRecord
  <2>4. q.pc = "active" /\ q.kind = req[p].kind /\ q.since = req[p].since
        /\ q.thumb = req[p].thumb /\ q.held = req[p].held /\ q.status = video.status
        /\ q.private = owner.private
    BY <1>3 DEF PlayRecord
  <2> HIDE DEF q
  <2>5. q.status = "READY" => "ready" \in q.held
    BY <1>3, <2>4 DEF Holding
  <2>6. ~q.private => "open" \in q.held
    BY <1>3, <2>4 DEF Holding
  <2>7. q.kind = "detail"
    BY <1>1, <1>3, <1>5, <2>4 DEF Learnt
  <2>8. Learnt(q)
    BY <2>4, <2>5, <2>6, <2>7 DEF Learnt
  <2>9. q.thumb <= now + TTL
    BY <1>3, <2>4 DEF OnItsWay
  <2> QED BY <1>1, <2>1, <2>3, <2>4, <2>8, <2>9, NextPlace
<1> QED BY <1>2, <1>4, <1>5 DEF GetVideoDetail

(* LoadOwner: the owner is active now, and is_private of the first read or of
   this one says that the video was open. *)
LEMMA LoadOwnerKeeps ==
    ASSUME PlayInv, NEW p \in Clients, LoadOwner(p)
    PROVE  PlayInv'
<1>1. Quiet /\ ~At(p, "idle") /\ req[p].pc = "active"
  BY DEF LoadOwner, At
<1>2. CASE Done(p)
  BY <1>1, <1>2, DoneStep
<1>3. req[p] \in PlayRecord /\ Learnt(req[p]) /\ Holding(video, owner) \subseteq req[p].held
  BY <1>1, Moved DEF OnTheWay, OnItsWay
<1> DEFINE private == IF req[p].kind = "detail" THEN req[p].private ELSE owner.private
<1> DEFINE onward == IF req[p].kind = "detail" THEN "thumb" ELSE "object"
<1>4. ASSUME owner.active, req[p].status = "READY"
      PROVE  {"ready", "active"} \subseteq req[p].held
  BY <1>1, <1>3, <1>4 DEF Learnt, Holding
<1>5. CASE owner.active /\ req[p].status = "READY" /\ private /\ Goto(p, "follow")
  <2>1. req[p].kind \in {"detail", "jwt"}
    BY <1>1, <1>3 DEF Learnt
  <2>2. Learnt([req[p] EXCEPT !.pc = "follow"])
    BY <1>4, <1>5, <2>1, Moved DEF Learnt, OnTheWay
  <2> QED BY <1>1, <1>5, <2>2, GotoStep DEF OnTheWay
<1>6. CASE owner.active /\ req[p].status = "READY" /\ ~private /\ Goto(p, onward)
  <2>1. "open" \in req[p].held
    BY <1>1, <1>3, <1>6 DEF Learnt, Holding
  <2>2. onward \in {"thumb", "object"}
    OBVIOUS
  <2>3. onward \in OnTheWay
    BY <2>2 DEF OnTheWay
  <2>5. onward = "object" => req[p].kind \in {"token", "jwt"}
    BY <1>1, <1>3 DEF Learnt
  <2> HIDE DEF onward
  <2>4. Learnt([req[p] EXCEPT !.pc = onward])
    BY <1>4, <1>6, <2>1, <2>2, <2>3, <2>5, Moved DEF Learnt
  <2> QED BY <1>1, <1>6, <2>3, <2>4, GotoStep
<1> QED BY <1>2, <1>5, <1>6 DEF LoadOwner

LEMMA CheckFollowerKeeps ==
    ASSUME PlayInv, NEW p \in Clients, CheckFollower(p)
    PROVE  PlayInv'
<1>1. Quiet /\ ~At(p, "idle") /\ req[p].pc = "follow"
  BY DEF CheckFollower, At
<1>2. CASE Done(p)
  BY <1>1, <1>2, DoneStep
<1>3. Learnt(req[p]) /\ Holding(video, owner) \subseteq req[p].held
  BY <1>1, Moved DEF OnTheWay, OnItsWay
<1> DEFINE onward == IF req[p].kind = "detail" THEN "thumb" ELSE "object"
<1>4. CASE owner.followed /\ Goto(p, onward)
  <2>1. {"ready", "active", "open"} \subseteq req[p].held
    BY <1>1, <1>3, <1>4 DEF Learnt, Holding
  <2>2. onward \in {"thumb", "object"}
    OBVIOUS
  <2>3. onward \in OnTheWay
    BY <2>2 DEF OnTheWay
  <2>5. onward = "object" => req[p].kind \in {"token", "jwt"}
    BY <1>1, <1>3 DEF Learnt
  <2> HIDE DEF onward
  <2>4. Learnt([req[p] EXCEPT !.pc = onward])
    BY <2>1, <2>2, <2>3, <2>5, Moved DEF Learnt
  <2> QED BY <1>1, <1>4, <2>3, <2>4, GotoStep
<1> QED BY <1>2, <1>4 DEF CheckFollower

LEMMA buildThumbnailURLKeeps ==
    ASSUME PlayInv, NEW p \in Clients, buildThumbnailURL(p)
    PROVE  PlayInv'
<1>1. Quiet /\ ~At(p, "idle") /\ req[p].pc = "thumb"
  BY DEF buildThumbnailURL, At
<1>2. PICK expiry \in {NULL, now + TTL} :
          req' = [req EXCEPT ![p] = [@ EXCEPT !.pc = "mint", !.thumb = expiry]]
  BY DEF buildThumbnailURL
<1>3. req[p] \in PlayRecord /\ Learnt(req[p])
  BY Moved DEF OnTheWay
<1>4. now \in Nat
  BY DEF PlayInv, PlayTypeOK
<1>5. expiry \in Nat \cup {NULL} /\ expiry <= now + TTL
  BY <1>4, Lifetimes DEF NULL
<1> DEFINE q == [req[p] EXCEPT !.pc = "mint", !.thumb = expiry]
<1>6. req' = [req EXCEPT ![p] = q]
  BY <1>2 DEF PlayInv, PlayTypeOK
<1>7. q \in PlayRecord
  BY <1>3, <1>5 DEF PlayRecord
<1>8. q.pc = "mint" /\ q.kind = req[p].kind /\ q.since = req[p].since /\ q.thumb = expiry
      /\ q.held = req[p].held
  BY <1>3 DEF PlayRecord
<1> HIDE DEF q
<1>9. Learnt(q)
  BY <1>1, <1>3, <1>8 DEF Learnt
<1> QED BY <1>1, <1>5, <1>6, <1>7, <1>8, <1>9, NextPlace

-----------------------------------------------------------------------------
LEMMA CheckMediaTokenKeeps ==
    ASSUME PlayInv, NEW p \in Clients, CheckMediaToken(p)
    PROVE  PlayInv'
<1>1. Quiet /\ ~At(p, "idle") /\ req[p].pc = "verify"
  BY DEF CheckMediaToken, At
<1>2. CASE Done(p)
  BY <1>1, <1>2, DoneStep
<1>3. CASE Goto(p, "row")
  <2>1. Learnt([req[p] EXCEPT !.pc = "row"])
    BY <1>1, Moved DEF Learnt, OnTheWay
  <2> QED BY <1>1, <1>3, <2>1, GotoStep DEF OnTheWay
<1> QED BY <1>2, <1>3 DEF CheckMediaToken

LEMMA LoadVideoKeeps ==
    ASSUME PlayInv, NEW p \in Clients, LoadVideo(p)
    PROVE  PlayInv'
<1>1. Quiet /\ ~At(p, "idle") /\ req[p].pc = "row"
  BY DEF LoadVideo, At
<1>2. CASE Done(p)
  BY <1>1, <1>2, DoneStep
<1> DEFINE onward == IF req[p].kind = "token" THEN "object" ELSE "active"
<1>3. CASE /\ video.status = "READY"
           /\ req' = [req EXCEPT ![p] = [@ EXCEPT !.pc = onward, !.status = video.status]]
  <2> DEFINE q == [req[p] EXCEPT !.pc = onward, !.status = video.status]
  <2>1. req' = [req EXCEPT ![p] = q]
    BY <1>3 DEF PlayInv, PlayTypeOK
  <2>2. req[p] \in PlayRecord /\ OnItsWay(req[p]) /\ Learnt(req[p])
        /\ Holding(video, owner) \subseteq req[p].held
    BY <1>1, Moved DEF OnTheWay, OnItsWay
  <2>3. q \in PlayRecord
    BY <1>3, <2>2 DEF PlayRecord
  <2>4. q.pc = onward /\ q.kind = req[p].kind /\ q.since = req[p].since
        /\ q.thumb = req[p].thumb /\ q.held = req[p].held
    BY <2>2 DEF PlayRecord
  <2> HIDE DEF q
  <2>5. "ready" \in q.held
    BY <1>3, <2>2, <2>4 DEF Holding
  <2>6. q.kind \in {"token", "jwt"}
    BY <1>1, <2>2, <2>4 DEF Learnt
  <2>7. Learnt(q)
    BY <2>4, <2>5, <2>6 DEF Learnt
  <2>8. q.thumb <= now + TTL
    BY <2>2, <2>4 DEF OnItsWay
  <2> QED BY <1>1, <2>1, <2>3, <2>4, <2>7, <2>8, NextPlace
<1> QED BY <1>2, <1>3 DEF LoadVideo

LEMMA GetObjectKeeps ==
    ASSUME PlayInv, NEW p \in Clients, GetObject(p)
    PROVE  PlayInv'
<1>1. Quiet /\ ~At(p, "idle") /\ req[p].pc = "object"
  BY DEF GetObject, At
<1>2. CASE Done(p)
  BY <1>1, <1>2, DoneStep
<1> DEFINE onward == IF req[p].variant THEN "segments" ELSE "master"
<1>3. CASE Goto(p, onward)
  <2>1. onward \in {"segments", "master"}
    OBVIOUS
  <2>2. onward \in OnTheWay
    BY <2>1 DEF OnTheWay
  <2> HIDE DEF onward
  <2>3. Learnt([req[p] EXCEPT !.pc = onward])
    BY <1>1, <2>1, <2>2, Moved DEF Learnt
  <2> QED BY <1>1, <1>3, <2>2, <2>3, GotoStep
<1> QED BY <1>2, <1>3 DEF GetObject
(* A fresh token: its expiry is Unix of a lifetime from now, which its thumbnail
   does not outlast. *)
LEMMA TokenKeeps ==
    ASSUME PlayInv, NEW p \in Clients, ~At(p, "idle"),
           tokens' = tokens \cup {SignMediaToken(p)}, Done(p),
           UNCHANGED <<now, video, owner, urls, ownerChanges>>
    PROVE  PlayInv'
<1> DEFINE t == SignMediaToken(p)
<1>1. req[p] \in PlayRecord /\ now \in Nat /\ tokens \in SUBSET Token /\ urls \in SUBSET Url
  BY DEF PlayInv, PlayTypeOK
<1>2. now + TTL \in Nat
  BY <1>1, Lifetimes
<1>3. Unix(now + TTL) \in Nat
  BY <1>2, UnixMonotone
<1>4. req[p].thumb \in Nat \cup {NULL} /\ req[p].thumb <= now + TTL
  BY <1>1 DEF PlayInv, PlayRecord, OnItsWay
<1>5. t \in Token
  BY <1>1, <1>3, <1>4 DEF SignMediaToken, Token
<1>6. t.minted = now /\ t.exp = Unix(now + TTL) /\ t.thumb = req[p].thumb
  BY DEF SignMediaToken
<1> HIDE DEF t
<1>7. tokens' \in SUBSET Token
  BY <1>1, <1>5 DEF t
<1>8. TokensOK'
  <2>1. \A tok \in tokens \cup {t} :
            tok.exp = Unix(tok.minted + TTL) /\ tok.thumb <= tok.minted + TTL
    BY <1>4, <1>6 DEF PlayInv, TokensOK
  <2> QED BY <2>1 DEF TokensOK, Unix, t
<1>9. UrlsOK' /\ UrlsInTime'
  BY DEF PlayInv, UrlsOK, UrlsInTime, Kept, SweepDue
<1>10. PlayTypeOK
  BY DEF PlayInv
<1>11. Idle \in PlayRecord /\ OnItsWay(Idle)
  BY <1>10, IdleOnItsWay
<1>12. req' = [req EXCEPT ![p] = Idle] /\ UNCHANGED <<now, video, owner, ownerChanges>>
       /\ urls' \in SUBSET Url
  BY <1>1 DEF Done
<1> QED BY <1>7, <1>8, <1>9, <1>11, <1>12, RequestStep

LEMMA buildPlaylistURLKeeps ==
    ASSUME PlayInv, NEW p \in Clients, buildPlaylistURL(p)
    PROVE  PlayInv'
<1>1. ~At(p, "idle")
  BY DEF buildPlaylistURL, At
<1> QED BY <1>1, TokenKeeps DEF buildPlaylistURL

LEMMA RewriteMasterPlaylistKeeps ==
    ASSUME PlayInv, NEW p \in Clients, RewriteMasterPlaylist(p)
    PROVE  PlayInv'
<1>1. ~At(p, "idle")
  BY DEF RewriteMasterPlaylist, At
<1> QED BY <1>1, TokenKeeps DEF RewriteMasterPlaylist

LEMMA UrlIs ==
    ASSUME NEW e \in Nat, NEW b \in BOOLEAN
    PROVE  LET u == [exp |-> e, token |-> b] IN u \in Url /\ u.exp = e /\ u.token = b
BY DEF Url

(* The segment URLs: the request was there when the video was READY, so a
   deletion came later, and the URL ends MaxServe and TTL after it at most; so
   for the owner, unless the request came with a token. *)
LEMMA RewriteVariantPlaylistKeeps ==
    ASSUME PlayInv, NEW p \in Clients, RewriteVariantPlaylist(p)
    PROVE  PlayInv'
<1> DEFINE b == req[p].kind = "token"
           new == [exp |-> now + TTL, token |-> b]
<1>1. req[p].pc = "segments" /\ urls' = urls \cup {new} /\ Done(p)
      /\ UNCHANGED <<now, video, owner, tokens, ownerChanges>>
  BY DEF RewriteVariantPlaylist, At
<1>2. now \in Nat /\ tokens \in SUBSET Token /\ urls \in SUBSET Url
      /\ req[p] \in PlayRecord /\ owner \in Owner
  BY DEF PlayInv, PlayTypeOK
<1>a. new \in Url /\ new.exp = now + TTL /\ (~new.token => req[p].kind # "token")
  <2>1. b \in BOOLEAN /\ now + TTL \in Nat
    BY <1>2, Lifetimes
  <2>2. ~b => req[p].kind # "token"
    OBVIOUS
  <2> HIDE DEF b
  <2> QED BY <2>1, <2>2, UrlIs
<1> HIDE DEF new
<1>3. urls' \in SUBSET Url /\ tokens' \in SUBSET Token
  BY <1>1, <1>2, <1>a
<1>4. TokensOK'
  BY <1>1 DEF PlayInv, TokensOK, Unix
<1>5. OnItsWay(req[p])
  BY DEF PlayInv
<1>6. /\ "ready" \in req[p].held
      /\ req[p].kind # "token" => "active" \in req[p].held
  BY <1>1, <1>5 DEF OnItsWay, Learnt
<1>7. now <= req[p].since + MaxServe /\ Lasting(req[p]) /\ req[p].since \in Nat
  BY <1>1, <1>2, <1>5 DEF OnItsWay, PlayRecord
<1>8. /\ \/ owner.erased
         \/ video.status = "READY"
         \/ video.status = "DELETED" /\ Kept /\ req[p].since <= video.deletedAt
      /\ req[p].kind = "token" \/ owner.active \/ req[p].since <= owner.left
  BY <1>6, <1>7 DEF Lasting
<1>9. /\ video.status = "DELETED" => video.deletedAt \in Nat
      /\ ~owner.active => owner.left \in Nat
  BY DEF PlayInv, VideoOK, OwnerOK
<1>b. ASSUME NEW t \in Nat, req[p].since <= t
      PROVE  now + TTL <= t + MaxServe + TTL
  BY <1>2, <1>7, <1>b, Lifetimes
<1>10. \/ owner.erased
       \/ video.status = "READY"
       \/ /\ video.status = "DELETED" /\ Kept
          /\ now + TTL <= video.deletedAt + MaxServe + TTL
  BY <1>8, <1>9, <1>b
<1>11. UrlsOK'
  <2>1. SUFFICES ASSUME NEW u \in urls \cup {new}
                 PROVE  /\ u.exp <= now + TTL
                        /\ \/ owner.erased
                           \/ video.status = "READY"
                           \/ /\ video.status = "DELETED" /\ Kept
                              /\ u.exp <= video.deletedAt + MaxServe + TTL
                           \/ video.status = "gone" /\ u.exp < now
    BY <1>1 DEF UrlsOK, Kept, SweepDue
  <2>2. CASE u \in urls
    BY <2>2 DEF PlayInv, UrlsOK
  <2>3. CASE u = new
    BY <1>2, <1>a, <1>10, <2>3, Lifetimes
  <2> QED BY <2>2, <2>3
<1>12. UrlsInTime'
  <2>1. SUFFICES ASSUME NEW u \in urls \cup {new}
                 PROVE  u.token \/ owner.active \/ u.exp <= owner.left + MaxServe + TTL
    BY <1>1 DEF UrlsInTime
  <2>2. CASE u \in urls
    BY <2>2 DEF PlayInv, UrlsInTime
  <2>3. CASE u = new
    <3>1. ~u.token /\ ~owner.active => req[p].since <= owner.left /\ owner.left \in Nat
      BY <1>8, <1>9, <1>a, <2>3
    <3>2. ~u.token /\ ~owner.active => now + TTL <= owner.left + MaxServe + TTL
      BY <1>b, <3>1
    <3> QED BY <1>a, <2>3, <3>2
  <2> QED BY <2>2, <2>3
<1>13. PlayTypeOK
  BY DEF PlayInv
<1>14. Idle \in PlayRecord /\ OnItsWay(Idle)
  BY <1>13, IdleOnItsWay
<1>15. req' = [req EXCEPT ![p] = Idle] /\ UNCHANGED <<now, video, owner, ownerChanges>>
  BY <1>1 DEF Done
<1> QED BY <1>3, <1>4, <1>11, <1>12, <1>14, <1>15, RequestStep

-----------------------------------------------------------------------------
(* A step beside the requests: each of them holds what it held and what holds
   now. *)
LEMMA BesideStep ==
    ASSUME PlayInv, Beside, ownerChanges' \in 0 .. MaxOwnerChanges,
           video' \in [status: {"hidden", "READY", "DELETED", "gone"}, stored: BOOLEAN,
                       deletedAt: Nat \cup {NULL}],
           owner' \in Owner,
           VideoOK', OwnerOK', UrlsOK', UrlsInTime',
           \A p \in Busy :
               /\ "ready" \in req[p].held /\ ~owner'.erased =>
                     \/ video'.status = "READY"
                     \/ video'.status = "DELETED" /\ Kept' /\ req[p].since <= video'.deletedAt
               /\ "active" \in req[p].held => owner'.active \/ req[p].since <= owner'.left
    PROVE  PlayInv'
<1> DEFINE new == Holding(video', owner')
<1>1. new \in SUBSET {"ready", "active", "open"}
      /\ ("ready" \in new => video'.status = "READY")
      /\ ("active" \in new => owner'.active)
  BY DEF Holding
<1>2. Holding(video, owner)' = new
  BY DEF Holding
<1>3. req' = [p \in Clients |-> [req[p] EXCEPT !.held = @ \cup new]]
      /\ now' = now /\ tokens' = tokens /\ urls' = urls
  BY DEF Beside
<1> HIDE DEF new
<1>4. req \in [Clients -> PlayRecord] /\ now \in Nat
  BY DEF PlayInv, PlayTypeOK
<1>5. ASSUME NEW p \in Clients
      PROVE  /\ req'[p] \in PlayRecord
             /\ req'[p].pc = req[p].pc /\ req'[p].kind = req[p].kind
             /\ req'[p].status = req[p].status /\ req'[p].private = req[p].private
             /\ req'[p].since = req[p].since /\ req'[p].thumb = req[p].thumb
             /\ req'[p].held = req[p].held \cup new
  <2>1. req[p] \in PlayRecord /\ req'[p] = [req[p] EXCEPT !.held = @ \cup new]
    BY <1>3, <1>4, <1>5
  <2> QED BY <1>1, <2>1 DEF PlayRecord
<1>6. req' \in [Clients -> PlayRecord]
  BY <1>3, <1>5
<1>7. PlayTypeOK'
  BY <1>3, <1>6 DEF PlayInv, PlayTypeOK
<1>8. TokensOK'
  BY <1>3 DEF PlayInv, TokensOK, Unix
<1>9. ASSUME NEW p \in Clients
      PROVE  OnItsWay(req[p])'
  <2>1. OnItsWay(req[p])
    BY <1>9 DEF PlayInv
  <2>2. Learnt(req[p])'
    BY <1>5, <1>9, <2>1 DEF OnItsWay, Learnt
  <2>3. req[p]'.since <= now' /\ req[p]'.thumb <= now' + TTL
    BY <1>3, <1>5, <1>9, <2>1 DEF OnItsWay
  <2>4. ASSUME req[p].pc # "idle"
        PROVE  /\ now' <= req[p]'.since + MaxServe
               /\ Holding(video, owner)' \subseteq req[p]'.held
               /\ Lasting(req[p])'
    <3>1. now' <= req[p]'.since + MaxServe /\ Holding(video, owner)' \subseteq req[p]'.held
      BY <1>2, <1>3, <1>5, <1>9, <2>1, <2>4 DEF OnItsWay
    <3>2. p \in Busy
      BY <1>9, <2>4 DEF Busy, At
    <3>3. Lasting(req[p])'
      BY <1>1, <1>5, <1>9, <3>2 DEF Lasting
    <3> QED BY <3>1, <3>3
  <2> QED BY <1>5, <1>9, <2>2, <2>3, <2>4 DEF OnItsWay
<1> QED BY <1>7, <1>8, <1>9 DEF PlayInv

(* What a request on its way says of a video that was READY. *)
LEMMA BusyLasts ==
    ASSUME PlayInv, NEW p \in Busy
    PROVE  /\ p \in Clients /\ req[p].since \in Nat /\ now <= req[p].since + MaxServe
           /\ req[p].since <= now
           /\ "ready" \in req[p].held /\ ~owner.erased =>
                 \/ video.status = "READY"
                 \/ video.status = "DELETED" /\ Kept /\ req[p].since <= video.deletedAt
           /\ "active" \in req[p].held => owner.active \/ req[p].since <= owner.left
<1>1. p \in Clients /\ req[p].pc # "idle"
  BY DEF Busy, At
<1>2. OnItsWay(req[p]) /\ req[p] \in PlayRecord
  BY <1>1 DEF PlayInv, PlayTypeOK
<1>3. req[p].since \in Nat
  BY <1>2 DEF PlayRecord
<1> QED BY <1>1, <1>2, <1>3 DEF OnItsWay, Lasting

VideoRecord == [status: {"hidden", "READY", "DELETED", "gone"}, stored: BOOLEAN,
                deletedAt: Nat \cup {NULL}]

LEMMA BesideTypes ==
    ASSUME PlayInv, Beside
    PROVE  /\ video \in VideoRecord /\ owner \in Owner /\ ownerChanges \in 0 .. MaxOwnerChanges
           /\ now \in Nat /\ urls \in SUBSET Url /\ now' = now /\ urls' = urls
           /\ video.status = "DELETED" => video.deletedAt \in Nat
  BY DEF PlayInv, PlayTypeOK, VideoOK, VideoRecord, Beside

(* A step beside the requests that is about the video only. *)
LEMMA VideoStep ==
    ASSUME PlayInv, Beside, UNCHANGED <<owner, ownerChanges>>, video' \in VideoRecord,
           VideoOK', UrlsOK',
           \A p \in Busy : "ready" \in req[p].held /\ ~owner.erased =>
               \/ video'.status = "READY"
               \/ video'.status = "DELETED" /\ Kept' /\ req[p].since <= video'.deletedAt
    PROVE  PlayInv'
<1>1. owner \in Owner /\ ownerChanges \in 0 .. MaxOwnerChanges /\ now' = now /\ urls' = urls
  BY BesideTypes
<1>2. OwnerOK' /\ UrlsInTime'
  BY <1>1 DEF PlayInv, OwnerOK, UrlsInTime
<1>3. \A p \in Busy : "active" \in req[p].held => owner'.active \/ req[p].since <= owner'.left
  BY BusyLasts
<1> QED BY <1>1, <1>2, <1>3, BesideStep DEF VideoRecord

LEMMA MarkVideoReadyKeeps ==
    ASSUME PlayInv, MarkVideoReady
    PROVE  PlayInv'
<1>1. video' = [video EXCEPT !.status = "READY", !.stored = TRUE]
      /\ UNCHANGED <<owner, ownerChanges>> /\ Beside
  BY DEF MarkVideoReady
<1>2. video \in VideoRecord /\ now' = now /\ urls' = urls
  BY <1>1, BesideTypes
<1>3. video'.status = "READY" /\ video'.stored /\ video' \in VideoRecord
  BY <1>1, <1>2 DEF VideoRecord
<1>4. VideoOK'
  BY <1>3 DEF VideoOK, Kept
<1>5. UrlsOK'
  BY <1>1, <1>2, <1>3 DEF PlayInv, UrlsOK
<1> QED BY <1>1, <1>3, <1>4, <1>5, VideoStep

LEMMA DeleteVideoKeeps ==
    ASSUME PlayInv, DeleteVideo
    PROVE  PlayInv'
<1>1. video' = [video EXCEPT !.status = "DELETED", !.deletedAt = now]
      /\ UNCHANGED <<owner, ownerChanges>> /\ Beside /\ video.status \in {"hidden", "READY"}
  BY DEF DeleteVideo
<1>2. video \in VideoRecord /\ now \in Nat /\ now' = now /\ urls' = urls /\ urls \in SUBSET Url
  BY <1>1, BesideTypes
<1>3. video'.status = "DELETED" /\ video'.deletedAt = now /\ video'.stored = video.stored
      /\ video' \in VideoRecord
  BY <1>1, <1>2 DEF VideoRecord
<1>4. VideoOK'
  BY <1>2, <1>3 DEF VideoOK
<1>5. /\ video.status = "READY" => Kept
      /\ Kept' <=> Kept
  BY <1>1, <1>2, <1>3 DEF PlayInv, VideoOK, Kept, SweepDue
<1>6. UrlsOK'
  <2>1. SUFFICES ASSUME NEW u \in urls
                 PROVE  /\ u.exp <= now + TTL
                        /\ owner.erased \/ (Kept /\ u.exp <= now + MaxServe + TTL)
    BY <1>1, <1>2, <1>3, <1>5 DEF UrlsOK
  <2>2. /\ u.exp <= now + TTL
        /\ owner.erased \/ video.status = "READY"
    BY <1>1 DEF PlayInv, UrlsOK
  <2>3. u.exp <= now + MaxServe + TTL
    <3>1. u.exp \in Nat
      BY <1>2 DEF Url
    <3> QED BY <1>2, <2>2, <3>1, Lifetimes
  <2> QED BY <1>5, <2>2, <2>3
<1>7. ASSUME NEW p \in Busy, "ready" \in req[p].held, ~owner.erased
      PROVE  video'.status = "DELETED" /\ Kept' /\ req[p].since <= video'.deletedAt
  BY <1>1, <1>3, <1>5, <1>7, BusyLasts
<1> QED BY <1>1, <1>3, <1>4, <1>6, <1>7, VideoStep

(* HandleCleanupVideo: the grace is over, and with it every request that knew
   the video as READY, and every URL. *)
LEMMA HandleCleanupVideoKeeps ==
    ASSUME PlayInv, HandleCleanupVideo
    PROVE  PlayInv'
<1>1. video' = [video EXCEPT !.status = "gone", !.stored = FALSE]
      /\ UNCHANGED <<owner, ownerChanges>> /\ Beside
      /\ video.status = "DELETED" /\ now - video.deletedAt >= cleanupGrace
  BY DEF HandleCleanupVideo
<1>2. video \in VideoRecord /\ now \in Nat /\ now' = now /\ urls' = urls /\ urls \in SUBSET Url
      /\ video.deletedAt \in Nat
  BY <1>1, BesideTypes
<1>3. video'.status = "gone" /\ video' \in VideoRecord
  BY <1>1, <1>2 DEF VideoRecord
<1>4. VideoOK'
  BY <1>3 DEF VideoOK
<1>6. video.deletedAt + MaxServe + TTL < now
  BY <1>1, <1>2, Lifetimes
<1>7. UrlsOK'
  <2>1. SUFFICES ASSUME NEW u \in urls
                 PROVE  u.exp <= now + TTL /\ (owner.erased \/ u.exp < now)
    BY <1>1, <1>2, <1>3 DEF UrlsOK
  <2>2. /\ u.exp <= now + TTL
        /\ owner.erased \/ u.exp <= video.deletedAt + MaxServe + TTL
    BY <1>1 DEF PlayInv, UrlsOK
  <2>3. u.exp \in Nat
    BY <1>2 DEF Url
  <2> QED BY <1>2, <1>6, <2>2, <2>3, Lifetimes
<1>8. ASSUME NEW p \in Busy, "ready" \in req[p].held, ~owner.erased
      PROVE  FALSE
  <2>1. req[p].since \in Nat /\ now <= req[p].since + MaxServe
        /\ req[p].since <= video.deletedAt
    BY <1>1, <1>8, BusyLasts
  <2> QED BY <1>2, <1>6, <2>1, Lifetimes
<1> QED BY <1>1, <1>3, <1>4, <1>7, <1>8, VideoStep

(* Sweep: the objects go when it is due, and it stays due. *)
LEMMA SweepKeeps ==
    ASSUME PlayInv, Sweep
    PROVE  PlayInv'
<1>1. video' = [video EXCEPT !.stored = FALSE] /\ UNCHANGED <<owner, ownerChanges>> /\ Beside
      /\ SweepDue
  BY DEF Sweep
<1>2. video \in VideoRecord /\ now' = now /\ urls' = urls
  BY <1>1, BesideTypes
<1>3. video'.status = video.status /\ video'.deletedAt = video.deletedAt
      /\ video' \in VideoRecord
  BY <1>1, <1>2 DEF VideoRecord
<1>4. Kept' /\ Kept
  BY <1>1, <1>2 DEF Kept, SweepDue
<1>5. VideoOK' /\ UrlsOK'
  BY <1>1, <1>2, <1>3, <1>4 DEF PlayInv, VideoOK, UrlsOK
<1>6. ASSUME NEW p \in Busy, "ready" \in req[p].held, ~owner.erased
      PROVE  \/ video'.status = "READY"
             \/ video'.status = "DELETED" /\ Kept' /\ req[p].since <= video'.deletedAt
  BY <1>3, <1>4, <1>6, BusyLasts
<1> QED BY <1>1, <1>3, <1>5, <1>6, VideoStep

(* The owner leaves, at this moment or before. *)
LEMMA LeftInTime ==
    ASSUME PlayInv, Beside, owner' \in Owner, ~owner'.active,
           \/ owner'.left = now
           \/ ~owner.active /\ owner'.left = owner.left
    PROVE  /\ OwnerOK' /\ UrlsInTime'
           /\ \A p \in Busy : "active" \in req[p].held => req[p].since <= owner'.left
<1>1. now \in Nat /\ now' = now /\ urls' = urls /\ urls \in SUBSET Url
  BY BesideTypes
<1>2. ~owner.active => owner.left \in Nat /\ owner.left <= now
  BY DEF PlayInv, OwnerOK
<1>3. OwnerOK'
  BY <1>1, <1>2 DEF OwnerOK
<1>4. UrlsInTime'
  <2>1. SUFFICES ASSUME NEW u \in urls, ~u.token
                 PROVE  u.exp <= owner'.left + MaxServe + TTL
    BY <1>1 DEF UrlsInTime
  <2>2. u.exp \in Nat /\ u.exp <= now + TTL
        /\ (owner.active \/ u.exp <= owner.left + MaxServe + TTL)
    BY <1>1, <2>1 DEF PlayInv, UrlsOK, UrlsInTime, Url
  <2>3. CASE owner'.left = now
    BY <1>1, <2>2, <2>3, Lifetimes
  <2>4. CASE ~owner.active /\ owner'.left = owner.left
    BY <2>2, <2>4
  <2> QED BY <2>3, <2>4
<1>5. ASSUME NEW p \in Busy, "active" \in req[p].held
      PROVE  req[p].since <= owner'.left
  <2>1. req[p].since \in Nat /\ req[p].since <= now
        /\ (owner.active \/ req[p].since <= owner.left)
    BY <1>5, BusyLasts
  <2> QED BY <2>1
<1> QED BY <1>3, <1>4, <1>5

(* A change of the owner that leaves the rows. *)
LEMMA OwnerStep ==
    ASSUME PlayInv, Beside, ownerChanges' \in 0 .. MaxOwnerChanges, owner' \in Owner,
           video' = video, owner'.erased = owner.erased, OwnerOK', UrlsInTime',
           SweepDue => SweepDue',
           \A p \in Busy : "active" \in req[p].held => owner'.active \/ req[p].since <= owner'.left
    PROVE  PlayInv'
<1>1. video \in VideoRecord /\ now' = now /\ urls' = urls
  BY BesideTypes
<1>2. Kept => Kept'
  BY DEF Kept
<1>3. VideoOK' /\ UrlsOK'
  BY <1>1, <1>2 DEF PlayInv, VideoOK, UrlsOK
<1>4. ASSUME NEW p \in Busy, "ready" \in req[p].held, ~owner'.erased
      PROVE  \/ video'.status = "READY"
             \/ video'.status = "DELETED" /\ Kept' /\ req[p].since <= video'.deletedAt
  BY <1>2, <1>4, BusyLasts
<1> QED BY <1>1, <1>3, <1>4, BesideStep DEF VideoRecord

LEMMA OwnerChangeKeeps ==
    ASSUME PlayInv, OwnerChange
    PROVE  PlayInv'
<1>0. Beside
  BY DEF OwnerChange
<1>1. /\ video \in VideoRecord /\ owner \in Owner /\ ownerChanges \in 0 .. MaxOwnerChanges
      /\ now \in Nat /\ now' = now /\ urls' = urls
  BY <1>0, BesideTypes
<1>2. ownerChanges' \in 0 .. MaxOwnerChanges
  BY <1>1, PlaybackAssumption DEF OwnerChange
<1>3. CASE /\ video' = video /\ owner' \in Owner /\ owner'.erased = owner.erased
           /\ owner'.active = owner.active /\ owner'.left = owner.left
  <2>1. OwnerOK' /\ UrlsInTime' /\ (SweepDue => SweepDue')
    BY <1>1, <1>3 DEF PlayInv, OwnerOK, UrlsInTime, SweepDue
  <2>2. \A p \in Busy : "active" \in req[p].held => owner'.active \/ req[p].since <= owner'.left
    BY <1>3, BusyLasts
  <2> QED BY <1>0, <1>2, <1>3, <2>1, <2>2, OwnerStep
<1>4. CASE /\ video' = video
           /\ owner' = [owner EXCEPT !.active = FALSE,
                                     !.left = IF owner.active THEN now ELSE @]
  <2> DEFINE t == IF owner.active THEN now ELSE owner.left
  <2>1. t \in Nat \cup {NULL}
    BY <1>1 DEF Owner
  <2>2. owner' = [owner EXCEPT !.active = FALSE, !.left = t]
    BY <1>4
  <2> HIDE DEF t
  <2>3. owner' \in Owner /\ ~owner'.active /\ owner'.left = t /\ owner'.erased = owner.erased
    BY <1>1, <2>1, <2>2 DEF Owner
  <2>4. owner'.left = now \/ (~owner.active /\ owner'.left = owner.left)
    BY <2>3 DEF t
  <2>5. SweepDue => SweepDue'
    BY <1>1, <2>3 DEF SweepDue, t
  <2> QED BY <1>0, <1>2, <1>4, <2>3, <2>4, <2>5, LeftInTime, OwnerStep
<1>5. CASE /\ owner' = [owner EXCEPT !.active = FALSE, !.left = now, !.erased = TRUE]
           /\ \E s \in {video.stored, FALSE} :
                 video' = [video EXCEPT !.status = "gone", !.stored = s]
  <2>1. owner' \in Owner /\ ~owner'.active /\ owner'.left = now /\ owner'.erased
    BY <1>1, <1>5 DEF Owner
  <2>2. PICK s \in {video.stored, FALSE} :
            video' = [video EXCEPT !.status = "gone", !.stored = s]
    BY <1>5
  <2>3. s \in BOOLEAN
    BY <1>1, <2>2 DEF VideoRecord
  <2>4. video'.status = "gone" /\ video' \in VideoRecord
    BY <1>1, <2>2, <2>3 DEF VideoRecord
  <2>5. VideoOK' /\ UrlsOK'
    BY <1>1, <2>1, <2>4 DEF PlayInv, VideoOK, UrlsOK
  <2> QED BY <1>0, <1>2, <2>1, <2>4, <2>5, LeftInTime, BesideStep DEF VideoRecord
<1>6. ASSUME NEW b \in BOOLEAN,
             owner' = [owner EXCEPT !.private = b] \/ owner' = [owner EXCEPT !.followed = b]
      PROVE  /\ owner' \in Owner /\ owner'.erased = owner.erased
             /\ owner'.active = owner.active /\ owner'.left = owner.left
  BY <1>1, <1>6 DEF Owner
<1>7. CASE \E b \in BOOLEAN : owner' = [owner EXCEPT !.private = b] /\ UNCHANGED video
  BY <1>3, <1>6, <1>7
<1>8. CASE \E b \in BOOLEAN : owner' = [owner EXCEPT !.followed = b] /\ UNCHANGED video
  BY <1>3, <1>6, <1>8
<1> QED BY <1>4, <1>5, <1>7, <1>8 DEF OwnerChange

(* Tick: no request outstays MaxServe, and what is over, or due, stays so. *)
LEMMA TickKeeps ==
    ASSUME PlayInv, Tick
    PROVE  PlayInv'
<1>1. now \in Nat /\ now' = now + 1 /\ UNCHANGED <<video, owner, req, tokens, urls, ownerChanges>>
      /\ \A p \in Busy : now < req[p].since + MaxServe
  BY DEF PlayInv, PlayTypeOK, Tick
<1>2. req \in [Clients -> PlayRecord] /\ tokens \in SUBSET Token /\ urls \in SUBSET Url
  BY DEF PlayInv, PlayTypeOK
<1>3. PlayTypeOK'
  BY <1>1 DEF PlayInv, PlayTypeOK
<1>4. TokensOK' /\ UrlsInTime' /\ OwnerOK'
  <2>1. TokensOK' /\ UrlsInTime'
    BY <1>1 DEF PlayInv, TokensOK, Unix, UrlsInTime
  <2>2. OwnerOK'
    BY <1>1 DEF PlayInv, OwnerOK
  <2> QED BY <2>1, <2>2
<1>5. Kept => Kept'
  <2>1. ~owner.active => owner.left \in Nat
    BY DEF PlayInv, OwnerOK
  <2> QED BY <1>1, <2>1, Lifetimes DEF Kept, SweepDue
<1>8. VideoOK'
  BY <1>1, <1>5 DEF PlayInv, VideoOK
<1>6. UrlsOK'
  <2>1. SUFFICES ASSUME NEW u \in urls
                 PROVE  /\ u.exp <= now + 1 + TTL
                        /\ \/ owner.erased
                           \/ video.status = "READY"
                           \/ /\ video.status = "DELETED" /\ Kept
                              /\ u.exp <= video.deletedAt + MaxServe + TTL
                           \/ video.status = "gone" /\ u.exp < now + 1
    BY <1>1, <1>5 DEF UrlsOK
  <2>2. u.exp \in Nat
    BY <1>2 DEF Url
  <2>3. u.exp <= now + TTL => u.exp <= now + 1 + TTL
    BY <1>1, <2>2, Lifetimes
  <2>4. u.exp < now => u.exp < now + 1
    BY <1>1, <2>2
  <2> QED BY <2>3, <2>4 DEF PlayInv, UrlsOK
<1>7. ASSUME NEW p \in Clients
      PROVE  OnItsWay(req[p])'
  <2>1. OnItsWay(req[p]) /\ req'[p] = req[p]
    BY <1>1, <1>7 DEF PlayInv
  <2>2. req[p].since \in Nat /\ req[p].thumb \in Int
    BY <1>2, <1>7 DEF PlayRecord, NULL
  <2>3. req[p].since <= now + 1 /\ req[p].thumb <= now + 1 + TTL
    BY <1>1, <2>1, <2>2, Lifetimes DEF OnItsWay
  <2>4. req[p].pc # "idle" => now + 1 <= req[p].since + MaxServe
    <3>1. req[p].pc # "idle" => now < req[p].since + MaxServe
      BY <1>1, <1>7 DEF Busy, At
    <3> QED BY <1>1, <2>2, <3>1, Lifetimes
  <2>5. Lasting(req[p]) => Lasting(req[p])'
    BY <1>1, <1>5, <2>1 DEF Lasting
  <2> QED BY <1>1, <2>1, <2>3, <2>4, <2>5 DEF OnItsWay, Learnt, Holding
<1> QED BY <1>3, <1>4, <1>6, <1>7, <1>8 DEF PlayInv

-----------------------------------------------------------------------------
LEMMA InitKeeps == PlayInit => PlayInv
<1> SUFFICES ASSUME PlayInit PROVE PlayInv
  OBVIOUS
<1>1. now \in Nat /\ now = 0 /\ tokens = {} /\ urls = {} /\ ownerChanges = 0
      /\ req = [p \in Clients |-> Idle]
  BY DEF PlayInit
<1>2. Idle \in PlayRecord
  BY DEF Idle, PlayRecord, Kinds, NULL, Token
<1>3. video \in [status: {"hidden", "READY", "DELETED", "gone"}, stored: BOOLEAN,
                 deletedAt: Nat \cup {NULL}]
      /\ VideoOK
  <2>1. PICK s \in {"hidden", "READY"} : \E b \in BOOLEAN :
            /\ video = [status |-> s, stored |-> b, deletedAt |-> NULL]
            /\ s = "READY" => b
    BY DEF PlayInit
  <2>2. PICK b \in BOOLEAN :
            /\ video = [status |-> s, stored |-> b, deletedAt |-> NULL]
            /\ s = "READY" => b
    BY <2>1
  <2>3. video.status = s /\ video.stored = b
    BY <2>2
  <2>4. VideoOK
    BY <2>1, <2>2, <2>3 DEF VideoOK, Kept
  <2> QED BY <2>1, <2>2, <2>4
<1>4. owner \in Owner
  BY DEF PlayInit, Owner, NULL
<1>5. req \in [Clients -> PlayRecord] /\ ownerChanges \in 0 .. MaxOwnerChanges
  BY <1>1, <1>2, PlaybackAssumption
<1>6. PlayTypeOK
  BY <1>1, <1>3, <1>4, <1>5 DEF PlayTypeOK
<1>7. TokensOK /\ UrlsOK /\ UrlsInTime /\ OwnerOK
  BY <1>1 DEF PlayInit, TokensOK, UrlsOK, UrlsInTime, OwnerOK
<1>8. \A p \in Clients : OnItsWay(req[p])
  BY <1>1, <1>6, IdleOnItsWay
<1> QED BY <1>3, <1>6, <1>7, <1>8 DEF PlayInv

LEMMA NextKeeps == PlayInv /\ [PlayNext]_playVars => PlayInv'
<1> SUFFICES ASSUME PlayInv, [PlayNext]_playVars PROVE PlayInv'
  OBVIOUS
<1>1. ASSUME NEW p \in Clients, Ask(p) \/ Browse(p) \/ GetPlaylist(p) \/ Fail(p)
      PROVE  PlayInv'
  <2>1. CASE Ask(p)
    BY <2>1, AskKeeps
  <2>2. CASE Browse(p)
    BY <2>2, ListVideoKeeps, GetVideoDetailKeeps, LoadOwnerKeeps, CheckFollowerKeeps,
       buildThumbnailURLKeeps, buildPlaylistURLKeeps DEF Browse
  <2>3. CASE GetPlaylist(p)
    BY <2>3, CheckMediaTokenKeeps, LoadVideoKeeps, GetObjectKeeps,
       RewriteMasterPlaylistKeeps, RewriteVariantPlaylistKeeps DEF GetPlaylist
  <2>4. CASE Fail(p)
    BY <2>4, DoneStep DEF Fail
  <2> QED BY <1>1, <2>1, <2>2, <2>3, <2>4
<1>2. CASE MarkVideoReady
  BY <1>2, MarkVideoReadyKeeps
<1>3. CASE DeleteVideo
  BY <1>3, DeleteVideoKeeps
<1>4. CASE HandleCleanupVideo
  BY <1>4, HandleCleanupVideoKeeps
<1>5. CASE OwnerChange
  BY <1>5, OwnerChangeKeeps
<1>6. CASE Tick
  BY <1>6, TickKeeps
<1>7. CASE Sweep
  BY <1>7, SweepKeeps
<1>8. CASE UNCHANGED playVars
  BY <1>8 DEF playVars, PlayInv, PlayTypeOK, TokensOK, Unix, VideoOK, OwnerOK, UrlsOK,
              UrlsInTime, OnItsWay, Lasting, Kept, SweepDue, Learnt, Holding
<1> QED BY <1>1, <1>2, <1>3, <1>4, <1>5, <1>6, <1>7, <1>8 DEF PlayNext

(* Whatever the requests, the cleanup and the owner do, what was granted and
   what is still on its way agree with the row (GetVideoDetail, GetPlaylist,
   DeleteVideo, HandleCleanupVideo). *)
THEOREM PlayInvariant == PlaySpec => []PlayInv
<1> QED BY InitKeeps, NextKeeps, PTL DEF PlaySpec

(* A token is good for its lifetime, and for less than a second more
   (SignMediaToken, VerifyMediaToken): the expiry is cut to whole seconds, and
   compared in whole seconds. *)
THEOREM LifetimesHold == PlaySpec => []TokenLifetime
<1>1. PlayInv => TokenLifetime
  <2> SUFFICES ASSUME PlayInv, NEW tok \in tokens
               PROVE  /\ now <= tok.minted + TTL => VerifyMediaToken(tok)
                      /\ now >= tok.minted + TTL + Second => ~VerifyMediaToken(tok)
    BY DEF TokenLifetime
  <2>1. tok \in Token /\ now \in Nat /\ tok.exp = Unix(tok.minted + TTL)
    BY DEF PlayInv, PlayTypeOK, TokensOK
  <2>2. tok.minted \in Nat /\ tok.minted + TTL \in Nat /\ tok # Bad
    BY <2>1, Lifetimes, BadAssumption DEF Token, NULL
  <2>3. ASSUME now <= tok.minted + TTL
        PROVE  VerifyMediaToken(tok)
    BY <2>1, <2>2, <2>3, UnixMonotone DEF VerifyMediaToken
  <2>4. ASSUME now >= tok.minted + TTL + Second
        PROVE  ~VerifyMediaToken(tok)
    <3>1. Second \in Nat
      BY PlaybackAssumption
    <3>2. tok.minted + TTL + Second <= now
      BY <2>1, <2>2, <2>4, <3>1
    <3>3. Unix(tok.minted + TTL) < Unix(now)
      BY <2>1, <2>2, <3>2, UnixLater
    <3>4. Unix(now) \in Nat /\ Unix(tok.minted + TTL) \in Nat
      BY <2>1, <2>2, UnixMonotone
    <3> QED BY <2>1, <3>3, <3>4 DEF VerifyMediaToken
  <2> QED BY <2>3, <2>4
<1> QED BY <1>1, PlayInvariant, PTL

(* The thumbnail of a response does not outlast its playlist
   (buildThumbnailURL, buildPlaylistURL). *)
THEOREM ThumbnailsWithin == PlaySpec => []ThumbnailWithin
<1>1. PlayInv => ThumbnailWithin
  <2> SUFFICES ASSUME PlayInv, NEW tok \in tokens, now <= tok.thumb
               PROVE  VerifyMediaToken(tok)
    BY DEF ThumbnailWithin
  <2>1. tok \in Token /\ now \in Nat /\ tok.exp = Unix(tok.minted + TTL)
        /\ tok.thumb <= tok.minted + TTL
    BY DEF PlayInv, PlayTypeOK, TokensOK
  <2>2. tok.minted \in Nat /\ tok.thumb \in Int /\ tok.minted + TTL \in Nat /\ tok # Bad
    BY <2>1, Lifetimes, BadAssumption DEF Token, NULL
  <2>3. now <= tok.minted + TTL
    BY <2>1, <2>2
  <2> QED BY <2>1, <2>2, <2>3, UnixMonotone DEF VerifyMediaToken
<1> QED BY <1>1, PlayInvariant, PTL

(* What a request is granted was open to it at some time since it came
   (GetVideoDetail, assertVideoReadyVisible, loadVideoForPlaylist), although
   it reads the row, the owner and the follow one after another. *)
THEOREM GrantsWereVisible == PlaySpec => []GrantWasVisible
<1>1. PlayInv => GrantWasVisible
  BY DEF PlayInv, GrantWasVisible, OnItsWay, Learnt
<1> QED BY <1>1, PlayInvariant, PTL

(* A segment URL that has not expired leads to an object (RewriteVariantPlaylist,
   HandleCleanupVideo, HandleReconcileTick): the grace periods are longer than a
   request and a URL.  Tokens outlast the second of them, and are excepted. *)
THEOREM SegmentsAreKept == PlaySpec => []SegmentsLast
<1>1. PlayInv => SegmentsLast
  <2> SUFFICES ASSUME PlayInv, NEW u \in urls, now <= u.exp, ~video.stored, ~owner.erased
               PROVE  u.token /\ SweepDue
    BY DEF SegmentsLast
  <2>1. u.exp \in Nat /\ now \in Nat
    BY DEF PlayInv, PlayTypeOK, Url
  <2>2. Kept
    BY <2>1 DEF PlayInv, UrlsOK, VideoOK
  <2>3. SweepDue
    BY <2>2 DEF Kept
  <2>4. CASE ~u.token
    <3>1. owner.left \in Nat /\ now - owner.left > sweepGrace
          /\ u.exp <= owner.left + MaxServe + TTL
      BY <2>3, <2>4 DEF PlayInv, OwnerOK, UrlsInTime, SweepDue
    <3> QED BY <2>1, <3>1, Lifetimes
  <2> QED BY <2>3, <2>4
<1> QED BY <1>1, PlayInvariant, PTL
=============================================================================
