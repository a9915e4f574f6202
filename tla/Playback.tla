------------------------------ MODULE Playback ------------------------------
(***************************************************************************)
(* How a client comes to play one video: the responses that carry a media   *)
(* token and a thumbnail (GetVideoDetail, HomeFeed, Search), the playlist    *)
(* endpoint that takes the token or a JWT (handlers/video_detail.go          *)
(* GetPlaylist) and hands out a fresh token or presigned segments, and the   *)
(* end of the video: DeleteVideo and, a grace period later, the cleanup; or   *)
(* the end of its owner, whose objects the sweep of Reconcile takes.         *)
(*                                                                          *)
(* Time is counted in ticks; a token carries whole seconds, a presigned URL  *)
(* does not.  The HMAC of a token is taken to do its work: a token is one    *)
(* that was signed, or it is refused.  Playlists are their two kinds.       *)
(***************************************************************************)
EXTENDS Integers, FiniteSets

CONSTANTS
    Clients,     \* requests that run at the same time
    Second,      \* ticks in a second
    TTL,         \* presignTTL, in ticks
    cleanupGrace,\* cleanup.go cleanupGrace and video.go cleanupDelay, in ticks
    sweepGrace,  \* how long an owner is inactive before the sweep, in ticks
    MaxServe,    \* how long a request takes at most, in ticks
    Bad,         \* no token, or one that was not signed for this video
    MaxTime,     \* bound on the clock
    MaxGrants,   \* bound on the tokens and URLs handed out
    MaxOwnerChanges   \* bound on the changes of the owner

(* MEDIA_TOKEN_TTL is a number of seconds, 15 minutes by default; a request
   that comes while the video is READY, or its owner active, must be over, and
   the URLs it got expired, before the cleanup or the sweep. *)
ASSUME PlaybackAssumption ==
    /\ Second \in Nat \ {0}
    /\ TTL \in Nat \ {0} /\ TTL % Second = 0
    /\ MaxServe \in Nat
    /\ cleanupGrace \in Nat /\ MaxServe + TTL < cleanupGrace
    /\ sweepGrace \in Nat /\ MaxServe + TTL < sweepGrace
    /\ MaxTime \in Nat
    /\ MaxGrants \in Nat
    /\ MaxOwnerChanges \in Nat

(* A token that was not signed is none of those that were. *)
ASSUME BadAssumption ==
    Bad \notin [minted: Nat, exp: Nat, thumb: Nat \cup {-1}]

VARIABLES
    now,       \* the clock
    video,     \* the row, and whether its HLS objects are in R2
    owner,     \* the owner, as the viewer stands to them; left: users.deleted_at
    req,       \* the requests
    tokens,    \* media tokens handed out
    urls,      \* presigned segment URLs handed out
    ownerChanges    \* changes of the owner so far

playVars == <<now, video, owner, req, tokens, urls, ownerChanges>>

NULL == -1

Unix(t) == t \div Second

(* The owner is one of ListUsersEligibleForReconcile. *)
SweepDue == ~owner.active /\ now - owner.left > sweepGrace

(* "detail" and "own": GetVideoDetail of a viewer and of the owner; "feed":
   a row of HomeFeed or Search; "token", "jwt": GetPlaylist. *)
Kinds == {"detail", "own", "feed", "token", "jwt"}

(* Each condition of a grant, and whether it holds now. *)
Holding(v, o) ==
    {c \in {"ready", "active", "open"} :
        \/ c = "ready" /\ v.status = "READY"
        \/ c = "active" /\ o.active
        \/ c = "open" /\ (~o.private \/ o.followed)}

(* tok: the token sent; variant: ?variant= is there; status, private: read
   from the row; since: when the request came; thumb: expiry of the thumbnail
   URL.  held is history: what held at some time since the request came. *)
Idle == [pc |-> "idle", kind |-> "feed", tok |-> Bad, variant |-> FALSE,
         status |-> "hidden", private |-> FALSE, since |-> 0, thumb |-> NULL, held |-> {}]

At(p, pc) == req[p].pc = pc

Goto(p, pc) == req' = [req EXCEPT ![p].pc = pc]

(* A response: 2xx with what was granted on the way, or an error. *)
Done(p) == req' = [req EXCEPT ![p] = Idle]

Quiet == UNCHANGED <<now, video, owner, tokens, urls, ownerChanges>>

-----------------------------------------------------------------------------
FirstPc(kind) ==
    CASE kind \in {"detail", "own"} -> "detail"
      [] kind = "feed" -> "list"
      [] kind = "token" -> "verify"
      [] kind = "jwt" -> "row"

Asked(kind, tok, variant) ==
    [pc |-> FirstPc(kind), kind |-> kind, tok |-> tok, variant |-> variant,
     status |-> "hidden", private |-> FALSE, since |-> now, thumb |-> NULL,
     held |-> Holding(video, owner)]

Ask(p) ==
    /\ At(p, "idle")
    /\ \E kind \in Kinds, tok \in tokens \cup {Bad}, variant \in BOOLEAN :
          /\ kind # "token" => tok = Bad
          /\ kind = "own" => owner.active      \* or requireAuth refuses
          /\ kind \notin {"token", "jwt"} => ~variant
          /\ req' = [req EXCEPT ![p] = Asked(kind, tok, variant)]
    /\ Quiet

(* A database or R2 call that fails: 500. *)
Fail(p) == ~At(p, "idle") /\ Done(p) /\ Quiet

(* The row of ListFeedVideos or SearchVideos, if the video is in it. *)
ListVideo(p) ==
    /\ At(p, "list")
    /\ IF Holding(video, owner) = {"ready", "active", "open"} THEN Goto(p, "thumb") ELSE Done(p)
    /\ Quiet

(* GetVideoDetail: the row with the owner's is_private.  The owner is through;
   without READY the URLs are null. *)
GetVideoDetail(p) ==
    /\ At(p, "detail")
    /\ IF req[p].kind = "own"
       THEN IF video.status = "READY" THEN Goto(p, "thumb") ELSE Done(p)
       ELSE req' = [req EXCEPT ![p] = [@ EXCEPT !.pc = "active", !.status = video.status,
                                                !.private = owner.private]]
    /\ Quiet

(* GetVideoDetail goes on with is_private of its first read, the playlist's
   assertVideoReadyVisible with that of this one. *)
LoadOwner(p) ==
    /\ At(p, "active")
    /\ \/ /\ owner.active /\ req[p].status = "READY"
          /\ LET private == IF req[p].kind = "detail" THEN req[p].private ELSE owner.private IN
             \/ private /\ Goto(p, "follow")
             \/ ~private /\ Goto(p, IF req[p].kind = "detail" THEN "thumb" ELSE "object")
       \/ /\ ~owner.active \/ req[p].status # "READY"
          /\ Done(p)
    /\ Quiet

CheckFollower(p) ==
    /\ At(p, "follow")
    /\ \/ owner.followed /\ Goto(p, IF req[p].kind = "detail" THEN "thumb" ELSE "object")
       \/ ~owner.followed /\ Done(p)
    /\ Quiet

(* Mutant: the thumbnail has a lifetime of its own. *)
MutbuildThumbnailURL(p) ==
    /\ At(p, "thumb")
    /\ \E expiry \in {NULL, now + 2 * TTL} :
          req' = [req EXCEPT ![p] = [@ EXCEPT !.pc = "mint", !.thumb = expiry]]
    /\ Quiet

(* The mappers make the thumbnail URL first; a presign error leaves it null. *)
buildThumbnailURL(p) ==
    /\ At(p, "thumb")
    /\ \E expiry \in {NULL, now + TTL} :
          req' = [req EXCEPT ![p] = [@ EXCEPT !.pc = "mint", !.thumb = expiry]]
    /\ Quiet

-----------------------------------------------------------------------------
Grants == Cardinality(tokens) + Cardinality(urls)

(* NewMediaToken and SignMediaToken: the expiry in whole seconds.  minted and
   thumb (of the same response) are history. *)
SignMediaToken(p) ==
    [minted |-> now, exp |-> Unix(now + TTL), thumb |-> req[p].thumb]

(* Mutant: a token is over when its last second begins. *)
MutVerifyMediaToken(tok) == tok # Bad /\ Unix(now) < tok.exp

VerifyMediaToken(tok) == tok # Bad /\ Unix(now) <= tok.exp

buildPlaylistURL(p) ==
    /\ At(p, "mint") /\ Grants < MaxGrants
    /\ tokens' = tokens \cup {SignMediaToken(p)}
    /\ Done(p)
    /\ UNCHANGED <<now, video, owner, urls, ownerChanges>>

(* GetPlaylist with ?token=: no look at who may see the video. *)
CheckMediaToken(p) ==
    /\ At(p, "verify")
    /\ IF VerifyMediaToken(req[p].tok) THEN Goto(p, "row") ELSE Done(p)
    /\ Quiet

(* Mutant: the token path does not look at the status. *)
MutLoadVideo(p) ==
    /\ At(p, "row")
    /\ req' = [req EXCEPT ![p] =
          [@ EXCEPT !.pc = IF req[p].kind = "token" THEN "object" ELSE "active", !.status = video.status]]
    /\ Quiet

(* READY with an hls_prefix (MarkVideoReady writes both), or 404. *)
LoadVideo(p) ==
    /\ At(p, "row")
    /\ IF video.status = "READY"
       THEN req' = [req EXCEPT ![p] =
               [@ EXCEPT !.pc = IF req[p].kind = "token" THEN "object" ELSE "active",
                         !.status = video.status]]
       ELSE Done(p)
    /\ Quiet

(* The variant is one of the two; then serveMasterPlaylist and
   serveVariantPlaylist get their file. *)
GetObject(p) ==
    /\ At(p, "object")
    /\ IF video.stored THEN Goto(p, IF req[p].variant THEN "segments" ELSE "master") ELSE Done(p)
    /\ Quiet

(* One fresh token for the variants of the playlist. *)
RewriteMasterPlaylist(p) ==
    /\ At(p, "master") /\ Grants < MaxGrants
    /\ tokens' = tokens \cup {SignMediaToken(p)}
    /\ Done(p)
    /\ UNCHANGED <<now, video, owner, urls, ownerChanges>>

(* A presigned URL for each segment: when they expire and, as history, whether
   a token was enough to get them. *)
RewriteVariantPlaylist(p) ==
    /\ At(p, "segments") /\ Grants < MaxGrants
    /\ urls' = urls \cup {[exp |-> now + TTL, token |-> req[p].kind = "token"]}
    /\ Done(p)
    /\ UNCHANGED <<now, video, owner, tokens, ownerChanges>>

-----------------------------------------------------------------------------
(* What goes on beside the requests. *)
Beside ==
    /\ req' = [p \in Clients |-> [req[p] EXCEPT !.held = @ \cup Holding(video', owner')]]
    /\ UNCHANGED <<now, tokens, urls>>

MarkVideoReady ==
    /\ video.status = "hidden"
    /\ video' = [video EXCEPT !.status = "READY", !.stored = TRUE]
    /\ UNCHANGED <<owner, ownerChanges>>
    /\ Beside

DeleteVideo ==
    /\ video.status \in {"hidden", "READY"}
    /\ video' = [video EXCEPT !.status = "DELETED", !.deletedAt = now]
    /\ UNCHANGED <<owner, ownerChanges>>
    /\ Beside

(* Mutant: the row's age is not looked at again. *)
MutHandleCleanupVideo ==
    /\ video.status = "DELETED"
    /\ video' = [video EXCEPT !.status = "gone", !.stored = FALSE]
    /\ UNCHANGED <<owner, ownerChanges>>
    /\ Beside

HandleCleanupVideo ==
    /\ video.status = "DELETED" /\ now - video.deletedAt >= cleanupGrace
    /\ video' = [video EXCEPT !.status = "gone", !.stored = FALSE]
    /\ UNCHANGED <<owner, ownerChanges>>
    /\ Beside

(* UpdateMe, follows, and the deactivation of the owner, whose rows stay as they
   are; an account that is deleted takes its rows along, and its objects without
   a grace period. *)
OwnerChange ==
    /\ ownerChanges < MaxOwnerChanges
    /\ ownerChanges' = ownerChanges + 1
    /\ \/ \E p \in BOOLEAN : owner' = [owner EXCEPT !.private = p] /\ UNCHANGED video
       \/ \E f \in BOOLEAN : owner' = [owner EXCEPT !.followed = f] /\ UNCHANGED video
       \/ /\ owner' = [owner EXCEPT !.active = FALSE, !.left = IF owner.active THEN now ELSE @]
          /\ UNCHANGED video
       \/ /\ owner' = [owner EXCEPT !.active = FALSE, !.left = now, !.erased = TRUE]
          /\ \E s \in {video.stored, FALSE} :
                video' = [video EXCEPT !.status = "gone", !.stored = s]
    /\ Beside

(* HandleReconcileTick and the cleanup it enqueues: the objects of an inactive
   user, not the rows.  A worker that is late may store them again. *)
Sweep ==
    /\ SweepDue /\ video.stored
    /\ video' = [video EXCEPT !.stored = FALSE]
    /\ UNCHANGED <<owner, ownerChanges>>
    /\ Beside

Busy == {p \in Clients : ~At(p, "idle")}

Tick ==
    /\ now < MaxTime
    /\ \A p \in Busy : now < req[p].since + MaxServe
    /\ now' = now + 1
    /\ UNCHANGED <<video, owner, req, tokens, urls, ownerChanges>>

PlayInit ==
    /\ now = 0
    /\ video \in {[status |-> "hidden", stored |-> FALSE, deletedAt |-> NULL],
                  [status |-> "READY", stored |-> TRUE, deletedAt |-> NULL]}
    /\ owner \in [active: {TRUE}, left: {NULL}, private: BOOLEAN, followed: BOOLEAN, erased: {FALSE}]
    /\ req = [p \in Clients |-> Idle]
    /\ tokens = {}
    /\ urls = {}
    /\ ownerChanges = 0

Browse(p) ==
    ListVideo(p) \/ GetVideoDetail(p) \/ LoadOwner(p) \/ CheckFollower(p) \/ buildThumbnailURL(p)
        \/ buildPlaylistURL(p)

GetPlaylist(p) ==
    CheckMediaToken(p) \/ LoadVideo(p) \/ GetObject(p) \/ RewriteMasterPlaylist(p)
        \/ RewriteVariantPlaylist(p)

PlayNext ==
    \/ \E p \in Clients : Ask(p) \/ Browse(p) \/ GetPlaylist(p) \/ Fail(p)
    \/ MarkVideoReady \/ DeleteVideo \/ HandleCleanupVideo \/ OwnerChange \/ Sweep \/ Tick

PlaySpec == PlayInit /\ [][PlayNext]_playVars

-----------------------------------------------------------------------------
Token == [minted: Nat, exp: Nat, thumb: Nat \cup {NULL}]

Url == [exp: Nat, token: BOOLEAN]

Owner == [active: BOOLEAN, left: Nat \cup {NULL}, private: BOOLEAN, followed: BOOLEAN,
          erased: BOOLEAN]

PlayRecord ==
    [pc: {"idle", "list", "detail", "active", "follow", "thumb", "mint", "verify",
          "row", "object", "master", "segments"},
     kind: Kinds, tok: Token \cup {Bad}, variant: BOOLEAN,
     status: {"hidden", "READY", "DELETED", "gone"}, private: BOOLEAN, since: Nat,
     thumb: Nat \cup {NULL}, held: SUBSET {"ready", "active", "open"}]

PlayTypeOK ==
    /\ now \in Nat
    /\ video \in [status: {"hidden", "READY", "DELETED", "gone"}, stored: BOOLEAN,
                  deletedAt: Nat \cup {NULL}]
    /\ owner \in Owner
    /\ req \in [Clients -> PlayRecord]
    /\ tokens \in SUBSET Token
    /\ urls \in SUBSET Url
    /\ ownerChanges \in 0 .. MaxOwnerChanges

(* A token is good for its whole lifetime and for less than a second more,
   although its expiry is cut to seconds (mediatoken.go SignMediaToken,
   VerifyMediaToken). *)
TokenLifetime ==
    \A tok \in tokens :
        /\ now <= tok.minted + TTL => VerifyMediaToken(tok)
        /\ now >= tok.minted + TTL + Second => ~VerifyMediaToken(tok)

(* While the thumbnail of a response can be loaded its playlist can be, too
   (video_object.go presignTTL: "a feed view cannot outlive the playlist it
   links to"). *)
ThumbnailWithin ==
    \A tok \in tokens : now <= tok.thumb => VerifyMediaToken(tok)

(* Nothing is granted unless the video was READY at some time since the request
   came; without a token, the owner was active then and open to the viewer. *)
GrantWasVisible ==
    \A p \in Clients :
        req[p].pc \in {"thumb", "mint", "object", "master", "segments"} =>
            /\ "ready" \in req[p].held
            /\ req[p].kind \in {"feed", "detail", "jwt"} => {"active", "open"} \subseteq req[p].held

(* A segment URL that has not expired leads to an object, also after the video
   was deleted or its owner deactivated (cleanup.go cleanupGrace, the 24 hours of
   ListUsersEligibleForReconcile), unless the account was deleted, or the URL was
   got with a token from a video whose owner has been inactive for longer than
   that: the playlists hand out tokens for as long as the row is READY. *)
SegmentsLast ==
    \A u \in urls : now <= u.exp /\ ~video.stored => owner.erased \/ (u.token /\ SweepDue)

(* A token is what was signed, and outlasts the thumbnail of its response. *)
TokensOK ==
    \A tok \in tokens : tok.exp = Unix(tok.minted + TTL) /\ tok.thumb <= tok.minted + TTL

(* The objects are there, or the sweep may have taken them. *)
Kept == video.stored \/ SweepDue

VideoOK ==
    /\ video.status = "READY" => Kept
    /\ video.status = "DELETED" => video.deletedAt \in Nat /\ video.deletedAt <= now

OwnerOK == ~owner.active => owner.left \in Nat /\ owner.left <= now

(* A URL was handed out for a video that is READY, or was deleted too recently
   to be gone, or has been gone since the URL expired. *)
UrlsOK ==
    \A u \in urls :
        /\ u.exp <= now + TTL
        /\ \/ owner.erased
           \/ video.status = "READY"
           \/ video.status = "DELETED" /\ Kept /\ u.exp <= video.deletedAt + MaxServe + TTL
           \/ video.status = "gone" /\ u.exp < now

(* Without a token it was handed out soon after the owner was active. *)
UrlsInTime ==
    \A u \in urls : u.token \/ owner.active \/ u.exp <= owner.left + MaxServe + TTL

(* A video that was READY while a request is on its way is still there; an owner
   who was active then is, or left after it came. *)
Lasting(q) ==
    /\ "ready" \in q.held /\ ~owner.erased =>
          \/ video.status = "READY"
          \/ video.status = "DELETED" /\ Kept /\ q.since <= video.deletedAt
    /\ "active" \in q.held => owner.active \/ q.since <= owner.left

(* How far a request has come, and what held for that. *)
Learnt(q) ==
    /\ q.pc = "list" => q.kind = "feed"
    /\ q.pc = "detail" => q.kind \in {"detail", "own"}
    /\ q.pc = "verify" => q.kind = "token"
    /\ q.pc = "row" => q.kind \in {"token", "jwt"}
    /\ q.pc \in {"active", "follow"} => q.kind \in {"detail", "jwt"}
    /\ q.pc \in {"object", "master", "segments"} => q.kind \in {"token", "jwt"}
    /\ q.pc = "active" =>
          /\ q.status = "READY" => "ready" \in q.held
          /\ q.kind = "detail" /\ ~q.private => "open" \in q.held
    /\ q.pc = "follow" => {"ready", "active"} \subseteq q.held
    /\ q.pc \in {"thumb", "mint", "object", "master", "segments"} =>
          /\ "ready" \in q.held
          /\ q.kind \in {"feed", "detail", "jwt"} => {"active", "open"} \subseteq q.held

OnItsWay(q) ==
    /\ q.since <= now
    /\ q.thumb <= now + TTL
    /\ q.pc # "idle" =>
          now <= q.since + MaxServe /\ Holding(video, owner) \subseteq q.held /\ Lasting(q)
    /\ Learnt(q)

(* The inductive invariant. *)
PlayInv ==
    /\ PlayTypeOK /\ TokensOK /\ VideoOK /\ OwnerOK /\ UrlsOK /\ UrlsInTime
    /\ \A p \in Clients : OnItsWay(req[p])
=============================================================================
