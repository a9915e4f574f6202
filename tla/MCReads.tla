------------------------------ MODULE MCReads -------------------------------
(* Listing and Playback for TLC: a behaviour is one of a client that walks a
   list, or one of a client that plays a video.  The half that is not observed
   stays in one state. *)
EXTENDS Listing, Playback

VARIABLE client    \* "walker" or "player"

ReadsInit ==
    /\ client \in {"walker", "player"}
    /\ ListingInit
    /\ client = "player" => list = "comments" /\ row = [k \in Keys |-> "none"]
                            /\ target = [mine |-> TRUE, ready |-> TRUE, active |-> TRUE,
                                         private |-> FALSE, followed |-> FALSE]
    /\ PlayInit
    /\ client = "player" => owner.private \/ ~owner.followed
    /\ client = "walker" => video.status = "hidden" /\ ~owner.private /\ ~owner.followed

ReadsNext ==
    \/ client = "walker" /\ ListingNext /\ UNCHANGED <<client, playVars>>
    \/ client = "player" /\ PlayNext /\ UNCHANGED <<client, listingVars>>

ReadsSpec == ReadsInit /\ [][ReadsNext]_<<client, listingVars, playVars>>
=============================================================================
