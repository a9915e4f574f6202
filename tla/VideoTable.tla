----------------------------- MODULE VideoTable -----------------------------
(***************************************************************************)
(* The videos table of migrations/001_init.sql and the statements of       *)
(* sqlc/queries/videos.sql that move a row through its lifecycle, as        *)
(* operators on one row.  A statement is a guard (its WHERE clause) and the *)
(* row it writes; the CHECK constraints decide whether PostgreSQL accepts   *)
(* that row.  Titles, counters and the other columns that no guard reads    *)
(* are left out.                                                            *)
(***************************************************************************)
EXTENDS Integers

CONSTANTS
    Users,       \* local user ids
    NoUser,      \* user_id of an id for which no row was ever inserted
    MaxRetries   \* transcode.go MaxRetries, and the bound of chk_videos_retry

ASSUME MaxRetriesAssumption == MaxRetries \in Nat \ {0}
ASSUME NoUserAssumption == NoUser \notin Users

-----------------------------------------------------------------------------
(* "NONE": the id was never inserted; "GONE": its row was hard-deleted. *)
Statuses == {"PENDING_UPLOAD", "PROCESSING", "READY", "FAILED", "DELETED"}
NoRow == {"NONE", "GONE"}

(* r2_key is either the key made with the uuid UploadIntent draws before the
   insert, or the canonical key made with the row's own id. *)
Slots == {"first", "canonical"}

(* NULL in deleted_at; a set deleted_at is a clock reading. *)
NULL == -1

(* media: hls_prefix and thumbnail_key are set (MarkVideoReady writes both). *)
Row == [status: Statuses \cup NoRow,
        user: Users \cup {NoUser},
        slot: Slots,
        retry: Nat,
        media: BOOLEAN,
        deletedAt: Nat \cup {NULL}]

EmptyRow == [status |-> "NONE", user |-> NoUser, slot |-> "first",
             retry |-> 0, media |-> FALSE, deletedAt |-> NULL]

Exists(row) == row.status \in Statuses

(* Mutant: chk_videos_deleted_at is missing. *)
MutChecksPass(row) == row.retry <= MaxRetries

(* chk_videos_retry and chk_videos_deleted_at. *)
ChecksPass(row) ==
    /\ row.retry <= MaxRetries
    /\ row.status = "DELETED" <=> row.deletedAt # NULL

-----------------------------------------------------------------------------
(* The statements: <Name>Where is the WHERE clause, <Name> the row written. *)

InsertVideo(u) == [EmptyRow EXCEPT !.status = "PENDING_UPLOAD", !.user = u]

(* Mutant: the WHERE clause forgets the status. *)
MutPendingWhere(row) == Exists(row)

(* Shared by UpdatePendingVideoR2Key and UpdatePendingVideoMetadata. *)
PendingWhere(row) == row.status = "PENDING_UPLOAD"

(* Mutant: the new key is presigned but not stored. *)
MutUpdatePendingVideoR2Key(row, slot) == row

UpdatePendingVideoR2Key(row, slot) == [row EXCEPT !.slot = slot]

ConfirmVideoProcessingWhere(row, u, slot) ==
    row.status = "PENDING_UPLOAD" /\ row.user = u /\ row.slot = slot

ConfirmVideoProcessing(row) ==
    [row EXCEPT !.status = "PROCESSING", !.retry = 0]

MarkVideoDeletedWhere(row, u) == Exists(row) /\ row.user = u

MarkVideoDeleted(row, time) ==
    [row EXCEPT !.status = "DELETED", !.deletedAt = time]

MarkVideoFailedWhere(row) == Exists(row)

MarkVideoFailed(row) == [row EXCEPT !.status = "FAILED"]

MarkVideoReadyWhere(row) == row.status = "PROCESSING"

MarkVideoReady(row) == [row EXCEPT !.status = "READY", !.media = TRUE]

IncrementVideoRetryWhere(row) == row.status \in {"PROCESSING", "PENDING_UPLOAD"}

IncrementVideoRetry(row) == [row EXCEPT !.retry = @ + 1]

(* The row is gone; its id is never given to another row. *)
DeleteVideoRow(row) == [row EXCEPT !.status = "GONE", !.deletedAt = NULL]
=============================================================================
