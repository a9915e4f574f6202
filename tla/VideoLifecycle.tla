--------------------------- MODULE VideoLifecycle ---------------------------
(***************************************************************************)
(* What the pipeline promises of the status column of every video: a row is *)
(* created PENDING_UPLOAD, confirmed once, decided once by the worker, may  *)
(* be tombstoned by its owner at any moment, and a tombstone is only ever   *)
(* followed by the removal of the row.  In particular READY and FAILED are  *)
(* never exchanged, nothing leaves DELETED, and no id comes back.           *)
(***************************************************************************)
CONSTANT Videos

VARIABLE status   \* status[v], "NONE" before the insert, "GONE" after the purge

Init == status = [v \in Videos |-> "NONE"]

Move(v, from, to) ==
    /\ status[v] \in from
    /\ status' = [status EXCEPT ![v] = to]

Create(v) == Move(v, {"NONE"}, "PENDING_UPLOAD")
Confirm(v) == Move(v, {"PENDING_UPLOAD"}, "PROCESSING")
Publish(v) == Move(v, {"PROCESSING"}, "READY")
Reject(v) == Move(v, {"PROCESSING"}, "FAILED")
Tombstone(v) == Move(v, {"PENDING_UPLOAD", "PROCESSING", "READY", "FAILED"}, "DELETED")
Purge(v) == Move(v, {"DELETED"}, "GONE")

Next == \E v \in Videos :
    Create(v) \/ Confirm(v) \/ Publish(v) \/ Reject(v) \/ Tombstone(v) \/ Purge(v)

Spec == Init /\ [][Next]_status
=============================================================================
