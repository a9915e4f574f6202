--------------------------- MODULE PipelineProofs ---------------------------
(***************************************************************************)
(* Proofs about Pipeline, for any sets of users, videos and requests, any    *)
(* number of variants, any grace and any failures: IInv is inductive, and    *)
(* with it the safety and action properties of the specification and its     *)
(* refinement of VideoLifecycle.  One lemma per action shows that it         *)
(* preserves IInv; RowWrites says how an action may move a row.  Four        *)
(* theorems at the end need invariants of their own beside IInv, and hold    *)
(* under the failures they name: why a video is FAILED, which files in the   *)
(* bucket are still known, how long a raw upload is kept, and that a READY   *)
(* video has its files.                                                      *)
(***************************************************************************)
EXTENDS Pipeline, TLAPS

USE PipelineAssumption, MaxRetriesAssumption, NoUserAssumption
USE DEF TranscodePcs, Working, GivingUp, GivenUp

(* An empty table, bucket and queue satisfy the invariant. *)
LEMMA InitIInv == Init => IInv
<1> SUFFICES ASSUME Init PROVE IInv
  OBVIOUS
<1> USE DEF Init, Statuses, NoRow, Slots, NULL, EmptyRow
<1>1. TypeOK
  BY DEF TypeOK, Row, Request, NewReq, ReqPcs, WorkerState, IdleWorker, WorkerPcs,
         NoTask, Files, Master, EmptyBag, SetToBag
<1>2. RowsOK
  BY DEF RowsOK, ChecksPass
<1>3. RequestsOK /\ LocksOK
  BY DEF RequestsOK, LocksOK, NewReq, LockPcs
<1>4. GraceOK /\ OnePendingPerUser
  BY DEF GraceOK, OnePendingPerUser
<1>5. WorkerOK /\ SnapshotCurrent
  BY DEF WorkerOK, SnapshotCurrent, IdleWorker
<1> QED BY <1>1, <1>2, <1>3, <1>4, <1>5 DEF IInv

(***************************************************************************)
(* What the helpers of the specification preserve.                         *)
(***************************************************************************)

(* Begin stores a well-typed request. *)
LEMMA BeginType ==
  ASSUME NEW r \in Reqs, NEW pc \in ReqPcs, NEW u \in Users \cup {NoUser},
         NEW v \in Videos \cup {NoVideo}, NEW slot \in Slots, NEW old \in Slots \cup {"none"},
         req \in [Reqs -> Request], Begin(r, pc, u, v, slot, old)
  PROVE  req' \in [Reqs -> Request]
BY DEF Begin, Request

(* Respond stores a well-typed request. *)
LEMMA RespondType ==
  ASSUME NEW r \in Reqs, req \in [Reqs -> Request], Respond(r)
  PROVE  req' \in [Reqs -> Request]
BY DEF Respond, NewReq, Request, ReqPcs, Slots

(* Goto stores a well-typed request. *)
LEMMA GotoType ==
  ASSUME NEW r \in Reqs, NEW pc \in ReqPcs, req \in [Reqs -> Request], Goto(r, pc)
  PROVE  req' \in [Reqs -> Request]
BY DEF Goto, Request

(* A step without a failure keeps the count of failures. *)
LEMMA WorksType ==
  ASSUME faults \in 0..MaxFaults, Works
  PROVE  faults' \in 0..MaxFaults
BY DEF Works

(* A failure stays within the bound on failures. *)
LEMMA FailsType ==
  ASSUME NEW kind, faults \in 0..MaxFaults, Fails(kind)
  PROVE  faults' \in 0..MaxFaults
BY DEF Fails

(* The payloads the three Enqueue functions build are tasks. *)
LEMMA TaskTypes ==
  ASSUME NEW v \in Videos, NEW raws \in SUBSET Slots, NEW files \in SUBSET Files,
         NEW retries \in Nat
  PROVE  /\ TranscodeTask(v, retries) \in Task
         /\ CleanupObjectsTask(v, raws, files) \in Task
         /\ CleanupVideoTask(v) \in Task
BY DEF Task, TranscodeTask, CleanupObjectsTask, CleanupVideoTask

QueueType == pending \in Seq(Task) /\ DOMAIN scheduled \subseteq Delayed

(* Enqueue keeps the queue well-typed. *)
LEMMA EnqueueType ==
  ASSUME NEW task \in Task, QueueType, Enqueue(task)
  PROVE  QueueType'
BY DEF QueueType, Enqueue

(* EnqueueWithDelay keeps the queue well-typed. *)
LEMMA EnqueueWithDelayType ==
  ASSUME NEW task \in Task, NEW delay \in Nat, now \in Nat, QueueType,
         EnqueueWithDelay(task, delay)
  PROVE  QueueType'
<1>1. [task |-> task, due |-> now + delay] \in Delayed
  BY DEF Delayed
<1>2. DOMAIN scheduled' \subseteq DOMAIN scheduled \cup {[task |-> task, due |-> now + delay]}
  BY DEF EnqueueWithDelay, BagAdd
<1> QED BY <1>1, <1>2 DEF QueueType, EnqueueWithDelay

(* So does the best-effort enqueue, whether or not Redis fails. *)
LEMMA TryEnqueueType ==
  ASSUME NEW task \in Task, QueueType, faults \in 0..MaxFaults, TryEnqueue(task)
  PROVE  QueueType' /\ faults' \in 0..MaxFaults
BY EnqueueType, WorksType, FailsType DEF TryEnqueue, QueueType, queue

(* And its delayed form. *)
LEMMA TryEnqueueWithDelayType ==
  ASSUME NEW task \in Task, NEW delay \in Nat, now \in Nat, QueueType,
         faults \in 0..MaxFaults, TryEnqueueWithDelay(task, delay)
  PROVE  QueueType' /\ faults' \in 0..MaxFaults
BY EnqueueWithDelayType, WorksType, FailsType DEF TryEnqueueWithDelay, QueueType, queue

(* What is known of the worker and its row does not depend on the rest. *)
LEMMA WorkerStutter ==
  ASSUME WorkerOK, SnapshotCurrent, UNCHANGED <<video, raw, media, worker, now>>
  PROVE  WorkerOK' /\ SnapshotCurrent'
<1>1. wv' = wv
  BY DEF wv
<1>2. WorkerOK'
  BY <1>1 DEF WorkerOK
<1>3. SnapshotCurrent'
  BY <1>1 DEF SnapshotCurrent
<1> QED BY <1>2, <1>3

(* The parts of IInv that a step on the api-gateway's side can disturb, and
   those that a step of the worker can. *)
LEMMA ApiFrame ==
  ASSUME IInv, UNCHANGED <<video, raw, media, worker, now>>,
         TypeOK', RequestsOK', LocksOK', GraceOK'
  PROVE  IInv'
BY WorkerStutter DEF IInv, RowsOK, OnePendingPerUser

(* A step that writes no row and no request leaves only these to show. *)
LEMMA WorkerFrame ==
  ASSUME IInv, UNCHANGED <<video, req, urls, now>>,
         TypeOK', WorkerOK', SnapshotCurrent'
  PROVE  IInv'
BY DEF IInv, RowsOK, RequestsOK, LocksOK, GraceOK, OnePendingPerUser

(* Ending a request keeps what the invariant says of requests. *)
LEMMA RespondInv ==
  ASSUME NEW r \in Reqs, IInv, Respond(r), UNCHANGED <<video, now, urls>>
  PROVE  RequestsOK' /\ LocksOK' /\ GraceOK'
<1> USE DEF IInv, TypeOK, Respond, NewReq
<1>1. RequestsOK'
  BY DEF RequestsOK
<1>2. LocksOK'
  BY DEF LocksOK, LockPcs
<1>3. GraceOK'
  BY DEF GraceOK
<1> QED BY <1>1, <1>2, <1>3

(* Advancing a request keeps it, unless the step takes a row lock. *)
LEMMA GotoInv ==
  ASSUME NEW r \in Reqs, NEW pc \in ReqPcs \ {"new", "done", "i_insert"},
         req[r].pc \notin {"new", "done", "i_insert"},
         pc \in LockPcs => req[r].pc \in LockPcs,
         IInv, Goto(r, pc), UNCHANGED <<video, now, urls>>
  PROVE  RequestsOK' /\ LocksOK' /\ GraceOK'
<1> USE DEF IInv, TypeOK, Goto, Request
<1>1. RequestsOK'
  BY DEF RequestsOK
<1>2. LocksOK'
  BY DEF LocksOK
<1>3. GraceOK'
  BY DEF GraceOK
<1> QED BY <1>1, <1>2, <1>3

(* Starting one keeps it if the row is no tombstone and a lock is free. *)
LEMMA BeginInv ==
  ASSUME NEW r \in Reqs, NEW pc \in ReqPcs \ {"new", "done"}, NEW u \in Users,
         NEW v \in Videos \cup {NoVideo}, NEW slot, NEW old,
         pc = "i_insert" <=> v = NoVideo,
         v \in Videos => video[v].status # "DELETED",
         pc \in LockPcs => ~Locked(v) /\ ConfirmVideoProcessingWhere(video[v], u, slot),
         IInv, Begin(r, pc, u, v, slot, old), UNCHANGED <<video, now, urls>>
  PROVE  RequestsOK' /\ LocksOK' /\ GraceOK'
<1> USE DEF IInv, TypeOK, Begin
<1>1. RequestsOK'
  BY DEF RequestsOK
<1>2. LocksOK'
  BY DEF LocksOK, Locked
<1>3. GraceOK'
  BY DEF GraceOK
<1> QED BY <1>1, <1>2, <1>3

(***************************************************************************)
(* The api-gateway's steps.                                                *)
(***************************************************************************)

(* UploadIntent reads the pending row, which is no tombstone. *)
LEMMA IntentGetPendingStep ==
  ASSUME NEW r \in Reqs, NEW u \in Users, IInv, IntentGetPending(r, u)
  PROVE  IInv'
<1> USE DEF IInv, TypeOK
<1>1. UNCHANGED <<video, raw, media, pending, scheduled, worker, urls, puts, now>>
  BY DEF IntentGetPending, store, queue, client
<1>2. faults' \in 0..MaxFaults
  BY WorksType, FailsType DEF IntentGetPending
<1>3. req' \in [Reqs -> Request] /\ RequestsOK' /\ LocksOK' /\ GraceOK'
  <2>1. CASE Begin(r, "i_insert", u, NoVideo, "first", "none")
    BY <2>1, <1>1, BeginType, BeginInv DEF ReqPcs, Slots, LockPcs
  <2>2. CASE \E v \in PendingOf(u) :
                Begin(r, IF video[v].slot = "canonical" THEN "i_metadata" ELSE "i_rotate",
                      u, v, "canonical", video[v].slot)
    <3> PICK v \in PendingOf(u) :
                Begin(r, IF video[v].slot = "canonical" THEN "i_metadata" ELSE "i_rotate",
                      u, v, "canonical", video[v].slot)
      BY <2>2
    <3> DEFINE pc == IF video[v].slot = "canonical" THEN "i_metadata" ELSE "i_rotate"
    <3>1. v \in Videos /\ video[v].status = "PENDING_UPLOAD" /\ video[v].slot \in Slots
      BY DEF PendingOf, PendingWhere, Row
    <3>2. pc \in {"i_metadata", "i_rotate"}
      OBVIOUS
    <3>3. Begin(r, pc, u, v, "canonical", video[v].slot)
      OBVIOUS
    <3> HIDE DEF pc
    <3> QED BY <3>1, <3>2, <3>3, <1>1, BeginType, BeginInv DEF ReqPcs, Slots, LockPcs
  <2>3. CASE Respond(r)
    BY <2>3, <1>1, RespondType, RespondInv
  <2> QED BY <2>1, <2>2, <2>3 DEF IntentGetPending
<1> QED BY <1>1, <1>2, <1>3, ApiFrame

(* UploadIntent checks that the row is still pending. *)
LEMMA IntentMetadataStep ==
  ASSUME NEW r \in Reqs, IInv, IntentMetadata(r)
  PROVE  IInv'
<1> USE DEF IInv, TypeOK
<1>1. UNCHANGED <<video, raw, media, pending, scheduled, worker, urls, puts, now>>
  BY DEF IntentMetadata, store, queue, client
<1>2. faults' \in 0..MaxFaults
  BY WorksType, FailsType DEF IntentMetadata
<1>3. req[r].pc = "i_metadata" /\ (Goto(r, "i_presign") \/ Respond(r))
  BY DEF IntentMetadata
<1>4. req' \in [Reqs -> Request] /\ RequestsOK' /\ LocksOK' /\ GraceOK'
  BY <1>1, <1>3, GotoType, GotoInv, RespondType, RespondInv DEF ReqPcs, LockPcs
<1> QED BY <1>1, <1>2, <1>4, ApiFrame

(* The new URL belongs to a row the request works on, so not to a tombstone
   past its grace. *)
LEMMA IntentPresignStep ==
  ASSUME NEW r \in Reqs, IInv, IntentPresign(r)
  PROVE  IInv'
<1> USE DEF IInv, TypeOK
<1>1. UNCHANGED <<video, raw, media, worker, puts, now>> /\ Respond(r)
  BY DEF IntentPresign, store
<1>2. req[r].video \in Videos /\ req[r].slot \in Slots /\ req[r].old \in Slots \cup {"none"}
  BY DEF IntentPresign, RequestsOK, Request
<1>3. urls' = urls \/ urls' = urls \cup {<<req[r].video, req[r].slot>>}
  BY DEF IntentPresign
<1>4. QueueType' /\ faults' \in 0..MaxFaults
  <2>1. CASE Works /\ UNCHANGED queue
    BY <2>1, WorksType DEF QueueType, queue
  <2>2. CASE /\ req[r].old \notin {"none", req[r].slot}
             /\ TryEnqueue(CleanupObjectsTask(req[r].video, {req[r].old}, {}))
    BY <2>2, <1>2, TryEnqueueType, TaskTypes DEF QueueType
  <2>3. CASE Fails("presign") /\ UNCHANGED queue
    BY <2>3, FailsType DEF QueueType, queue
  <2> QED BY <2>1, <2>2, <2>3 DEF IntentPresign, queue
<1>5. req' \in [Reqs -> Request]
  BY <1>1, RespondType
<1>6. RequestsOK' /\ LocksOK'
  BY <1>1 DEF RequestsOK, LocksOK, LockPcs, Respond, NewReq
<1>7. GraceOK'
  BY <1>1, <1>2, <1>3 DEF GraceOK, Respond, NewReq
<1>8. TypeOK'
  BY <1>1, <1>2, <1>3, <1>4, <1>5 DEF QueueType
<1> QED BY <1>1, <1>6, <1>7, <1>8, ApiFrame

(* ConfirmUpload locks a row that passes its checks. *)
LEMMA ConfirmLockStep ==
  ASSUME NEW r \in Reqs, NEW u \in Users, NEW v \in Videos, NEW slot \in Slots,
         IInv, ConfirmLock(r, u, v, slot)
  PROVE  IInv'
<1> USE DEF IInv, TypeOK
<1>1. UNCHANGED <<video, raw, media, pending, scheduled, worker, urls, puts, now>>
  BY DEF ConfirmLock, store, queue, client
<1>2. faults' \in 0..MaxFaults
  BY WorksType, FailsType DEF ConfirmLock
<1>3. req' \in [Reqs -> Request] /\ RequestsOK' /\ LocksOK' /\ GraceOK'
  <2>1. CASE /\ ~Locked(v) /\ ConfirmVideoProcessingWhere(video[v], u, slot)
             /\ Begin(r, "c_head", u, v, slot, "none")
    BY <2>1, <1>1, BeginType, BeginInv DEF ReqPcs, LockPcs, ConfirmVideoProcessingWhere
  <2>2. CASE Respond(r)
    BY <2>2, <1>1, RespondType, RespondInv
  <2> QED BY <2>1, <2>2 DEF ConfirmLock
<1> QED BY <1>1, <1>2, <1>3, ApiFrame

(* ConfirmUpload looks at the object, the row lock held. *)
LEMMA ConfirmHeadStep ==
  ASSUME NEW r \in Reqs, IInv, ConfirmHead(r)
  PROVE  IInv'
<1> USE DEF IInv, TypeOK
<1>1. UNCHANGED <<video, raw, media, worker, urls, puts, now>>
  BY DEF ConfirmHead, store, client
<1>2. /\ req[r].pc = "c_head" /\ req[r].video \in Videos /\ req[r].slot \in Slots
      /\ Goto(r, "c_enqueue") \/ Respond(r)
  BY DEF ConfirmHead, RequestsOK, Request
<1>3. QueueType' /\ faults' \in 0..MaxFaults
  <2>1. CASE UNCHANGED queue /\ (Works \/ \E kind \in {"head", "db"} : Fails(kind))
    BY <2>1, WorksType, FailsType DEF QueueType, queue
  <2>2. CASE TryEnqueue(CleanupObjectsTask(req[r].video, {req[r].slot}, {}))
    BY <2>2, <1>2, TryEnqueueType, TaskTypes DEF QueueType
  <2> QED BY <2>1, <2>2 DEF ConfirmHead
<1>4. req' \in [Reqs -> Request] /\ RequestsOK' /\ LocksOK' /\ GraceOK'
  BY <1>1, <1>2, GotoType, GotoInv, RespondType, RespondInv DEF ReqPcs, LockPcs
<1> QED BY <1>1, <1>3, <1>4, ApiFrame DEF QueueType

(* ConfirmUpload enqueues the transcode, the row lock held. *)
LEMMA ConfirmEnqueueStep ==
  ASSUME NEW r \in Reqs, IInv, ConfirmEnqueue(r)
  PROVE  IInv'
<1> USE DEF IInv, TypeOK
<1>1. UNCHANGED <<video, raw, media, worker, urls, puts, now>>
  BY DEF ConfirmEnqueue, store, client
<1>2. /\ req[r].pc = "c_enqueue" /\ req[r].video \in Videos
      /\ Goto(r, "c_commit") \/ Respond(r)
  BY DEF ConfirmEnqueue, RequestsOK, Request
<1>3. TranscodeTask(req[r].video, 1) \in Task
  BY <1>2, TaskTypes
<1>4. QueueType' /\ faults' \in 0..MaxFaults
  BY <1>3, EnqueueType, WorksType, FailsType DEF ConfirmEnqueue, QueueType, queue
<1>5. req' \in [Reqs -> Request] /\ RequestsOK' /\ LocksOK' /\ GraceOK'
  BY <1>1, <1>2, GotoType, GotoInv, RespondType, RespondInv DEF ReqPcs, LockPcs
<1> QED BY <1>1, <1>4, <1>5, ApiFrame DEF QueueType

(* DeleteVideo goes on only with a row that is no tombstone. *)
LEMMA DeleteReadStep ==
  ASSUME NEW r \in Reqs, NEW u \in Users, NEW v \in Videos, IInv, DeleteRead(r, u, v)
  PROVE  IInv'
<1> USE DEF IInv, TypeOK
<1>1. UNCHANGED <<video, raw, media, pending, scheduled, worker, urls, puts, now>>
  BY DEF DeleteRead, store, queue, client
<1>2. faults' \in 0..MaxFaults
  BY WorksType, FailsType DEF DeleteRead
<1>3. req' \in [Reqs -> Request] /\ RequestsOK' /\ LocksOK' /\ GraceOK'
  <2>1. CASE video[v].status # "DELETED" /\ Begin(r, "d_mark", u, v, "first", "none")
    BY <2>1, <1>1, BeginType, BeginInv DEF ReqPcs, LockPcs, Slots
  <2>2. CASE Respond(r)
    BY <2>2, <1>1, RespondType, RespondInv
  <2> QED BY <2>1, <2>2 DEF DeleteRead
<1> QED BY <1>1, <1>2, <1>3, ApiFrame

(* DeleteVideo schedules the cleanup. *)
LEMMA DeleteEnqueueStep ==
  ASSUME NEW r \in Reqs, IInv, DeleteEnqueue(r)
  PROVE  IInv'
<1> USE DEF IInv, TypeOK
<1>1. UNCHANGED <<video, raw, media, worker, urls, puts, now>> /\ Respond(r)
  BY DEF DeleteEnqueue, store, client
<1>2. CleanupVideoTask(req[r].video) \in Task
  BY TaskTypes DEF DeleteEnqueue, RequestsOK, Request
<1>3. QueueType' /\ faults' \in 0..MaxFaults
  BY <1>2, TryEnqueueWithDelayType DEF DeleteEnqueue, QueueType
<1>4. req' \in [Reqs -> Request] /\ RequestsOK' /\ LocksOK' /\ GraceOK'
  BY <1>1, RespondType, RespondInv
<1> QED BY <1>1, <1>3, <1>4, ApiFrame DEF QueueType

(* An abandoned request releases its lock. *)
LEMMA ApiCrashStep ==
  ASSUME NEW r \in Reqs, IInv, ApiCrash(r)
  PROVE  IInv'
<1> USE DEF IInv, TypeOK
<1>1. /\ UNCHANGED <<video, raw, media, pending, scheduled, worker, urls, puts, now>>
      /\ Respond(r) /\ faults' \in 0..MaxFaults
  BY FailsType DEF ApiCrash, store, queue, client
<1>2. req' \in [Reqs -> Request] /\ RequestsOK' /\ LocksOK' /\ GraceOK'
  BY <1>1, RespondType, RespondInv
<1> QED BY <1>1, <1>2, ApiFrame

(* No task is at work on a row before it is confirmed. *)
LEMMA WriteBeforeConfirmed ==
  ASSUME NEW v \in Videos, NEW row, IInv,
         video[v].status \in {"NONE", "PENDING_UPLOAD"},
         video' = [video EXCEPT ![v] = row],
         UNCHANGED <<raw, media, worker, now>>
  PROVE  WorkerOK' /\ SnapshotCurrent'
<1> USE DEF IInv, TypeOK
<1>1. wv' = wv
  BY DEF wv
<1>2. worker.pc \in (TranscodePcs \ {"t_load"}) \cup {"v_prefix", "v_objects", "v_row"}
        => wv # v
  BY DEF WorkerOK
<1>3. wv # v => video'[wv] = video[wv]
  OBVIOUS
<1>4. WorkerOK'
  BY <1>1, <1>2, <1>3 DEF WorkerOK
<1>5. SnapshotCurrent'
  BY <1>1, <1>2, <1>3 DEF SnapshotCurrent
<1> QED BY <1>4, <1>5

(* The unique index is what keeps OnePendingPerUser. *)
LEMMA IntentInsertStep ==
  ASSUME NEW r \in Reqs, IInv, IntentInsert(r)
  PROVE  IInv'
<1> USE DEF IInv, TypeOK
<1>1. UNCHANGED <<raw, media, pending, scheduled, worker, urls, puts, now>>
  BY DEF IntentInsert, store, queue, client
<1>2. faults' \in 0..MaxFaults
  BY WorksType, FailsType DEF IntentInsert
<1>3. CASE UNCHANGED video /\ Respond(r)
  BY <1>1, <1>2, <1>3, RespondType, RespondInv, ApiFrame
<1>4. CASE /\ PendingIndexAllows(req[r].user)
           /\ \E v \in Videos :
                /\ video[v].status = "NONE"
                /\ video' = [video EXCEPT ![v] = InsertVideo(req[r].user)]
                /\ Begin(r, "i_presign", req[r].user, v, "first", "none")
  <2> DEFINE u == req[r].user
  <2> PICK v \in Videos : /\ video[v].status = "NONE"
                          /\ video' = [video EXCEPT ![v] = InsertVideo(u)]
                          /\ Begin(r, "i_presign", u, v, "first", "none")
    BY <1>4
  <2>1. u \in Users /\ req[r].pc = "i_insert" /\ req[r].video = NoVideo
    BY DEF IntentInsert, RequestsOK
  <2> DEFINE row == InsertVideo(u)
  <2>2. /\ row.status = "PENDING_UPLOAD" /\ row.user = u
        /\ row.retry = 0 /\ row.deletedAt = NULL
    BY DEF InsertVideo, EmptyRow
  <2>3. row \in Row /\ ChecksPass(row)
    <3>1. EmptyRow \in Row
      BY DEF EmptyRow, Row, Slots, Statuses, NoRow, NULL
    <3>2. row \in Row
      BY <2>1, <3>1 DEF InsertVideo, Row, Statuses
    <3> QED BY <2>2, <3>2 DEF ChecksPass
  <2>4. video' = [video EXCEPT ![v] = row]
    OBVIOUS
  <2> HIDE DEF u, row
  <2>5. req' \in [Reqs -> Request]
    BY <2>1, BeginType DEF ReqPcs, Slots
  <2>6. TypeOK'
    BY <1>1, <1>2, <2>3, <2>5, <2>4
  <2>7. RowsOK'
    BY <2>3, <2>4 DEF RowsOK
  <2>8. RequestsOK'
    BY <2>1 DEF RequestsOK, Begin
  <2>9. LocksOK'
    BY <2>2, <2>4 DEF LocksOK, Begin, LockPcs, ConfirmVideoProcessingWhere
  <2>10. GraceOK'
    BY <1>1, <2>2, <2>4 DEF GraceOK, Begin
  <2>11. WorkerOK' /\ SnapshotCurrent'
    BY <1>1, <2>4, WriteBeforeConfirmed
  <2>12. OnePendingPerUser'
    BY <1>4, <2>2, <2>4 DEF OnePendingPerUser, PendingIndexAllows, PendingOf, PendingWhere, u
  <2> QED BY <2>6, <2>7, <2>8, <2>9, <2>10, <2>11, <2>12
<1> QED BY <1>3, <1>4 DEF IntentInsert

(* Rotating the key of a pending row waits for a confirm in progress. *)
LEMMA IntentRotateStep ==
  ASSUME NEW r \in Reqs, IInv, IntentRotate(r)
  PROVE  IInv'
<1> USE DEF IInv, TypeOK
<1> DEFINE v == req[r].video
           row == UpdatePendingVideoR2Key(video[v], "canonical")
<1>1. /\ UNCHANGED <<raw, media, pending, scheduled, worker, urls, puts, now>>
      /\ req[r].pc = "i_rotate"
  BY DEF IntentRotate, store, queue, client
<1>2. faults' \in 0..MaxFaults
  BY WorksType, FailsType DEF IntentRotate
<1>3. CASE UNCHANGED video /\ Respond(r)
  BY <1>1, <1>2, <1>3, RespondType, RespondInv, ApiFrame
<1>4. CASE PendingWhere(video[v]) /\ Writes(v, row) /\ Goto(r, "i_metadata")
  <2>1. v \in Videos /\ video[v] \in Row /\ video[v].status = "PENDING_UPLOAD"
    BY <1>1, <1>4 DEF RequestsOK, Request, PendingWhere
  <2>2. /\ row \in Row /\ row.status = "PENDING_UPLOAD" /\ row.user = video[v].user
        /\ ChecksPass(row)
    BY <2>1, <1>4 DEF UpdatePendingVideoR2Key, Row, Slots, Writes
  <2>3. ~Locked(v) /\ video' = [video EXCEPT ![v] = row]
    BY <1>4 DEF Writes
  <2> HIDE DEF v, row
  <2>4. req' \in [Reqs -> Request]
    BY <1>4, GotoType DEF ReqPcs
  <2>5. TypeOK'
    BY <1>1, <1>2, <2>2, <2>3, <2>4
  <2>6. RowsOK'
    BY <2>2, <2>3 DEF RowsOK
  <2>7. RequestsOK'
    BY <1>1, <1>4 DEF RequestsOK, Goto, Request
  <2>8. LocksOK'
    BY <1>1, <1>4, <2>3 DEF LocksOK, Goto, LockPcs, Locked, Request
  <2>9. GraceOK'
    BY <1>1, <1>4, <2>2, <2>3 DEF GraceOK, Goto, Request
  <2>10. WorkerOK' /\ SnapshotCurrent'
    BY <1>1, <2>1, <2>3, WriteBeforeConfirmed
  <2>11. OnePendingPerUser'
    BY <2>1, <2>2, <2>3 DEF OnePendingPerUser
  <2> QED BY <2>5, <2>6, <2>7, <2>8, <2>9, <2>10, <2>11
<1> QED BY <1>3, <1>4 DEF IntentRotate

(* The commit moves a row no worker step depends on yet. *)
LEMMA ConfirmCommitStep ==
  ASSUME NEW r \in Reqs, IInv, ConfirmCommit(r)
  PROVE  IInv'
<1> USE DEF IInv, TypeOK
<1> DEFINE v == req[r].video
           row == ConfirmVideoProcessing(video[v])
<1>1. /\ UNCHANGED <<raw, media, pending, scheduled, worker, urls, puts, now>>
      /\ req[r].pc = "c_commit" /\ Respond(r)
  BY DEF ConfirmCommit, store, queue, client
<1>2. faults' \in 0..MaxFaults
  BY WorksType, FailsType DEF ConfirmCommit
<1>3. CASE UNCHANGED video
  BY <1>1, <1>2, <1>3, RespondType, RespondInv, ApiFrame
<1>4. CASE video' = [video EXCEPT ![v] = row]
  <2>1. v \in Videos /\ video[v] \in Row /\ video[v].status = "PENDING_UPLOAD"
    BY <1>1 DEF RequestsOK, Request, LocksOK, LockPcs, ConfirmVideoProcessingWhere
  <2>2. row \in Row /\ row.status = "PROCESSING" /\ ChecksPass(row)
    <3>1. row \in Row
      BY <2>1 DEF ConfirmVideoProcessing, Row, Statuses
    <3>2. row.status = "PROCESSING" /\ row.retry = 0 /\ row.deletedAt = video[v].deletedAt
      BY <2>1 DEF ConfirmVideoProcessing, Row
    <3>3. video[v].deletedAt = NULL
      BY <2>1 DEF RowsOK, ChecksPass
    <3> QED BY <3>1, <3>2, <3>3 DEF ChecksPass
  <2>3. \A q \in Reqs : q # r /\ req[q].pc \in LockPcs => req[q].video # v
    BY <1>1 DEF LocksOK, LockPcs
  <2> HIDE DEF v, row
  <2>4. req' \in [Reqs -> Request]
    BY <1>1, RespondType
  <2>5. TypeOK'
    BY <1>1, <1>2, <1>4, <2>2, <2>4
  <2>6. RowsOK'
    BY <1>4, <2>2 DEF RowsOK
  <2>7. RequestsOK'
    BY <1>1 DEF RequestsOK, Respond, NewReq
  <2>8. LocksOK'
    BY <1>1, <1>4, <2>3 DEF LocksOK, Respond, NewReq, LockPcs
  <2>9. GraceOK'
    BY <1>1, <1>4, <2>2 DEF GraceOK, Respond, NewReq
  <2>10. WorkerOK' /\ SnapshotCurrent'
    BY <1>1, <1>4, <2>1, WriteBeforeConfirmed
  <2>11. OnePendingPerUser'
    BY <1>4, <2>1, <2>2 DEF OnePendingPerUser
  <2> QED BY <2>5, <2>6, <2>7, <2>8, <2>9, <2>10, <2>11
<1> QED BY <1>3, <1>4 DEF ConfirmCommit

(* A tombstone may hit a row at any moment but not one HandleCleanupVideo is
   removing: that row is past its grace, and no request works on it. *)
LEMMA DeleteMarkStep ==
  ASSUME NEW r \in Reqs, IInv, DeleteMark(r)
  PROVE  IInv'
<1> USE DEF IInv, TypeOK
<1> DEFINE v == req[r].video
           row == MarkVideoDeleted(video[v], now)
<1>1. /\ UNCHANGED <<raw, media, pending, scheduled, worker, urls, puts, now>>
      /\ req[r].pc = "d_mark"
  BY DEF DeleteMark, store, queue, client
<1>2. faults' \in 0..MaxFaults
  BY WorksType, FailsType DEF DeleteMark
<1>3. CASE UNCHANGED video /\ Respond(r)
  BY <1>1, <1>2, <1>3, RespondType, RespondInv, ApiFrame
<1>4. CASE /\ MarkVideoDeletedWhere(video[v], req[r].user)
           /\ Writes(v, row) /\ Goto(r, "d_enqueue")
  <2>1. v \in Videos /\ video[v] \in Row /\ video[v].status \in Statuses
    BY <1>1, <1>4 DEF RequestsOK, Request, MarkVideoDeletedWhere, Exists
  <2>2. /\ row \in Row /\ row.status = "DELETED" /\ row.deletedAt = now
        /\ row.slot = video[v].slot /\ row.retry = video[v].retry
        /\ row.media = video[v].media /\ ChecksPass(row)
    BY <2>1, <1>4 DEF MarkVideoDeleted, Row, Statuses, Writes
  <2>3. ~Locked(v) /\ video' = [video EXCEPT ![v] = row]
    BY <1>4 DEF Writes
  <2>4. worker.pc \in {"v_prefix", "v_objects", "v_row"} => wv # v
    BY <2>1 DEF WorkerOK, GraceOK
  <2>5. wv' = wv
    BY <1>1 DEF wv
  <2> HIDE DEF v, row
  <2>6. req' \in [Reqs -> Request]
    BY <1>4, GotoType DEF ReqPcs
  <2>7. TypeOK'
    BY <1>1, <1>2, <2>2, <2>3, <2>6
  <2>8. RowsOK'
    BY <2>2, <2>3 DEF RowsOK
  <2>9. RequestsOK'
    BY <1>1, <1>4 DEF RequestsOK, Goto, Request
  <2>10. LocksOK'
    BY <1>1, <1>4, <2>3 DEF LocksOK, Goto, LockPcs, Locked, Request
  <2>11. GraceOK'
    BY <1>1, <1>4, <2>2, <2>3 DEF GraceOK, Goto, Request
  <2>12. WorkerOK'
    BY <1>1, <2>1, <2>2, <2>3, <2>4, <2>5 DEF WorkerOK
  <2>13. SnapshotCurrent'
    BY <1>1, <2>1, <2>2, <2>3, <2>5 DEF SnapshotCurrent, WorkerOK
  <2>14. OnePendingPerUser'
    BY <2>2, <2>3 DEF OnePendingPerUser
  <2> QED BY <2>7, <2>8, <2>9, <2>10, <2>11, <2>12, <2>13, <2>14
<1> QED BY <1>3, <1>4 DEF DeleteMark

(***************************************************************************)
(* Clients, time and asynq's forwarder.                                    *)
(***************************************************************************)

(* A PUT cannot reach the keys of a row that is being removed. *)
LEMMA ClientPutStep ==
  ASSUME NEW v \in Videos, NEW slot \in Slots, NEW content \in Contents,
         IInv, ClientPut(v, slot, content)
  PROVE  IInv'
<1> USE DEF IInv, TypeOK
<1>1. /\ UNCHANGED <<video, media, pending, scheduled, worker, req, urls, now, faults>>
      /\ <<v, slot>> \in urls
      /\ puts' \in 0..MaxPuts
      /\ raw' = [raw EXCEPT ![v][slot] = content]
  BY DEF ClientPut, queue
<1>2. TypeOK'
  BY <1>1
<1>3. WorkerOK'
  <2>1. worker.pc = "v_row" => wv \in Videos /\ wv # v
    BY <1>1 DEF WorkerOK, GraceOK, wv, Task
  <2>2. worker.pc = "v_row" => raw'[wv] = raw[wv]
    BY <1>1, <2>1
  <2> QED BY <1>1, <2>2 DEF WorkerOK, wv
<1>4. SnapshotCurrent'
  BY <1>1 DEF SnapshotCurrent, wv
<1> QED BY <1>1, <1>2, <1>3, <1>4, WorkerFrame

(* Time passes only as long as requests on tombstones allow. *)
LEMMA TickStep ==
  ASSUME IInv, Tick
  PROVE  IInv'
<1> USE DEF IInv, TypeOK
<1>1. /\ UNCHANGED <<video, raw, media, pending, scheduled, worker, req, puts, faults>>
      /\ now' = now + 1 /\ urls' = {}
  BY DEF Tick, store, queue
<1>2. TypeOK'
  BY <1>1
<1>3. GraceOK'
  <2> SUFFICES ASSUME NEW v \in Videos, video[v].status = "DELETED",
                      now + 1 >= video[v].deletedAt + Grace
               PROVE  \A r \in Reqs : req[r].video # v
    BY <1>1 DEF GraceOK
  <2>1. video[v].deletedAt \in Nat
    BY DEF Row, RowsOK, ChecksPass
  <2> QED BY <2>1 DEF Tick
<1>4. WorkerOK' /\ SnapshotCurrent'
  <2>1. wv' = wv
    BY <1>1 DEF wv
  <2>2. worker.pc \in {"v_prefix", "v_objects", "v_row"} => video[wv].deletedAt \in Nat
    BY DEF WorkerOK, Row, RowsOK, ChecksPass, wv, Task
  <2> QED BY <1>1, <2>1, <2>2 DEF WorkerOK, SnapshotCurrent
<1>5. RowsOK' /\ RequestsOK' /\ LocksOK' /\ OnePendingPerUser'
  BY <1>1 DEF RowsOK, RequestsOK, LocksOK, OnePendingPerUser
<1> QED BY <1>2, <1>3, <1>4, <1>5

(* Forwarding moves a well-typed task. *)
LEMMA ForwardStep ==
  ASSUME IInv, Forward
  PROVE  IInv'
<1> USE DEF IInv, TypeOK
<1> PICK d \in DOMAIN scheduled :
            /\ scheduled' = BagRemove(scheduled, d)
            /\ pending' = Append(pending, d.task)
            /\ UNCHANGED <<video, store, worker, req, client, now, faults>>
  BY DEF Forward
<1>1. UNCHANGED <<video, raw, media, worker, req, urls, puts, now, faults>>
  BY DEF store, client
<1>2. DOMAIN scheduled' \subseteq DOMAIN scheduled
  BY DEF BagRemove
<1>3. pending' \in Seq(Task)
  BY DEF Delayed
<1>4. TypeOK'
  BY <1>1, <1>2, <1>3
<1>5. WorkerOK' /\ SnapshotCurrent'
  BY <1>1, WorkerStutter
<1> QED BY <1>1, <1>4, <1>5, WorkerFrame

(***************************************************************************)
(* The worker's steps.                                                     *)
(***************************************************************************)

(* A busy worker has a task. *)
LEMMA TaskInHand ==
  ASSUME IInv, worker.pc # "idle"
  PROVE  worker.task \in Task /\ wv \in Videos
BY DEF IInv, WorkerOK, wv, Task

(* The steps of a handler that stay within the task change only a few fields. *)
LEMMA ContinueType ==
  ASSUME worker \in WorkerState, NEW pc \in WorkerPcs, Continue(pc)
  PROVE  /\ worker' \in WorkerState /\ worker'.pc = pc
         /\ worker'.task = worker.task /\ worker'.slot = worker.slot
         /\ worker'.retry = worker.retry /\ worker'.file = worker.file
         /\ worker'.keys = worker.keys
BY DEF Continue, WorkerState

(* cleanupOnFailure is followed by a return or by handleTransient. *)
LEMMA CleanUpThenType ==
  ASSUME worker \in WorkerState, NEW next \in {"idle", "t_transient"}, CleanUpThen(next)
  PROVE  /\ worker' \in WorkerState /\ worker'.pc = "t_cleanup"
         /\ worker'.task = worker.task /\ worker'.slot = worker.slot
         /\ worker'.retry = worker.retry
<1>1. "t_cleanup" \in WorkerPcs
  BY DEF WorkerPcs
<1> QED BY <1>1 DEF CleanUpThen, WorkerState

(* A download keeps the content it found. *)
LEMMA DownloadType ==
  ASSUME worker \in WorkerState, NEW object \in Contents,
         worker' = [worker EXCEPT !.pc = "t_probe", !.content = object]
  PROVE  /\ worker' \in WorkerState /\ worker'.pc = "t_probe"
         /\ worker'.task = worker.task /\ worker'.slot = worker.slot
         /\ worker'.retry = worker.retry /\ worker'.file = worker.file
<1>1. "t_probe" \in WorkerPcs
  BY DEF WorkerPcs
<1> QED BY <1>1 DEF WorkerState

(* A failed upload hands over the keys to clean. *)
LEMMA GiveUpType ==
  ASSUME worker \in WorkerState, NEW keys \in SUBSET Files,
         worker' = [worker EXCEPT !.pc = "t_cleanup", !.keys = keys, !.then = "t_transient"]
  PROVE  /\ worker' \in WorkerState /\ worker'.pc = "t_cleanup"
         /\ worker'.task = worker.task /\ worker'.slot = worker.slot
         /\ worker'.retry = worker.retry
<1>1. "t_cleanup" \in WorkerPcs
  BY DEF WorkerPcs
<1> QED BY <1>1 DEF WorkerState

(* An idle worker satisfies every part that is about the worker. *)
LEMMA AckInv ==
  ASSUME worker' = IdleWorker
  PROVE  worker' \in WorkerState /\ WorkerOK' /\ SnapshotCurrent'
<1>1. worker' \in WorkerState
  BY DEF IdleWorker, WorkerState, WorkerPcs, Slots, Files, NoTask
<1>2. worker'.pc = "idle"
  BY DEF IdleWorker
<1>3. WorkerOK' /\ SnapshotCurrent'
  BY <1>2 DEF WorkerOK, SnapshotCurrent
<1> QED BY <1>1, <1>3

(* A failed task goes back to the queue with one retry less. *)
LEMMA NackInv ==
  ASSUME IInv, worker.pc # "idle", Nack
  PROVE  QueueType' /\ worker' \in WorkerState /\ WorkerOK' /\ SnapshotCurrent'
<1>1. worker' \in WorkerState /\ WorkerOK' /\ SnapshotCurrent'
  BY AckInv DEF Nack
<1>2. QueueType
  BY DEF IInv, TypeOK, QueueType
<1>3. CASE worker.task.left > 0
  <2>1. [worker.task EXCEPT !.left = @ - 1] \in Task
    BY <1>3, TaskInHand DEF Task
  <2>2. EnqueueWithDelay([worker.task EXCEPT !.left = @ - 1], 0)
    BY <1>3 DEF Nack
  <2>3. now \in Nat
    BY DEF IInv, TypeOK
  <2> QED BY <1>1, <1>2, <2>1, <2>2, <2>3, EnqueueWithDelayType
<1>4. CASE ~(worker.task.left > 0)
  BY <1>1, <1>2, <1>4 DEF Nack, QueueType, queue
<1> QED BY <1>3, <1>4

(* Complete and partial deletions keep the bucket well-typed. *)
LEMMA DeleteObjectsType ==
  ASSUME NEW v \in Videos, NEW raws, NEW files,
         raw \in [Videos -> [Slots -> Contents \cup {"none"}]],
         media \in [Videos -> SUBSET Files],
         DeleteObjects(v, raws, files) \/ DeleteSome(v, raws, files)
  PROVE  /\ raw' \in [Videos -> [Slots -> Contents \cup {"none"}]]
         /\ media' \in [Videos -> SUBSET Files]
<1> PICK rs, fs : DeleteObjects(v, rs, fs)
  BY DEF DeleteSome
<1> QED BY DEF DeleteObjects

(* A worker's write leaves a row that is neither pending nor a tombstone, and
   waits for a confirm in progress. *)
LEMMA WorkerWrite ==
  ASSUME NEW v \in Videos, NEW row \in Row, IInv, Writes(v, row),
         row.status \notin {"PENDING_UPLOAD", "DELETED"},
         UNCHANGED <<req, urls, now>>
  PROVE  /\ video' \in [Videos -> Row]
         /\ RowsOK' /\ RequestsOK' /\ LocksOK' /\ GraceOK' /\ OnePendingPerUser'
<1> USE DEF IInv, TypeOK
<1>1. video' = [video EXCEPT ![v] = row] /\ ChecksPass(row) /\ ~Locked(v)
  BY DEF Writes
<1>2. video' \in [Videos -> Row] /\ RowsOK'
  BY <1>1 DEF RowsOK
<1>3. RequestsOK' /\ LocksOK'
  BY <1>1 DEF RequestsOK, LocksOK, Locked
<1>4. GraceOK' /\ OnePendingPerUser'
  BY <1>1 DEF GraceOK, OnePendingPerUser
<1> QED BY <1>2, <1>3, <1>4

(* A delivered task starts its handler afresh. *)
LEMMA DeliverStep ==
  ASSUME IInv, Deliver
  PROVE  IInv'
<1> USE DEF IInv, TypeOK
<1> DEFINE task == Head(pending)
           start == [transcode |-> "t_load", objects |-> "o_delete", video |-> "v_load"]
           pc == start[task.kind]
<1>1. UNCHANGED <<video, raw, media, scheduled, req, urls, puts, now, faults>>
  BY DEF Deliver, store, client
<1>2. task \in Task /\ pending' \in Seq(Task)
  BY DEF Deliver
<1>3. pc \in {"t_load", "o_delete", "v_load"}
  BY <1>2 DEF Task
<1>4. worker' = [IdleWorker EXCEPT !.pc = pc, !.task = task]
  BY DEF Deliver
<1> HIDE DEF task, pc
<1>5. /\ worker' \in WorkerState /\ worker'.pc = pc
      /\ worker'.task = task /\ worker'.file = 1
  BY <1>2, <1>3, <1>4 DEF IdleWorker, WorkerState, WorkerPcs, Slots
<1>6. 1 \in Files
  BY DEF Files, Master
<1>7. WorkerOK'
  BY <1>2, <1>3, <1>5, <1>6 DEF WorkerOK, Files, Master
<1>8. SnapshotCurrent'
  BY <1>3, <1>5 DEF SnapshotCurrent
<1> QED BY <1>1, <1>2, <1>5, <1>7, <1>8, WorkerFrame

(* A crash loses the handler and nothing else. *)
LEMMA WorkerCrashStep ==
  ASSUME IInv, WorkerCrash
  PROVE  IInv'
<1>1. /\ UNCHANGED <<video, raw, media, req, urls, puts, now>>
      /\ worker.pc # "idle" /\ Nack
  BY DEF WorkerCrash, store, client
<1>2. QueueType' /\ worker' \in WorkerState /\ WorkerOK' /\ SnapshotCurrent'
  BY <1>1, NackInv
<1>3. faults' \in 0..MaxFaults
  BY FailsType DEF WorkerCrash, IInv, TypeOK
<1>4. TypeOK'
  BY <1>1, <1>2, <1>3 DEF IInv, TypeOK, QueueType
<1> QED BY <1>1, <1>2, <1>4, WorkerFrame

(* The snapshot taken for an exhausted budget is the row itself. *)
LEMMA LoadVideoStep ==
  ASSUME IInv, LoadVideo
  PROVE  IInv'
<1> USE DEF IInv, TypeOK
<1>1. /\ UNCHANGED <<video, raw, media, pending, scheduled, req, urls, puts, now>>
      /\ worker.pc = "t_load"
  BY DEF LoadVideo, store, queue, client
<1>2. faults' \in 0..MaxFaults
  BY WorksType, FailsType DEF LoadVideo
<1>3. worker.task \in Task /\ wv \in Videos /\ video[wv] \in Row
  BY <1>1, TaskInHand
<1>4. video[wv].retry <= MaxRetries
  BY <1>3 DEF RowsOK, ChecksPass
<1>5. CASE Ack
  BY <1>1, <1>2, <1>5, AckInv, WorkerFrame DEF Ack
<1>6. CASE video[wv].status = "PROCESSING" /\ Continue("t_increment")
  <2>1. worker' \in WorkerState /\ worker' = [worker EXCEPT !.pc = "t_increment"]
    BY <1>6 DEF Continue, WorkerState, WorkerPcs
  <2>2. WorkerOK' /\ SnapshotCurrent'
    BY <1>1, <1>3, <1>6, <2>1 DEF WorkerOK, SnapshotCurrent, wv, WorkerState
  <2> QED BY <1>1, <1>2, <2>1, <2>2, WorkerFrame
<1>7. CASE /\ video[wv].status = "PROCESSING"
           /\ worker' = [worker EXCEPT !.pc = "t_fail", !.slot = video[wv].slot,
                                       !.retry = video[wv].retry]
  <2>1. /\ worker' \in WorkerState /\ worker'.pc = "t_fail" /\ worker'.task = worker.task
        /\ worker'.slot = video[wv].slot /\ worker'.retry = video[wv].retry
    BY <1>3, <1>7 DEF WorkerState, WorkerPcs, Row
  <2>2. WorkerOK' /\ SnapshotCurrent'
    BY <1>1, <1>3, <1>4, <1>7, <2>1 DEF WorkerOK, SnapshotCurrent, wv
  <2> QED BY <1>1, <1>2, <2>1, <2>2, WorkerFrame
<1> QED BY <1>5, <1>6, <1>7 DEF LoadVideo

(* IncrementVideoRetry keeps the shape and the status of a row. *)
LEMMA IncrementVideoRetryType ==
  ASSUME NEW x \in Row
  PROVE  /\ IncrementVideoRetry(x) \in Row /\ IncrementVideoRetry(x).status = x.status
         /\ IncrementVideoRetry(x).slot = x.slot /\ IncrementVideoRetry(x).media = x.media
<1>1. x.retry \in Nat /\ x.retry + 1 \in Nat
  BY DEF Row
<1>2. IncrementVideoRetry(x) = [x EXCEPT !.retry = x.retry + 1]
  BY DEF IncrementVideoRetry
<1> QED BY <1>1, <1>2 DEF Row

(* The snapshot is the row the UPDATE returned, within the CHECK. *)
LEMMA IncrementRetryStep ==
  ASSUME IInv, IncrementRetry
  PROVE  IInv'
<1> USE DEF IInv, TypeOK
<1> DEFINE row == IncrementVideoRetry(video[wv])
<1>1. /\ UNCHANGED <<raw, media, pending, scheduled, req, urls, puts, now>>
      /\ worker.pc = "t_increment"
  BY DEF IncrementRetry, store, queue, client
<1>2. faults' \in 0..MaxFaults
  BY WorksType, FailsType DEF IncrementRetry
<1>3. worker.task \in Task /\ wv \in Videos /\ video[wv] \in Row
  BY <1>1, TaskInHand
<1>4. CASE Ack /\ UNCHANGED video
  BY <1>1, <1>2, <1>4, AckInv, WorkerFrame DEF Ack
<1>5. CASE IncrementVideoRetryWhere(video[wv]) /\ Writes(wv, row)
  <2>1. video[wv].status = "PROCESSING"
    BY <1>1, <1>5 DEF IncrementVideoRetryWhere, WorkerOK
  <2>2. row \in Row /\ row.status = "PROCESSING" /\ row.retry <= MaxRetries
    <3>1. row \in Row /\ row.status = "PROCESSING"
      BY <1>3, <2>1, IncrementVideoRetryType
    <3> QED BY <1>5, <3>1 DEF Writes, ChecksPass
  <2>3. video' = [video EXCEPT ![wv] = row]
    BY <1>5 DEF Writes
  <2>4. Writes(wv, row)
    BY <1>5
  <2> HIDE DEF row
  <2>5. /\ video' \in [Videos -> Row]
        /\ RowsOK' /\ RequestsOK' /\ LocksOK' /\ GraceOK' /\ OnePendingPerUser'
    BY <1>1, <1>3, <2>2, <2>4, WorkerWrite
  <2>6. CASE Ack
    BY <1>1, <1>2, <2>5, <2>6, AckInv DEF Ack
  <2>7. CASE worker' = [worker EXCEPT !.pc = "t_download", !.slot = row.slot,
                                      !.retry = row.retry]
    <3>1. /\ worker' \in WorkerState /\ worker'.pc = "t_download"
          /\ worker'.task = worker.task /\ worker'.file = worker.file
          /\ worker'.slot = row.slot /\ worker'.retry = row.retry
      BY <2>2, <2>7 DEF WorkerState, WorkerPcs, Row
    <3>2. wv' = wv /\ video'[wv] = row
      BY <1>3, <2>3, <3>1 DEF wv
    <3>3. WorkerOK'
      BY <1>1, <1>3, <2>2, <3>1, <3>2 DEF WorkerOK
    <3>4. SnapshotCurrent'
      BY <2>2, <3>1, <3>2 DEF SnapshotCurrent
    <3> QED BY <1>1, <1>2, <2>5, <3>1, <3>3, <3>4
  <2> QED BY <1>5, <2>6, <2>7 DEF IncrementRetry, row
<1> QED BY <1>4, <1>5 DEF IncrementRetry

(* The part of HandleTranscode that runs with a snapshot of the row and has not
   decided yet. *)
Undecided == (Working \ {"t_increment"}) \cup GivingUp

(* A step of HandleTranscode that writes no row keeps what is known of it. *)
LEMMA TranscodeGoesOn ==
  ASSUME IInv, worker.pc \in Undecided, worker' \in WorkerState, worker'.pc \in Undecided,
         worker'.task = worker.task, worker'.slot = worker.slot,
         worker'.retry = worker.retry,
         worker'.pc \in {"t_probe", "t_upload"} => worker'.file \in Files,
         UNCHANGED video, worker'.pc # "t_download",
         worker.pc \in GivingUp => worker'.pc \in GivingUp
  PROVE  WorkerOK' /\ SnapshotCurrent'
<1> USE DEF IInv, Undecided
<1>1. wv' = wv
  BY DEF wv
<1>2. worker.task \in Task
  BY TaskInHand
<1>3. /\ video[wv].status \in GivenUp
      /\ worker.pc \in Working => video[wv].status \in {"PROCESSING", "DELETED", "GONE"}
  BY DEF WorkerOK
<1>4. WorkerOK'
  BY <1>1, <1>2, <1>3 DEF WorkerOK
<1>5. SnapshotCurrent'
  BY <1>1 DEF SnapshotCurrent
<1> QED BY <1>4, <1>5

(* The download decides between probing and a transient failure. *)
LEMMA DownloadRawStep ==
  ASSUME IInv, DownloadRaw
  PROVE  IInv'
<1> USE DEF IInv, TypeOK
<1>1. /\ UNCHANGED <<video, raw, media, pending, scheduled, req, urls, puts, now>>
      /\ worker.pc = "t_download"
  BY DEF DownloadRaw, store, queue, client
<1>2. faults' \in 0..MaxFaults
  BY WorksType, FailsType DEF DownloadRaw
<1>3. raw[wv][worker.slot] \in Contents \cup {"none"} /\ worker.file \in Files
  BY <1>1, TaskInHand DEF WorkerState, WorkerOK
<1>4. /\ worker' \in WorkerState /\ worker'.pc \in {"t_probe", "t_transient"}
      /\ worker'.task = worker.task /\ worker'.slot = worker.slot
      /\ worker'.retry = worker.retry /\ worker'.file = worker.file
  <2>1. CASE Continue("t_transient")
    BY <2>1, ContinueType DEF WorkerPcs
  <2>2. CASE /\ raw[wv][worker.slot] # "none"
             /\ worker' = [worker EXCEPT !.pc = "t_probe", !.content = raw[wv][worker.slot]]
    BY <1>3, <2>2, DownloadType
  <2> QED BY <2>1, <2>2 DEF DownloadRaw
<1>5. WorkerOK' /\ SnapshotCurrent'
  BY <1>1, <1>3, <1>4, TranscodeGoesOn DEF Undecided
<1> QED BY <1>1, <1>2, <1>4, <1>5, WorkerFrame

(* The probe decides between uploading, failing and retrying. *)
LEMMA ProbeAndValidateStep ==
  ASSUME IInv, ProbeAndValidate
  PROVE  IInv'
<1> USE DEF IInv, TypeOK
<1>1. /\ UNCHANGED <<video, raw, media, pending, scheduled, req, urls, puts, now>>
      /\ worker.pc = "t_probe"
  BY DEF ProbeAndValidate, store, queue, client
<1>2. faults' \in 0..MaxFaults
  BY WorksType, FailsType DEF ProbeAndValidate
<1>3. worker.file \in Files
  BY <1>1 DEF WorkerOK
<1>4. /\ worker' \in WorkerState /\ worker'.pc \in {"t_upload", "t_fail", "t_transient"}
      /\ worker'.task = worker.task /\ worker'.slot = worker.slot
      /\ worker'.retry = worker.retry /\ worker'.file = worker.file
  BY ContinueType DEF ProbeAndValidate, WorkerPcs
<1>5. WorkerOK' /\ SnapshotCurrent'
  BY <1>1, <1>3, <1>4, TranscodeGoesOn DEF Undecided
<1> QED BY <1>1, <1>2, <1>4, <1>5, WorkerFrame

(* Uploads stay within the files of the video. *)
LEMMA UploadNextStep ==
  ASSUME IInv, UploadNext
  PROVE  IInv'
<1> USE DEF IInv, TypeOK
<1>1. /\ UNCHANGED <<video, raw, pending, scheduled, req, urls, puts, now>>
      /\ worker.pc = "t_upload"
  BY DEF UploadNext, queue, client
<1>2. faults' \in 0..MaxFaults
  BY WorksType, FailsType DEF UploadNext
<1>3. worker.file \in Files /\ worker.keys \in SUBSET Files /\ wv \in Videos
  BY <1>1, TaskInHand DEF WorkerOK, WorkerState
<1>4. media' \in [Videos -> SUBSET Files]
  BY <1>3 DEF UploadNext
<1>5. /\ worker' \in WorkerState /\ worker'.pc \in {"t_recheck", "t_upload", "t_cleanup"}
      /\ worker'.task = worker.task /\ worker'.slot = worker.slot
      /\ worker'.retry = worker.retry
      /\ worker'.pc = "t_upload" => worker'.file \in Files
  <2> DEFINE f == worker.file
  <2>1. CASE worker' = [worker EXCEPT !.pc = IF f = Master THEN "t_recheck" ELSE "t_upload",
                                      !.keys = @ \cup {f}, !.file = f + 1]
    <3>1. f + 1 \in Nat /\ (f # Master => f + 1 \in Files)
      BY <1>3 DEF Files, Master
    <3>2. worker.keys \cup {f} \in SUBSET Files
      BY <1>3
    <3> HIDE DEF f
    <3> QED BY <2>1, <3>1, <3>2 DEF WorkerState, WorkerPcs
  <2>2. CASE \E keys \in SUBSET Files :
               worker' = [worker EXCEPT !.pc = "t_cleanup", !.keys = keys,
                                        !.then = "t_transient"]
    BY <2>2, GiveUpType
  <2>3. worker.keys \cup {f} \in SUBSET Files
    BY <1>3
  <2> HIDE DEF f
  <2> QED BY <1>3, <2>1, <2>2, <2>3 DEF UploadNext, f
<1>6. WorkerOK' /\ SnapshotCurrent'
  BY <1>1, <1>5, TranscodeGoesOn DEF Undecided
<1> QED BY <1>1, <1>2, <1>4, <1>5, <1>6, WorkerFrame

(* The recheck writes nothing. *)
LEMMA RecheckStatusStep ==
  ASSUME IInv, RecheckStatus
  PROVE  IInv'
<1> USE DEF IInv, TypeOK
<1>1. /\ UNCHANGED <<video, raw, media, pending, scheduled, req, urls, puts, now>>
      /\ worker.pc = "t_recheck"
  BY DEF RecheckStatus, store, queue, client
<1>2. faults' \in 0..MaxFaults
  BY WorksType, FailsType DEF RecheckStatus
<1>3. /\ worker' \in WorkerState /\ worker'.pc \in {"t_ready", "t_cleanup"}
      /\ worker'.task = worker.task /\ worker'.slot = worker.slot
      /\ worker'.retry = worker.retry
  <2>1. CASE Continue("t_ready")
    BY <2>1, ContinueType DEF WorkerPcs
  <2>2. CASE \E next \in {"idle", "t_transient"} : CleanUpThen(next)
    BY <2>2, CleanUpThenType
  <2> QED BY <2>1, <2>2 DEF RecheckStatus
<1>4. WorkerOK' /\ SnapshotCurrent'
  BY <1>1, <1>3, TranscodeGoesOn DEF Undecided
<1> QED BY <1>1, <1>2, <1>3, <1>4, WorkerFrame

(* The partial uploads become a well-typed cleanup task. *)
LEMMA CleanupOnFailureStep ==
  ASSUME IInv, CleanupOnFailure
  PROVE  IInv'
<1> USE DEF IInv, TypeOK
<1>1. /\ UNCHANGED <<video, raw, media, req, urls, puts, now>>
      /\ worker.pc = "t_cleanup"
  BY DEF CleanupOnFailure, store, client
<1>2. CleanupObjectsTask(wv, {}, worker.keys) \in Task
  BY <1>1, TaskInHand, TaskTypes DEF WorkerState
<1>3. QueueType' /\ faults' \in 0..MaxFaults
  BY <1>2, TryEnqueueType, WorksType DEF CleanupOnFailure, QueueType, queue
<1>4. worker' \in WorkerState /\ WorkerOK' /\ SnapshotCurrent'
  <2>1. CASE Ack
    BY <2>1, AckInv DEF Ack
  <2>2. CASE Continue("t_transient")
    <3>1. /\ worker' \in WorkerState /\ worker'.pc = "t_transient"
          /\ worker'.task = worker.task /\ worker'.slot = worker.slot
          /\ worker'.retry = worker.retry
      BY <2>2, ContinueType DEF WorkerPcs
    <3> QED BY <1>1, <3>1, TranscodeGoesOn DEF Undecided
  <2> QED BY <2>1, <2>2 DEF CleanupOnFailure
<1> QED BY <1>1, <1>3, <1>4, WorkerFrame DEF QueueType

(* A retry is a well-typed transcode task. *)
LEMMA HandleTransientStep ==
  ASSUME IInv, HandleTransient
  PROVE  IInv'
<1> USE DEF IInv, TypeOK
<1>1. /\ UNCHANGED <<video, raw, media, req, urls, puts, now>>
      /\ worker.pc = "t_transient"
  BY DEF HandleTransient, store, client
<1>2. TranscodeTask(wv, AsynqMaxRetry) \in Task
  BY <1>1, TaskInHand, TaskTypes
<1>3. QueueType' /\ faults' \in 0..MaxFaults
  BY <1>2, TryEnqueueWithDelayType, WorksType DEF HandleTransient, QueueType, queue
<1>4. worker' \in WorkerState /\ WorkerOK' /\ SnapshotCurrent'
  <2>1. CASE Ack
    BY <2>1, AckInv DEF Ack
  <2>2. CASE Continue("t_fail")
    <3>1. /\ worker' \in WorkerState /\ worker'.pc = "t_fail"
          /\ worker'.task = worker.task /\ worker'.slot = worker.slot
          /\ worker'.retry = worker.retry
      BY <2>2, ContinueType DEF WorkerPcs
    <3> QED BY <1>1, <3>1, TranscodeGoesOn DEF Undecided
  <2> QED BY <2>1, <2>2 DEF HandleTransient
<1> QED BY <1>1, <1>3, <1>4, WorkerFrame DEF QueueType

(* The raw upload becomes a well-typed cleanup task. *)
LEMMA EnqueueRawCleanupStep ==
  ASSUME IInv, EnqueueRawCleanup
  PROVE  IInv'
<1> USE DEF IInv, TypeOK
<1>1. /\ UNCHANGED <<video, raw, media, req, urls, puts, now>>
      /\ worker.pc = "t_rawcleanup" /\ Ack
  BY DEF EnqueueRawCleanup, store, client
<1>2. CleanupObjectsTask(wv, {worker.slot}, {}) \in Task
  BY <1>1, TaskInHand, TaskTypes DEF WorkerState
<1>3. QueueType' /\ faults' \in 0..MaxFaults
  BY <1>2, TryEnqueueType DEF EnqueueRawCleanup, QueueType
<1> QED BY <1>1, <1>3, AckInv, WorkerFrame DEF QueueType, Ack

(***************************************************************************)
(* The two decisions.  Neither writes a tombstone: it fails MarkVideoReady's *)
(* guard and MarkVideoFailed's CHECK.                                       *)
(***************************************************************************)

(* MarkVideoReady writes only a PROCESSING row. *)
LEMMA MarkReadyStep ==
  ASSUME IInv, MarkReady
  PROVE  IInv'
<1> USE DEF IInv, TypeOK
<1> DEFINE row == MarkVideoReady(video[wv])
<1>1. /\ UNCHANGED <<raw, media, pending, scheduled, req, urls, puts, now>>
      /\ worker.pc = "t_ready"
  BY DEF MarkReady, store, queue, client
<1>2. faults' \in 0..MaxFaults
  BY WorksType, FailsType DEF MarkReady
<1>3. worker.task \in Task /\ wv \in Videos /\ video[wv] \in Row
  BY <1>1, TaskInHand
<1>4. CASE UNCHANGED video /\ \E next \in {"idle", "t_transient"} : CleanUpThen(next)
  <2>1. /\ worker' \in WorkerState /\ worker'.pc = "t_cleanup"
        /\ worker'.task = worker.task /\ worker'.slot = worker.slot
        /\ worker'.retry = worker.retry
    BY <1>4, CleanUpThenType
  <2>2. WorkerOK' /\ SnapshotCurrent'
    BY <1>1, <1>4, <2>1, TranscodeGoesOn DEF Undecided
  <2> QED BY <1>1, <1>2, <1>4, <2>1, <2>2, WorkerFrame
<1>5. CASE /\ Writes(wv, row)
           /\ \/ Continue("t_rawcleanup")
              \/ "ready_unknown" \in FaultKinds /\ CleanUpThen("t_transient")
  <2>1. /\ row \in Row /\ row.status = "READY"
        /\ row.slot = video[wv].slot /\ row.retry = video[wv].retry
    BY <1>3 DEF MarkVideoReady, Row, Statuses
  <2>2. video' = [video EXCEPT ![wv] = row] /\ Writes(wv, row)
    BY <1>5 DEF Writes
  <2> HIDE DEF row
  <2>3. /\ video' \in [Videos -> Row]
        /\ RowsOK' /\ RequestsOK' /\ LocksOK' /\ GraceOK' /\ OnePendingPerUser'
    BY <1>1, <1>3, <2>1, <2>2, WorkerWrite
  <2>4. /\ worker' \in WorkerState
        /\ \/ worker'.pc = "t_rawcleanup"
           \/ "ready_unknown" \in FaultKinds /\ worker'.pc = "t_cleanup"
        /\ worker'.task = worker.task /\ worker'.slot = worker.slot
        /\ worker'.retry = worker.retry
    BY <1>5, ContinueType, CleanUpThenType DEF WorkerPcs
  <2>5. wv' = wv /\ video'[wv] = row
    BY <1>3, <2>2, <2>4 DEF wv
  <2>6. WorkerOK'
    BY <1>3, <2>1, <2>4, <2>5 DEF WorkerOK
  <2>7. SnapshotCurrent'
    BY <1>1, <2>1, <2>4, <2>5 DEF SnapshotCurrent
  <2> QED BY <1>1, <1>2, <2>3, <2>4, <2>6, <2>7
<1> QED BY <1>4, <1>5 DEF MarkReady, Fails

(* MarkVideoFailed cannot overwrite a tombstone. *)
LEMMA MarkFailedStep ==
  ASSUME IInv, MarkFailed
  PROVE  IInv'
<1> USE DEF IInv, TypeOK
<1> DEFINE row == MarkVideoFailed(video[wv])
<1>1. /\ UNCHANGED <<raw, media, pending, scheduled, req, urls, puts, now>>
      /\ worker.pc = "t_fail" /\ Continue("t_rawcleanup")
  BY DEF MarkFailed, store, queue, client
<1>2. faults' \in 0..MaxFaults
  BY WorksType, FailsType DEF MarkFailed
<1>3. worker.task \in Task /\ wv \in Videos /\ video[wv] \in Row
  BY <1>1, TaskInHand
<1>4. /\ worker' \in WorkerState /\ worker'.pc = "t_rawcleanup"
      /\ worker'.task = worker.task /\ worker'.slot = worker.slot
      /\ worker'.retry = worker.retry /\ wv' = wv
  BY <1>1, ContinueType DEF WorkerPcs, wv
<1>5. CASE UNCHANGED video
  <2>1. WorkerOK' /\ SnapshotCurrent'
    BY <1>1, <1>3, <1>4, <1>5 DEF WorkerOK, SnapshotCurrent
  <2> QED BY <1>1, <1>2, <1>4, <1>5, <2>1, WorkerFrame
<1>6. CASE Writes(wv, row)
  <2>1. /\ row \in Row /\ row.status = "FAILED"
        /\ row.slot = video[wv].slot /\ row.retry = video[wv].retry
    BY <1>3 DEF MarkVideoFailed, Row, Statuses
  <2>2. video' = [video EXCEPT ![wv] = row] /\ Writes(wv, row)
    BY <1>6 DEF Writes
  <2> HIDE DEF row
  <2>3. /\ video' \in [Videos -> Row]
        /\ RowsOK' /\ RequestsOK' /\ LocksOK' /\ GraceOK' /\ OnePendingPerUser'
    BY <1>1, <1>3, <2>1, <2>2, WorkerWrite
  <2>4. video'[wv] = row
    BY <1>3, <2>2
  <2>5. WorkerOK' /\ SnapshotCurrent'
    BY <1>1, <1>3, <1>4, <2>1, <2>4 DEF WorkerOK, SnapshotCurrent
  <2> QED BY <1>1, <1>2, <1>4, <2>3, <2>5
<1> QED BY <1>5, <1>6 DEF MarkFailed

(***************************************************************************)
(* cleanup:objects and cleanup:video.                                      *)
(***************************************************************************)

(* cleanup:objects touches only the bucket. *)
LEMMA HandleCleanupObjectsStep ==
  ASSUME IInv, HandleCleanupObjects
  PROVE  IInv'
<1> USE DEF IInv, TypeOK
<1>1. /\ UNCHANGED <<video, req, urls, puts, now>> /\ worker.pc = "o_delete"
  BY DEF HandleCleanupObjects, client
<1>2. faults' \in 0..MaxFaults
  BY WorksType, FailsType DEF HandleCleanupObjects
<1>3. /\ raw' \in [Videos -> [Slots -> Contents \cup {"none"}]]
      /\ media' \in [Videos -> SUBSET Files]
  BY <1>1, TaskInHand, DeleteObjectsType DEF HandleCleanupObjects
<1>4. QueueType' /\ worker' \in WorkerState /\ WorkerOK' /\ SnapshotCurrent'
  BY <1>1, AckInv, NackInv DEF HandleCleanupObjects, Ack, QueueType, queue
<1> QED BY <1>1, <1>2, <1>3, <1>4, WorkerFrame DEF QueueType

(* HandleCleanupVideo goes on only past the grace. *)
LEMMA CleanupVideoLoadStep ==
  ASSUME IInv, CleanupVideoLoad
  PROVE  IInv'
<1> USE DEF IInv, TypeOK
<1>1. UNCHANGED <<video, raw, media, req, urls, puts, now>> /\ worker.pc = "v_load"
  BY DEF CleanupVideoLoad, store, client
<1>2. worker.task \in Task /\ wv \in Videos /\ video[wv] \in Row
  BY <1>1, TaskInHand
<1>3. CASE Ack
  <2>1. QueueType' /\ faults' \in 0..MaxFaults
    <3>1. CASE UNCHANGED queue /\ (Works \/ Fails("db"))
      BY <3>1, WorksType, FailsType DEF QueueType, queue
    <3>2. CASE /\ InGrace(wv)
               /\ TryEnqueueWithDelay(CleanupVideoTask(wv), video[wv].deletedAt + Grace - now)
      <4>1. video[wv].deletedAt \in Nat
        BY <1>2, <3>2 DEF InGrace, RowsOK, ChecksPass, Row
      <4>2. video[wv].deletedAt + Grace - now \in Nat
        BY <3>2, <4>1 DEF InGrace
      <4> QED BY <1>2, <3>2, <4>2, TaskTypes, TryEnqueueWithDelayType DEF QueueType
    <3>3. CASE Works /\ UNCHANGED queue
      BY <3>3, <3>1
    <3> QED BY <3>1, <3>2, <3>3 DEF CleanupVideoLoad
  <2> QED BY <1>1, <1>3, <2>1, AckInv, WorkerFrame DEF Ack, QueueType
<1>4. CASE /\ Works /\ video[wv].status = "DELETED" /\ ~InGrace(wv)
           /\ worker' = [worker EXCEPT !.pc = IF video[wv].media THEN "v_prefix" ELSE "v_objects",
                                       !.slot = video[wv].slot,
                                       !.keys = IF video[wv].media THEN {Thumb} ELSE {}]
           /\ UNCHANGED queue
  <2>1. {Thumb} \in SUBSET Files /\ {} \in SUBSET Files
    BY DEF Thumb, Files, Master
  <2>2. /\ worker' \in WorkerState /\ worker'.task = worker.task
        /\ worker'.pc = IF video[wv].media THEN "v_prefix" ELSE "v_objects"
        /\ worker'.slot = video[wv].slot
        /\ worker'.keys = IF video[wv].media THEN {Thumb} ELSE {}
    BY <1>2, <1>4, <2>1 DEF WorkerState, WorkerPcs, Row
  <2>3. wv' = wv
    BY <2>2 DEF wv
  <2>4. now >= video[wv].deletedAt + Grace
    <3>1. video[wv].deletedAt \in Nat /\ now \in Nat
      BY <1>2, <1>4 DEF RowsOK, ChecksPass, Row
    <3> HIDE DEF IInv, TypeOK
    <3> QED BY <1>4, <3>1 DEF InGrace
  <2>5. WorkerOK'
    BY <1>1, <1>2, <1>4, <2>2, <2>3, <2>4 DEF WorkerOK
  <2>6. SnapshotCurrent'
    BY <2>2 DEF SnapshotCurrent
  <2> QED BY <1>1, <1>4, <2>2, <2>5, <2>6, WorkerFrame, WorksType DEF queue
<1> QED BY <1>3, <1>4 DEF CleanupVideoLoad

(* What HandleCleanupVideo knows after its load stays true while it deletes:
   nobody else writes the row or its keys. *)
LEMMA CleanupVideoPrefixStep ==
  ASSUME IInv, CleanupVideoPrefix
  PROVE  IInv'
<1> USE DEF IInv, TypeOK
<1>1. UNCHANGED <<video, req, urls, puts, now>> /\ worker.pc = "v_prefix"
  BY DEF CleanupVideoPrefix, client
<1>2. faults' \in 0..MaxFaults
  BY WorksType, FailsType DEF CleanupVideoPrefix
<1>3. worker.task \in Task /\ wv \in Videos
  BY <1>1, TaskInHand
<1>4. /\ raw' \in [Videos -> [Slots -> Contents \cup {"none"}]]
      /\ media' \in [Videos -> SUBSET Files]
  BY <1>3, DeleteObjectsType DEF CleanupVideoPrefix
<1>5. CASE Nack
  BY <1>1, <1>2, <1>4, <1>5, NackInv, WorkerFrame DEF QueueType
<1>6. CASE DeleteObjects(wv, {}, Files \ {Thumb}) /\ Continue("v_objects") /\ UNCHANGED queue
  <2>1. /\ worker' \in WorkerState /\ worker'.pc = "v_objects"
        /\ worker'.task = worker.task /\ worker'.slot = worker.slot
        /\ worker'.keys = worker.keys /\ wv' = wv
    BY <1>6, ContinueType DEF WorkerPcs, wv
  <2>2. media'[wv] \subseteq {Thumb}
    BY <1>3, <1>6 DEF DeleteObjects
  <2>3. WorkerOK'
    BY <1>1, <1>3, <2>1, <2>2 DEF WorkerOK
  <2>4. SnapshotCurrent'
    BY <2>1 DEF SnapshotCurrent
  <2> QED BY <1>1, <1>2, <1>4, <1>6, <2>1, <2>3, <2>4, WorkerFrame DEF queue
<1> QED BY <1>5, <1>6 DEF CleanupVideoPrefix

(* After DeleteObjects nothing the row points to is left. *)
LEMMA CleanupVideoObjectsStep ==
  ASSUME IInv, CleanupVideoObjects
  PROVE  IInv'
<1> USE DEF IInv, TypeOK
<1>1. UNCHANGED <<video, req, urls, puts, now>> /\ worker.pc = "v_objects"
  BY DEF CleanupVideoObjects, client
<1>2. faults' \in 0..MaxFaults
  BY WorksType, FailsType DEF CleanupVideoObjects
<1>3. worker.task \in Task /\ wv \in Videos /\ worker.slot \in Slots
  BY <1>1, TaskInHand DEF WorkerState
<1>4. /\ raw' \in [Videos -> [Slots -> Contents \cup {"none"}]]
      /\ media' \in [Videos -> SUBSET Files]
  BY <1>3, DeleteObjectsType DEF CleanupVideoObjects
<1>5. CASE Nack
  BY <1>1, <1>2, <1>4, <1>5, NackInv, WorkerFrame DEF QueueType
<1>6. CASE DeleteObjects(wv, {worker.slot}, worker.keys) /\ Continue("v_row") /\ UNCHANGED queue
  <2>1. /\ worker' \in WorkerState /\ worker'.pc = "v_row"
        /\ worker'.task = worker.task /\ worker'.slot = worker.slot
        /\ worker'.keys = worker.keys /\ wv' = wv
    BY <1>6, ContinueType DEF WorkerPcs, wv
  <2>2. raw'[wv][worker.slot] = "none"
    BY <1>3, <1>6 DEF DeleteObjects
  <2>3. video[wv].media => media'[wv] = {}
    BY <1>1, <1>3, <1>6 DEF DeleteObjects, WorkerOK
  <2>4. WorkerOK'
    BY <1>1, <1>3, <2>1, <2>2, <2>3 DEF WorkerOK
  <2>5. SnapshotCurrent'
    BY <2>1 DEF SnapshotCurrent
  <2> QED BY <1>1, <1>2, <1>4, <1>6, <2>1, <2>4, <2>5, WorkerFrame DEF queue
<1> QED BY <1>5, <1>6 DEF CleanupVideoObjects

(* The row is removed last. *)
LEMMA CleanupVideoRowStep ==
  ASSUME IInv, CleanupVideoRow
  PROVE  IInv'
<1> USE DEF IInv, TypeOK
<1> DEFINE row == DeleteVideoRow(video[wv])
<1>1. UNCHANGED <<raw, media, req, urls, puts, now>> /\ worker.pc = "v_row"
  BY DEF CleanupVideoRow, store, client
<1>2. faults' \in 0..MaxFaults
  BY WorksType, FailsType DEF CleanupVideoRow
<1>3. wv \in Videos /\ video[wv] \in Row /\ video[wv].status = "DELETED"
  BY <1>1, TaskInHand DEF WorkerOK
<1>4. CASE Nack /\ UNCHANGED video
  BY <1>1, <1>2, <1>4, NackInv, WorkerFrame DEF QueueType
<1>5. CASE Writes(wv, row) /\ Ack /\ UNCHANGED queue
  <2>1. row \in Row /\ row.status = "GONE"
    BY <1>3 DEF DeleteVideoRow, Row, NoRow, NULL
  <2>2. Writes(wv, row)
    BY <1>5
  <2> HIDE DEF row
  <2>3. /\ video' \in [Videos -> Row]
        /\ RowsOK' /\ RequestsOK' /\ LocksOK' /\ GraceOK' /\ OnePendingPerUser'
    BY <1>1, <1>3, <2>1, <2>2, WorkerWrite
  <2> QED BY <1>1, <1>2, <1>5, <2>3, AckInv DEF Ack, queue
<1> QED BY <1>3, <1>4, <1>5 DEF CleanupVideoRow, Exists, Statuses

(***************************************************************************)
(* Every step preserves the invariant.                                     *)
(***************************************************************************)

(* One case per action. *)
LEMMA NextIInv ==
  ASSUME IInv, [Next]_vars
  PROVE  IInv'
<1>1. CASE UNCHANGED vars
  <2>1. TypeOK'
    BY <1>1 DEF vars, IInv, TypeOK
  <2>2. WorkerOK' /\ SnapshotCurrent'
    BY <1>1, WorkerStutter DEF vars, IInv
  <2> QED BY <1>1, <2>1, <2>2, WorkerFrame DEF vars
<1>2. CASE \E r \in Reqs : StartRequest(r) \/ ServeRequest(r) \/ ApiCrash(r)
  <2> PICK r \in Reqs : StartRequest(r) \/ ServeRequest(r) \/ ApiCrash(r)
    BY <1>2
  <2>1. CASE StartRequest(r)
    BY <2>1, IntentGetPendingStep, ConfirmLockStep, DeleteReadStep DEF StartRequest
  <2>2. CASE ServeRequest(r)
    BY <2>2, IntentInsertStep, IntentRotateStep, IntentMetadataStep, IntentPresignStep,
       ConfirmHeadStep, ConfirmEnqueueStep, ConfirmCommitStep, DeleteMarkStep,
       DeleteEnqueueStep DEF ServeRequest
  <2>3. CASE ApiCrash(r)
    BY <2>3, ApiCrashStep
  <2> QED BY <2>1, <2>2, <2>3
<1>3. CASE \E v \in Videos, s \in Slots, c \in Contents : ClientPut(v, s, c)
  BY <1>3, ClientPutStep
<1>4. CASE Tick \/ Forward
  BY <1>4, TickStep, ForwardStep
<1>5. CASE Deliver \/ WorkerCrash
  BY <1>5, DeliverStep, WorkerCrashStep
<1>6. CASE Transcode
  BY <1>6, LoadVideoStep, IncrementRetryStep, DownloadRawStep, ProbeAndValidateStep,
     UploadNextStep, RecheckStatusStep, MarkReadyStep, CleanupOnFailureStep,
     HandleTransientStep, MarkFailedStep, EnqueueRawCleanupStep DEF Transcode
<1>7. CASE HandleCleanupObjects
  BY <1>7, HandleCleanupObjectsStep
<1>8. CASE CleanupVideo
  BY <1>8, CleanupVideoLoadStep, CleanupVideoPrefixStep, CleanupVideoObjectsStep,
     CleanupVideoRowStep DEF CleanupVideo
<1> QED BY <1>1, <1>2, <1>3, <1>4, <1>5, <1>6, <1>7, <1>8 DEF Next, WorkerStep

(* IInv holds in every reachable state of the handlers, the queue and the worker,
   whatever fails. *)
THEOREM Invariance == Spec => []IInv
<1>1. IInv /\ [Next]_vars => IInv'
  BY NextIInv
<1> QED BY <1>1, InitIInv, PTL DEF Spec

(* The handlers and the worker keep every variable in its type; in particular
   no retry or failure count leaves its range. *)
THEOREM TypeCorrect == Spec => []TypeOK
<1>1. IInv => TypeOK
  BY DEF IInv
<1> QED BY <1>1, Invariance, PTL

(* The r2_key and retry_count HandleTranscode remembers are those of the row
   whenever it uses them. *)
THEOREM SnapshotIsCurrent == Spec => []SnapshotCurrent
<1>1. IInv => SnapshotCurrent
  BY DEF IInv
<1> QED BY <1>1, Invariance, PTL

(* Concurrent calls of UploadIntent never leave a user two PENDING_UPLOAD rows. *)
THEOREM AtMostOnePending == Spec => []OnePendingPerUser
<1>1. IInv => OnePendingPerUser
  BY DEF IInv
<1> QED BY <1>1, Invariance, PTL

(***************************************************************************)
(* Which steps write a row, and how they move its status.                  *)
(***************************************************************************)

Moves == {<<"NONE", "PENDING_UPLOAD">>, <<"PENDING_UPLOAD", "PROCESSING">>,
          <<"PROCESSING", "READY">>, <<"PROCESSING", "FAILED">>,
          <<"PENDING_UPLOAD", "DELETED">>, <<"PROCESSING", "DELETED">>,
          <<"READY", "DELETED">>, <<"FAILED", "DELETED">>, <<"DELETED", "GONE">>}

LateMoves == IF "ready_unknown" \in FaultKinds THEN {<<"READY", "FAILED">>} ELSE {}

(* Row v becomes row.  Only the last step of HandleCleanupVideo removes a row,
   only the two decisions of HandleTranscode publish and fail one, and only the
   end of ConfirmUpload makes one PROCESSING.  No statement takes a row's media
   keys back, and only UploadIntent, on a pending row, changes its key. *)
RowStep(v, row) ==
    /\ video' = [video EXCEPT ![v] = row]
    /\ \/ row.status = video[v].status
       \/ <<video[v].status, row.status>> \in Moves \cup LateMoves
    /\ row.status = "GONE" => worker.pc = "v_row" /\ wv = v
    /\ row.status = "READY" /\ video[v].status # "READY" => worker.pc = "t_ready" /\ wv = v
    /\ row.status = "FAILED" /\ video[v].status # "FAILED" => worker.pc = "t_fail" /\ wv = v
    /\ row.status # "NONE"
    /\ Exists(video[v]) /\ video[v].media => row.media
    /\ \/ row.slot = video[v].slot
       \/ video[v].status = "PENDING_UPLOAD" /\ row.slot = "canonical"
       \/ video[v].status = "NONE"
    /\ row.status = "PROCESSING" /\ video[v].status # "PROCESSING" =>
          /\ row.slot = video[v].slot
          /\ \E r \in Reqs : req[r].pc = "c_commit" /\ req[r].video = v

(* How the handlers of the api-gateway move a row. *)
LEMMA ApiWrites ==
  ASSUME NEW r \in Reqs, IInv, ServeRequest(r)
  PROVE  UNCHANGED video \/ \E v \in Videos, row \in Row : RowStep(v, row)
<1> USE DEF IInv, TypeOK
<1> DEFINE w == req[r].video
<1>1. CASE IntentInsert(r)
  <2>1. CASE UNCHANGED video
    BY <2>1
  <2>2. CASE \E v \in Videos : /\ video[v].status = "NONE"
                               /\ video' = [video EXCEPT ![v] = InsertVideo(req[r].user)]
    <3> PICK v \in Videos : /\ video[v].status = "NONE"
                            /\ video' = [video EXCEPT ![v] = InsertVideo(req[r].user)]
      BY <2>2
    <3> DEFINE row == InsertVideo(req[r].user)
    <3>1. EmptyRow \in Row
      BY DEF EmptyRow, Row, Slots, Statuses, NoRow, NULL
    <3>2. req[r].user \in Users
      BY <1>1 DEF IntentInsert, RequestsOK
    <3>3. row \in Row /\ row.status = "PENDING_UPLOAD"
      BY <3>1, <3>2 DEF InsertVideo, Row, Statuses
    <3>4. RowStep(v, row)
      <4> HIDE DEF row
      <4> QED BY <3>3 DEF RowStep, Moves, Exists, Statuses, row
    <3> QED BY <3>3, <3>4
  <2> QED BY <1>1, <2>1, <2>2 DEF IntentInsert
<1>2. CASE IntentRotate(r)
  <2> DEFINE row == UpdatePendingVideoR2Key(video[w], "canonical")
  <2>1. CASE UNCHANGED video
    BY <2>1
  <2>2. CASE Writes(w, row) /\ PendingWhere(video[w])
    <3>1. w \in Videos /\ video[w] \in Row
      BY <1>2 DEF IntentRotate, RequestsOK, Request
    <3>2. /\ row \in Row /\ row.status = video[w].status
          /\ row.slot = "canonical" /\ row.media = video[w].media
      BY <2>2, <3>1 DEF UpdatePendingVideoR2Key, Row, Slots
    <3>3. RowStep(w, row)
      BY <2>2, <3>2 DEF RowStep, Writes, PendingWhere
    <3> QED BY <3>1, <3>2, <3>3
  <2> QED BY <1>2, <2>1, <2>2 DEF IntentRotate
<1>3. CASE ConfirmCommit(r)
  <2> DEFINE row == ConfirmVideoProcessing(video[w])
  <2>1. CASE UNCHANGED video
    BY <2>1
  <2>2. CASE video' = [video EXCEPT ![w] = row]
    <3>1. w \in Videos /\ video[w] \in Row /\ video[w].status = "PENDING_UPLOAD"
      BY <1>3 DEF ConfirmCommit, RequestsOK, Request, LocksOK, LockPcs, ConfirmVideoProcessingWhere
    <3>2. /\ row \in Row /\ row.status = "PROCESSING"
          /\ row.slot = video[w].slot /\ row.media = video[w].media
      BY <3>1 DEF ConfirmVideoProcessing, Row, Statuses
    <3>3. req[r].pc = "c_commit"
      BY <1>3 DEF ConfirmCommit
    <3>4. RowStep(w, row)
      <4> HIDE DEF row
      <4> QED BY <2>2, <3>1, <3>2, <3>3 DEF RowStep, Moves
    <3> QED BY <3>1, <3>2, <3>4
  <2> QED BY <1>3, <2>1, <2>2 DEF ConfirmCommit
<1>4. CASE DeleteMark(r)
  <2> DEFINE row == MarkVideoDeleted(video[w], now)
  <2>1. CASE UNCHANGED video
    BY <2>1
  <2>2. CASE Writes(w, row) /\ MarkVideoDeletedWhere(video[w], req[r].user)
    <3>1. w \in Videos /\ video[w] \in Row /\ video[w].status \in Statuses
      BY <1>4, <2>2 DEF DeleteMark, RequestsOK, Request, MarkVideoDeletedWhere, Exists
    <3>2. /\ row \in Row /\ row.status = "DELETED"
          /\ row.slot = video[w].slot /\ row.media = video[w].media
      BY <3>1 DEF MarkVideoDeleted, Row, Statuses
    <3>3. RowStep(w, row)
      BY <2>2, <3>1, <3>2 DEF RowStep, Moves, Writes, Statuses
    <3> QED BY <3>1, <3>2, <3>3
  <2> QED BY <1>4, <2>1, <2>2 DEF DeleteMark
<1>5. CASE \/ IntentMetadata(r) \/ IntentPresign(r) \/ ConfirmHead(r)
           \/ ConfirmEnqueue(r) \/ DeleteEnqueue(r)
  BY <1>5 DEF IntentMetadata, IntentPresign, ConfirmHead, ConfirmEnqueue, DeleteEnqueue
<1> QED BY <1>1, <1>2, <1>3, <1>4, <1>5 DEF ServeRequest

(* How the worker moves a row. *)
LEMMA WorkerWrites ==
  ASSUME IInv, IncrementRetry \/ MarkReady \/ MarkFailed \/ CleanupVideoRow
  PROVE  UNCHANGED video \/ \E v \in Videos, row \in Row : RowStep(v, row)
<1> USE DEF IInv, TypeOK
<1>1. wv \in Videos /\ video[wv] \in Row
  BY TaskInHand DEF IncrementRetry, MarkReady, MarkFailed, CleanupVideoRow
<1>2. CASE IncrementRetry
  <2> DEFINE row == IncrementVideoRetry(video[wv])
  <2>1. CASE UNCHANGED video
    BY <2>1
  <2>2. CASE Writes(wv, row) /\ IncrementVideoRetryWhere(video[wv])
    <3>1. /\ row \in Row /\ row.status = video[wv].status
          /\ row.slot = video[wv].slot /\ row.media = video[wv].media
      BY <1>1, IncrementVideoRetryType
    <3>2. row.status \in {"PROCESSING", "PENDING_UPLOAD"}
      BY <2>2, <3>1 DEF IncrementVideoRetryWhere
    <3>3. video' = [video EXCEPT ![wv] = row]
      BY <2>2 DEF Writes
    <3>4. RowStep(wv, row)
      <4> HIDE DEF row
      <4> QED BY <3>1, <3>2, <3>3 DEF RowStep
    <3> QED BY <1>1, <3>1, <3>4
  <2> QED BY <1>2, <2>1, <2>2 DEF IncrementRetry
<1>3. CASE MarkReady
  <2> DEFINE row == MarkVideoReady(video[wv])
  <2>1. CASE UNCHANGED video
    BY <2>1
  <2>2. CASE Writes(wv, row) /\ MarkVideoReadyWhere(video[wv])
    <3>1. /\ row \in Row /\ row.status = "READY"
          /\ row.slot = video[wv].slot /\ row.media
      BY <1>1 DEF MarkVideoReady, Row, Statuses
    <3>2. RowStep(wv, row)
      BY <1>3, <2>2, <3>1 DEF RowStep, Writes, MarkVideoReadyWhere, Moves, MarkReady
    <3> QED BY <1>1, <3>1, <3>2
  <2> QED BY <1>3, <2>1, <2>2 DEF MarkReady
<1>4. CASE MarkFailed
  <2> DEFINE row == MarkVideoFailed(video[wv])
  <2>1. CASE UNCHANGED video
    BY <2>1
  <2>2. CASE Writes(wv, row) /\ MarkVideoFailedWhere(video[wv])
    <3>1. /\ row \in Row /\ row.status = "FAILED"
          /\ row.deletedAt = video[wv].deletedAt
          /\ row.slot = video[wv].slot /\ row.media = video[wv].media
      BY <1>1 DEF MarkVideoFailed, Row, Statuses
    <3>2. video[wv].status \in GivenUp \ {"GONE"}
      BY <1>4, <2>2 DEF MarkFailed, WorkerOK, MarkVideoFailedWhere, Exists, Statuses
    <3>3. video[wv].status # "DELETED"
      BY <1>1, <2>2, <3>1 DEF Writes, RowsOK, ChecksPass
    <3>4. <<video[wv].status, row.status>> \in Moves \cup LateMoves
      BY <3>1, <3>2, <3>3 DEF Moves, LateMoves
    <3>5. RowStep(wv, row)
      BY <1>4, <2>2, <3>1, <3>4 DEF RowStep, Writes, MarkFailed
    <3> QED BY <1>1, <3>1, <3>5
  <2> QED BY <1>4, <2>1, <2>2 DEF MarkFailed
<1>5. CASE CleanupVideoRow
  <2> DEFINE row == DeleteVideoRow(video[wv])
  <2>1. CASE UNCHANGED video
    BY <2>1
  <2>2. CASE Writes(wv, row)
    <3>1. worker.pc = "v_row" /\ video[wv].status = "DELETED"
      BY <1>5 DEF CleanupVideoRow, WorkerOK
    <3>2. /\ row \in Row /\ row.status = "GONE"
          /\ row.slot = video[wv].slot /\ row.media = video[wv].media
      BY <1>1 DEF DeleteVideoRow, Row, NoRow, NULL
    <3>3. RowStep(wv, row)
      BY <2>2, <3>1, <3>2 DEF RowStep, Writes, Moves
    <3> QED BY <1>1, <3>2, <3>3
  <2>3. worker.pc = "v_row" /\ Exists(video[wv])
    BY <1>5 DEF CleanupVideoRow, WorkerOK, Exists, Statuses
  <2> QED BY <1>5, <2>1, <2>2, <2>3 DEF CleanupVideoRow
<1> QED BY <1>2, <1>3, <1>4, <1>5

(* Every step writes at most one row, along the lifecycle. *)
LEMMA RowWrites ==
  ASSUME IInv, [Next]_vars
  PROVE  UNCHANGED video \/ \E v \in Videos, row \in Row : RowStep(v, row)
<1>1. CASE \E r \in Reqs : ServeRequest(r)
  BY <1>1, ApiWrites
<1>2. CASE IncrementRetry \/ MarkReady \/ MarkFailed \/ CleanupVideoRow
  BY <1>2, WorkerWrites
<1>3. CASE \E r \in Reqs : StartRequest(r) \/ ApiCrash(r)
  BY <1>3 DEF StartRequest, ApiCrash, IntentGetPending, ConfirmLock, DeleteRead
<1>4. CASE \/ \E v \in Videos, s \in Slots, c \in Contents : ClientPut(v, s, c)
           \/ Tick \/ Forward \/ Deliver \/ WorkerCrash \/ UNCHANGED vars
  BY <1>4 DEF ClientPut, Tick, Forward, Deliver, WorkerCrash, vars
<1>5. CASE \/ LoadVideo \/ DownloadRaw \/ ProbeAndValidate \/ UploadNext \/ RecheckStatus
           \/ CleanupOnFailure \/ HandleTransient \/ EnqueueRawCleanup
  BY <1>5 DEF LoadVideo, DownloadRaw, ProbeAndValidate, UploadNext, RecheckStatus,
              CleanupOnFailure, HandleTransient, EnqueueRawCleanup
<1>6. CASE \/ HandleCleanupObjects \/ CleanupVideoLoad \/ CleanupVideoPrefix
           \/ CleanupVideoObjects
  BY <1>6 DEF HandleCleanupObjects, CleanupVideoLoad, CleanupVideoPrefix, CleanupVideoObjects
<1> QED BY <1>1, <1>2, <1>3, <1>4, <1>5, <1>6 DEF Next, WorkerStep, Transcode, CleanupVideo

(* A row that is removed was the one HandleCleanupVideo had finished with. *)
LEMMA RemovedByCleanup ==
  ASSUME IInv, [Next]_vars, NEW v \in Videos,
         video[v].status = "DELETED", video'[v].status = "GONE"
  PROVE  worker.pc = "v_row" /\ wv = v
<1>1. PICK w \in Videos, row \in Row : RowStep(w, row)
  BY RowWrites
<1>2. w = v /\ row.status = "GONE"
  BY <1>1 DEF RowStep, IInv, TypeOK
<1> QED BY <1>1, <1>2 DEF RowStep

(* HandleCleanupVideo removes no row within its grace, although DeleteVideo may
   refresh deleted_at after the cleanup was scheduled. *)
THEOREM GraceIsHonoured == Spec => GraceHonoured
<1> DEFINE P == \A v \in Videos :
                  video[v].status = "DELETED" /\ video'[v].status = "GONE"
                     => now >= video[v].deletedAt + Grace
<1>1. IInv /\ [Next]_vars => [P]_vars
  BY RemovedByCleanup DEF IInv, WorkerOK
<1> QED BY <1>1, Invariance, PTL DEF Spec, GraceHonoured

(* When HandleCleanupVideo removes a row, neither its raw upload nor its
   published files are left in the bucket. *)
THEOREM PurgeIsComplete == Spec => PurgeLeavesNothing
<1> DEFINE P == \A v \in Videos :
                  video[v].status = "DELETED" /\ video'[v].status = "GONE" =>
                     /\ raw[v][video[v].slot] = "none"
                     /\ video[v].media => media[v] = {}
<1>1. IInv /\ [Next]_vars => [P]_vars
  BY RemovedByCleanup DEF IInv, WorkerOK
<1> QED BY <1>1, Invariance, PTL DEF Spec, PurgeLeavesNothing

(* The pipeline implements VideoLifecycle when the answer of MarkVideoReady is
   never lost; with "ready_unknown" a READY row may become FAILED. *)
THEOREM ImplementsLifecycle ==
  ASSUME "ready_unknown" \notin FaultKinds
  PROVE  Spec => FollowsLifecycle
<1> DEFINE status == [v \in Videos |-> video[v].status]
<1>1. Init => Lifecycle!Init
  BY DEF Init, Lifecycle!Init, EmptyRow
<1>2. IInv /\ [Next]_vars => [Lifecycle!Next]_status
  <2> SUFFICES ASSUME IInv, [Next]_vars, status' # status
               PROVE  Lifecycle!Next
    OBVIOUS
  <2>1. PICK v \in Videos, row \in Row : RowStep(v, row)
    BY RowWrites
  <2>2. video' = [video EXCEPT ![v] = row] /\ video \in [Videos -> Row]
    BY <2>1 DEF RowStep, IInv, TypeOK
  <2>3. status' = [status EXCEPT ![v] = row.status]
    BY <2>2
  <2>4. status[v] = video[v].status /\ row.status # status[v]
    BY <2>2, <2>3
  <2>5. <<status[v], row.status>> \in Moves
    BY <2>1, <2>4 DEF RowStep, LateMoves
  <2> HIDE DEF status
  <2>6. \/ Lifecycle!Create(v) \/ Lifecycle!Confirm(v) \/ Lifecycle!Publish(v)
        \/ Lifecycle!Reject(v) \/ Lifecycle!Tombstone(v) \/ Lifecycle!Purge(v)
    BY <2>3, <2>5 DEF Moves, status, Lifecycle!Create, Lifecycle!Confirm,
       Lifecycle!Publish, Lifecycle!Reject, Lifecycle!Tombstone, Lifecycle!Purge,
       Lifecycle!Move
  <2> QED BY <2>6 DEF Lifecycle!Next
<1> QED BY <1>1, <1>2, Invariance, PTL DEF Spec, FollowsLifecycle, Lifecycle!Spec

(***************************************************************************)
(* Why a video is FAILED.                                                  *)
(***************************************************************************)

(* HandleTranscode probes what it has downloaded, and gives a video up for what
   the probe found or because the attempts of its budget are spent. *)
CauseKnown ==
    /\ worker.pc = "t_probe" => worker.content \in Contents
    /\ worker.pc = "t_fail" =>
          worker.content \in {"corrupt", "badsize"} \/ worker.retry = MaxRetries

(* Which steps move the worker other than to finish its task. *)
LEMMA WorkerMoves ==
  ASSUME [Next]_vars, worker' # worker, worker' # IdleWorker
  PROVE  Deliver \/ Transcode \/ CleanupVideo
<1>1. CASE \E r \in Reqs : StartRequest(r) \/ ServeRequest(r) \/ ApiCrash(r)
  BY <1>1 DEF StartRequest, IntentGetPending, ConfirmLock, DeleteRead, ServeRequest,
     IntentInsert, IntentRotate, IntentMetadata, IntentPresign, ConfirmHead,
     ConfirmEnqueue, ConfirmCommit, DeleteMark, DeleteEnqueue, ApiCrash
<1>2. CASE \/ \E v \in Videos, s \in Slots, c \in Contents : ClientPut(v, s, c)
           \/ Tick \/ Forward \/ UNCHANGED vars
  BY <1>2 DEF ClientPut, Tick, Forward, vars
<1>3. CASE WorkerCrash \/ HandleCleanupObjects
  BY <1>3 DEF WorkerCrash, HandleCleanupObjects, Ack, Nack
<1> QED BY <1>1, <1>2, <1>3 DEF Next, WorkerStep

(* asynq's mux hands a task to the handler of its type. *)
LEMMA DeliverMoves ==
  ASSUME IInv, Deliver
  PROVE  /\ worker.pc = "idle" /\ pending # <<>> /\ Head(pending) \in Task
         /\ pending' = Tail(pending)
         /\ worker'.task = Head(pending) /\ worker'.file = 1
         /\ \/ worker'.pc = "t_load" /\ worker'.task.kind = "transcode"
            \/ worker'.pc = "o_delete" /\ worker'.task.kind = "objects"
            \/ worker'.pc = "v_load" /\ worker'.task.kind = "video"
<1> DEFINE task == Head(pending)
           start == [transcode |-> "t_load", objects |-> "o_delete", video |-> "v_load"]
           pc == start[task.kind]
<1>1. worker.pc = "idle" /\ pending # <<>> /\ pending' = Tail(pending)
  BY DEF Deliver
<1>2. task \in Task
  BY <1>1 DEF IInv, TypeOK
<1>3. \/ pc = "t_load" /\ task.kind = "transcode"
      \/ pc = "o_delete" /\ task.kind = "objects"
      \/ pc = "v_load" /\ task.kind = "video"
  BY <1>2 DEF Task
<1>4. worker' = [IdleWorker EXCEPT !.pc = pc, !.task = task]
  BY DEF Deliver
<1> HIDE DEF task, pc
<1>5. worker'.task = task /\ worker'.pc = pc /\ worker'.file = 1
  BY <1>4 DEF IdleWorker
<1> QED BY <1>1, <1>2, <1>3, <1>5 DEF task

(* Every path of HandleTranscode to markFailedDetached has one of the causes. *)
LEMMA CauseStep ==
  ASSUME IInv, CauseKnown, [Next]_vars, "probe_killed" \notin FaultKinds
  PROVE  CauseKnown'
<1> USE DEF IInv, TypeOK
<1>1. CASE UNCHANGED worker \/ worker' = IdleWorker
  BY <1>1 DEF CauseKnown, IdleWorker
<1>2. CASE Deliver
  BY <1>2, DeliverMoves DEF CauseKnown
<1>3. CASE LoadVideo /\ worker' # IdleWorker
  <2>1. CASE Continue("t_increment")
    BY <2>1 DEF Continue, CauseKnown, WorkerState
  <2>2. CASE /\ video[wv].retry >= MaxRetries
             /\ worker' = [worker EXCEPT !.pc = "t_fail", !.slot = video[wv].slot,
                                         !.retry = video[wv].retry]
    <3>1. video[wv].retry \in Nat /\ video[wv].retry <= MaxRetries
      BY <1>3, TaskInHand DEF LoadVideo, RowsOK, ChecksPass, Row
    <3>2. worker'.pc = "t_fail" /\ worker'.retry = video[wv].retry
      BY <2>2 DEF WorkerState
    <3> QED BY <2>2, <3>1, <3>2 DEF CauseKnown
  <2> QED BY <1>3, <2>1, <2>2 DEF LoadVideo, Ack
<1>4. CASE IncrementRetry /\ worker' # IdleWorker
  <2>1. worker'.pc = "t_download"
    BY <1>4 DEF IncrementRetry, Ack, WorkerState
  <2> QED BY <2>1 DEF CauseKnown
<1>5. CASE DownloadRaw
  <2>1. raw[wv][worker.slot] \in Contents \cup {"none"}
    BY <1>5, TaskInHand DEF DownloadRaw, WorkerState
  <2>2. \/ worker'.pc = "t_transient"
        \/ worker'.pc = "t_probe" /\ worker'.content = raw[wv][worker.slot]
                                  /\ worker'.content # "none"
    BY <1>5 DEF DownloadRaw, Continue, WorkerState
  <2> QED BY <2>1, <2>2 DEF CauseKnown
<1>6. CASE ProbeAndValidate
  <2>1. \/ worker'.pc \in {"t_upload", "t_transient"}
        \/ /\ worker'.pc = "t_fail" /\ worker'.content = worker.content
           /\ worker.content # "good"
    BY <1>6 DEF ProbeAndValidate, Continue, WorkerState, Fails
  <2>2. worker.content \in Contents
    BY <1>6 DEF ProbeAndValidate, CauseKnown
  <2> QED BY <2>1, <2>2 DEF CauseKnown
<1>7. CASE HandleTransient /\ worker' # IdleWorker
  <2>1. worker.retry >= MaxRetries /\ Continue("t_fail")
    BY <1>7 DEF HandleTransient, Ack
  <2>2. worker.retry \in Nat /\ worker.retry <= MaxRetries
    BY <1>7 DEF HandleTransient, SnapshotCurrent, WorkerState
  <2>3. worker'.pc = "t_fail" /\ worker'.retry = worker.retry
    BY <2>1, ContinueType DEF WorkerPcs
  <2> QED BY <2>1, <2>2, <2>3 DEF CauseKnown
<1>8. CASE /\ UploadNext \/ RecheckStatus \/ MarkReady \/ CleanupOnFailure \/ MarkFailed
           /\ worker' # IdleWorker
  <2>1. worker'.pc \in {"t_upload", "t_recheck", "t_ready", "t_cleanup", "t_transient",
                        "t_rawcleanup"}
    BY <1>8 DEF UploadNext, RecheckStatus, MarkReady, CleanupOnFailure, MarkFailed,
                CleanUpThen, Continue, Ack, WorkerState
  <2> QED BY <2>1 DEF CauseKnown
<1>9. CASE CleanupVideo /\ worker' # IdleWorker
  <2>1. worker'.pc \in {"v_prefix", "v_objects", "v_row"}
    BY <1>9 DEF CleanupVideo, CleanupVideoLoad, CleanupVideoPrefix, CleanupVideoObjects,
                CleanupVideoRow, Continue, Ack, Nack, WorkerState
  <2> QED BY <2>1 DEF CauseKnown
<1>10. CASE EnqueueRawCleanup
  BY <1>1, <1>10 DEF EnqueueRawCleanup, Ack
<1> QED BY <1>1, <1>2, <1>3, <1>4, <1>5, <1>6, <1>7, <1>8, <1>9, <1>10, WorkerMoves DEF Transcode

(* A video is FAILED only for a source ffprobe rejects or after MaxRetries
   attempts, provided no ffprobe is killed while it runs: ProbeFile takes that
   for invalid media. *)
THEOREM FailsForCause ==
  ASSUME "probe_killed" \notin FaultKinds
  PROVE  Spec => FailedForCause
<1> DEFINE P == \A v \in Videos :
                  video[v].status # "FAILED" /\ video'[v].status = "FAILED"
                     => worker.content \in {"corrupt", "badsize"} \/ video[v].retry = MaxRetries
<1>1. Init => CauseKnown
  BY DEF Init, CauseKnown, IdleWorker
<1>2. IInv /\ CauseKnown /\ [Next]_vars => CauseKnown'
  BY CauseStep
<1>3. IInv /\ CauseKnown /\ [Next]_vars => [P]_vars
  <2> SUFFICES ASSUME IInv, CauseKnown, [Next]_vars, NEW v \in Videos,
                      video[v].status # "FAILED", video'[v].status = "FAILED"
               PROVE  worker.content \in {"corrupt", "badsize"} \/ video[v].retry = MaxRetries
    OBVIOUS
  <2>1. PICK w \in Videos, row \in Row : RowStep(w, row)
    BY RowWrites
  <2>2. w = v /\ row.status = "FAILED"
    BY <2>1 DEF RowStep, IInv, TypeOK
  <2>3. worker.pc = "t_fail" /\ wv = v
    BY <2>1, <2>2 DEF RowStep
  <2> QED BY <2>3 DEF CauseKnown, IInv, SnapshotCurrent
<1> QED BY <1>1, <1>2, <1>3, Invariance, PTL DEF Spec, FailedForCause

(***************************************************************************)
(* The tasks asynq and the worker hold, step by step.                      *)
(***************************************************************************)

Queued == {pending[i] : i \in DOMAIN pending} \cup {d.task : d \in DOMAIN scheduled}

Held == IF worker.pc = "idle" THEN {} ELSE {worker.task}

CleanupVideoPcs == {"v_load", "v_prefix", "v_objects", "v_row"}

(* A live task is queued or in the worker's hands. *)
LEMMA LiveTasksAre == LiveTasks = Queued \cup Held
BY DEF LiveTasks, Queued, Held

(* The queue holds tasks. *)
LEMMA QueuedType ==
  ASSUME IInv
  PROVE  Queued \subseteq Task /\ LiveTasks \subseteq Task
<1>1. pending \in Seq(Task) /\ \A i \in DOMAIN pending : pending[i] \in Task
  BY DEF IInv, TypeOK
<1>2. \A d \in DOMAIN scheduled : d.task \in Task
  BY DEF IInv, TypeOK, Delayed
<1>3. Held \subseteq Task
  BY TaskInHand DEF Held
<1> QED BY <1>1, <1>2, <1>3, LiveTasksAre DEF Queued

(* Enqueue adds the task and loses none. *)
LEMMA EnqueueAdds ==
  ASSUME NEW task \in Task, IInv, Enqueue(task)
  PROVE  Queued' = Queued \cup {task}
<1>1. pending \in Seq(Task) /\ pending' = Append(pending, task) /\ scheduled' = scheduled
  BY DEF IInv, TypeOK, Enqueue
<1>2. /\ DOMAIN pending = 1..Len(pending) /\ DOMAIN pending' = 1..(Len(pending) + 1)
      /\ Len(pending) \in Nat
  BY <1>1
<1>3. /\ \A i \in 1..Len(pending) : pending'[i] = pending[i]
      /\ pending'[Len(pending) + 1] = task
  BY <1>1
<1>4. {pending'[i] : i \in DOMAIN pending'} = {pending[i] : i \in DOMAIN pending} \cup {task}
  BY <1>2, <1>3
<1> QED BY <1>1, <1>4 DEF Queued

(* So does its delayed form. *)
LEMMA EnqueueWithDelayAdds ==
  ASSUME NEW task, NEW delay, EnqueueWithDelay(task, delay)
  PROVE  Queued' = Queued \cup {task}
<1> DEFINE d == [task |-> task, due |-> now + delay]
<1>1. DOMAIN scheduled' = DOMAIN scheduled \cup {d} /\ pending' = pending
  BY DEF EnqueueWithDelay, BagAdd
<1>2. d.task = task
  OBVIOUS
<1> HIDE DEF d
<1> QED BY <1>1, <1>2 DEF Queued

(* The best-effort enqueues lose the task when Redis fails, and only then. *)
LEMMA TryEnqueueAdds ==
  ASSUME NEW task \in Task, NEW delay, IInv,
         TryEnqueue(task) \/ TryEnqueueWithDelay(task, delay)
  PROVE  \/ Queued' = Queued \cup {task}
         \/ "redis" \in FaultKinds /\ Queued' = Queued
<1>1. \/ Enqueue(task) \/ EnqueueWithDelay(task, delay)
      \/ "redis" \in FaultKinds /\ UNCHANGED queue
  BY DEF TryEnqueue, TryEnqueueWithDelay, Fails
<1>2. UNCHANGED queue => Queued' = Queued
  BY DEF queue, Queued
<1> QED BY <1>1, <1>2, EnqueueAdds, EnqueueWithDelayAdds

(* asynq's forwarder moves a task within the queue. *)
LEMMA ForwardKeeps ==
  ASSUME IInv, Forward
  PROVE  Queued' = Queued
<1>1. PICK d \in DOMAIN scheduled :
            /\ scheduled' = BagRemove(scheduled, d)
            /\ pending' = Append(pending, d.task)
  BY DEF Forward
<1>2. pending \in Seq(Task) /\ d.task \in Task
  BY DEF IInv, TypeOK, Delayed
<1>3. /\ DOMAIN pending = 1..Len(pending) /\ DOMAIN pending' = 1..(Len(pending) + 1)
      /\ Len(pending) \in Nat
  BY <1>1, <1>2
<1>6. /\ \A i \in 1..Len(pending) : pending'[i] = pending[i]
      /\ pending'[Len(pending) + 1] = d.task
  BY <1>1, <1>2
<1>4. {pending'[i] : i \in DOMAIN pending'} = {pending[i] : i \in DOMAIN pending} \cup {d.task}
  BY <1>3, <1>6
<1>5. DOMAIN scheduled' \subseteq DOMAIN scheduled /\ DOMAIN scheduled \subseteq DOMAIN scheduled' \cup {d}
  BY <1>1 DEF BagRemove
<1> QED BY <1>4, <1>5 DEF Queued

(* Delivery takes the head of the pending list. *)
LEMMA DeliverTakes ==
  ASSUME IInv, Deliver
  PROVE  Queued = Queued' \cup {worker'.task}
<1>1. /\ pending \in Seq(Task) /\ pending # <<>> /\ pending' = Tail(pending)
      /\ worker'.task = Head(pending) /\ scheduled' = scheduled
  BY DeliverMoves DEF IInv, TypeOK, Deliver
<1>2. /\ DOMAIN pending = 1..Len(pending) /\ DOMAIN pending' = 1..(Len(pending) - 1)
      /\ Len(pending) \in Nat /\ Len(pending) >= 1
      /\ \A i \in 1..(Len(pending) - 1) : pending'[i] = pending[i + 1]
      /\ Head(pending) = pending[1]
  BY <1>1
<1>3. \A i \in DOMAIN pending : i = 1 \/ (i - 1 \in DOMAIN pending' /\ pending'[i - 1] = pending[i])
  BY <1>2
<1>4. \A i \in DOMAIN pending' : i + 1 \in DOMAIN pending /\ pending'[i] = pending[i + 1]
  BY <1>2
<1>5. {pending[i] : i \in DOMAIN pending} = {pending'[i] : i \in DOMAIN pending'} \cup {pending[1]}
  BY <1>2, <1>3, <1>4
<1> QED BY <1>1, <1>2, <1>5 DEF Queued

(* HandleTranscode stays with its task until it returns. *)
LEMMA TranscodeMoves ==
  ASSUME IInv, Transcode
  PROVE  /\ worker.pc \in TranscodePcs
         /\ \/ worker' = IdleWorker
            \/ worker'.pc \in TranscodePcs /\ worker'.task = worker.task
<1>1. worker \in WorkerState
  BY DEF IInv, TypeOK
<1>2. CASE LoadVideo
  BY <1>1, <1>2 DEF LoadVideo, Continue, Ack, WorkerState
<1>3. CASE IncrementRetry \/ DownloadRaw
  BY <1>1, <1>3 DEF IncrementRetry, DownloadRaw, Continue, Ack, WorkerState
<1>4. CASE ProbeAndValidate \/ MarkFailed \/ HandleTransient \/ EnqueueRawCleanup
  BY <1>1, <1>4 DEF ProbeAndValidate, MarkFailed, HandleTransient, EnqueueRawCleanup,
     Continue, Ack, WorkerState
<1>5. CASE UploadNext
  BY <1>1, <1>5 DEF UploadNext, WorkerState
<1>6. CASE RecheckStatus \/ MarkReady \/ CleanupOnFailure
  BY <1>1, <1>6 DEF RecheckStatus, MarkReady, CleanupOnFailure, CleanUpThen, Continue, Ack,
     WorkerState
<1> QED BY <1>2, <1>3, <1>4, <1>5, <1>6 DEF Transcode

(* So does HandleCleanupVideo. *)
LEMMA CleanupVideoMoves ==
  ASSUME IInv, CleanupVideo
  PROVE  /\ worker.pc \in CleanupVideoPcs
         /\ \/ worker' = IdleWorker
            \/ worker'.pc \in CleanupVideoPcs /\ worker'.task = worker.task
<1>1. worker \in WorkerState
  BY DEF IInv, TypeOK
<1>2. CASE CleanupVideoLoad
  BY <1>1, <1>2 DEF CleanupVideoLoad, Ack, WorkerState, CleanupVideoPcs
<1>3. CASE CleanupVideoPrefix \/ CleanupVideoObjects \/ CleanupVideoRow
  BY <1>1, <1>3 DEF CleanupVideoPrefix, CleanupVideoObjects, CleanupVideoRow, Continue, Ack,
     Nack, WorkerState, CleanupVideoPcs
<1> QED BY <1>2, <1>3 DEF CleanupVideo

(* What a step adds to the live tasks: what the code enqueues, or a failed task
   with one retry less. *)
Enqueued(t) ==
    \/ \E r \in Reqs :
          /\ req[r].pc = "i_presign" /\ req[r].old \notin {"none", req[r].slot}
          /\ t = CleanupObjectsTask(req[r].video, {req[r].old}, {})
    \/ \E r \in Reqs :
          /\ req[r].pc = "c_head" /\ raw[req[r].video][req[r].slot] = "badsize"
          /\ t = CleanupObjectsTask(req[r].video, {req[r].slot}, {})
    \/ worker.pc = "t_cleanup" /\ t = CleanupObjectsTask(wv, {}, worker.keys)
    \/ worker.pc = "t_rawcleanup" /\ t = CleanupObjectsTask(wv, {worker.slot}, {})
    \/ t.kind \in {"transcode", "video"} /\ t.raws = {}
    \/ /\ worker.pc # "idle" /\ worker.task.left > 0 /\ faults' = faults + 1
       /\ t = [worker.task EXCEPT !.left = @ - 1]

(* What a step takes from them: the task the worker finishes. *)
TasksMove ==
    /\ \A t \in LiveTasks' : t \in LiveTasks \/ Enqueued(t)
    /\ \A t \in LiveTasks :
          t \in LiveTasks' \/ (worker.pc # "idle" /\ t = worker.task /\ worker'.pc = "idle")

(* A step that adds at most one enqueued task and keeps the worker's, unless
   the worker finishes it. *)
LEMMA TasksFrame ==
  ASSUME NEW task,
         Queued' = Queued \/ (Queued' = Queued \cup {task} /\ Enqueued(task)),
         \/ worker'.pc = "idle"
         \/ worker.pc # "idle" /\ worker'.pc # "idle" /\ worker'.task = worker.task
  PROVE  TasksMove
<1>1. LiveTasks = Queued \cup Held /\ LiveTasks' = Queued' \cup Held'
  <2>1. LiveTasks = Queued \cup Held
    BY LiveTasksAre
  <2>2. (LiveTasks = Queued \cup Held)'
    BY LiveTasksAre, PTL
  <2> QED BY <2>1, <2>2
<1>2. Held' \subseteq Held
  BY DEF Held
<1>3. \A t \in Held : t \in Held' \/ (worker.pc # "idle" /\ t = worker.task /\ worker'.pc = "idle")
  BY DEF Held
<1> QED BY <1>1, <1>2, <1>3 DEF TasksMove

(* The api-gateway adds the tasks its handlers enqueue. *)
LEMMA ApiTasks ==
  ASSUME NEW r \in Reqs, IInv, StartRequest(r) \/ ServeRequest(r) \/ ApiCrash(r)
  PROVE  TasksMove
<1> USE DEF IInv, TypeOK
<1>1. worker' = worker
  BY DEF StartRequest, IntentGetPending, ConfirmLock, DeleteRead, ServeRequest,
     IntentInsert, IntentRotate, IntentMetadata, IntentPresign, ConfirmHead,
     ConfirmEnqueue, ConfirmCommit, DeleteMark, DeleteEnqueue, ApiCrash
<1>2. \/ worker'.pc = "idle"
      \/ worker.pc # "idle" /\ worker'.pc # "idle" /\ worker'.task = worker.task
  BY <1>1
<1>3. Queued' = Queued \/ \E task : Queued' = Queued \cup {task} /\ Enqueued(task)
  <2>1. CASE UNCHANGED queue
    BY <2>1 DEF queue, Queued
  <2>2. CASE IntentPresign(r)
    <3>1. req[r].video \in Videos /\ req[r].old \in Slots \cup {"none"}
      BY <2>2 DEF IntentPresign, RequestsOK, Request
    <3>2. \/ UNCHANGED queue
          \/ /\ req[r].pc = "i_presign" /\ req[r].old \notin {"none", req[r].slot}
             /\ TryEnqueue(CleanupObjectsTask(req[r].video, {req[r].old}, {}))
      BY <2>2 DEF IntentPresign, queue
    <3>3. req[r].old # "none" => CleanupObjectsTask(req[r].video, {req[r].old}, {}) \in Task
      BY <3>1, TaskTypes
    <3> QED BY <2>1, <3>2, <3>3, TryEnqueueAdds DEF Enqueued
  <2>3. CASE ConfirmHead(r)
    <3>1. req[r].video \in Videos /\ req[r].slot \in Slots /\ req[r].pc = "c_head"
      BY <2>3 DEF ConfirmHead, RequestsOK, Request
    <3>2. CleanupObjectsTask(req[r].video, {req[r].slot}, {}) \in Task
      BY <3>1, TaskTypes
    <3>3. \/ UNCHANGED queue
          \/ /\ raw[req[r].video][req[r].slot] = "badsize"
             /\ TryEnqueue(CleanupObjectsTask(req[r].video, {req[r].slot}, {}))
      BY <2>3 DEF ConfirmHead
    <3> QED BY <2>1, <3>1, <3>2, <3>3, TryEnqueueAdds DEF Enqueued
  <2>4. CASE ConfirmEnqueue(r)
    <3>1. req[r].video \in Videos
      BY <2>4 DEF ConfirmEnqueue, RequestsOK, Request
    <3>2. TranscodeTask(req[r].video, 1) \in Task
      BY <3>1, TaskTypes
    <3>3. Enqueued(TranscodeTask(req[r].video, 1))
      BY DEF Enqueued, TranscodeTask
    <3>4. UNCHANGED queue \/ Enqueue(TranscodeTask(req[r].video, 1))
      BY <2>4 DEF ConfirmEnqueue
    <3> QED BY <2>1, <3>2, <3>3, <3>4, EnqueueAdds
  <2>5. CASE DeleteEnqueue(r)
    <3>1. req[r].video \in Videos
      BY <2>5 DEF DeleteEnqueue, RequestsOK, Request
    <3>2. CleanupVideoTask(req[r].video) \in Task
      BY <3>1, TaskTypes
    <3>3. Enqueued(CleanupVideoTask(req[r].video))
      BY DEF Enqueued, CleanupVideoTask
    <3> QED BY <2>5, <3>2, <3>3, TryEnqueueAdds DEF DeleteEnqueue
  <2>6. CASE StartRequest(r) \/ ApiCrash(r)
    BY <2>1, <2>6 DEF StartRequest, IntentGetPending, ConfirmLock, DeleteRead, ApiCrash
  <2>7. CASE \/ IntentInsert(r) \/ IntentRotate(r) \/ IntentMetadata(r)
             \/ ConfirmCommit(r) \/ DeleteMark(r)
    BY <2>1, <2>7 DEF IntentInsert, IntentRotate, IntentMetadata, ConfirmCommit, DeleteMark
  <2> QED BY <2>2, <2>3, <2>4, <2>5, <2>6, <2>7 DEF ServeRequest
<1> QED BY <1>2, <1>3, TasksFrame

(* A failed task goes back to the queue while asynq has a retry left for it. *)
LEMMA NackTasks ==
  ASSUME IInv, worker.pc # "idle", Nack, faults' = faults + 1
  PROVE  TasksMove
<1>1. worker'.pc = "idle"
  BY DEF Nack, IdleWorker
<1>2. CASE worker.task.left > 0
  <2> DEFINE task == [worker.task EXCEPT !.left = @ - 1]
  <2>1. EnqueueWithDelay(task, 0)
    BY <1>2 DEF Nack
  <2>2. Enqueued(task)
    BY <1>2 DEF Enqueued
  <2> HIDE DEF task
  <2> QED BY <1>1, <2>1, <2>2, EnqueueWithDelayAdds, TasksFrame
<1>3. CASE ~(worker.task.left > 0)
  <2>1. Queued' = Queued
    BY <1>3 DEF Nack, queue, Queued
  <2> QED BY <1>1, <2>1, TasksFrame
<1> QED BY <1>2, <1>3

(* HandleTranscode adds the cleanups and the retry it enqueues. *)
LEMMA TranscodeTasks ==
  ASSUME IInv, Transcode
  PROVE  TasksMove
<1> USE DEF IInv, TypeOK
<1>1. worker.pc # "idle" /\ wv \in Videos
  BY TranscodeMoves, TaskInHand
<1>2. worker'.pc = "idle" \/ (worker'.pc # "idle" /\ worker'.task = worker.task)
  BY TranscodeMoves DEF IdleWorker
<1>3. Queued' = Queued \/ \E task : Queued' = Queued \cup {task} /\ Enqueued(task)
  <2>1. CASE UNCHANGED queue
    BY <2>1 DEF queue, Queued
  <2>2. CASE CleanupOnFailure
    <3>1. CleanupObjectsTask(wv, {}, worker.keys) \in Task
      BY <1>1, TaskTypes DEF WorkerState
    <3>2. worker.pc = "t_cleanup"
          /\ (UNCHANGED queue \/ TryEnqueue(CleanupObjectsTask(wv, {}, worker.keys)))
      BY <2>2 DEF CleanupOnFailure
    <3> QED BY <2>1, <3>1, <3>2, TryEnqueueAdds DEF Enqueued
  <2>3. CASE EnqueueRawCleanup
    <3>1. CleanupObjectsTask(wv, {worker.slot}, {}) \in Task
      BY <1>1, TaskTypes DEF WorkerState
    <3>2. /\ worker.pc = "t_rawcleanup"
          /\ TryEnqueue(CleanupObjectsTask(wv, {worker.slot}, {}))
      BY <2>3 DEF EnqueueRawCleanup
    <3> QED BY <3>1, <3>2, TryEnqueueAdds DEF Enqueued
  <2>4. CASE HandleTransient
    <3>1. TranscodeTask(wv, AsynqMaxRetry) \in Task
      BY <1>1, TaskTypes
    <3>2. Enqueued(TranscodeTask(wv, AsynqMaxRetry))
      BY DEF Enqueued, TranscodeTask
    <3>3. UNCHANGED queue \/ TryEnqueueWithDelay(TranscodeTask(wv, AsynqMaxRetry), 0)
      BY <2>4 DEF HandleTransient
    <3> QED BY <2>1, <3>1, <3>2, <3>3, TryEnqueueAdds
  <2>5. CASE \/ LoadVideo \/ IncrementRetry \/ DownloadRaw \/ ProbeAndValidate \/ UploadNext
             \/ RecheckStatus \/ MarkReady \/ MarkFailed
    BY <2>1, <2>5 DEF LoadVideo, IncrementRetry, DownloadRaw, ProbeAndValidate, UploadNext,
       RecheckStatus, MarkReady, MarkFailed
  <2> QED BY <2>2, <2>3, <2>4, <2>5 DEF Transcode
<1> QED BY <1>1, <1>2, <1>3, TasksFrame

(* The cleanup handlers finish their task, put it off or fail. *)
LEMMA CleanupTasks ==
  ASSUME IInv, HandleCleanupObjects \/ CleanupVideo
  PROVE  TasksMove
<1> USE DEF IInv, TypeOK
<1>1. /\ worker.pc # "idle" /\ wv \in Videos
      /\ worker'.pc = "idle" \/ (worker'.pc # "idle" /\ worker'.task = worker.task)
  <2>1. worker.pc # "idle"
    BY CleanupVideoMoves DEF CleanupVideoPcs, HandleCleanupObjects
  <2>2. HandleCleanupObjects => worker'.pc = "idle"
    BY DEF HandleCleanupObjects, Ack, Nack, IdleWorker
  <2>3. CleanupVideo => worker'.pc = "idle" \/ (worker'.pc # "idle" /\ worker'.task = worker.task)
    BY CleanupVideoMoves DEF CleanupVideoPcs, IdleWorker
  <2> QED BY <2>1, <2>2, <2>3, TaskInHand
<1>2. CASE UNCHANGED queue
  <2>1. Queued' = Queued
    BY <1>2 DEF queue, Queued
  <2> QED BY <1>1, <2>1, TasksFrame
<1>3. CASE Nack /\ faults' = faults + 1
  BY <1>1, <1>3, NackTasks
<1>4. CASE CleanupVideoLoad /\ ~UNCHANGED queue
  <2>1. TryEnqueueWithDelay(CleanupVideoTask(wv), video[wv].deletedAt + Grace - now)
    BY <1>4 DEF CleanupVideoLoad
  <2>2. CleanupVideoTask(wv) \in Task
    BY <1>1, TaskTypes
  <2>3. Enqueued(CleanupVideoTask(wv))
    BY DEF Enqueued, CleanupVideoTask
  <2> QED BY <1>1, <2>1, <2>2, <2>3, TryEnqueueAdds, TasksFrame
<1> QED BY <1>2, <1>3, <1>4 DEF HandleCleanupObjects, CleanupVideo, CleanupVideoPrefix,
       CleanupVideoObjects, CleanupVideoRow, Fails

(* No step loses a task but the one the worker finishes, and none appears that
   the code did not enqueue. *)
LEMMA TasksStep ==
  ASSUME IInv, [Next]_vars
  PROVE  TasksMove
<1>1. CASE \E r \in Reqs : StartRequest(r) \/ ServeRequest(r) \/ ApiCrash(r)
  BY <1>1, ApiTasks
<1>2. CASE \/ \E v \in Videos, s \in Slots, c \in Contents : ClientPut(v, s, c)
           \/ Tick \/ Forward \/ UNCHANGED vars
  <2>1. worker' = worker
    BY <1>2 DEF ClientPut, Tick, Forward, vars
  <2>2. Queued' = Queued
    BY <1>2, ForwardKeeps DEF ClientPut, Tick, vars, queue, Queued
  <2> QED BY <2>1, <2>2, TasksFrame
<1>3. CASE Deliver
  <2>1. LiveTasks' = LiveTasks
    <3>1. worker.pc = "idle" /\ worker'.pc # "idle"
      BY <1>3, DeliverMoves
    <3>2. LiveTasks = Queued
      BY <3>1, LiveTasksAre DEF Held
    <3>3. (LiveTasks = Queued \cup Held)'
      BY LiveTasksAre, PTL
    <3> QED BY <1>3, <3>1, <3>2, <3>3, DeliverTakes DEF Held
  <2> QED BY <2>1 DEF TasksMove
<1>4. CASE WorkerCrash
  BY <1>4, NackTasks DEF WorkerCrash, Fails
<1>5. CASE Transcode \/ HandleCleanupObjects \/ CleanupVideo
  BY <1>5, TranscodeTasks, CleanupTasks
<1> QED BY <1>1, <1>2, <1>3, <1>4, <1>5 DEF Next, WorkerStep

(***************************************************************************)
(* The transcoded files nobody has forgotten.                              *)
(***************************************************************************)

(* The worker runs the handler of its task's type. *)
KindOK ==
    /\ worker.pc \in TranscodePcs => worker.task.kind = "transcode"
    /\ worker.pc = "o_delete" => worker.task.kind = "objects"
    /\ worker.pc \in CleanupVideoPcs => worker.task.kind = "video"

(* asynq has not given up a deletion: every retry it has spent is a failure. *)
RetriesLeft ==
    \A t \in LiveTasks : t.kind = "objects" => t.left + faults >= AsynqMaxRetry

(* MediaTracked, with the steps of HandleTranscode that hold uploadedKeys. *)
Uploading == {"t_upload", "t_recheck", "t_ready", "t_cleanup"}

Tracked(v, f) ==
    \/ Exists(video[v]) /\ video[v].media
    \/ worker.pc \in Uploading /\ wv = v /\ f \in worker.keys
    \/ \E t \in LiveTasks : t.kind = "objects" /\ t.video = v /\ f \in t.files

AllTracked == \A v \in Videos : \A f \in media[v] : Tracked(v, f)

(* asynq's mux and the handlers keep to the type of the task. *)
LEMMA KindStep ==
  ASSUME IInv, KindOK, [Next]_vars
  PROVE  KindOK'
<1>1. CASE worker' = worker
  BY <1>1 DEF KindOK
<1>2. CASE worker' = IdleWorker
  BY <1>2 DEF KindOK, IdleWorker, CleanupVideoPcs
<1>3. CASE Deliver
  BY <1>3, DeliverMoves DEF KindOK, CleanupVideoPcs
<1>4. CASE Transcode /\ worker' # IdleWorker
  BY <1>4, TranscodeMoves DEF KindOK, CleanupVideoPcs
<1>5. CASE CleanupVideo /\ worker' # IdleWorker
  BY <1>5, CleanupVideoMoves DEF KindOK, CleanupVideoPcs
<1> QED BY <1>1, <1>2, <1>3, <1>4, <1>5, WorkerMoves

(* A step counts at most one failure. *)
LEMMA FaultsGrow ==
  ASSUME [Next]_vars
  PROVE  faults' = faults \/ faults' = faults + 1
<1> USE DEF Works, Fails
<1>1. CASE \E r \in Reqs : StartRequest(r) \/ ApiCrash(r)
  BY <1>1 DEF StartRequest, IntentGetPending, ConfirmLock, DeleteRead, ApiCrash
<1>2. CASE \E r \in Reqs : ServeRequest(r)
  BY <1>2 DEF ServeRequest, IntentInsert, IntentRotate, IntentMetadata, IntentPresign,
     ConfirmHead, ConfirmEnqueue, ConfirmCommit, DeleteMark, DeleteEnqueue,
     TryEnqueue, TryEnqueueWithDelay
<1>3. CASE \/ \E v \in Videos, s \in Slots, c \in Contents : ClientPut(v, s, c)
           \/ Tick \/ Forward \/ Deliver \/ WorkerCrash \/ UNCHANGED vars
  BY <1>3 DEF ClientPut, Tick, Forward, Deliver, WorkerCrash, vars
<1>4. CASE \/ LoadVideo \/ IncrementRetry \/ DownloadRaw \/ ProbeAndValidate \/ UploadNext
           \/ RecheckStatus \/ MarkReady
  BY <1>4 DEF LoadVideo, IncrementRetry, DownloadRaw, ProbeAndValidate, UploadNext,
     RecheckStatus, MarkReady
<1>5. CASE CleanupOnFailure \/ HandleTransient \/ MarkFailed \/ EnqueueRawCleanup
  BY <1>5 DEF CleanupOnFailure, HandleTransient, MarkFailed, EnqueueRawCleanup,
     TryEnqueue, TryEnqueueWithDelay
<1>6. CASE HandleCleanupObjects \/ CleanupVideo
  BY <1>6 DEF HandleCleanupObjects, CleanupVideo, CleanupVideoLoad, CleanupVideoPrefix,
     CleanupVideoObjects, CleanupVideoRow, TryEnqueueWithDelay
<1> QED BY <1>1, <1>2, <1>3, <1>4, <1>5, <1>6 DEF Next, WorkerStep, Transcode

(* Every retry of a deletion is paid for by a failure. *)
LEMMA RetriesStep ==
  ASSUME IInv, RetriesLeft, [Next]_vars
  PROVE  RetriesLeft'
<1> SUFFICES ASSUME NEW t \in LiveTasks', t.kind = "objects"
             PROVE  t.left + faults' >= AsynqMaxRetry
  BY DEF RetriesLeft
<1>1. faults \in Nat /\ (faults' = faults \/ faults' = faults + 1)
  BY FaultsGrow DEF IInv, TypeOK
<1>2. \A x \in LiveTasks : x.left \in Nat
  BY QueuedType DEF Task
<1>3. CASE t \in LiveTasks
  BY <1>1, <1>2, <1>3 DEF RetriesLeft
<1>4. CASE Enqueued(t)
  <2>1. CASE /\ worker.pc # "idle" /\ faults' = faults + 1
             /\ t = [worker.task EXCEPT !.left = @ - 1]
    <3>1. worker.task \in LiveTasks /\ worker.task \in Task
      BY <2>1, TaskInHand, LiveTasksAre DEF Held
    <3>2. t.left = worker.task.left - 1 /\ worker.task.kind = "objects"
      BY <2>1, <3>1 DEF Task
    <3> QED BY <1>1, <1>2, <2>1, <3>1, <3>2 DEF RetriesLeft
  <2>2. CASE \E v, raws, files : t = CleanupObjectsTask(v, raws, files)
    BY <1>1, <2>2 DEF CleanupObjectsTask
  <2> QED BY <1>4, <2>1, <2>2 DEF Enqueued
<1> QED BY <1>3, <1>4, TasksStep DEF TasksMove

(* Only UploadFile puts a transcoded file into the bucket. *)
LEMMA MediaMoves ==
  ASSUME IInv, [Next]_vars, NEW v \in Videos, NEW f \in media'[v], f \notin media[v]
  PROVE  UploadNext /\ wv = v /\ f = worker.file
<1> USE DEF IInv, TypeOK
<1>1. CASE UNCHANGED media
  BY <1>1
<1>2. CASE UploadNext
  <2>1. UNCHANGED media \/ media' = [media EXCEPT ![wv] = @ \cup {worker.file}]
    BY <1>2 DEF UploadNext
  <2> QED BY <1>2, <2>1
<1>3. CASE \E w, raws, files : DeleteObjects(w, raws, files)
  BY <1>3 DEF DeleteObjects
<1>4. CASE \E r \in Reqs : StartRequest(r) \/ ServeRequest(r) \/ ApiCrash(r)
  BY <1>1, <1>4 DEF StartRequest, IntentGetPending, ConfirmLock, DeleteRead, ServeRequest,
     IntentInsert, IntentRotate, IntentMetadata, IntentPresign, ConfirmHead,
     ConfirmEnqueue, ConfirmCommit, DeleteMark, DeleteEnqueue, ApiCrash, store
<1>5. CASE \/ \E w \in Videos, s \in Slots, c \in Contents : ClientPut(w, s, c)
           \/ Tick \/ Forward \/ Deliver \/ WorkerCrash \/ UNCHANGED vars
  BY <1>1, <1>5 DEF ClientPut, Tick, Forward, Deliver, WorkerCrash, vars, store
<1>6. CASE \/ LoadVideo \/ IncrementRetry \/ DownloadRaw \/ ProbeAndValidate
           \/ RecheckStatus \/ MarkReady \/ CleanupOnFailure \/ HandleTransient
           \/ MarkFailed \/ EnqueueRawCleanup
  BY <1>1, <1>6 DEF LoadVideo, IncrementRetry, DownloadRaw, ProbeAndValidate,
     RecheckStatus, MarkReady, CleanupOnFailure, HandleTransient, MarkFailed,
     EnqueueRawCleanup, store
<1>7. CASE HandleCleanupObjects \/ CleanupVideo
  BY <1>1, <1>3, <1>7 DEF HandleCleanupObjects, CleanupVideo, CleanupVideoLoad,
     CleanupVideoPrefix, CleanupVideoObjects, CleanupVideoRow, DeleteSome, store
<1> QED BY <1>2, <1>4, <1>5, <1>6, <1>7 DEF Next, WorkerStep, Transcode

(* A published row is removed only when its files are. *)
LEMMA PublishedStays ==
  ASSUME IInv, [Next]_vars, NEW v \in Videos, NEW f \in media[v],
         Exists(video[v]), video[v].media
  PROVE  Exists(video'[v]) /\ video'[v].media
<1> USE DEF IInv, TypeOK
<1>1. CASE UNCHANGED video
  BY <1>1
<1>2. CASE \E w \in Videos, row \in Row : RowStep(w, row)
  <2> PICK w \in Videos, row \in Row : RowStep(w, row)
    BY <1>2
  <2>1. CASE w # v
    BY <2>1 DEF RowStep
  <2>2. CASE w = v /\ row.status # "GONE"
    <3>1. video'[v] = row /\ row.media /\ row.status # "NONE"
      BY <2>2 DEF RowStep
    <3>2. row.status \in Statuses
      BY <2>2, <3>1 DEF Row, NoRow
    <3> QED BY <3>1, <3>2 DEF Exists
  <2>3. CASE w = v /\ row.status = "GONE"
    BY <2>3 DEF RowStep, WorkerOK
  <2> QED BY <2>1, <2>2, <2>3
<1> QED BY <1>1, <1>2, RowWrites

(* A busy worker moves by a step of its handler, or dies. *)
LEMMA BusyMoves ==
  ASSUME [Next]_vars, worker.pc # "idle"
  PROVE  worker' = worker \/ Transcode \/ HandleCleanupObjects \/ CleanupVideo \/ WorkerCrash
<1>1. CASE \E r \in Reqs : StartRequest(r) \/ ServeRequest(r) \/ ApiCrash(r)
  BY <1>1 DEF StartRequest, IntentGetPending, ConfirmLock, DeleteRead, ServeRequest,
     IntentInsert, IntentRotate, IntentMetadata, IntentPresign, ConfirmHead,
     ConfirmEnqueue, ConfirmCommit, DeleteMark, DeleteEnqueue, ApiCrash
<1>2. CASE \/ \E v \in Videos, s \in Slots, c \in Contents : ClientPut(v, s, c)
           \/ Tick \/ Forward \/ UNCHANGED vars
  BY <1>2 DEF ClientPut, Tick, Forward, vars
<1>3. CASE Deliver
  BY <1>3 DEF Deliver
<1> QED BY <1>1, <1>2, <1>3 DEF Next, WorkerStep

(* A stored file is in uploadedKeys, a failed one ends the attempt. *)
LEMMA UploadMoves ==
  ASSUME IInv, UploadNext
  PROVE  /\ worker.pc = "t_upload" /\ worker'.task = worker.task
         /\ worker.keys \subseteq worker'.keys
         /\ \/ /\ media' = [media EXCEPT ![wv] = @ \cup {worker.file}]
               /\ worker.file \in worker'.keys
               /\ worker'.file = worker.file + 1
               /\ worker'.pc = IF worker.file = Master THEN "t_recheck" ELSE "t_upload"
            \/ worker'.pc = "t_cleanup" /\ (UNCHANGED media \/ "upload_unknown" \in FaultKinds)
<1> DEFINE f == worker.file
           pc == IF f = Master THEN "t_recheck" ELSE "t_upload"
<1>1. worker \in WorkerState /\ worker.pc = "t_upload"
  BY DEF IInv, TypeOK, UploadNext
<1>2. CASE /\ media' = [media EXCEPT ![wv] = @ \cup {f}]
           /\ worker' = [worker EXCEPT !.pc = pc, !.keys = @ \cup {f}, !.file = f + 1]
  <2> HIDE DEF f, pc
  <2>1. /\ worker'.pc = pc /\ worker'.task = worker.task
        /\ worker'.keys = worker.keys \cup {f} /\ worker'.file = f + 1
    BY <1>1, <1>2 DEF WorkerState
  <2> QED BY <1>1, <1>2, <2>1 DEF f, pc
<1>3. CASE /\ \E keys : /\ worker.keys \subseteq keys
                        /\ worker' = [worker EXCEPT !.pc = "t_cleanup", !.keys = keys,
                                                    !.then = "t_transient"]
           /\ UNCHANGED media \/ "upload_unknown" \in FaultKinds
  BY <1>1, <1>3 DEF WorkerState
<1>4. worker.keys \subseteq worker.keys \cup {f}
  OBVIOUS
<1> HIDE DEF f
<1> QED BY <1>2, <1>3, <1>4 DEF UploadNext, Fails, f

(* The steps of HandleTranscode that hold uploaded keys hand them on: to the next
   step, to the row they publish or to the cleanup they enqueue. *)
LEMMA KeysHandedOn ==
  ASSUME IInv, [Next]_vars, {"redis", "crash"} \cap FaultKinds = {},
         worker.pc \in Uploading, NEW v \in Videos, v = wv, NEW f \in worker.keys
  PROVE  Tracked(v, f)'
<1> USE DEF IInv, TypeOK, Uploading
<1>1. worker \in WorkerState /\ wv \in Videos /\ worker.task \in Task
  BY TaskInHand
<1>2. CASE worker' = worker
  BY <1>2 DEF Tracked, wv
<1>3. CASE UploadNext
  <2>1. worker'.pc \in Uploading /\ worker'.task = worker.task /\ f \in worker'.keys
    BY <1>3, UploadMoves
  <2> QED BY <2>1 DEF Tracked, wv
<1>4. CASE RecheckStatus
  <2>1. worker'.pc \in Uploading /\ worker'.task = worker.task /\ f \in worker'.keys
    BY <1>1, <1>4 DEF RecheckStatus, CleanUpThen, Continue, WorkerState
  <2> QED BY <2>1 DEF Tracked, wv
<1>5. CASE MarkReady
  <2>1. CASE \E next : CleanUpThen(next)
    <3>1. worker'.pc \in Uploading /\ worker'.task = worker.task /\ f \in worker'.keys
      BY <1>1, <2>1 DEF CleanUpThen, WorkerState
    <3> QED BY <3>1 DEF Tracked, wv
  <2>2. CASE Continue("t_rawcleanup") /\ Writes(wv, MarkVideoReady(video[wv]))
    <3>1. wv' = wv
      BY <1>1, <2>2 DEF Continue, WorkerState, wv
    <3>2. video[wv] \in Row
      BY <1>1
    <3>3. video'[wv].status = "READY" /\ video'[wv].media
      BY <1>1, <2>2, <3>2 DEF Writes, MarkVideoReady, Row
    <3> QED BY <3>1, <3>3 DEF Tracked, Exists, Statuses
  <2> QED BY <1>5, <2>1, <2>2 DEF MarkReady
<1>6. CASE CleanupOnFailure
  <2> DEFINE t == CleanupObjectsTask(wv, {}, worker.keys)
  <2>1. t \in Task
    BY <1>1, TaskTypes DEF WorkerState
  <2>2. TryEnqueue(t)
    BY <1>6 DEF CleanupOnFailure
  <2>3. t.kind = "objects" /\ t.video = wv /\ f \in t.files
    BY DEF CleanupObjectsTask
  <2> HIDE DEF t
  <2>4. Queued' = Queued \cup {t}
    BY <2>1, <2>2, TryEnqueueAdds
  <2>5. t \in LiveTasks'
    <3>1. (LiveTasks = Queued \cup Held)'
      BY LiveTasksAre, PTL
    <3> QED BY <2>4, <3>1
  <2> QED BY <2>3, <2>5 DEF Tracked
<1>7. ~WorkerCrash /\ ~HandleCleanupObjects /\ ~CleanupVideo
  BY CleanupVideoMoves DEF WorkerCrash, Fails, HandleCleanupObjects, CleanupVideoPcs
<1>8. \/ ~Transcode \/ UploadNext \/ RecheckStatus \/ MarkReady \/ CleanupOnFailure
  BY DEF Transcode, LoadVideo, IncrementRetry, DownloadRaw, ProbeAndValidate,
     HandleTransient, MarkFailed, EnqueueRawCleanup
<1> QED BY <1>2, <1>3, <1>4, <1>5, <1>6, <1>7, <1>8, BusyMoves

(* A cleanup is dropped only once its files are gone. *)
LEMMA CleanupKept ==
  ASSUME IInv, KindOK, RetriesLeft, [Next]_vars, "crash" \notin FaultKinds,
         "delete" \in FaultKinds => MaxFaults <= AsynqMaxRetry,
         NEW t \in LiveTasks, t.kind = "objects", t \notin LiveTasks',
         NEW v \in Videos, t.video = v, NEW f \in media'[v], f \in t.files
  PROVE  \E x \in LiveTasks' : x.kind = "objects" /\ x.video = v /\ f \in x.files
<1> USE DEF IInv, TypeOK
<1>1. worker.pc # "idle" /\ t = worker.task /\ worker'.pc = "idle"
  BY TasksStep DEF TasksMove
<1>2. worker.task \in Task /\ wv = v
  BY <1>1, TaskInHand DEF wv
<1>3. HandleCleanupObjects
  <2>1. worker.pc \notin TranscodePcs /\ worker.pc \notin CleanupVideoPcs
    BY <1>1 DEF KindOK
  <2>2. worker' # worker /\ ~WorkerCrash
    BY <1>1 DEF WorkerCrash, Fails
  <2> QED BY <1>1, <2>1, <2>2, BusyMoves, TranscodeMoves, CleanupVideoMoves
<1>4. CASE DeleteObjects(wv, worker.task.raws, worker.task.files)
  BY <1>1, <1>2, <1>4 DEF DeleteObjects
<1>5. CASE Fails("delete") /\ Nack
  <2> DEFINE x == [worker.task EXCEPT !.left = @ - 1]
  <2>1. worker.task.left > 0
    <3>1. worker.task.left \in Nat /\ faults \in Nat /\ faults < MaxFaults
      BY <1>2, <1>5 DEF Fails, Task
    <3>2. MaxFaults <= AsynqMaxRetry
      BY <1>5 DEF Fails
    <3>3. worker.task.left + faults >= AsynqMaxRetry
      BY <1>1 DEF RetriesLeft
    <3> QED BY <3>1, <3>2, <3>3
  <2>2. EnqueueWithDelay(x, 0)
    BY <1>5, <2>1 DEF Nack
  <2>3. x.kind = "objects" /\ x.video = v /\ f \in x.files
    BY <1>1, <1>2 DEF Task
  <2> HIDE DEF x
  <2>4. x \in LiveTasks'
    <3>1. Queued' = Queued \cup {x}
      BY <2>2, EnqueueWithDelayAdds
    <3>2. (LiveTasks = Queued \cup Held)'
      BY LiveTasksAre, PTL
    <3> QED BY <3>1, <3>2
  <2> QED BY <2>3, <2>4
<1> QED BY <1>3, <1>4, <1>5 DEF HandleCleanupObjects

(* Every file is found again after the step. *)
LEMMA TrackedStep ==
  ASSUME IInv, KindOK, RetriesLeft, AllTracked, [Next]_vars,
         {"redis", "crash", "upload_unknown"} \cap FaultKinds = {},
         "delete" \in FaultKinds => MaxFaults <= AsynqMaxRetry
  PROVE  AllTracked'
<1> SUFFICES ASSUME NEW v \in Videos, NEW f \in media'[v]
             PROVE  Tracked(v, f)'
  BY DEF AllTracked
<1>1. CASE f \notin media[v]
  <2>1. UploadNext /\ wv = v /\ f = worker.file
    BY <1>1, MediaMoves
  <2>2. worker \in WorkerState /\ media \in [Videos -> SUBSET Files]
    BY DEF IInv, TypeOK
  <2>3. worker'.pc \in Uploading /\ worker'.task = worker.task /\ f \in worker'.keys
    BY <1>1, <2>1, <2>2, UploadMoves DEF Uploading
  <2> QED BY <2>1, <2>3 DEF Tracked, wv
<1>2. CASE f \in media[v] /\ Exists(video[v]) /\ video[v].media
  BY <1>2, PublishedStays DEF Tracked
<1>3. CASE worker.pc \in Uploading /\ wv = v /\ f \in worker.keys
  BY <1>3, KeysHandedOn
<1>4. CASE \E t \in LiveTasks : t.kind = "objects" /\ t.video = v /\ f \in t.files
  BY <1>4, CleanupKept DEF Tracked
<1> QED BY <1>1, <1>2, <1>3, <1>4 DEF AllTracked, Tracked

(* No transcoded file is forgotten as long as Redis takes every task, no worker
   dies, no upload succeeds unnoticed, and R2 refuses fewer deletions than asynq
   retries. *)
THEOREM NoFileForgotten ==
  ASSUME {"redis", "crash", "upload_unknown"} \cap FaultKinds = {},
         "delete" \in FaultKinds => MaxFaults <= AsynqMaxRetry
  PROVE  Spec => []MediaTracked
<1> DEFINE I == KindOK /\ RetriesLeft /\ AllTracked
<1>1. Init => I
  <2> SUFFICES ASSUME Init PROVE I
    OBVIOUS
  <2>1. KindOK /\ AllTracked
    BY DEF Init, IdleWorker, KindOK, CleanupVideoPcs, AllTracked
  <2>2. LiveTasks = {}
    BY DEF Init, IdleWorker, LiveTasks, EmptyBag, SetToBag
  <2> QED BY <2>1, <2>2 DEF RetriesLeft
<1>2. IInv /\ I /\ [Next]_vars => I'
  BY KindStep, RetriesStep, TrackedStep
<1>3. I => MediaTracked
  BY DEF AllTracked, Tracked, MediaTracked, Uploading
<1> QED BY <1>1, <1>2, <1>3, Invariance, PTL DEF Spec

(***************************************************************************)
(* The raw upload is kept until the decision.                              *)
(***************************************************************************)

(* Nobody will read the raw upload of a decided row, nor the first key of a row
   UploadIntent has moved to its canonical key. *)
Decided(v) == video[v].status \in {"READY", "FAILED", "DELETED", "GONE"}

Rotated(v, slot) == slot = "first" /\ video[v].slot = "canonical"

(* InsertVideo starts with the first key. *)
FreshOK == \A v \in Videos : video[v].status = "NONE" => video[v].slot = "first"

(* UploadIntent cleans the old key only after it has stored the new one. *)
RotatedOK ==
    \A r \in Reqs :
        /\ req[r].pc = "i_rotate" => req[r].old = "first" /\ req[r].slot = "canonical"
        /\ req[r].pc \in {"i_metadata", "i_presign"} /\ req[r].old \notin {"none", req[r].slot} =>
              Rotated(req[r].video, req[r].old)

(* No task on the way names a raw upload somebody may still read. *)
RawTasksOK ==
    \A t \in LiveTasks : \A slot \in t.raws : Decided(t.video) \/ Rotated(t.video, slot)

(* ConfirmUpload has seen the object it is about to confirm. *)
SeenKept ==
    \A r \in Reqs :
        req[r].pc \in {"c_enqueue", "c_commit"} => raw[req[r].video][req[r].slot] # "none"

(* HandleTranscode gives the raw upload up after its decision. *)
RawCleanupLate == worker.pc = "t_rawcleanup" => Decided(wv)

RawInv == FreshOK /\ RotatedOK /\ RawTasksOK /\ SeenKept /\ RawCleanupLate /\ ConfirmedRawKept

(* Neither a decision nor a rotation is ever undone. *)
LEMMA DeadStays ==
  ASSUME IInv, FreshOK, [Next]_vars, NEW v \in Videos
  PROVE  /\ Decided(v) => Decided(v)'
         /\ \A slot : Rotated(v, slot) => Rotated(v, slot)'
         /\ video'[v].status = "NONE" => video'[v].slot = "first"
<1> USE DEF IInv, TypeOK
<1>1. CASE UNCHANGED video
  BY <1>1 DEF Decided, Rotated, FreshOK
<1>2. CASE \E w \in Videos, row \in Row : RowStep(w, row)
  <2> PICK w \in Videos, row \in Row : RowStep(w, row)
    BY <1>2
  <2>1. CASE w # v
    BY <2>1 DEF RowStep, Decided, Rotated, FreshOK
  <2>2. CASE w = v
    <3>1. video'[v] = row /\ row.status # "NONE"
      BY <2>2 DEF RowStep
    <3>2. Decided(v) => row.status \in {"READY", "FAILED", "DELETED", "GONE"}
      BY <2>2 DEF RowStep, Moves, LateMoves, Decided
    <3>3. video[v].slot = "canonical" => row.slot = "canonical"
      BY <2>2 DEF RowStep, FreshOK
    <3> QED BY <3>1, <3>2, <3>3 DEF Decided, Rotated
  <2> QED BY <2>1, <2>2
<1> QED BY <1>1, <1>2, RowWrites

(* A request moves only in its own steps. *)
LEMMA OthersStay ==
  ASSUME IInv, NEW q \in Reqs, NEW r \in Reqs, q # r,
         StartRequest(q) \/ ServeRequest(q) \/ ApiCrash(q)
  PROVE  req'[r] = req[r]
<1>1. req \in [Reqs -> Request]
  BY DEF IInv, TypeOK
<1>2. \/ \E pc, u, v, slot, old : Begin(q, pc, u, v, slot, old)
      \/ \E pc : Goto(q, pc)
      \/ Respond(q)
  <2>1. CASE StartRequest(q)
    BY <2>1 DEF StartRequest, IntentGetPending, ConfirmLock, DeleteRead
  <2>2. CASE ServeRequest(q) \/ ApiCrash(q)
    BY <2>2 DEF ServeRequest, IntentInsert, IntentRotate, IntentMetadata, IntentPresign,
       ConfirmHead, ConfirmEnqueue, ConfirmCommit, DeleteMark, DeleteEnqueue, ApiCrash
  <2> QED BY <2>1, <2>2
<1> QED BY <1>1, <1>2 DEF Begin, Goto, Respond

(* Which requests a step moves. *)
LEMMA RequestMoves ==
  ASSUME IInv, [Next]_vars, NEW r \in Reqs
  PROVE  req'[r] = req[r] \/ StartRequest(r) \/ ServeRequest(r) \/ ApiCrash(r)
<1>1. CASE \E q \in Reqs : StartRequest(q) \/ ServeRequest(q) \/ ApiCrash(q)
  BY <1>1, OthersStay
<1>2. CASE ~\E q \in Reqs : StartRequest(q) \/ ServeRequest(q) \/ ApiCrash(q)
  <2>1. req' = req
    <3>1. CASE \/ \E v \in Videos, s \in Slots, c \in Contents : ClientPut(v, s, c)
               \/ Tick \/ Forward \/ Deliver \/ WorkerCrash \/ UNCHANGED vars
      BY <3>1 DEF ClientPut, Tick, Forward, Deliver, WorkerCrash, vars
    <3>2. CASE Transcode
      BY <3>2 DEF Transcode, LoadVideo, IncrementRetry, DownloadRaw, ProbeAndValidate,
         UploadNext, RecheckStatus, MarkReady, CleanupOnFailure, HandleTransient,
         MarkFailed, EnqueueRawCleanup
    <3>3. CASE HandleCleanupObjects \/ CleanupVideo
      BY <3>3 DEF HandleCleanupObjects, CleanupVideo, CleanupVideoLoad, CleanupVideoPrefix,
         CleanupVideoObjects, CleanupVideoRow
    <3> QED BY <1>2, <3>1, <3>2, <3>3 DEF Next, WorkerStep
  <2> QED BY <2>1
<1> QED BY <1>1, <1>2

(* UploadIntent keeps what it knows of the old key. *)
LEMMA RotatedStep ==
  ASSUME IInv, FreshOK, RotatedOK, [Next]_vars
  PROVE  RotatedOK'
<1> USE DEF IInv, TypeOK
<1> SUFFICES ASSUME NEW r \in Reqs
             PROVE  /\ req'[r].pc = "i_rotate" => req'[r].old = "first" /\ req'[r].slot = "canonical"
                    /\ /\ req'[r].pc \in {"i_metadata", "i_presign"}
                       /\ req'[r].old \notin {"none", req'[r].slot}
                       => req'[r].old = "first" /\ video'[req'[r].video].slot = "canonical"
  BY DEF RotatedOK, Rotated
<1>0. req[r] \in Request /\ (req[r].pc \in {"i_rotate", "i_metadata", "i_presign"} => req[r].video \in Videos)
  BY DEF RequestsOK, Request
<1> DEFINE Intent(pc) == pc \in {"i_rotate", "i_metadata", "i_presign"}
<1>1. CASE req'[r] = req[r]
  <2>1. CASE Intent(req[r].pc)
    <3> PICK v : v = req[r].video
      OBVIOUS
    <3>1. v \in Videos
      BY <1>0, <2>1
    <3>2. \A slot : Rotated(v, slot) => slot = "first" /\ video'[v].slot = "canonical"
      BY <3>1, DeadStays DEF Rotated
    <3> QED BY <1>1, <3>2 DEF RotatedOK
  <2> QED BY <1>1, <2>1
<1>2. CASE ~Intent(req'[r].pc)
  BY <1>2
<1>3. CASE Intent(req'[r].pc) /\ StartRequest(r)
  <2>1. PICK u \in Users : IntentGetPending(r, u)
    BY <1>3 DEF StartRequest, ConfirmLock, DeleteRead, Begin, Respond, NewReq
  <2>2. PICK v \in PendingOf(u) :
              Begin(r, IF video[v].slot = "canonical" THEN "i_metadata" ELSE "i_rotate",
                    u, v, "canonical", video[v].slot)
    BY <1>3, <2>1 DEF IntentGetPending, Begin, Respond, NewReq
  <2>3. video[v].slot \in {"first", "canonical"}
    BY DEF PendingOf, Row, Slots
  <2>4. /\ req'[r].old = video[v].slot /\ req'[r].slot = "canonical"
        /\ req'[r].pc = IF video[v].slot = "canonical" THEN "i_metadata" ELSE "i_rotate"
    BY <2>2 DEF Begin
  <2> QED BY <2>3, <2>4
<1>4. CASE Intent(req'[r].pc) /\ IntentInsert(r)
  <2>1. req'[r].old = "none" /\ req'[r].pc = "i_presign"
    BY <1>4 DEF IntentInsert, Begin, Respond, NewReq
  <2> QED BY <2>1
<1>5. CASE Intent(req'[r].pc) /\ IntentRotate(r)
  <2> PICK v : v = req[r].video
    OBVIOUS
  <2>1. Goto(r, "i_metadata") /\ Writes(v, UpdatePendingVideoR2Key(video[v], "canonical"))
    BY <1>5 DEF IntentRotate, Respond, NewReq
  <2>2. v \in Videos /\ video[v] \in Row
    BY <1>0, <1>5 DEF IntentRotate
  <2>3. video'[v].slot = "canonical"
    BY <2>1, <2>2 DEF Writes, UpdatePendingVideoR2Key, Row
  <2>4. req'[r].old = req[r].old /\ req'[r].video = v /\ req'[r].pc = "i_metadata"
    BY <1>0, <2>1 DEF Goto, Request
  <2>5. req[r].old = "first"
    BY <1>5 DEF IntentRotate, RotatedOK
  <2> QED BY <2>3, <2>4, <2>5
<1>6. CASE Intent(req'[r].pc) /\ IntentMetadata(r)
  <2> PICK v : v = req[r].video
    OBVIOUS
  <2>1. Goto(r, "i_presign") /\ req[r].pc = "i_metadata" /\ UNCHANGED video
    BY <1>6 DEF IntentMetadata, Respond, NewReq
  <2>2. /\ req'[r].old = req[r].old /\ req'[r].slot = req[r].slot
        /\ req'[r].video = v /\ req'[r].pc = "i_presign"
    BY <1>0, <2>1 DEF Goto, Request
  <2> QED BY <2>1, <2>2 DEF RotatedOK, Rotated
<1>7. CASE Intent(req'[r].pc) /\ ServeRequest(r) /\ ~IntentInsert(r) /\ ~IntentRotate(r)
           /\ ~IntentMetadata(r)
  BY <1>7 DEF ServeRequest, IntentPresign, ConfirmHead, ConfirmEnqueue, ConfirmCommit,
     DeleteMark, DeleteEnqueue, Goto, Respond, NewReq, Request
<1>8. CASE Intent(req'[r].pc) /\ ApiCrash(r)
  BY <1>8 DEF ApiCrash, Respond, NewReq
<1> QED BY <1>1, <1>2, <1>3, <1>4, <1>5, <1>6, <1>7, <1>8, RequestMoves

(* Every task names only what nobody will read. *)
LEMMA RawTasksStep ==
  ASSUME IInv, FreshOK, RotatedOK, RawTasksOK, RawCleanupLate, [Next]_vars,
         "badsize" \notin Contents
  PROVE  RawTasksOK'
<1> USE DEF IInv, TypeOK
<1> SUFFICES ASSUME NEW t \in LiveTasks', NEW slot \in t.raws
             PROVE  (Decided(t.video) \/ Rotated(t.video, slot))'
  BY DEF RawTasksOK
<1>1. \A v \in Videos : Decided(v) \/ Rotated(v, slot) => Decided(v)' \/ Rotated(v, slot)'
  BY DeadStays
<1>2. CASE t \in LiveTasks
  <2>1. t.video \in Videos
    BY <1>2, QueuedType DEF Task
  <2> QED BY <1>1, <1>2, <2>1 DEF RawTasksOK
<1>3. CASE \E r \in Reqs :
             /\ req[r].pc = "i_presign" /\ req[r].old \notin {"none", req[r].slot}
             /\ t = CleanupObjectsTask(req[r].video, {req[r].old}, {})
  <2> PICK r \in Reqs : /\ req[r].pc = "i_presign" /\ req[r].old \notin {"none", req[r].slot}
                        /\ t = CleanupObjectsTask(req[r].video, {req[r].old}, {})
    BY <1>3
  <2>1. t.video = req[r].video /\ slot = req[r].old
    BY DEF CleanupObjectsTask
  <2>2. t.video \in Videos
    BY <2>1 DEF RequestsOK, Request
  <2> QED BY <1>1, <2>1, <2>2 DEF RotatedOK
<1>4. CASE \E r \in Reqs :
             req[r].pc = "c_head" /\ raw[req[r].video][req[r].slot] = "badsize"
  <2> PICK r \in Reqs : req[r].pc = "c_head" /\ raw[req[r].video][req[r].slot] = "badsize"
    BY <1>4
  <2>1. req[r].video \in Videos /\ req[r].slot \in Slots
    BY DEF RequestsOK, Request
  <2> QED BY <2>1
<1>5. CASE worker.pc = "t_cleanup" /\ t = CleanupObjectsTask(wv, {}, worker.keys)
  BY <1>5 DEF CleanupObjectsTask
<1>6. CASE worker.pc = "t_rawcleanup" /\ t = CleanupObjectsTask(wv, {worker.slot}, {})
  <2>1. t.video = wv /\ wv \in Videos
    BY <1>6, TaskInHand DEF CleanupObjectsTask
  <2> QED BY <1>1, <1>6, <2>1 DEF RawCleanupLate
<1>7. CASE worker.pc # "idle" /\ t = [worker.task EXCEPT !.left = @ - 1]
  <2>1. worker.task \in LiveTasks /\ worker.task \in Task
    BY <1>7, TaskInHand, LiveTasksAre DEF Held
  <2>2. t.video = worker.task.video /\ t.raws = worker.task.raws /\ t.video \in Videos
    BY <1>7, <2>1 DEF Task
  <2> QED BY <1>1, <2>1, <2>2 DEF RawTasksOK
<1> QED BY <1>2, <1>3, <1>4, <1>5, <1>6, <1>7, TasksStep DEF TasksMove, Enqueued

(* Only the two cleanup handlers delete a raw upload. *)
LEMMA RawMoves ==
  ASSUME IInv, [Next]_vars, NEW v \in Videos, NEW slot \in Slots,
         raw[v][slot] # "none", raw'[v][slot] = "none"
  PROVE  \/ HandleCleanupObjects /\ wv = v /\ slot \in worker.task.raws
         \/ CleanupVideoObjects /\ wv = v
<1> USE DEF IInv, TypeOK
<1>1. raw' # raw
  OBVIOUS
<1>2. CASE \E w \in Videos, s \in Slots, c \in Contents : ClientPut(w, s, c)
  <2> PICK w \in Videos, s \in Slots, c \in Contents : raw' = [raw EXCEPT ![w][s] = c]
    BY <1>2 DEF ClientPut
  <2>1. w = v /\ s = slot /\ c = "none"
    OBVIOUS
  <2> QED BY <2>1
<1>3. CASE HandleCleanupObjects
  <2> PICK raws, files : raws \subseteq worker.task.raws /\ DeleteObjects(wv, raws, files)
    BY <1>3 DEF HandleCleanupObjects, DeleteSome
  <2> QED BY <1>3 DEF DeleteObjects
<1>4. CASE CleanupVideoObjects
  <2> PICK raws, files : DeleteObjects(wv, raws, files)
    BY <1>4 DEF CleanupVideoObjects, DeleteSome
  <2> QED BY <1>4 DEF DeleteObjects
<1>5. CASE CleanupVideoPrefix
  <2> PICK raws, files : raws \subseteq {} /\ DeleteObjects(wv, raws, files)
    BY <1>5 DEF CleanupVideoPrefix, DeleteSome
  <2>1. raw'[v][slot] = raw[v][slot]
    BY DEF DeleteObjects
  <2> QED BY <2>1
<1>6. CASE \E r \in Reqs : StartRequest(r) \/ ServeRequest(r) \/ ApiCrash(r)
  BY <1>1, <1>6 DEF StartRequest, IntentGetPending, ConfirmLock, DeleteRead, ServeRequest,
     IntentInsert, IntentRotate, IntentMetadata, IntentPresign, ConfirmHead,
     ConfirmEnqueue, ConfirmCommit, DeleteMark, DeleteEnqueue, ApiCrash, store
<1>7. ~(Tick \/ Forward \/ Deliver \/ WorkerCrash \/ UNCHANGED vars)
  BY <1>1 DEF Tick, Forward, Deliver, WorkerCrash, vars, store
<1>8. ~Transcode
  BY <1>1 DEF Transcode, LoadVideo, IncrementRetry, DownloadRaw, ProbeAndValidate, UploadNext,
     RecheckStatus, MarkReady, CleanupOnFailure, HandleTransient, MarkFailed,
     EnqueueRawCleanup, store
<1>9. ~(CleanupVideoLoad \/ CleanupVideoRow)
  BY <1>1 DEF CleanupVideoLoad, CleanupVideoRow, store
<1> QED BY <1>2, <1>3, <1>4, <1>5, <1>6, <1>7, <1>8, <1>9 DEF Next, WorkerStep, CleanupVideo

(* The upload of a row that waits for its decision stays where the row says. *)
LEMMA RawStays ==
  ASSUME IInv, RawTasksOK, [Next]_vars, NEW v \in Videos,
         video[v].status \in {"PENDING_UPLOAD", "PROCESSING"},
         raw[v][video[v].slot] # "none"
  PROVE  raw'[v][video[v].slot] # "none"
<1> USE DEF IInv, TypeOK
<1> DEFINE slot == video[v].slot
<1>1. slot \in Slots
  BY DEF Row
<1>2. CASE HandleCleanupObjects /\ wv = v /\ slot \in worker.task.raws
  <2>1. worker.pc # "idle" /\ worker.task \in LiveTasks
    BY <1>2, LiveTasksAre DEF HandleCleanupObjects, Held
  <2>2. Decided(v) \/ Rotated(v, slot)
    BY <1>2, <2>1 DEF RawTasksOK, wv
  <2> QED BY <2>2 DEF Decided, Rotated
<1>3. CASE CleanupVideoObjects /\ wv = v
  BY <1>3 DEF CleanupVideoObjects, WorkerOK
<1> HIDE DEF slot
<1> QED BY <1>1, <1>2, <1>3, RawMoves DEF slot

(* A confirm in progress keeps the object it has seen. *)
LEMMA SeenStep ==
  ASSUME IInv, RawTasksOK, SeenKept, [Next]_vars, "badsize" \notin Contents
  PROVE  SeenKept'
<1> USE DEF IInv, TypeOK
<1> SUFFICES ASSUME NEW r \in Reqs, req'[r].pc \in {"c_enqueue", "c_commit"}
             PROVE  raw'[req'[r].video][req'[r].slot] # "none"
  BY DEF SeenKept
<1>1. /\ req[r].pc \in LockPcs /\ raw[req[r].video][req[r].slot] # "none"
      /\ req'[r].video = req[r].video /\ req'[r].slot = req[r].slot
  <2>1. CASE req'[r] = req[r]
    BY <2>1 DEF SeenKept, LockPcs
  <2>2. CASE StartRequest(r) \/ ApiCrash(r)
    BY <2>2 DEF StartRequest, IntentGetPending, ConfirmLock, DeleteRead, ApiCrash, Begin,
       Respond, NewReq
  <2>3. CASE ServeRequest(r) /\ ~ConfirmHead(r) /\ ~ConfirmEnqueue(r)
    BY <2>3 DEF ServeRequest, IntentInsert, IntentRotate, IntentMetadata, IntentPresign,
       ConfirmCommit, DeleteMark, DeleteEnqueue, Begin, Goto, Respond, NewReq, Request
  <2>4. CASE ConfirmHead(r) \/ ConfirmEnqueue(r)
    <3>1. Goto(r, "c_enqueue") \/ Goto(r, "c_commit")
      BY <2>4 DEF ConfirmHead, ConfirmEnqueue, Respond, NewReq
    <3>2. req'[r].video = req[r].video /\ req'[r].slot = req[r].slot
      BY <3>1 DEF Goto, Request
    <3>3. ConfirmHead(r) => raw[req[r].video][req[r].slot] \in {"good", "corrupt"}
      BY <2>4 DEF ConfirmHead, Respond, NewReq
    <3>4. req[r].pc \in LockPcs /\ (ConfirmEnqueue(r) => req[r].pc = "c_enqueue")
      BY <2>4 DEF ConfirmHead, ConfirmEnqueue, LockPcs
    <3> QED BY <2>4, <3>2, <3>3, <3>4 DEF SeenKept
  <2> QED BY <2>1, <2>2, <2>3, <2>4, RequestMoves
<1> PICK v : v = req[r].video
  OBVIOUS
<1>2. /\ v \in Videos /\ video[v].status = "PENDING_UPLOAD"
      /\ video[v].slot = req[r].slot
  BY <1>1 DEF LocksOK, LockPcs, RequestsOK, Request, ConfirmVideoProcessingWhere
<1> QED BY <1>1, <1>2, RawStays

(* MarkReady and markFailedDetached have decided when they return. *)
LEMMA RawCleanupLateStep ==
  ASSUME IInv, FreshOK, RawCleanupLate, [Next]_vars, "db" \notin FaultKinds
  PROVE  RawCleanupLate'
<1> USE DEF IInv, TypeOK
<1> SUFFICES ASSUME worker'.pc = "t_rawcleanup" PROVE Decided(wv)'
  BY DEF RawCleanupLate
<1> PICK v : v = wv
  OBVIOUS
<1>1. CASE worker' = worker
  <2>1. v \in Videos /\ wv' = v
    BY <1>1, TaskInHand DEF wv
  <2>2. Decided(v)'
    BY <1>1, <2>1, DeadStays DEF RawCleanupLate
  <2> QED BY <2>1, <2>2 DEF Decided
<1>2. CASE MarkReady \/ MarkFailed
  <2>1. /\ Continue("t_rawcleanup") /\ v \in Videos /\ video[v] \in Row
        /\ worker.pc \in {"t_ready", "t_fail"}
    <3>1. worker.pc \in {"t_ready", "t_fail"}
      BY <1>2 DEF MarkReady, MarkFailed
    <3>2. MarkReady => Continue("t_rawcleanup")
      BY DEF MarkReady, CleanUpThen, WorkerState
    <3>3. MarkFailed => Continue("t_rawcleanup")
      BY DEF MarkFailed
    <3> QED BY <1>2, <3>1, <3>2, <3>3, TaskInHand
  <2>2. wv' = v
    BY <2>1, ContinueType DEF WorkerPcs, wv
  <2>3. CASE MarkReady
    <3>1. Writes(v, MarkVideoReady(video[v]))
      BY <2>3 DEF MarkReady, CleanUpThen, WorkerState
    <3>2. video'[v].status = "READY"
      BY <2>1, <3>1 DEF Writes, MarkVideoReady, Row
    <3> QED BY <2>2, <3>2 DEF Decided
  <2>4. CASE MarkFailed
    <3> DEFINE row == MarkVideoFailed(video[v])
    <3>1. CASE Writes(v, row)
      <4>1. video'[v].status = "FAILED"
        BY <2>1, <3>1 DEF Writes, MarkVideoFailed, Row
      <4> QED BY <2>2, <4>1 DEF Decided
    <3>2. CASE UNCHANGED video /\ (~MarkVideoFailedWhere(video[v]) \/ WriteRejected(v, row))
      <4>1. /\ video[v].status \in GivenUp
        BY <2>1, <2>4 DEF MarkFailed, WorkerOK
      <4>2. CASE ~MarkVideoFailedWhere(video[v])
        <5>1. video[v].status \notin Statuses
          BY <4>2 DEF MarkVideoFailedWhere, Exists
        <5>2. video[v].status \in {"READY", "GONE"}
          BY <4>1, <5>1 DEF Statuses
        <5> QED BY <2>2, <3>2, <5>2 DEF Decided
      <4>3. CASE WriteRejected(v, row)
        <5>1. /\ row.status = "FAILED" /\ row.retry = video[v].retry
              /\ row.deletedAt = video[v].deletedAt
          BY <2>1 DEF MarkVideoFailed, Row
        <5>2. video[v].status = "DELETED"
          BY <2>1, <4>3, <5>1 DEF WriteRejected, ChecksPass, RowsOK
        <5> QED BY <2>2, <3>2, <5>2 DEF Decided
      <4> QED BY <3>2, <4>2, <4>3
    <3> QED BY <2>4, <3>1, <3>2 DEF MarkFailed, Fails
  <2> QED BY <1>2, <2>3, <2>4
<1>3. worker' # IdleWorker /\ ~Deliver /\ ~CleanupVideo
  BY CleanupVideoMoves, DeliverMoves DEF IdleWorker, CleanupVideoPcs
<1>4. CASE Transcode /\ ~MarkReady /\ ~MarkFailed
  <2>1. \/ LoadVideo \/ IncrementRetry \/ DownloadRaw \/ ProbeAndValidate \/ UploadNext
        \/ RecheckStatus \/ CleanupOnFailure \/ HandleTransient \/ EnqueueRawCleanup
    BY <1>4 DEF Transcode
  <2> QED BY <1>3, <2>1, UploadMoves DEF LoadVideo, IncrementRetry, DownloadRaw,
         ProbeAndValidate, RecheckStatus, CleanupOnFailure, HandleTransient,
         EnqueueRawCleanup, CleanUpThen, Continue, Ack, WorkerState
<1> QED BY <1>1, <1>2, <1>3, <1>4, WorkerMoves

(* A row becomes PROCESSING with the upload its confirm has seen. *)
LEMMA KeptStep ==
  ASSUME IInv, RawTasksOK, SeenKept, ConfirmedRawKept, [Next]_vars
  PROVE  ConfirmedRawKept'
<1> USE DEF IInv, TypeOK
<1> SUFFICES ASSUME NEW v \in Videos, video'[v].status = "PROCESSING"
             PROVE  raw'[v][video'[v].slot] # "none"
  BY DEF ConfirmedRawKept
<1>1. /\ video[v].status \in {"PENDING_UPLOAD", "PROCESSING"}
      /\ video'[v].slot = video[v].slot
      /\ raw[v][video[v].slot] # "none"
  <2>1. CASE video'[v] = video[v]
    BY <2>1 DEF ConfirmedRawKept
  <2>2. CASE video'[v] # video[v]
    <3> PICK row \in Row : RowStep(v, row)
      <4>1. PICK w \in Videos, row \in Row : RowStep(w, row)
        BY <2>2, RowWrites
      <4>2. w = v
        BY <2>2, <4>1 DEF RowStep
      <4> QED BY <4>1, <4>2
    <3>1. video'[v] = row /\ row.status = "PROCESSING"
      BY DEF RowStep
    <3>2. CASE video[v].status = "PROCESSING"
      BY <3>1, <3>2 DEF RowStep, ConfirmedRawKept
    <3>3. CASE video[v].status # "PROCESSING"
      <4> PICK r \in Reqs : req[r].pc = "c_commit" /\ req[r].video = v
        BY <3>1, <3>3 DEF RowStep
      <4>1. video[v].status = "PENDING_UPLOAD" /\ video[v].slot = req[r].slot
        BY DEF LocksOK, LockPcs, ConfirmVideoProcessingWhere
      <4> QED BY <3>1, <3>3, <4>1 DEF RowStep, SeenKept
    <3> QED BY <3>2, <3>3
  <2> QED BY <2>1, <2>2
<1> QED BY <1>1, RawStays

(* A confirmed upload stays in the bucket until HandleTranscode has decided,
   provided no client PUTs an object of a size ConfirmUpload refuses (its cleanup
   may hit the next PUT at the same key) and markFailedDetached reaches the
   database. *)
THEOREM RawKeptUntilDecided ==
  ASSUME "badsize" \notin Contents, "db" \notin FaultKinds
  PROVE  Spec => []ConfirmedRawKept
<1>1. Init => RawInv
  <2> SUFFICES ASSUME Init PROVE RawInv
    OBVIOUS
  <2>1. LiveTasks = {}
    BY DEF Init, IdleWorker, LiveTasks, EmptyBag, SetToBag
  <2>2. RawTasksOK
    BY <2>1 DEF RawTasksOK
  <2> QED BY <2>2 DEF Init, RawInv, FreshOK, RotatedOK, SeenKept, RawCleanupLate,
         ConfirmedRawKept, IdleWorker, NewReq, EmptyRow
<1>2. IInv /\ RawInv /\ [Next]_vars => RawInv'
  <2> SUFFICES ASSUME IInv, RawInv, [Next]_vars PROVE RawInv'
    OBVIOUS
  <2>1. FreshOK'
    BY DeadStays DEF RawInv, FreshOK
  <2> QED BY <2>1, RotatedStep, RawTasksStep, SeenStep, RawCleanupLateStep, KeptStep DEF RawInv
<1>3. RawInv => ConfirmedRawKept
  BY DEF RawInv
<1> QED BY <1>1, <1>2, <1>3, Invariance, PTL DEF Spec

(***************************************************************************)
(* A published video has its files.                                        *)
(***************************************************************************)

Transcodes(t, v) == t.kind = "transcode" /\ t.video = v

Cleans(t, v) == t.kind = "objects" /\ t.video = v /\ t.files # {}

(* A transcode of v is in the pending list, waits for its delay, is running. *)
Waiting(v) == \E i \in DOMAIN pending : Transcodes(pending[i], v)
Retrying(v) == \E d \in DOMAIN scheduled : Transcodes(d.task, v)
Attempting(v) == worker.pc # "idle" /\ Transcodes(worker.task, v)

(* A cleanup of files of v is in the pending list, is running. *)
CleanPending(v) == \E i \in DOMAIN pending : Cleans(pending[i], v)
Cleaning(v) == worker.pc # "idle" /\ Cleans(worker.task, v)

(* asynq holds at most one transcode of v, and every cleanup of its files comes
   before it. *)
QueueOK(v) ==
    /\ \A i, j \in DOMAIN pending : Transcodes(pending[i], v) /\ Transcodes(pending[j], v) => i = j
    /\ \A d, e \in DOMAIN scheduled : Transcodes(d.task, v) /\ Transcodes(e.task, v) => d = e
    /\ \A d \in DOMAIN scheduled : Transcodes(d.task, v) => scheduled[d] = 1
    /\ ~(Waiting(v) /\ Retrying(v))
    /\ \A d \in DOMAIN scheduled : ~Cleans(d.task, v)
    /\ \A i, j \in DOMAIN pending : Transcodes(pending[i], v) /\ Cleans(pending[j], v) => j < i

(* The row is not confirmed, nor about to be. *)
Early(v) ==
    /\ video[v].status \in {"NONE", "PENDING_UPLOAD"}
    /\ \A r \in Reqs : req[r].pc = "c_commit" => req[r].video # v

(* The end of HandleTranscode, when the attempt's files are published or listed
   in a cleanup. *)
Late == {"t_transient", "t_fail", "t_rawcleanup"}

(* The files of v are wanted. *)
Wanted(v) == (Attempting(v) /\ worker.pc \notin Late) \/ video[v].status = "READY"

(* There is one transcode of v at a time, none before its confirm, and no cleanup
   of its files while they are wanted. *)
AttemptOK(v) ==
    /\ QueueOK(v)
    /\ ~(Attempting(v) /\ (Waiting(v) \/ Retrying(v)))
    /\ Early(v) => ~Attempting(v) /\ ~Waiting(v) /\ ~Retrying(v)
    /\ Wanted(v) => ~CleanPending(v)
    /\ video[v].status = "READY" => ~Cleaning(v)

(* Enqueue appends to the pending list. *)
LEMMA EnqueueKeepsOrder ==
  ASSUME IInv, NEW v \in Videos, NEW task \in Task, Enqueue(task), QueueOK(v),
         Transcodes(task, v) => ~Waiting(v) /\ ~Retrying(v),
         Cleans(task, v) => ~Waiting(v)
  PROVE  /\ QueueOK(v)'
         /\ Waiting(v)' <=> Waiting(v) \/ Transcodes(task, v)
         /\ Retrying(v)' <=> Retrying(v)
         /\ CleanPending(v)' <=> CleanPending(v) \/ Cleans(task, v)
<1>1. pending \in Seq(Task) /\ pending' = Append(pending, task) /\ scheduled' = scheduled
  BY DEF IInv, TypeOK, Enqueue
<1> PICK n \in Nat : n = Len(pending)
  BY <1>1
<1>2. DOMAIN pending = 1..n /\ DOMAIN pending' = 1..(n + 1)
  BY <1>1
<1>3. (\A i \in 1..n : pending'[i] = pending[i]) /\ pending'[n + 1] = task
  BY <1>1
<1>4. \A i \in 1..(n + 1) : i = n + 1 \/ (i \in 1..n /\ pending'[i] = pending[i])
  BY <1>3
<1>5. 1..n \subseteq 1..(n + 1) /\ n + 1 \in 1..(n + 1)
  OBVIOUS
<1>6. Waiting(v)' <=> Waiting(v) \/ Transcodes(task, v)
  BY <1>2, <1>3, <1>4, <1>5 DEF Waiting
<1>7. Retrying(v)' <=> Retrying(v)
  BY <1>1 DEF Retrying
<1>8. CleanPending(v)' <=> CleanPending(v) \/ Cleans(task, v)
  BY <1>2, <1>3, <1>4, <1>5 DEF CleanPending
<1>9. Transcodes(task, v) => ~Cleans(task, v)
  BY DEF Transcodes, Cleans
<1>10. \A i, j \in DOMAIN pending' :
          Transcodes(pending'[i], v) /\ Transcodes(pending'[j], v) => i = j
  BY <1>2, <1>3, <1>4 DEF QueueOK, Waiting
<1>11. \A i, j \in DOMAIN pending' :
          Transcodes(pending'[i], v) /\ Cleans(pending'[j], v) => j < i
  BY <1>2, <1>3, <1>4, <1>9 DEF QueueOK, Waiting
<1>12. ~(Waiting(v)' /\ Retrying(v)')
  BY <1>6, <1>7 DEF QueueOK
<1>13. QueueOK(v)'
  BY <1>1, <1>10, <1>11, <1>12 DEF QueueOK
<1> QED BY <1>6, <1>7, <1>8, <1>13

(* A delayed task joins the scheduled set. *)
LEMMA DelayKeepsOrder ==
  ASSUME IInv, NEW v \in Videos, NEW task \in Task, NEW delay, EnqueueWithDelay(task, delay),
         QueueOK(v), ~Cleans(task, v),
         Transcodes(task, v) => ~Waiting(v) /\ ~Retrying(v)
  PROVE  /\ QueueOK(v)'
         /\ Waiting(v)' <=> Waiting(v)
         /\ Retrying(v)' <=> Retrying(v) \/ Transcodes(task, v)
         /\ CleanPending(v)' <=> CleanPending(v)
<1> PICK x : x = [task |-> task, due |-> now + delay]
  OBVIOUS
<1>1. scheduled' = BagAdd(scheduled, x) /\ pending' = pending /\ x.task = task
  BY DEF EnqueueWithDelay
<1>2. /\ DOMAIN scheduled' = DOMAIN scheduled \cup {x}
      /\ \A d \in DOMAIN scheduled : d # x => scheduled'[d] = scheduled[d]
      /\ x \notin DOMAIN scheduled => scheduled'[x] = 1
  BY <1>1 DEF BagAdd
<1>3. Waiting(v)' <=> Waiting(v)
  BY <1>1 DEF Waiting
<1>4. CleanPending(v)' <=> CleanPending(v)
  BY <1>1 DEF CleanPending
<1>5. Retrying(v)' <=> Retrying(v) \/ Transcodes(task, v)
  BY <1>1, <1>2 DEF Retrying
<1>6. ~(Waiting(v)' /\ Retrying(v)')
  BY <1>3, <1>5 DEF QueueOK
<1>7. Transcodes(x.task, v) => \A d \in DOMAIN scheduled : ~Transcodes(d.task, v)
  BY <1>1 DEF Retrying
<1>8. \A d, e \in DOMAIN scheduled' : Transcodes(d.task, v) /\ Transcodes(e.task, v) => d = e
  BY <1>2, <1>7 DEF QueueOK
<1>9. \A d \in DOMAIN scheduled' : Transcodes(d.task, v) => scheduled'[d] = 1
  BY <1>2, <1>7 DEF QueueOK
<1>10. \A d \in DOMAIN scheduled' : ~Cleans(d.task, v)
  BY <1>1, <1>2 DEF QueueOK
<1>11. QueueOK(v)'
  BY <1>1, <1>6, <1>8, <1>9, <1>10 DEF QueueOK
<1> QED BY <1>3, <1>4, <1>5, <1>11

(* The forwarder puts a retry behind the cleanups of the attempts before it. *)
LEMMA ForwardKeepsOrder ==
  ASSUME IInv, NEW v \in Videos, Forward, QueueOK(v)
  PROVE  /\ QueueOK(v)'
         /\ Waiting(v)' \/ Retrying(v)' <=> Waiting(v) \/ Retrying(v)
         /\ CleanPending(v)' <=> CleanPending(v)
<1> PICK x \in DOMAIN scheduled : scheduled' = BagRemove(scheduled, x)
                                  /\ pending' = Append(pending, x.task)
  BY DEF Forward
<1>1. pending \in Seq(Task) /\ x.task \in Task /\ ~Cleans(x.task, v)
  BY DEF IInv, TypeOK, Delayed, QueueOK
<1> PICK n \in Nat : n = Len(pending)
  BY <1>1
<1>2. DOMAIN pending = 1..n /\ DOMAIN pending' = 1..(n + 1)
  BY <1>1
<1>3. (\A i \in 1..n : pending'[i] = pending[i]) /\ pending'[n + 1] = x.task
  BY <1>1
<1>4. \A i \in 1..(n + 1) : i = n + 1 \/ (i \in 1..n /\ pending'[i] = pending[i])
  BY <1>3
<1>5. 1..n \subseteq 1..(n + 1) /\ n + 1 \in 1..(n + 1)
  OBVIOUS
<1>6. /\ DOMAIN scheduled' \subseteq DOMAIN scheduled
      /\ DOMAIN scheduled \subseteq DOMAIN scheduled' \cup {x}
      /\ \A d \in DOMAIN scheduled' : d # x => scheduled'[d] = scheduled[d]
      /\ scheduled[x] = 1 => x \notin DOMAIN scheduled'
  BY DEF BagRemove
<1>7. Waiting(v)' <=> Waiting(v) \/ Transcodes(x.task, v)
  BY <1>2, <1>3, <1>4, <1>5 DEF Waiting
<1>8. CleanPending(v)' <=> CleanPending(v)
  BY <1>1, <1>2, <1>3, <1>4, <1>5 DEF CleanPending
<1>9. CASE Transcodes(x.task, v)
  <2>1. Retrying(v) /\ ~Waiting(v) /\ scheduled[x] = 1
    BY <1>9 DEF QueueOK, Retrying
  <2>2. \A d \in DOMAIN scheduled' : ~Transcodes(d.task, v)
    BY <1>6, <1>9, <2>1 DEF QueueOK
  <2>3. ~Retrying(v)'
    BY <2>2 DEF Retrying
  <2>4. \A i, j \in DOMAIN pending' :
          Transcodes(pending'[i], v) /\ Transcodes(pending'[j], v) => i = j
    BY <1>2, <1>3, <1>4, <2>1 DEF Waiting
  <2>5. \A i, j \in DOMAIN pending' :
          Transcodes(pending'[i], v) /\ Cleans(pending'[j], v) => j < i
    BY <1>1, <1>2, <1>3, <1>4, <2>1 DEF Waiting
  <2>6. \A d \in DOMAIN scheduled' : ~Cleans(d.task, v)
    BY <1>6 DEF QueueOK
  <2>7. QueueOK(v)'
    BY <2>2, <2>3, <2>4, <2>5, <2>6 DEF QueueOK
  <2> QED BY <1>7, <1>8, <1>9, <2>1, <2>7
<1>10. CASE ~Transcodes(x.task, v)
  <2>1. Retrying(v)' <=> Retrying(v)
    BY <1>6, <1>10 DEF Retrying
  <2>2. \A i, j \in DOMAIN pending' :
          Transcodes(pending'[i], v) /\ Transcodes(pending'[j], v) => i = j
    BY <1>2, <1>3, <1>4, <1>10 DEF QueueOK
  <2>3. \A i, j \in DOMAIN pending' :
          Transcodes(pending'[i], v) /\ Cleans(pending'[j], v) => j < i
    BY <1>1, <1>2, <1>3, <1>4, <1>10 DEF QueueOK
  <2>4. /\ \A d, e \in DOMAIN scheduled' : Transcodes(d.task, v) /\ Transcodes(e.task, v) => d = e
        /\ \A d \in DOMAIN scheduled' : Transcodes(d.task, v) => scheduled'[d] = 1
        /\ \A d \in DOMAIN scheduled' : ~Cleans(d.task, v)
    BY <1>6, <1>10 DEF QueueOK
  <2>5. ~(Waiting(v)' /\ Retrying(v)')
    BY <1>7, <1>10, <2>1 DEF QueueOK
  <2>6. QueueOK(v)'
    BY <2>2, <2>3, <2>4, <2>5 DEF QueueOK
  <2> QED BY <1>7, <1>8, <1>10, <2>1, <2>6
<1> QED BY <1>9, <1>10

(* A transcode is delivered after the cleanups of the attempts before it. *)
LEMMA DeliverKeepsOrder ==
  ASSUME IInv, NEW v \in Videos, Deliver, QueueOK(v)
  PROVE  /\ QueueOK(v)'
         /\ Retrying(v)' <=> Retrying(v)
         /\ Waiting(v) <=> Waiting(v)' \/ Transcodes(Head(pending), v)
         /\ CleanPending(v) <=> CleanPending(v)' \/ Cleans(Head(pending), v)
         /\ Transcodes(Head(pending), v) => ~Waiting(v)' /\ ~Retrying(v) /\ ~CleanPending(v)
<1>1. /\ pending \in Seq(Task) /\ pending # <<>> /\ pending' = Tail(pending)
      /\ scheduled' = scheduled
  BY DeliverMoves DEF IInv, TypeOK, Deliver
<1> PICK n \in Nat : n = Len(pending)
  BY <1>1
<1> PICK h : h = Head(pending)
  OBVIOUS
<1>2. /\ DOMAIN pending = 1..n /\ DOMAIN pending' = 1..(n - 1) /\ n >= 1
  BY <1>1
<1>3. (\A i \in 1..(n - 1) : pending'[i] = pending[i + 1]) /\ h = pending[1]
  BY <1>1
<1>4. \A i \in 1..n : i = 1 \/ (i - 1 \in 1..(n - 1) /\ pending'[i - 1] = pending[i])
  BY <1>3
<1>5. \A i \in 1..(n - 1) : i + 1 \in 1..n /\ i + 1 # 1
  OBVIOUS
<1>6. Retrying(v)' <=> Retrying(v)
  BY <1>1 DEF Retrying
<1>7. Waiting(v) <=> Waiting(v)' \/ Transcodes(h, v)
  <2>1. ASSUME NEW i \in 1..n, Transcodes(pending[i], v)
        PROVE  Waiting(v)' \/ Transcodes(h, v)
    <3>1. CASE i = 1
      BY <1>3, <2>1, <3>1
    <3>2. CASE i # 1
      <4>1. i - 1 \in DOMAIN pending' /\ Transcodes(pending'[i - 1], v)
        BY <1>2, <1>4, <2>1, <3>2
      <4> QED BY <4>1 DEF Waiting
    <3> QED BY <3>1, <3>2
  <2>2. Transcodes(h, v) => Waiting(v)
    BY <1>2, <1>3 DEF Waiting
  <2>3. Waiting(v)' => Waiting(v)
    BY <1>2, <1>3, <1>5 DEF Waiting
  <2> QED BY <1>2, <2>1, <2>2, <2>3 DEF Waiting
<1>8. CleanPending(v) <=> CleanPending(v)' \/ Cleans(h, v)
  <2>1. ASSUME NEW i \in 1..n, Cleans(pending[i], v)
        PROVE  CleanPending(v)' \/ Cleans(h, v)
    <3>1. CASE i = 1
      BY <1>3, <2>1, <3>1
    <3>2. CASE i # 1
      <4>1. i - 1 \in DOMAIN pending' /\ Cleans(pending'[i - 1], v)
        BY <1>2, <1>4, <2>1, <3>2
      <4> QED BY <4>1 DEF CleanPending
    <3> QED BY <3>1, <3>2
  <2>2. Cleans(h, v) => CleanPending(v)
    BY <1>2, <1>3 DEF CleanPending
  <2>3. CleanPending(v)' => CleanPending(v)
    BY <1>2, <1>3, <1>5 DEF CleanPending
  <2> QED BY <1>2, <2>1, <2>2, <2>3 DEF CleanPending
<1>9. Transcodes(h, v) => ~Waiting(v)'
  BY <1>2, <1>3, <1>5 DEF Waiting, QueueOK
<1>10. Transcodes(h, v) => ~Retrying(v)
  BY <1>7 DEF QueueOK
<1>11. Transcodes(h, v) => ~CleanPending(v)
  BY <1>2, <1>3 DEF CleanPending, QueueOK
<1>12. \A i, j \in DOMAIN pending' :
          Transcodes(pending'[i], v) /\ Transcodes(pending'[j], v) => i = j
  <2> SUFFICES ASSUME NEW i \in 1..(n - 1), NEW j \in 1..(n - 1),
                      Transcodes(pending'[i], v), Transcodes(pending'[j], v)
               PROVE  i = j
    BY <1>2
  <2>1. i + 1 = j + 1
    BY <1>2, <1>3, <1>5 DEF QueueOK
  <2> QED BY <2>1
<1>13. \A i, j \in DOMAIN pending' :
          Transcodes(pending'[i], v) /\ Cleans(pending'[j], v) => j < i
  <2> SUFFICES ASSUME NEW i \in 1..(n - 1), NEW j \in 1..(n - 1),
                      Transcodes(pending'[i], v), Cleans(pending'[j], v)
               PROVE  j < i
    BY <1>2
  <2>1. j + 1 < i + 1
    BY <1>2, <1>3, <1>5 DEF QueueOK
  <2> QED BY <2>1
<1>14. ~(Waiting(v)' /\ Retrying(v)')
  BY <1>6, <1>7 DEF QueueOK
<1>15. QueueOK(v)'
  BY <1>1, <1>12, <1>13, <1>14 DEF QueueOK
<1> QED BY <1>6, <1>7, <1>8, <1>9, <1>10, <1>11, <1>15

(* An attempt has put into the bucket the files before the one it is at. *)
Uploaded ==
    /\ worker.pc \in {"t_load", "t_increment", "t_download", "t_probe"} => worker.file = 1
    /\ worker.pc = "t_upload" => 1..(worker.file - 1) \subseteq media[wv]
    /\ worker.pc \in {"t_recheck", "t_ready"} => media[wv] = Files

(* The failures after which asynq may hold two transcodes of a video, or a cleanup
   behind the transcode that publishes it. *)
Unordered == {"commit", "apicrash", "crash", "delete", "ready_unknown"}

(* Tasks that neither transcode nor delete transcoded files. *)
Harmless(t) == t.kind = "video" \/ (t.kind = "objects" /\ t.files = {})

(* What a step does to the queue. *)
QueueMove ==
    \/ UNCHANGED queue
    \/ Forward
    \/ \E t \in Task : Harmless(t) /\ (Enqueue(t) \/ \E delay : EnqueueWithDelay(t, delay))
    \/ \E r \in Reqs : /\ req[r].pc = "c_enqueue" /\ Goto(r, "c_commit")
                       /\ Enqueue(TranscodeTask(req[r].video, 1))
    \/ /\ worker.pc = "t_transient" /\ Ack
       /\ EnqueueWithDelay(TranscodeTask(wv, AsynqMaxRetry), 0)
    \/ CleanupOnFailure /\ Enqueue(CleanupObjectsTask(wv, {}, worker.keys))

(* A confirmed row stays confirmed, and a confirm that has enqueued its transcode
   commits. *)
LEMMA EarlyStays ==
  ASSUME IInv, [Next]_vars, {"commit", "apicrash"} \cap FaultKinds = {}, NEW v \in Videos
  PROVE  Early(v)' => Early(v)
<1> USE DEF IInv, TypeOK
<1> SUFFICES ASSUME Early(v)' PROVE Early(v)
  OBVIOUS
<1>1. video[v].status \in {"NONE", "PENDING_UPLOAD"}
  <2>1. CASE UNCHANGED video
    BY <2>1 DEF Early
  <2>2. CASE \E w \in Videos, row \in Row : RowStep(w, row)
    <3> PICK w \in Videos, row \in Row : RowStep(w, row)
      BY <2>2
    <3>1. CASE w # v
      BY <3>1 DEF RowStep, Early
    <3>2. CASE w = v
      BY <3>2 DEF RowStep, Early, Moves, LateMoves
    <3> QED BY <3>1, <3>2
  <2> QED BY <2>1, <2>2, RowWrites
<1>2. ASSUME NEW r \in Reqs, req[r].pc = "c_commit", req[r].video = v
      PROVE  FALSE
  <2>1. req'[r] # req[r]
    BY <1>2 DEF Early
  <2>2. ~ApiCrash(r) /\ ~StartRequest(r)
    BY <1>2 DEF ApiCrash, Fails, StartRequest, IntentGetPending, ConfirmLock, DeleteRead
  <2>3. ConfirmCommit(r)
    BY <1>2, <2>1, <2>2, RequestMoves DEF ServeRequest, IntentInsert, IntentRotate,
       IntentMetadata, IntentPresign, ConfirmHead, ConfirmEnqueue, DeleteMark, DeleteEnqueue
  <2>4. video' = [video EXCEPT ![v] = ConfirmVideoProcessing(@)]
    BY <1>2, <2>3 DEF ConfirmCommit, Fails
  <2>5. video'[v].status = "PROCESSING"
    BY <2>4 DEF ConfirmVideoProcessing, Row
  <2> QED BY <2>5 DEF Early
<1> QED BY <1>1, <1>2 DEF Early

(* The api-gateway enqueues transcodes in ConfirmUpload only, and no deletion of
   transcoded files. *)
LEMMA ApiQueues ==
  ASSUME IInv, NEW r \in Reqs, StartRequest(r) \/ ServeRequest(r) \/ ApiCrash(r)
  PROVE  QueueMove
<1> USE DEF IInv, TypeOK
<1> DEFINE v == req[r].video
<1>0. req[r] \in Request
  OBVIOUS
<1>1. CASE IntentPresign(r)
  <2> DEFINE t == CleanupObjectsTask(v, {req[r].old}, {})
  <2>1. UNCHANGED queue \/ (TryEnqueue(t) /\ req[r].old # "none")
    BY <1>1 DEF IntentPresign
  <2>2. CASE TryEnqueue(t) /\ req[r].old # "none"
    <3>1. v \in Videos
      BY <1>0, <1>1 DEF IntentPresign, RequestsOK, Request
    <3>2. t \in Task
      BY <1>0, <2>2, <3>1, TaskTypes DEF Request
    <3>3. Harmless(t)
      BY DEF Harmless, CleanupObjectsTask
    <3> HIDE DEF t
    <3> QED BY <2>2, <3>2, <3>3 DEF TryEnqueue, QueueMove
  <2> QED BY <2>1, <2>2 DEF QueueMove
<1>2. CASE ConfirmHead(r)
  <2> DEFINE t == CleanupObjectsTask(v, {req[r].slot}, {})
  <2>1. UNCHANGED queue \/ TryEnqueue(t)
    BY <1>2 DEF ConfirmHead
  <2>2. CASE TryEnqueue(t)
    <3>1. v \in Videos
      BY <1>0, <1>2 DEF ConfirmHead, RequestsOK, Request
    <3>2. t \in Task
      BY <1>0, <3>1, TaskTypes DEF Request
    <3>3. Harmless(t)
      BY DEF Harmless, CleanupObjectsTask
    <3> HIDE DEF t
    <3> QED BY <2>2, <3>2, <3>3 DEF TryEnqueue, QueueMove
  <2> QED BY <2>1, <2>2 DEF QueueMove
<1>3. CASE ConfirmEnqueue(r)
  BY <1>3 DEF ConfirmEnqueue, QueueMove
<1>4. CASE DeleteEnqueue(r)
  <2> DEFINE t == CleanupVideoTask(v)
  <2>1. TryEnqueueWithDelay(t, Grace)
    BY <1>4 DEF DeleteEnqueue
  <2>2. v \in Videos
    BY <1>0, <1>4 DEF DeleteEnqueue, RequestsOK, Request
  <2>3. t \in Task
    BY <2>2, TaskTypes
  <2>4. Harmless(t)
    BY DEF Harmless, CleanupVideoTask
  <2> HIDE DEF t
  <2> QED BY <2>1, <2>3, <2>4 DEF TryEnqueueWithDelay, QueueMove
<1>5. CASE StartRequest(r) \/ ApiCrash(r)
  BY <1>5 DEF StartRequest, IntentGetPending, ConfirmLock, DeleteRead, ApiCrash, QueueMove
<1>6. CASE IntentInsert(r) \/ IntentRotate(r) \/ IntentMetadata(r) \/ ConfirmCommit(r)
           \/ DeleteMark(r)
  BY <1>6 DEF IntentInsert, IntentRotate, IntentMetadata, ConfirmCommit, DeleteMark, QueueMove
<1> QED BY <1>1, <1>2, <1>3, <1>4, <1>5, <1>6 DEF ServeRequest

(* HandleTranscode enqueues its own retry, and the deletion of what the attempt
   has uploaded. *)
LEMMA TranscodeQueues ==
  ASSUME IInv, Transcode
  PROVE  QueueMove
<1> USE DEF IInv, TypeOK
<1>1. worker.pc # "idle"
  BY TranscodeMoves
<1>2. wv \in Videos
  BY <1>1, TaskInHand
<1>3. CASE \/ LoadVideo \/ IncrementRetry \/ DownloadRaw \/ ProbeAndValidate \/ UploadNext
           \/ RecheckStatus \/ MarkReady \/ MarkFailed
  BY <1>3 DEF LoadVideo, IncrementRetry, DownloadRaw, ProbeAndValidate, UploadNext,
     RecheckStatus, MarkReady, MarkFailed, QueueMove
<1>4. CASE CleanupOnFailure
  BY <1>4 DEF CleanupOnFailure, TryEnqueue, QueueMove
<1>5. CASE HandleTransient
  BY <1>5 DEF HandleTransient, TryEnqueueWithDelay, QueueMove
<1>6. CASE EnqueueRawCleanup
  <2> DEFINE t == CleanupObjectsTask(wv, {worker.slot}, {})
  <2>1. TryEnqueue(t)
    BY <1>6 DEF EnqueueRawCleanup
  <2>2. t \in Task
    BY <1>2, TaskTypes DEF WorkerState
  <2>3. Harmless(t)
    BY DEF Harmless, CleanupObjectsTask
  <2> HIDE DEF t
  <2> QED BY <2>1, <2>2, <2>3 DEF TryEnqueue, QueueMove
<1> QED BY <1>3, <1>4, <1>5, <1>6 DEF Transcode

(* The deletions of R2 succeed, so the cleanup handlers enqueue only
   cleanup:video. *)
LEMMA CleanupQueues ==
  ASSUME IInv, KindOK, "delete" \notin FaultKinds, HandleCleanupObjects \/ CleanupVideo
  PROVE  QueueMove
<1> USE DEF IInv, TypeOK
<1>1. CASE HandleCleanupObjects \/ CleanupVideoPrefix \/ CleanupVideoObjects
  BY <1>1 DEF HandleCleanupObjects, CleanupVideoPrefix, CleanupVideoObjects, Fails, QueueMove
<1>2. CASE CleanupVideoLoad
  <2> DEFINE t == CleanupVideoTask(wv)
  <2>1. UNCHANGED queue \/ \E delay : TryEnqueueWithDelay(t, delay)
    BY <1>2 DEF CleanupVideoLoad
  <2>2. wv \in Videos
    BY <1>2, TaskInHand DEF CleanupVideoLoad
  <2>3. t \in Task
    BY <2>2, TaskTypes
  <2>4. Harmless(t)
    BY DEF Harmless, CleanupVideoTask
  <2> HIDE DEF t
  <2> QED BY <2>1, <2>3, <2>4 DEF TryEnqueueWithDelay, QueueMove
<1>3. CASE CleanupVideoRow
  <2>1. worker.task \in Task /\ worker.task.kind = "video"
    BY <1>3, TaskInHand DEF CleanupVideoRow, KindOK, CleanupVideoPcs
  <2>2. UNCHANGED queue \/ Nack
    BY <1>3 DEF CleanupVideoRow
  <2>3. CASE worker.task.left > 0 /\ Nack
    <3> DEFINE t == [worker.task EXCEPT !.left = @ - 1]
    <3>1. EnqueueWithDelay(t, 0)
      BY <2>3 DEF Nack
    <3>2. t \in Task
      <4>1. worker.task.left \in Nat /\ worker.task.left - 1 \in Nat
        BY <2>1, <2>3 DEF Task
      <4> QED BY <2>1, <4>1 DEF Task
    <3>3. Harmless(t)
      BY <2>1 DEF Harmless, Task
    <3> HIDE DEF t
    <3> QED BY <3>1, <3>2, <3>3 DEF QueueMove
  <2>4. CASE ~(worker.task.left > 0) /\ Nack
    BY <2>4 DEF Nack, QueueMove
  <2> QED BY <2>2, <2>3, <2>4 DEF QueueMove
<1> QED BY <1>1, <1>2, <1>3 DEF CleanupVideo

(* The moves of the queue. *)
LEMMA QueueMoves ==
  ASSUME IInv, KindOK, [Next]_vars, {"crash", "delete"} \cap FaultKinds = {}
  PROVE  Deliver \/ QueueMove
<1>1. CASE UNCHANGED queue
  BY <1>1 DEF QueueMove
<1>2. CASE Forward
  BY <1>2 DEF QueueMove
<1>3. CASE \E v \in Videos, s \in Slots, c \in Contents : ClientPut(v, s, c)
  BY <1>1, <1>3 DEF ClientPut
<1>4. CASE Tick \/ UNCHANGED vars
  BY <1>1, <1>4 DEF Tick, vars, queue
<1>5. ~WorkerCrash
  BY DEF WorkerCrash, Fails
<1> QED BY <1>2, <1>3, <1>4, <1>5, ApiQueues, TranscodeQueues, CleanupQueues
        DEF Next, WorkerStep

(* Between two deliveries the worker stays with its task or becomes idle, and
   HandleTranscode does not return from its end. *)
LEMMA WorkerStays ==
  ASSUME IInv, [Next]_vars, ~Deliver
  PROVE  \/ worker'.pc = "idle"
         \/ /\ worker.pc # "idle" /\ worker'.pc # "idle" /\ worker'.task = worker.task
            /\ worker.pc \in Late => worker'.pc \in Late
<1> USE DEF IInv, TypeOK
<1>1. CASE worker' = worker \/ worker' = IdleWorker
  BY <1>1 DEF IdleWorker
<1>2. CASE Transcode
  <2>1. CASE worker.pc \notin Late
    BY <1>2, <2>1, TranscodeMoves DEF IdleWorker
  <2>2. CASE worker.pc \in Late
    <3>1. HandleTransient \/ MarkFailed \/ EnqueueRawCleanup
      BY <1>2, <2>2 DEF Late, Transcode, LoadVideo, IncrementRetry, DownloadRaw,
         ProbeAndValidate, UploadNext, RecheckStatus, MarkReady, CleanupOnFailure
    <3>2. Ack \/ Continue("t_fail") \/ Continue("t_rawcleanup")
      BY <3>1 DEF HandleTransient, MarkFailed, EnqueueRawCleanup
    <3> QED BY <1>2, <3>2, TranscodeMoves DEF Late, Ack, Continue, IdleWorker, WorkerState
  <2> QED BY <2>1, <2>2
<1>3. CASE CleanupVideo
  BY <1>3, CleanupVideoMoves DEF CleanupVideoPcs, Late, IdleWorker
<1> QED BY <1>1, <1>2, <1>3, WorkerMoves

(* Only the attempt that has its files makes a row READY. *)
LEMMA ReadyMoves ==
  ASSUME IInv, KindOK, [Next]_vars, NEW v \in Videos,
         video'[v].status = "READY", video[v].status # "READY"
  PROVE  worker.pc = "t_ready" /\ wv = v /\ Attempting(v)
<1> USE DEF IInv, TypeOK
<1>1. PICK w \in Videos, row \in Row : RowStep(w, row)
  BY RowWrites
<1>2. w = v /\ row.status = "READY"
  BY <1>1 DEF RowStep
<1>3. worker.pc = "t_ready" /\ wv = v
  BY <1>1, <1>2 DEF RowStep
<1> QED BY <1>3 DEF KindOK, Attempting, Transcodes, wv

(* Between two deliveries no attempt, no deletion and no wish for files begins. *)
LEMMA NothingBegins ==
  ASSUME IInv, KindOK, [Next]_vars, ~Deliver, NEW v \in Videos
  PROVE  /\ Attempting(v)' => Attempting(v)
         /\ Cleaning(v)' => Cleaning(v)
         /\ Wanted(v)' => Wanted(v)
<1>1. Attempting(v)' => Attempting(v)
  BY WorkerStays DEF Attempting
<1>2. Cleaning(v)' => Cleaning(v)
  BY WorkerStays DEF Cleaning
<1>3. Wanted(v)' => Wanted(v)
  <2>1. CASE Attempting(v)' /\ worker'.pc \notin Late
    BY <1>1, <2>1, WorkerStays DEF Wanted, Attempting
  <2>2. CASE video'[v].status = "READY"
    BY <2>2, ReadyMoves DEF Wanted, Late
  <2> QED BY <2>1, <2>2 DEF Wanted
<1> QED BY <1>1, <1>2, <1>3

(* A step that begins nothing and adds nothing for v to the queue. *)
LEMMA AttemptFrame ==
  ASSUME IInv, KindOK, [Next]_vars, ~Deliver, {"commit", "apicrash"} \cap FaultKinds = {},
         NEW v \in Videos, AttemptOK(v), QueueOK(v)',
         Waiting(v)' \/ Retrying(v)' => Waiting(v) \/ Retrying(v),
         CleanPending(v)' => CleanPending(v)
  PROVE  AttemptOK(v)'
<1>1. video'[v].status = "READY" => ~Cleaning(v)'
  <2>1. CASE video[v].status = "READY"
    BY <2>1, NothingBegins DEF AttemptOK
  <2>2. CASE video[v].status # "READY" /\ video'[v].status = "READY"
    <3>1. Attempting(v)
      BY <2>2, ReadyMoves
    <3>2. ~Cleaning(v)
      BY <3>1 DEF Attempting, Cleaning, Transcodes, Cleans
    <3> QED BY <3>2, NothingBegins
  <2> QED BY <2>1, <2>2
<1> QED BY <1>1, NothingBegins, EarlyStays DEF AttemptOK

(* The worker takes a transcode when its cleanups are done, and a cleanup when
   nobody wants the files. *)
LEMMA DeliverAttempt ==
  ASSUME IInv, KindOK, Deliver, NEW v \in Videos, AttemptOK(v)
  PROVE  AttemptOK(v)'
<1>1. QueueOK(v)
  BY DEF AttemptOK
<1> DEFINE h == Head(pending)
<1>2. worker.pc = "idle" /\ worker'.pc # "idle" /\ worker'.pc \notin Late /\ worker'.task = h
  BY DeliverMoves DEF Late
<1>3. UNCHANGED <<video, req>>
  BY DEF Deliver
<1>4. (Attempting(v)' <=> Transcodes(h, v)) /\ (Cleaning(v)' <=> Cleans(h, v))
  BY <1>2 DEF Attempting, Cleaning
<1>5. /\ QueueOK(v)'
      /\ Retrying(v)' <=> Retrying(v)
      /\ Waiting(v) <=> Waiting(v)' \/ Transcodes(h, v)
      /\ CleanPending(v) <=> CleanPending(v)' \/ Cleans(h, v)
      /\ Transcodes(h, v) => ~Waiting(v)' /\ ~Retrying(v) /\ ~CleanPending(v)
  BY <1>1, DeliverKeepsOrder
<1> HIDE DEF h
<1>6. Early(v)' => Early(v)
  BY <1>3 DEF Early
<1>7. ~(Attempting(v)' /\ (Waiting(v)' \/ Retrying(v)'))
  BY <1>4, <1>5
<1>8. Early(v)' => ~Attempting(v)' /\ ~Waiting(v)' /\ ~Retrying(v)'
  BY <1>4, <1>5, <1>6 DEF AttemptOK
<1>9. Wanted(v)' => ~CleanPending(v)'
  BY <1>3, <1>4, <1>5 DEF AttemptOK, Wanted
<1>10. video'[v].status = "READY" => ~Cleaning(v)'
  BY <1>3, <1>4, <1>5 DEF AttemptOK, Wanted
<1> QED BY <1>5, <1>7, <1>8, <1>9, <1>10 DEF AttemptOK

(* ConfirmUpload enqueues the first transcode of a row it still holds unconfirmed. *)
LEMMA ConfirmAttempt ==
  ASSUME IInv, KindOK, [Next]_vars, ~Deliver, {"commit", "apicrash"} \cap FaultKinds = {},
         NEW r \in Reqs, req[r].pc = "c_enqueue", Goto(r, "c_commit"),
         Enqueue(TranscodeTask(req[r].video, 1)), NEW v \in Videos, AttemptOK(v)
  PROVE  AttemptOK(v)'
<1> USE DEF IInv, TypeOK
<1> DEFINE t == TranscodeTask(req[r].video, 1)
<1>1. req[r] \in Request /\ req[r].video \in Videos
  BY DEF RequestsOK, Request
<1>2. t \in Task
  BY <1>1, TaskTypes
<1>3. (Transcodes(t, v) <=> req[r].video = v) /\ ~Cleans(t, v)
  BY DEF Transcodes, Cleans, TranscodeTask
<1>4. req[r].video = v => Early(v)
  <2> SUFFICES ASSUME req[r].video = v PROVE Early(v)
    OBVIOUS
  <2>1. video[v].status = "PENDING_UPLOAD"
    BY DEF LocksOK, LockPcs, ConfirmVideoProcessingWhere
  <2>2. ASSUME NEW q \in Reqs, req[q].pc = "c_commit", req[q].video = v PROVE FALSE
    BY <2>2 DEF LocksOK, LockPcs
  <2> QED BY <2>1, <2>2 DEF Early
<1> HIDE DEF t
<1>5. Transcodes(t, v) => ~Attempting(v) /\ ~Waiting(v) /\ ~Retrying(v)
  BY <1>3, <1>4 DEF AttemptOK
<1>6. /\ QueueOK(v)'
      /\ Waiting(v)' <=> Waiting(v) \/ Transcodes(t, v)
      /\ Retrying(v)' <=> Retrying(v)
      /\ CleanPending(v)' <=> CleanPending(v) \/ Cleans(t, v)
  <2>1. Enqueue(t) /\ QueueOK(v)
    BY DEF AttemptOK, t
  <2> QED BY <1>2, <1>3, <1>5, <2>1, EnqueueKeepsOrder
<1>7. CASE ~Transcodes(t, v)
  BY <1>3, <1>6, <1>7, AttemptFrame
<1>8. CASE Transcodes(t, v)
  <2>1. req'[r].pc = "c_commit" /\ req'[r].video = v
    BY <1>1, <1>3, <1>8 DEF Goto, Request
  <2>2. ~Early(v)'
    BY <2>1 DEF Early
  <2>3. ~Attempting(v)'
    BY <1>5, <1>8, NothingBegins
  <2>4. Wanted(v)' => ~CleanPending(v)'
    BY <1>3, <1>6, NothingBegins DEF AttemptOK
  <2>5. video'[v].status = "READY" => ~Cleaning(v)'
    BY <1>5, <1>8, ReadyMoves, NothingBegins DEF AttemptOK
  <2> QED BY <1>6, <2>2, <2>3, <2>4, <2>5 DEF AttemptOK
<1> QED BY <1>7, <1>8

(* handleTransient enqueues the next attempt and ends this one. *)
LEMMA RetryAttempt ==
  ASSUME IInv, KindOK, [Next]_vars, ~Deliver, {"commit", "apicrash"} \cap FaultKinds = {},
         worker.pc = "t_transient", Ack,
         EnqueueWithDelay(TranscodeTask(wv, AsynqMaxRetry), 0), NEW v \in Videos, AttemptOK(v)
  PROVE  AttemptOK(v)'
<1> DEFINE t == TranscodeTask(wv, AsynqMaxRetry)
<1>1. t \in Task
  BY TaskInHand, TaskTypes
<1>2. (Transcodes(t, v) <=> wv = v) /\ ~Cleans(t, v)
  BY DEF Transcodes, Cleans, TranscodeTask
<1> HIDE DEF t
<1>3. Attempting(v) <=> Transcodes(t, v)
  BY <1>2 DEF KindOK, Attempting, Transcodes, wv
<1>4. Transcodes(t, v) => ~Waiting(v) /\ ~Retrying(v)
  BY <1>3 DEF AttemptOK
<1>5. /\ QueueOK(v)'
      /\ Waiting(v)' <=> Waiting(v)
      /\ Retrying(v)' <=> Retrying(v) \/ Transcodes(t, v)
      /\ CleanPending(v)' <=> CleanPending(v)
  <2>1. EnqueueWithDelay(t, 0) /\ QueueOK(v)
    BY DEF AttemptOK, t
  <2> QED BY <1>1, <1>2, <1>4, <2>1, DelayKeepsOrder
<1>6. CASE ~Transcodes(t, v)
  BY <1>5, <1>6, AttemptFrame
<1>7. CASE Transcodes(t, v)
  <2>1. ~Attempting(v)' /\ ~Cleaning(v)'
    BY DEF Ack, IdleWorker, Attempting, Cleaning
  <2>2. ~Early(v)'
    BY <1>3, <1>7, EarlyStays DEF AttemptOK
  <2>3. Wanted(v)' => ~CleanPending(v)'
    BY <1>5, NothingBegins DEF AttemptOK
  <2> QED BY <1>5, <2>1, <2>2, <2>3 DEF AttemptOK
<1> QED BY <1>6, <1>7

(* cleanupOnFailure runs before the next attempt is enqueued, for a video that is
   not published. *)
LEMMA CleanupAttempt ==
  ASSUME IInv, KindOK, [Next]_vars, ~Deliver, {"commit", "apicrash"} \cap FaultKinds = {},
         "ready_unknown" \notin FaultKinds,
         CleanupOnFailure, Enqueue(CleanupObjectsTask(wv, {}, worker.keys)),
         NEW v \in Videos, AttemptOK(v)
  PROVE  AttemptOK(v)'
<1> USE DEF IInv, TypeOK
<1> DEFINE t == CleanupObjectsTask(wv, {}, worker.keys)
<1>1. worker.pc = "t_cleanup" /\ UNCHANGED video
  BY DEF CleanupOnFailure
<1>2. t \in Task
  BY <1>1, TaskInHand, TaskTypes DEF WorkerState
<1>3. ~Transcodes(t, v) /\ (Cleans(t, v) => wv = v)
  BY DEF Transcodes, Cleans, CleanupObjectsTask
<1> HIDE DEF t
<1>4. Attempting(v) <=> wv = v
  BY <1>1 DEF KindOK, Attempting, Transcodes, wv
<1>5. Cleans(t, v) => ~Waiting(v)
  BY <1>3, <1>4 DEF AttemptOK
<1>6. /\ QueueOK(v)'
      /\ Waiting(v)' <=> Waiting(v)
      /\ Retrying(v)' <=> Retrying(v)
      /\ CleanPending(v)' <=> CleanPending(v) \/ Cleans(t, v)
  <2>1. Enqueue(t) /\ QueueOK(v)
    BY DEF AttemptOK, t
  <2> QED BY <1>2, <1>3, <1>5, <2>1, EnqueueKeepsOrder
<1>7. CASE ~Cleans(t, v)
  BY <1>6, <1>7, AttemptFrame
<1>8. CASE Cleans(t, v)
  <2>1. video[v].status # "READY" /\ video'[v].status # "READY"
    BY <1>1, <1>3, <1>8 DEF WorkerOK
  <2>2. ~(Attempting(v)' /\ worker'.pc \notin Late)
    BY <1>1 DEF CleanupOnFailure, Ack, Continue, IdleWorker, WorkerState, Late, Attempting
  <2>3. ~Wanted(v)'
    BY <2>1, <2>2 DEF Wanted
  <2>4. Attempting(v)' => ~Waiting(v)' /\ ~Retrying(v)'
    BY <1>6, NothingBegins DEF AttemptOK
  <2>5. Early(v)' => ~Attempting(v)' /\ ~Waiting(v)' /\ ~Retrying(v)'
    BY <1>6, NothingBegins, EarlyStays DEF AttemptOK
  <2> QED BY <1>6, <2>1, <2>3, <2>4, <2>5 DEF AttemptOK
<1> QED BY <1>7, <1>8

(* Every step keeps the transcodes and the cleanups of a video apart. *)
LEMMA AttemptStep ==
  ASSUME IInv, KindOK, [Next]_vars, Unordered \cap FaultKinds = {}, NEW v \in Videos, AttemptOK(v)
  PROVE  AttemptOK(v)'
<1>0. /\ {"commit", "apicrash"} \cap FaultKinds = {} /\ {"crash", "delete"} \cap FaultKinds = {}
      /\ "ready_unknown" \notin FaultKinds
  BY DEF Unordered
<1>1. CASE Deliver
  BY <1>1, DeliverAttempt
<1>2. CASE ~Deliver /\ UNCHANGED queue
  <2>1. QueueOK(v)' /\ Waiting(v)' = Waiting(v) /\ Retrying(v)' = Retrying(v)
        /\ CleanPending(v)' = CleanPending(v)
    BY <1>2 DEF queue, AttemptOK, QueueOK, Waiting, Retrying, CleanPending
  <2> QED BY <1>0, <1>2, <2>1, AttemptFrame
<1>3. CASE ~Deliver /\ Forward
  BY <1>0, <1>3, ForwardKeepsOrder, AttemptFrame DEF AttemptOK
<1>4. CASE ~Deliver /\ \E t \in Task : Harmless(t) /\ (Enqueue(t) \/ \E delay : EnqueueWithDelay(t, delay))
  <2> PICK t \in Task : Harmless(t) /\ (Enqueue(t) \/ \E delay : EnqueueWithDelay(t, delay))
    BY <1>4
  <2>1. ~Transcodes(t, v) /\ ~Cleans(t, v) /\ QueueOK(v)
    BY DEF Harmless, Transcodes, Cleans, AttemptOK
  <2>2. QueueOK(v)' /\ (Waiting(v)' <=> Waiting(v)) /\ (Retrying(v)' <=> Retrying(v))
        /\ (CleanPending(v)' <=> CleanPending(v))
    <3>1. CASE Enqueue(t)
      BY <2>1, <3>1, EnqueueKeepsOrder
    <3>2. CASE \E delay : EnqueueWithDelay(t, delay)
      BY <2>1, <3>2, DelayKeepsOrder
    <3> QED BY <3>1, <3>2
  <2> QED BY <1>0, <1>4, <2>2, AttemptFrame
<1>5. CASE ~Deliver /\ \E r \in Reqs : /\ req[r].pc = "c_enqueue" /\ Goto(r, "c_commit")
                                       /\ Enqueue(TranscodeTask(req[r].video, 1))
  BY <1>0, <1>5, ConfirmAttempt
<1>6. CASE ~Deliver /\ worker.pc = "t_transient" /\ Ack
           /\ EnqueueWithDelay(TranscodeTask(wv, AsynqMaxRetry), 0)
  BY <1>0, <1>6, RetryAttempt
<1>7. CASE ~Deliver /\ CleanupOnFailure /\ Enqueue(CleanupObjectsTask(wv, {}, worker.keys))
  BY <1>0, <1>7, CleanupAttempt
<1> QED BY <1>0, <1>1, <1>2, <1>3, <1>4, <1>5, <1>6, <1>7, QueueMoves DEF QueueMove

(* Only the two cleanup handlers delete transcoded files. *)
LEMMA MediaLost ==
  ASSUME IInv, [Next]_vars, NEW v \in Videos, NEW f \in media[v], f \notin media'[v]
  PROVE  \/ HandleCleanupObjects /\ wv = v /\ f \in worker.task.files
         \/ (CleanupVideoPrefix \/ CleanupVideoObjects) /\ wv = v
<1> USE DEF IInv, TypeOK
<1>1. media' # media
  OBVIOUS
<1>2. CASE UploadNext
  <2>1. media' = [media EXCEPT ![wv] = @ \cup {worker.file}]
    BY <1>1, <1>2 DEF UploadNext
  <2> QED BY <2>1
<1>3. CASE HandleCleanupObjects
  <2> PICK raws, files : files \subseteq worker.task.files /\ DeleteObjects(wv, raws, files)
    BY <1>3 DEF HandleCleanupObjects, DeleteSome
  <2> QED BY <1>3 DEF DeleteObjects
<1>4. CASE CleanupVideoPrefix \/ CleanupVideoObjects
  <2> PICK raws, files : DeleteObjects(wv, raws, files)
    BY <1>4 DEF CleanupVideoPrefix, CleanupVideoObjects, DeleteSome
  <2> QED BY <1>4 DEF DeleteObjects
<1>5. CASE \E r \in Reqs : StartRequest(r) \/ ServeRequest(r) \/ ApiCrash(r)
  BY <1>1, <1>5 DEF StartRequest, IntentGetPending, ConfirmLock, DeleteRead, ServeRequest,
     IntentInsert, IntentRotate, IntentMetadata, IntentPresign, ConfirmHead,
     ConfirmEnqueue, ConfirmCommit, DeleteMark, DeleteEnqueue, ApiCrash, store
<1>6. CASE \/ \E w \in Videos, s \in Slots, c \in Contents : ClientPut(w, s, c)
           \/ Tick \/ Forward \/ Deliver \/ WorkerCrash \/ UNCHANGED vars
  BY <1>1, <1>6 DEF ClientPut, Tick, Forward, Deliver, WorkerCrash, vars, store
<1>7. CASE \/ LoadVideo \/ IncrementRetry \/ DownloadRaw \/ ProbeAndValidate
           \/ RecheckStatus \/ MarkReady \/ CleanupOnFailure \/ HandleTransient
           \/ MarkFailed \/ EnqueueRawCleanup \/ CleanupVideoLoad \/ CleanupVideoRow
  BY <1>1, <1>7 DEF LoadVideo, IncrementRetry, DownloadRaw, ProbeAndValidate,
     RecheckStatus, MarkReady, CleanupOnFailure, HandleTransient, MarkFailed,
     EnqueueRawCleanup, CleanupVideoLoad, CleanupVideoRow, store
<1> QED BY <1>2, <1>3, <1>4, <1>5, <1>6, <1>7 DEF Next, WorkerStep, Transcode, CleanupVideo

(* The files before the next one stay in the bucket while HandleTranscode runs. *)
LEMMA UploadedStep ==
  ASSUME IInv, Uploaded, [Next]_vars
  PROVE  Uploaded'
<1>1. worker \in WorkerState /\ media \in [Videos -> SUBSET Files]
  BY DEF IInv, TypeOK
<1>2. CASE worker' = worker
  <2>1. CASE worker.pc \in {"t_upload", "t_recheck", "t_ready"}
    <3>1. wv \in Videos /\ wv' = wv
      BY <1>2, <2>1, TaskInHand DEF wv
    <3>2. ~HandleCleanupObjects /\ ~CleanupVideoPrefix /\ ~CleanupVideoObjects
      BY <2>1 DEF HandleCleanupObjects, CleanupVideoPrefix, CleanupVideoObjects
    <3>3. \A f \in media[wv] : f \in media'[wv]
      <4> SUFFICES ASSUME NEW v \in Videos, v = wv, NEW f \in media[v]
                   PROVE  f \in media'[v]
        BY <3>1
      <4> QED BY <3>2, MediaLost
    <3>4. \A f \in media'[wv] : f \in media[wv]
      <4> SUFFICES ASSUME NEW v \in Videos, v = wv, NEW f \in media'[v]
                   PROVE  f \in media[v]
        BY <3>1
      <4>1. CASE UploadNext
        <5>1. worker.file \in Nat /\ worker.file # worker.file + 1
          BY <1>1 DEF WorkerState
        <5> QED BY <1>2, <4>1, <5>1, UploadMoves
      <4> QED BY <4>1, MediaMoves
    <3> QED BY <1>2, <2>1, <3>1, <3>3, <3>4 DEF Uploaded
  <2> QED BY <1>2, <2>1 DEF Uploaded
<1>3. CASE worker' = IdleWorker \/ CleanupVideo
  <2>1. worker'.pc \in {"idle", "v_load", "v_prefix", "v_objects", "v_row"}
    BY <1>3, CleanupVideoMoves DEF IdleWorker, CleanupVideoPcs
  <2> QED BY <2>1 DEF Uploaded
<1>4. CASE Deliver
  BY <1>4, DeliverMoves DEF Uploaded
<1>5. CASE LoadVideo \/ IncrementRetry \/ DownloadRaw
  <2>1. CASE LoadVideo
    <3>1. CASE \E slot, retry : worker' = [worker EXCEPT !.pc = "t_fail", !.slot = slot,
                                                         !.retry = retry]
      BY <1>1, <3>1 DEF WorkerState, Uploaded
    <3>2. CASE Continue("t_increment") \/ Ack
      BY <1>1, <2>1, <3>2 DEF LoadVideo, Continue, Ack, IdleWorker, WorkerState, Uploaded
    <3> QED BY <2>1, <3>1, <3>2 DEF LoadVideo
  <2>2. CASE IncrementRetry
    <3>1. CASE \E slot, retry : worker' = [worker EXCEPT !.pc = "t_download", !.slot = slot,
                                                         !.retry = retry]
      <4>1. worker'.pc = "t_download" /\ worker'.file = worker.file
        BY <1>1, <3>1 DEF WorkerState
      <4>2. worker.file = 1
        BY <2>2 DEF IncrementRetry, Uploaded
      <4> QED BY <4>1, <4>2 DEF Uploaded
    <3>2. CASE Ack
      BY <3>2 DEF Ack, IdleWorker, Uploaded
    <3> QED BY <2>2, <3>1, <3>2 DEF IncrementRetry
  <2>3. CASE DownloadRaw
    BY <1>1, <2>3 DEF DownloadRaw, Continue, WorkerState, Uploaded
  <2> QED BY <1>5, <2>1, <2>2, <2>3
<1>6. CASE ProbeAndValidate
  <2>1. \/ worker'.pc = "t_upload" /\ worker'.file = worker.file
        \/ worker'.pc \in {"t_fail", "t_transient"}
    BY <1>1, <1>6 DEF ProbeAndValidate, Continue, WorkerState
  <2>2. worker.file = 1
    BY <1>6 DEF ProbeAndValidate, Uploaded
  <2> QED BY <2>1, <2>2 DEF Uploaded
<1>7. CASE UploadNext
  <2>1. /\ wv \in Videos /\ wv' = wv /\ worker.pc = "t_upload"
        /\ worker.file \in Files
    BY <1>7, UploadMoves, TaskInHand DEF wv, IInv, WorkerOK
  <2> PICK n \in Nat : n = worker.file /\ n \in 1..Master
    BY <2>1 DEF Files
  <2>2. 1..(n - 1) \subseteq media[wv]
    BY <2>1 DEF Uploaded
  <2>3. CASE /\ media' = [media EXCEPT ![wv] = @ \cup {worker.file}]
             /\ worker'.file = worker.file + 1
             /\ worker'.pc = IF worker.file = Master THEN "t_recheck" ELSE "t_upload"
    <3>1. media'[wv] = media[wv] \cup {n}
      BY <1>1, <2>1, <2>3
    <3>2. 1..n \subseteq media'[wv]
      BY <2>2, <3>1
    <3>3. media'[wv] \subseteq Files
      BY <1>1, <2>1, <3>1
    <3>4. CASE n = Master
      BY <2>1, <2>3, <3>2, <3>3, <3>4 DEF Uploaded, Files
    <3>5. CASE n # Master
      <4>1. worker'.file - 1 = n
        BY <2>3
      <4> QED BY <2>1, <2>3, <3>2, <3>5, <4>1 DEF Uploaded
    <3> QED BY <3>4, <3>5
  <2>4. CASE worker'.pc = "t_cleanup"
    BY <2>4 DEF Uploaded
  <2> QED BY <1>7, <2>3, <2>4, UploadMoves
<1>8. CASE RecheckStatus
  <2>1. \/ worker'.pc = "t_ready" /\ worker'.task = worker.task
        \/ worker'.pc = "t_cleanup"
    BY <1>1, <1>8 DEF RecheckStatus, Continue, CleanUpThen, WorkerState
  <2>2. UNCHANGED media /\ worker.pc = "t_recheck"
    BY <1>8 DEF RecheckStatus, store
  <2> QED BY <2>1, <2>2 DEF Uploaded, wv
<1>9. CASE MarkReady \/ CleanupOnFailure \/ HandleTransient \/ MarkFailed \/ EnqueueRawCleanup
  <2>1. CASE Ack
    BY <2>1 DEF Ack, IdleWorker, Uploaded
  <2>2. CASE Continue("t_rawcleanup") \/ Continue("t_transient") \/ Continue("t_fail")
    BY <1>1, <2>2 DEF Continue, WorkerState, Uploaded
  <2>3. CASE CleanUpThen("idle") \/ CleanUpThen("t_transient")
    BY <1>1, <2>3 DEF CleanUpThen, WorkerState, Uploaded
  <2> QED BY <1>9, <2>1, <2>2, <2>3 DEF MarkReady, CleanupOnFailure, HandleTransient,
       MarkFailed, EnqueueRawCleanup
<1> QED BY <1>2, <1>3, <1>4, <1>5, <1>6, <1>7, <1>8, <1>9, WorkerMoves DEF Transcode

(* A row becomes READY with all its files, and loses none while it is READY. *)
LEMMA PlayableStep ==
  ASSUME IInv, KindOK, Uploaded, \A v \in Videos : AttemptOK(v), ReadyIsPlayable, [Next]_vars
  PROVE  ReadyIsPlayable'
<1> USE DEF IInv, TypeOK
<1> SUFFICES ASSUME NEW v \in Videos, video'[v].status = "READY"
             PROVE  media'[v] = Files
  BY DEF ReadyIsPlayable
<1>1. media[v] = Files
  <2>1. CASE video[v].status = "READY"
    BY <2>1 DEF ReadyIsPlayable
  <2>2. CASE video[v].status # "READY"
    BY <2>2, ReadyMoves DEF Uploaded
  <2> QED BY <2>1, <2>2
<1>2. ASSUME NEW f \in media[v], f \notin media'[v] PROVE FALSE
  <2>1. CASE HandleCleanupObjects /\ wv = v /\ f \in worker.task.files
    <3>1. Cleaning(v) /\ video[v].status = "READY"
      BY <2>1, ReadyMoves DEF HandleCleanupObjects, KindOK, Cleaning, Cleans, wv
    <3> QED BY <3>1 DEF AttemptOK
  <2>2. CASE (CleanupVideoPrefix \/ CleanupVideoObjects) /\ wv = v
    <3>1. video[v].status = "DELETED" /\ UNCHANGED video
      BY <2>2 DEF CleanupVideoPrefix, CleanupVideoObjects, WorkerOK
    <3> QED BY <3>1
  <2> QED BY <1>2, <2>1, <2>2, MediaLost
<1>3. media'[v] \subseteq Files
  <2>1. IInv'
    BY NextIInv
  <2> QED BY <2>1
<1> QED BY <1>1, <1>2, <1>3

(* A READY video has every file its playlists refer to, whatever the attempts
   before the successful one left behind and whichever requests run meanwhile, as
   long as commits, deletions and the answer of MarkVideoReady do not fail and no
   process dies; after a failed upload each of those failures can let a cleanup of
   an earlier attempt delete the published files. *)
THEOREM ReadyHasItsFiles ==
  ASSUME Unordered \cap FaultKinds = {}
  PROVE  Spec => []ReadyIsPlayable
<1> DEFINE I == KindOK /\ Uploaded /\ (\A v \in Videos : AttemptOK(v)) /\ ReadyIsPlayable
<1>1. Init => I
  <2> SUFFICES ASSUME Init PROVE I
    OBVIOUS
  <2>1. KindOK /\ Uploaded
    BY DEF Init, IdleWorker, KindOK, CleanupVideoPcs, Uploaded
  <2>2. \A v \in Videos : video[v].status = "NONE"
    BY DEF Init, EmptyRow, NoRow
  <2>3. ASSUME NEW v \in Videos PROVE AttemptOK(v)
    <3>1. /\ ~Waiting(v) /\ ~Retrying(v) /\ ~CleanPending(v)
          /\ ~Attempting(v) /\ ~Cleaning(v)
      BY DEF Init, IdleWorker, EmptyBag, SetToBag, Waiting, Retrying, CleanPending,
         Attempting, Cleaning
    <3>2. QueueOK(v)
      BY <3>1 DEF Init, EmptyBag, SetToBag, QueueOK
    <3> QED BY <2>2, <3>1, <3>2 DEF AttemptOK
  <2> QED BY <2>1, <2>2, <2>3 DEF ReadyIsPlayable
<1>2. IInv /\ I /\ [Next]_vars => I'
  BY KindStep, UploadedStep, AttemptStep, PlayableStep
<1> QED BY <1>1, <1>2, Invariance, PTL DEF Spec
=============================================================================
