------------------------------ MODULE Pipeline ------------------------------
(***************************************************************************)
(* The video pipeline of MokiBox: the upload-intent, confirm and delete     *)
(* handlers of the api-gateway, the asynq queue, the bucket, and the        *)
(* transcoder-worker's transcode:video, cleanup:objects and cleanup:video   *)
(* handlers.                                                                *)
(*                                                                         *)
(* A step is one call to PostgreSQL, R2 or Redis together with the local    *)
(* code up to the next one, so two requests and the worker interleave       *)
(* between any two of their calls.  Every call may fail in the ways the     *)
(* code handles; FaultKinds says which failures a run allows and MaxFaults  *)
(* how many of them happen.                                                 *)
(***************************************************************************)
EXTENDS VideoTable, Sequences, FiniteSets, Bags, BagsExt

CONSTANTS
    Videos,         \* ids PostgreSQL may give to a new row
    NoVideo,
    Reqs,           \* the HTTP requests of a behaviour, each served once
    Ops,            \* which handlers the requests may call
    Contents,       \* what clients PUT at a presigned URL
    NumVariants,    \* len(transcodeVariants)
    Grace,          \* cleanupGrace, in ticks of the clock
    AsynqMaxRetry,  \* asynq's default number of retries of a task
    FaultKinds,     \* failures that may happen
    MaxFaults,      \* bound: how many failures
    MaxPuts         \* bound: how many objects clients PUT

ASSUME PipelineAssumption ==
    /\ NoVideo \notin Videos
    /\ Ops \subseteq {"intent", "confirm", "delete"}
    /\ Contents \subseteq {"good", "corrupt", "badsize"}
    /\ NumVariants \in Nat
    /\ Grace \in Nat \ {0}
    /\ AsynqMaxRetry \in Nat \ {0}
    /\ MaxFaults \in Nat
    /\ MaxPuts \in Nat

VARIABLES
    video,      \* the videos table
    raw,        \* raw[v][slot]: content of the raw upload at that key
    media,      \* media[v]: transcoded files of v in the bucket
    pending,    \* asynq's pending list, first in first out
    scheduled,  \* asynq's scheduled and retry sets: a bag of delayed tasks
    worker,     \* the worker's single processing slot
    req,        \* HTTP requests in flight
    urls,       \* presigned PUT URLs in clients' hands: <<video, slot>>
    puts,       \* number of PUTs so far
    now,        \* the clock
    faults      \* number of failures so far

store == <<raw, media>>
queue == <<pending, scheduled>>
client == <<urls, puts>>
vars == <<video, raw, media, pending, scheduled, worker, req, urls, puts, now, faults>>

-----------------------------------------------------------------------------
(* The transcoded files of a video, in upload order: one per variant, the
   thumbnail, the master playlist.  All keys are functions of the video id. *)
Thumb == NumVariants + 1
Master == NumVariants + 2
Files == 1..Master

(* Payload and remaining retries of an asynq task. *)
Task == [kind: {"transcode", "objects", "video"},
         video: Videos,
         raws: SUBSET Slots,
         files: SUBSET Files,
         left: Nat]

TranscodeTask(v, retries) ==
    [kind |-> "transcode", video |-> v, raws |-> {}, files |-> {}, left |-> retries]

CleanupObjectsTask(v, raws, files) ==
    [kind |-> "objects", video |-> v, raws |-> raws, files |-> files,
     left |-> AsynqMaxRetry]

CleanupVideoTask(v) ==
    [kind |-> "video", video |-> v, raws |-> {}, files |-> {}, left |-> AsynqMaxRetry]

Delayed == [task: Task, due: Nat]

(* asynq: client.Enqueue without and with ProcessIn. *)
Enqueue(task) == pending' = Append(pending, task) /\ UNCHANGED scheduled

EnqueueWithDelay(task, delay) ==
    /\ scheduled' = BagAdd(scheduled, [task |-> task, due |-> now + delay])
    /\ UNCHANGED pending

-----------------------------------------------------------------------------
(* A failure of the given kind happens in this step, or none does. *)
Fails(kind) ==
    /\ kind \in FaultKinds
    /\ faults < MaxFaults
    /\ faults' = faults + 1

Works == UNCHANGED faults

(* A best-effort enqueue: an error is logged and the handler goes on. *)
TryEnqueue(task) ==
    \/ Works /\ Enqueue(task)
    \/ Fails("redis") /\ UNCHANGED queue

TryEnqueueWithDelay(task, delay) ==
    \/ Works /\ EnqueueWithDelay(task, delay)
    \/ Fails("redis") /\ UNCHANGED queue

(* Only ConfirmUpload keeps a row lock across calls: from FOR UPDATE to the
   end of its transaction. *)
LockPcs == {"c_head", "c_enqueue", "c_commit"}

Locked(v) == \E r \in Reqs : req[r].video = v /\ req[r].pc \in LockPcs

(* An UPDATE or DELETE in its own transaction: it waits for the row lock, and
   the row is rejected when a CHECK constraint fails. *)
Writes(v, row) ==
    /\ ~Locked(v)
    /\ ChecksPass(row)
    /\ video' = [video EXCEPT ![v] = row]

WriteRejected(v, row) == ~Locked(v) /\ ~ChecksPass(row)

-----------------------------------------------------------------------------
(* The api-gateway.  A request is [pc, user, video, slot, old]; slot is the
   key it works with, old the key an upload-intent found on the reused row. *)

NewReq == [pc |-> "new", user |-> NoUser, video |-> NoVideo,
           slot |-> "first", old |-> "none"]

ReqPcs == {"new", "done", "i_insert", "i_rotate", "i_metadata", "i_presign",
           "c_head", "c_enqueue", "c_commit", "d_mark", "d_enqueue"}

Request == [pc: ReqPcs, user: Users \cup {NoUser}, video: Videos \cup {NoVideo},
            slot: Slots, old: Slots \cup {"none"}]

Respond(r) == req' = [req EXCEPT ![r] = [NewReq EXCEPT !.pc = "done"]]

Goto(r, pc) == req' = [req EXCEPT ![r].pc = pc]

Begin(r, pc, u, v, slot, old) ==
    req' = [req EXCEPT ![r] = [pc |-> pc, user |-> u, video |-> v,
                               slot |-> slot, old |-> old]]

PendingOf(u) == {v \in Videos : video[v].user = u /\ PendingWhere(video[v])}

(* Mutant: the partial unique index is missing. *)
MutPendingIndexAllows(u) == TRUE

(* uq_videos_one_pending_upload_per_user. *)
PendingIndexAllows(u) == PendingOf(u) = {}

(* UploadIntent: GetPendingVideoByUser. *)
IntentGetPending(r, u) ==
    /\ "intent" \in Ops /\ req[r].pc = "new"
    /\ \/ /\ Works
          /\ PendingOf(u) = {}
          /\ Begin(r, "i_insert", u, NoVideo, "first", "none")
       \/ /\ Works
          /\ \E v \in PendingOf(u) :
                Begin(r, IF video[v].slot = "canonical" THEN "i_metadata" ELSE "i_rotate",
                      u, v, "canonical", video[v].slot)
       \/ Fails("db") /\ Respond(r)
    /\ UNCHANGED <<video, store, queue, worker, client, now>>

(* InsertVideo; the index rejects a second PENDING_UPLOAD row of the user. *)
IntentInsert(r) ==
    /\ req[r].pc = "i_insert"
    /\ \/ /\ Works
          /\ PendingIndexAllows(req[r].user)
          /\ \E v \in Videos :
                /\ video[v].status = "NONE"
                /\ video' = [video EXCEPT ![v] = InsertVideo(req[r].user)]
                /\ Begin(r, "i_presign", req[r].user, v, "first", "none")
       \/ /\ Works
          /\ ~PendingIndexAllows(req[r].user)
          /\ Respond(r) /\ UNCHANGED video
       \/ Fails("db") /\ Respond(r) /\ UNCHANGED video
    /\ UNCHANGED <<store, queue, worker, client, now>>

(* UpdatePendingVideoR2Key: the reused row moves to the canonical key. *)
IntentRotate(r) ==
    LET v == req[r].video IN
    /\ req[r].pc = "i_rotate"
    /\ \/ /\ Works
          /\ PendingWhere(video[v])
          /\ Writes(v, UpdatePendingVideoR2Key(video[v], "canonical"))
          /\ Goto(r, "i_metadata")
       \/ /\ Works
          /\ ~PendingWhere(video[v])
          /\ Respond(r) /\ UNCHANGED video
       \/ Fails("db") /\ Respond(r) /\ UNCHANGED video
    /\ UNCHANGED <<store, queue, worker, client, now>>

(* UpdatePendingVideoMetadata writes columns the model leaves out, so only
   its guard matters. *)
IntentMetadata(r) ==
    LET v == req[r].video IN
    /\ req[r].pc = "i_metadata"
    /\ \/ Works /\ ~Locked(v) /\ PendingWhere(video[v]) /\ Goto(r, "i_presign")
       \/ Works /\ ~PendingWhere(video[v]) /\ Respond(r)
       \/ Fails("db") /\ Respond(r)
    /\ UNCHANGED <<video, store, queue, worker, client, now>>

(* PresignPut, the best-effort cleanup of the rotated key, and the response
   that hands the URL to the client. *)
IntentPresign(r) ==
    LET v == req[r].video IN
    /\ req[r].pc = "i_presign"
    /\ \/ /\ urls' = urls \cup {<<v, req[r].slot>>}
          /\ IF req[r].old \in {"none", req[r].slot}
             THEN Works /\ UNCHANGED queue
             ELSE TryEnqueue(CleanupObjectsTask(v, {req[r].old}, {}))
       \/ Fails("presign") /\ UNCHANGED <<queue, urls>>
    /\ Respond(r)
    /\ UNCHANGED <<video, store, worker, puts, now>>

(* ConfirmUpload: GetVideoByIDForUpdate and the owner, status and key checks. *)
ConfirmLock(r, u, v, slot) ==
    /\ "confirm" \in Ops /\ req[r].pc = "new"
    /\ ~Locked(v)
    /\ \/ /\ Works
          /\ ConfirmVideoProcessingWhere(video[v], u, slot)
          /\ Begin(r, "c_head", u, v, slot, "none")
       \/ /\ Works
          /\ ~ConfirmVideoProcessingWhere(video[v], u, slot)
          /\ Respond(r)
       \/ Fails("db") /\ Respond(r)
    /\ UNCHANGED <<video, store, queue, worker, client, now>>

(* HeadObject, the size check, and ConfirmVideoProcessing, whose write stays
   invisible until the commit. *)
ConfirmHead(r) ==
    LET v == req[r].video
        object == raw[v][req[r].slot]
    IN
    /\ req[r].pc = "c_head"
    /\ \/ Works /\ object = "none" /\ Respond(r) /\ UNCHANGED queue
       \/ /\ object = "badsize"
          /\ TryEnqueue(CleanupObjectsTask(v, {req[r].slot}, {}))
          /\ Respond(r)
       \/ Works /\ object \in {"good", "corrupt"} /\ Goto(r, "c_enqueue") /\ UNCHANGED queue
       \/ Fails("head") /\ Respond(r) /\ UNCHANGED queue
       \/ /\ Fails("db") /\ object \in {"good", "corrupt"}
          /\ Respond(r) /\ UNCHANGED queue
    /\ UNCHANGED <<video, store, worker, client, now>>

(* EnqueueTranscode with MaxRetry(1), inside the transaction. *)
ConfirmEnqueue(r) ==
    /\ req[r].pc = "c_enqueue"
    /\ \/ Works /\ Enqueue(TranscodeTask(req[r].video, 1)) /\ Goto(r, "c_commit")
       \/ Fails("redis") /\ UNCHANGED queue /\ Respond(r)
    /\ UNCHANGED <<video, store, worker, client, now>>

(* The runner commits; a failed commit is a rollback. *)
ConfirmCommit(r) ==
    LET v == req[r].video IN
    /\ req[r].pc = "c_commit"
    /\ \/ Works /\ video' = [video EXCEPT ![v] = ConfirmVideoProcessing(@)]
       \/ Fails("commit") /\ UNCHANGED video
    /\ Respond(r)
    /\ UNCHANGED <<store, queue, worker, client, now>>

(* DeleteVideo: GetVideoByID, the owner check, 204 when already DELETED. *)
DeleteRead(r, u, v) ==
    /\ "delete" \in Ops /\ req[r].pc = "new"
    /\ \/ /\ Works
          /\ IF MarkVideoDeletedWhere(video[v], u) /\ video[v].status # "DELETED"
             THEN Begin(r, "d_mark", u, v, "first", "none")
             ELSE Respond(r)
       \/ Fails("db") /\ Respond(r)
    /\ UNCHANGED <<video, store, queue, worker, client, now>>

(* MarkVideoDeleted: guarded by id and owner only. *)
DeleteMark(r) ==
    LET v == req[r].video IN
    /\ req[r].pc = "d_mark"
    /\ \/ /\ Works
          /\ MarkVideoDeletedWhere(video[v], req[r].user)
          /\ Writes(v, MarkVideoDeleted(video[v], now))
          /\ Goto(r, "d_enqueue")
       \/ /\ Works
          /\ ~MarkVideoDeletedWhere(video[v], req[r].user)
          /\ Respond(r) /\ UNCHANGED video
       \/ Fails("db") /\ Respond(r) /\ UNCHANGED video
    /\ UNCHANGED <<store, queue, worker, client, now>>

(* EnqueueCleanupVideo with ProcessIn(24h); a failure is only logged. *)
DeleteEnqueue(r) ==
    /\ req[r].pc = "d_enqueue"
    /\ TryEnqueueWithDelay(CleanupVideoTask(req[r].video), Grace)
    /\ Respond(r)
    /\ UNCHANGED <<video, store, worker, client, now>>

(* The gateway dies or the request is abandoned; an open transaction rolls
   back. *)
ApiCrash(r) ==
    /\ req[r].pc \notin {"new", "done"}
    /\ Fails("apicrash")
    /\ Respond(r)
    /\ UNCHANGED <<video, store, queue, worker, client, now>>

-----------------------------------------------------------------------------
(* Clients and time. *)

ClientPut(v, slot, content) ==
    /\ <<v, slot>> \in urls
    /\ puts < MaxPuts
    /\ puts' = puts + 1
    /\ raw' = [raw EXCEPT ![v][slot] = content]
    /\ UNCHANGED <<video, media, queue, worker, req, urls, now, faults>>

(* Mutant: a cleanup task trusts its own 24 hour delay. *)
MutInGrace(v) == FALSE

InGrace(v) == video[v].status = "DELETED" /\ now < video[v].deletedAt + Grace

(* Time passes while something waits for it.  A presigned URL (15 minutes)
   does not outlive a tick, and a request that reached a row before the row
   was tombstoned does not outlive the grace (24 hours). *)
Tick ==
    /\ \A r \in Reqs : \A v \in Videos :
          req[r].video = v /\ video[v].status = "DELETED"
             => now + 1 < video[v].deletedAt + Grace
    /\ \/ \E v \in Videos : InGrace(v)
       \/ \E d \in DOMAIN scheduled : d.due > now
    /\ now' = now + 1
    /\ urls' = {}
    /\ UNCHANGED <<video, store, queue, worker, req, puts, faults>>

(* asynq's forwarder moves a due task to the tail of the pending list. *)
Forward ==
    \E d \in DOMAIN scheduled :
        /\ d.due <= now
        /\ scheduled' = BagRemove(scheduled, d)
        /\ pending' = Append(pending, d.task)
        /\ UNCHANGED <<video, store, worker, req, client, now, faults>>

-----------------------------------------------------------------------------
(* The transcoder-worker: one processing slot (DefaultWorkerConcurrency = 1).
   slot and retry are the columns of the row IncrementVideoRetry returned,
   content the downloaded source, file the next file to upload, keys the
   uploadedKeys, then what follows cleanupOnFailure. *)

WorkerPcs == {"idle", "t_load", "t_increment", "t_download", "t_probe", "t_upload",
              "t_recheck", "t_ready", "t_cleanup", "t_transient", "t_fail", "t_rawcleanup",
              "o_delete", "v_load", "v_prefix", "v_objects", "v_row"}

TranscodePcs == {"t_load", "t_increment", "t_download", "t_probe", "t_upload",
                 "t_recheck", "t_ready", "t_cleanup", "t_transient", "t_fail", "t_rawcleanup"}

NoTask == [kind |-> "none"]

IdleWorker == [pc |-> "idle", task |-> NoTask, slot |-> "first", retry |-> 0,
               content |-> "none", file |-> 1, keys |-> {}, then |-> "idle"]

WorkerState == [pc: WorkerPcs, task: Task \cup {NoTask}, slot: Slots, retry: Nat,
                content: Contents \cup {"none"}, file: Nat, keys: SUBSET Files,
                then: {"idle", "t_transient"}]

wv == worker.task.video

(* The handler returned nil: asynq drops the task. *)
Ack == worker' = IdleWorker

Continue(pc) == worker' = [worker EXCEPT !.pc = pc]

(* Mutant: an error is swallowed, so asynq drops the task. *)
MutNackDrops == worker' = IdleWorker /\ UNCHANGED queue

(* The handler returned an error, or the lease of a dead worker expired: asynq
   retries the task later, or archives it when no retry is left. *)
Nack ==
    /\ worker' = IdleWorker
    /\ IF worker.task.left > 0
       THEN EnqueueWithDelay([worker.task EXCEPT !.left = @ - 1], 0)
       ELSE UNCHANGED queue

Deliver ==
    /\ worker.pc = "idle" /\ pending # <<>>
    /\ LET task == Head(pending)
           start == [transcode |-> "t_load", objects |-> "o_delete", video |-> "v_load"]
       IN worker' = [IdleWorker EXCEPT !.pc = start[task.kind], !.task = task]
    /\ pending' = Tail(pending)
    /\ UNCHANGED <<video, store, scheduled, req, client, now, faults>>

WorkerCrash ==
    /\ worker.pc # "idle"
    /\ Fails("crash")
    /\ Nack
    /\ UNCHANGED <<video, store, req, client, now>>

(* HandleTranscode: GetVideoByID, the status check and the budget check. *)
LoadVideo ==
    /\ worker.pc = "t_load"
    /\ \/ /\ Works
          /\ video[wv].status = "PROCESSING" /\ video[wv].retry < MaxRetries
          /\ Continue("t_increment")
       \/ /\ Works
          /\ video[wv].status = "PROCESSING" /\ video[wv].retry >= MaxRetries
          /\ worker' = [worker EXCEPT !.pc = "t_fail", !.slot = video[wv].slot,
                                      !.retry = video[wv].retry]
       \/ Works /\ video[wv].status # "PROCESSING" /\ Ack
       \/ Fails("db") /\ Ack
    /\ UNCHANGED <<video, store, queue, req, client, now>>

(* IncrementVideoRetry, then the workdir; every error returns nil. *)
IncrementRetry ==
    LET row == IncrementVideoRetry(video[wv]) IN
    /\ worker.pc = "t_increment"
    /\ \/ /\ IncrementVideoRetryWhere(video[wv])
          /\ Writes(wv, row)
          /\ \/ Works /\ worker' = [worker EXCEPT !.pc = "t_download", !.slot = row.slot,
                                                  !.retry = row.retry]
             \/ Fails("mkdir") /\ Ack
       \/ /\ Works
          /\ ~IncrementVideoRetryWhere(video[wv]) \/ WriteRejected(wv, row)
          /\ Ack /\ UNCHANGED video
       \/ Fails("db") /\ Ack /\ UNCHANGED video
    /\ UNCHANGED <<store, queue, req, client, now>>

(* Mutant: a failed download returns without handleTransient. *)
MutDownloadRaw ==
    LET object == raw[wv][worker.slot] IN
    /\ worker.pc = "t_download"
    /\ \/ /\ Works /\ object # "none"
          /\ worker' = [worker EXCEPT !.pc = "t_probe", !.content = object]
       \/ Works /\ object = "none" /\ Ack
       \/ Fails("download") /\ Ack
    /\ UNCHANGED <<video, store, queue, req, client, now>>

DownloadRaw ==
    LET object == raw[wv][worker.slot] IN
    /\ worker.pc = "t_download"
    /\ \/ /\ Works /\ object # "none"
          /\ worker' = [worker EXCEPT !.pc = "t_probe", !.content = object]
       \/ Works /\ object = "none" /\ Continue("t_transient")
       \/ Fails("download") /\ Continue("t_transient")
    /\ UNCHANGED <<video, store, queue, req, client, now>>

(* ProbeFile and ValidateMedia.  ProbeFile reports a failed or killed ffprobe
   as ErrInvalidMedia whatever the file, and unreadable output as transient. *)
ProbeAndValidate ==
    /\ worker.pc = "t_probe"
    /\ \/ Works /\ worker.content = "good" /\ Continue("t_upload")
       \/ Works /\ worker.content # "good" /\ Continue("t_fail")
       \/ Fails("probe_killed") /\ Continue("t_fail")
       \/ Fails("probe_output") /\ Continue("t_transient")
    /\ UNCHANGED <<video, store, queue, req, client, now>>

(* Mutant: the error of a failed upload is dropped and the loop goes on. *)
MutUploadNext ==
    /\ worker.pc = "t_upload"
    /\ \/ Works /\ media' = [media EXCEPT ![wv] = @ \cup {worker.file}]
       \/ Fails("upload") /\ UNCHANGED media
    /\ worker' = [worker EXCEPT !.pc = IF worker.file = Master THEN "t_recheck" ELSE "t_upload",
                                !.keys = @ \cup {worker.file}, !.file = @ + 1]
    /\ UNCHANGED <<video, raw, queue, req, client, now>>

(* ffmpeg and UploadFile for the next file.  After a failed upload of the
   thumbnail or the master its key is cleaned too; uploadVariant returns only
   the keys it knows to be stored. *)
UploadNext ==
    LET f == worker.file
        stored == media' = [media EXCEPT ![wv] = @ \cup {f}]
        giveUp(keys) == worker' = [worker EXCEPT !.pc = "t_cleanup", !.keys = keys,
                                                 !.then = "t_transient"]
        suspect == IF f < Thumb THEN worker.keys ELSE worker.keys \cup {f}
    IN
    /\ worker.pc = "t_upload"
    /\ \/ /\ Works /\ stored
          /\ worker' = [worker EXCEPT !.pc = IF f = Master THEN "t_recheck" ELSE "t_upload",
                                      !.keys = @ \cup {f}, !.file = f + 1]
       \/ Fails("ffmpeg") /\ giveUp(worker.keys) /\ UNCHANGED media
       \/ Fails("upload") /\ giveUp(suspect) /\ UNCHANGED media
       \/ Fails("upload_unknown") /\ giveUp(suspect) /\ stored
    /\ UNCHANGED <<video, raw, queue, req, client, now>>

CleanUpThen(next) == worker' = [worker EXCEPT !.pc = "t_cleanup", !.then = next]

(* Mutant: a video deleted meanwhile is left without cleaning the uploads. *)
MutRecheckStatus ==
    /\ worker.pc = "t_recheck"
    /\ \/ Works /\ video[wv].status = "PROCESSING" /\ Continue("t_ready")
       \/ Works /\ video[wv].status # "PROCESSING" /\ Ack
       \/ Fails("db") /\ CleanUpThen("t_transient")
    /\ UNCHANGED <<video, store, queue, req, client, now>>

(* The second GetVideoByID. *)
RecheckStatus ==
    /\ worker.pc = "t_recheck"
    /\ \/ Works /\ video[wv].status = "PROCESSING" /\ Continue("t_ready")
       \/ Works /\ video[wv].status # "PROCESSING" /\ CleanUpThen("idle")
       \/ Fails("db") /\ CleanUpThen("t_transient")
    /\ UNCHANGED <<video, store, queue, req, client, now>>

(* MarkVideoReady.  "ready_unknown": the UPDATE took effect but its answer was
   lost (the task's deadline or the connection ended meanwhile). *)
MarkReady ==
    LET row == MarkVideoReady(video[wv]) IN
    /\ worker.pc = "t_ready"
    /\ \/ /\ Works /\ MarkVideoReadyWhere(video[wv])
          /\ Writes(wv, row) /\ Continue("t_rawcleanup")
       \/ /\ Works /\ ~MarkVideoReadyWhere(video[wv])
          /\ CleanUpThen("idle") /\ UNCHANGED video
       \/ Fails("db") /\ CleanUpThen("t_transient") /\ UNCHANGED video
       \/ /\ Fails("ready_unknown") /\ MarkVideoReadyWhere(video[wv])
          /\ Writes(wv, row) /\ CleanUpThen("t_transient")
    /\ UNCHANGED <<store, queue, req, client, now>>

(* cleanupOnFailure: nothing is enqueued for an empty key list. *)
CleanupOnFailure ==
    /\ worker.pc = "t_cleanup"
    /\ IF worker.keys = {}
       THEN Works /\ UNCHANGED queue
       ELSE TryEnqueue(CleanupObjectsTask(wv, {}, worker.keys))
    /\ IF worker.then = "idle" THEN Ack ELSE Continue("t_transient")
    /\ UNCHANGED <<video, store, req, client, now>>

(* Mutant: the budget is one attempt short. *)
MutHandleTransient ==
    /\ worker.pc = "t_transient"
    /\ \/ /\ worker.retry >= MaxRetries - 1
          /\ Works /\ Continue("t_fail") /\ UNCHANGED queue
       \/ /\ worker.retry < MaxRetries - 1
          /\ TryEnqueueWithDelay(TranscodeTask(wv, AsynqMaxRetry), 0)
          /\ Ack
    /\ UNCHANGED <<video, store, req, client, now>>

(* handleTransient: the delay 30s * retry_count is below a tick, so the retry
   is forwarded at any later moment. *)
HandleTransient ==
    /\ worker.pc = "t_transient"
    /\ \/ /\ worker.retry >= MaxRetries
          /\ Works /\ Continue("t_fail") /\ UNCHANGED queue
       \/ /\ worker.retry < MaxRetries
          /\ TryEnqueueWithDelay(TranscodeTask(wv, AsynqMaxRetry), 0)
          /\ Ack
    /\ UNCHANGED <<video, store, req, client, now>>

(* markFailedDetached: any error is logged and the handler goes on. *)
MarkFailed ==
    LET row == MarkVideoFailed(video[wv]) IN
    /\ worker.pc = "t_fail"
    /\ \/ Works /\ MarkVideoFailedWhere(video[wv]) /\ Writes(wv, row)
       \/ /\ Works
          /\ ~MarkVideoFailedWhere(video[wv]) \/ WriteRejected(wv, row)
          /\ UNCHANGED video
       \/ Fails("db") /\ UNCHANGED video
    /\ Continue("t_rawcleanup")
    /\ UNCHANGED <<store, queue, req, client, now>>

(* The raw upload is no longer needed: READY, FAILED or budget spent. *)
EnqueueRawCleanup ==
    /\ worker.pc = "t_rawcleanup"
    /\ TryEnqueue(CleanupObjectsTask(wv, {worker.slot}, {}))
    /\ Ack
    /\ UNCHANGED <<video, store, req, client, now>>

-----------------------------------------------------------------------------
(* R2's DeleteObjects: on an error any part of the keys may be gone. *)
DeleteObjects(v, raws, files) ==
    /\ raw' = [raw EXCEPT ![v] = [s \in Slots |-> IF s \in raws THEN "none" ELSE @[s]]]
    /\ media' = [media EXCEPT ![v] = @ \ files]

DeleteSome(v, raws, files) ==
    \E rs \in SUBSET raws, fs \in SUBSET files : DeleteObjects(v, rs, fs)

HandleCleanupObjects ==
    /\ worker.pc = "o_delete"
    /\ \/ Works /\ DeleteObjects(wv, worker.task.raws, worker.task.files) /\ Ack /\ UNCHANGED queue
       \/ Fails("delete") /\ DeleteSome(wv, worker.task.raws, worker.task.files) /\ Nack
    /\ UNCHANGED <<video, req, client, now>>

(* HandleCleanupVideo: GetVideoByID, the status check, and the re-enqueue of a
   task that comes before the grace has elapsed. *)
CleanupVideoLoad ==
    LET row == video[wv] IN
    /\ worker.pc = "v_load"
    /\ \/ Works /\ row.status # "DELETED" /\ Ack /\ UNCHANGED queue
       \/ /\ InGrace(wv)
          /\ TryEnqueueWithDelay(CleanupVideoTask(wv), row.deletedAt + Grace - now)
          /\ Ack
       \/ /\ Works /\ row.status = "DELETED" /\ ~InGrace(wv)
          /\ worker' = [worker EXCEPT !.pc = IF row.media THEN "v_prefix" ELSE "v_objects",
                                      !.slot = row.slot,
                                      !.keys = IF row.media THEN {Thumb} ELSE {}]
          /\ UNCHANGED queue
       \/ Fails("db") /\ Ack /\ UNCHANGED queue
    /\ UNCHANGED <<video, store, req, client, now>>

(* Mutant: a failed DeletePrefix is logged and the row removed anyway. *)
MutCleanupVideoPrefix ==
    /\ worker.pc = "v_prefix"
    /\ \/ Works /\ DeleteObjects(wv, {}, Files \ {Thumb})
       \/ Fails("delete") /\ DeleteSome(wv, {}, Files \ {Thumb})
    /\ Continue("v_objects")
    /\ UNCHANGED <<video, queue, req, client, now>>

(* DeletePrefix(hls_prefix): every file but the thumbnail. *)
CleanupVideoPrefix ==
    /\ worker.pc = "v_prefix"
    /\ \/ Works /\ DeleteObjects(wv, {}, Files \ {Thumb}) /\ Continue("v_objects") /\ UNCHANGED queue
       \/ Fails("delete") /\ DeleteSome(wv, {}, Files \ {Thumb}) /\ Nack
    /\ UNCHANGED <<video, req, client, now>>

CleanupVideoObjects ==
    /\ worker.pc = "v_objects"
    /\ \/ Works /\ DeleteObjects(wv, {worker.slot}, worker.keys) /\ Continue("v_row") /\ UNCHANGED queue
       \/ Fails("delete") /\ DeleteSome(wv, {worker.slot}, worker.keys) /\ Nack
    /\ UNCHANGED <<video, req, client, now>>

CleanupVideoRow ==
    /\ worker.pc = "v_row"
    /\ \/ /\ Works
          /\ Writes(wv, IF Exists(video[wv]) THEN DeleteVideoRow(video[wv]) ELSE video[wv])
          /\ Ack /\ UNCHANGED queue
       \/ Fails("db") /\ Nack /\ UNCHANGED video
    /\ UNCHANGED <<store, req, client, now>>

-----------------------------------------------------------------------------
Init ==
    /\ video = [v \in Videos |-> EmptyRow]
    /\ raw = [v \in Videos |-> [s \in Slots |-> "none"]]
    /\ media = [v \in Videos |-> {}]
    /\ pending = <<>>
    /\ scheduled = EmptyBag
    /\ worker = IdleWorker
    /\ req = [r \in Reqs |-> NewReq]
    /\ urls = {}
    /\ puts = 0
    /\ now = 0
    /\ faults = 0

StartRequest(r) ==
    \E u \in Users :
        \/ IntentGetPending(r, u)
        \/ \E v \in Videos, s \in Slots : ConfirmLock(r, u, v, s)
        \/ \E v \in Videos : DeleteRead(r, u, v)

ServeRequest(r) ==
    \/ IntentInsert(r) \/ IntentRotate(r) \/ IntentMetadata(r) \/ IntentPresign(r)
    \/ ConfirmHead(r) \/ ConfirmEnqueue(r) \/ ConfirmCommit(r)
    \/ DeleteMark(r) \/ DeleteEnqueue(r)

Transcode ==
    \/ LoadVideo \/ IncrementRetry \/ DownloadRaw \/ ProbeAndValidate \/ UploadNext
    \/ RecheckStatus \/ MarkReady \/ CleanupOnFailure \/ HandleTransient
    \/ MarkFailed \/ EnqueueRawCleanup

CleanupVideo ==
    CleanupVideoLoad \/ CleanupVideoPrefix \/ CleanupVideoObjects \/ CleanupVideoRow

WorkerStep == Deliver \/ Transcode \/ HandleCleanupObjects \/ CleanupVideo

Next ==
    \/ \E r \in Reqs : StartRequest(r) \/ ServeRequest(r) \/ ApiCrash(r)
    \/ \E v \in Videos, s \in Slots, c \in Contents : ClientPut(v, s, c)
    \/ Tick
    \/ Forward
    \/ WorkerStep
    \/ WorkerCrash

Spec == Init /\ [][Next]_vars

(* A request that was accepted is served, the worker and asynq run, time
   passes.  Nothing is assumed of clients, and no failure is required. *)
Fairness ==
    /\ \A r \in Reqs : WF_vars(ServeRequest(r))
    /\ WF_vars(WorkerStep)
    /\ WF_vars(Forward)
    /\ WF_vars(Tick)

FairSpec == Spec /\ Fairness

-----------------------------------------------------------------------------
(* Properties. *)

(* Every variable has the shape the code gives it. *)
TypeOK ==
    /\ video \in [Videos -> Row]
    /\ raw \in [Videos -> [Slots -> Contents \cup {"none"}]]
    /\ media \in [Videos -> SUBSET Files]
    /\ pending \in Seq(Task)
    /\ DOMAIN scheduled \subseteq Delayed
    /\ worker \in WorkerState
    /\ req \in [Reqs -> Request]
    /\ urls \subseteq Videos \X Slots
    /\ puts \in 0..MaxPuts
    /\ now \in Nat
    /\ faults \in 0..MaxFaults

(* The statuses of all rows follow VideoLifecycle, although MarkVideoFailed and
   MarkVideoDeleted do not look at the status they overwrite and the worker
   decides on a row it read several calls earlier. *)
Lifecycle == INSTANCE VideoLifecycle WITH status <- [v \in Videos |-> video[v].status]
FollowsLifecycle == Lifecycle!Spec

(* A user has at most one PENDING_UPLOAD row even when two upload-intents both
   found none (uq_videos_one_pending_upload_per_user). *)
OnePendingPerUser ==
    \A v, w \in Videos :
        /\ video[v].status = "PENDING_UPLOAD" /\ video[w].status = "PENDING_UPLOAD"
        /\ video[v].user = video[w].user
        => v = w

(* What HandleTranscode remembers of the row (r2_key and retry_count returned by
   IncrementVideoRetry) is still what the row says whenever it is used, and
   never exceeds the budget of MaxRetries attempts. *)
SnapshotCurrent ==
    worker.pc \in TranscodePcs \ {"t_load", "t_increment"} =>
        /\ worker.slot = video[wv].slot
        /\ worker.retry = video[wv].retry
        /\ worker.retry <= MaxRetries

(* A row is hard-deleted only when its 24 hour grace has run out, although a
   second DELETE may have refreshed deleted_at after the cleanup task was
   scheduled. *)
GraceHonoured ==
    [][\A v \in Videos :
          video[v].status = "DELETED" /\ video'[v].status = "GONE"
             => now >= video[v].deletedAt + Grace]_vars

(* When HandleCleanupVideo removes a row, the bucket holds neither the raw
   upload nor any published file the row pointed to, also after crashes and
   partly failed deletions: nothing would ever look for them again. *)
PurgeLeavesNothing ==
    [][\A v \in Videos :
          video[v].status = "DELETED" /\ video'[v].status = "GONE" =>
             /\ raw[v][video[v].slot] = "none"
             /\ video[v].media => media[v] = {}]_vars

(* A video whose row says READY has every file its playlists refer to. *)
ReadyIsPlayable ==
    \A v \in Videos : video[v].status = "READY" => media[v] = Files

(* The tasks asynq holds or the worker is running. *)
LiveTasks ==
    {pending[i] : i \in DOMAIN pending} \cup {d.task : d \in DOMAIN scheduled}
    \cup (IF worker.pc = "idle" THEN {} ELSE {worker.task})

(* A confirmed upload stays in the bucket until the worker has decided. *)
ConfirmedRawKept ==
    \A v \in Videos :
        video[v].status = "PROCESSING" => raw[v][video[v].slot] # "none"

(* Every transcoded file in the bucket is referred to by its row, or is in the
   uploadedKeys of the running attempt, or is listed in a cleanup task. *)
MediaTracked ==
    \A v \in Videos : \A f \in media[v] :
        \/ Exists(video[v]) /\ video[v].media
        \/ worker.pc \in TranscodePcs /\ wv = v /\ f \in worker.keys
        \/ \E t \in LiveTasks : t.kind = "objects" /\ t.video = v /\ f \in t.files

(* A video is FAILED only for invalid media or after MaxRetries attempts. *)
FailedForCause ==
    [][\A v \in Videos :
          video[v].status # "FAILED" /\ video'[v].status = "FAILED"
             => worker.content \in {"corrupt", "badsize"} \/ video[v].retry = MaxRetries]_vars

(* Once a row is removed, whatever the worker transcoded of it is eventually
   removed from the bucket too ("the cleanup job picks up the orphans within
   24h", transcode.go). *)
GoneMediaIsPurged ==
    \A v \in Videos : video[v].status = "GONE" ~> media[v] = {}

(* Every tombstoned row is eventually removed. *)
DeletedIsPurged ==
    \A v \in Videos : video[v].status = "DELETED" ~> video[v].status = "GONE"

(* Every confirmed video eventually leaves PROCESSING. *)
ProcessingIsDecided ==
    \A v \in Videos : video[v].status = "PROCESSING" ~> video[v].status # "PROCESSING"

(* A video of which one attempt has begun eventually leaves PROCESSING. *)
AttemptIsDecided ==
    \A v \in Videos :
        video[v].status = "PROCESSING" /\ video[v].retry > 0
           ~> video[v].status # "PROCESSING"

-----------------------------------------------------------------------------
(* The inductive invariant behind the safety properties. *)

(* No row violates a CHECK constraint. *)
RowsOK == \A v \in Videos : ChecksPass(video[v])

(* A request in flight has a user, and a row once it has read or made one. *)
RequestsOK ==
    \A r \in Reqs :
        /\ req[r].pc \notin {"new", "done"} => req[r].user \in Users
        /\ req[r].pc \in {"new", "done", "i_insert"} <=> req[r].video = NoVideo

(* While a confirm holds the row lock the row is as its checks found it, and
   nobody else holds the lock. *)
LocksOK ==
    \A r \in Reqs : req[r].pc \in LockPcs =>
        /\ ConfirmVideoProcessingWhere(video[req[r].video], req[r].user, req[r].slot)
        /\ \A q \in Reqs :
              req[q].pc \in LockPcs /\ req[q].video = req[r].video => q = r

(* Past the grace of a tombstone no request works on the row, and no client
   holds a URL to its keys. *)
GraceOK ==
    \A v \in Videos : video[v].status = "DELETED" /\ now >= video[v].deletedAt + Grace =>
        /\ \A r \in Reqs : req[r].video # v
        /\ \A s \in Slots : <<v, s>> \notin urls

(* The pcs of HandleTranscode that work on a row of the given statuses: until
   the decision only a delete can have moved the row; on the way out the row may
   be READY if the answer of MarkVideoReady was lost. *)
Working == {"t_increment", "t_download", "t_probe", "t_upload", "t_recheck", "t_ready"}
GivingUp == {"t_cleanup", "t_transient", "t_fail"}
GivenUp == {"PROCESSING", "DELETED", "GONE"}
           \cup (IF "ready_unknown" \in FaultKinds THEN {"READY"} ELSE {})

(* The worker holds a task; the row it transcodes is where the step it has
   reached expects it; HandleCleanupVideo works on a tombstone past its grace,
   whose files it has deleted as far as it got. *)
WorkerOK ==
    /\ worker.pc # "idle" => worker.task \in Task
    /\ worker.pc \in {"t_load", "t_increment", "t_download", "t_probe", "t_upload"} =>
          worker.file \in Files
    /\ worker.pc \in Working => video[wv].status \in {"PROCESSING", "DELETED", "GONE"}
    /\ worker.pc \in GivingUp => video[wv].status \in GivenUp
    /\ worker.pc = "t_rawcleanup" =>
          video[wv].status \notin {"NONE", "PENDING_UPLOAD"}
    /\ worker.pc \in {"v_prefix", "v_objects", "v_row"} =>
          /\ video[wv].status = "DELETED"
          /\ now >= video[wv].deletedAt + Grace
          /\ worker.slot = video[wv].slot
          /\ worker.keys = IF video[wv].media THEN {Thumb} ELSE {}
    /\ worker.pc = "v_objects" /\ video[wv].media => media[wv] \subseteq {Thumb}
    /\ worker.pc = "v_row" =>
          /\ raw[wv][video[wv].slot] = "none"
          /\ video[wv].media => media[wv] = {}

IInv ==
    /\ TypeOK /\ RowsOK /\ RequestsOK /\ LocksOK /\ GraceOK /\ WorkerOK
    /\ SnapshotCurrent /\ OnePendingPerUser
=============================================================================
