----------------------------- MODULE Reconcile ------------------------------
(* The objects of an account after it is removed or deactivated: the removal *)
(* commits in PostgreSQL first and enqueues its cleanup afterwards, the      *)
(* worker may still be transcoding for the user, and an hourly sweep of the  *)
(* bucket picks up what was lost on the way.                                 *)
(*                                                                           *)
(* A step is one call to PostgreSQL, R2 or Redis.  The removal's transaction *)
(* is two steps, its first read and the rest; the social tables it changes   *)
(* are those of Social, and the attempts, retries and single deletions of    *)
(* videos those of Pipeline.                                                 *)
EXTENDS Integers, Sequences, FiniteSets

CONSTANTS
    Users,
    Videos,         \* videos whose upload was confirmed
    Owner,          \* Owner[v]: the user a video belongs to
    Segments,       \* how many files the transcoder writes under hls/
    Batch,          \* RECONCILE_BATCH
    KeyLimit,       \* how many keys R2 accepts in one DeleteObjects
    Grace,          \* 24 hours, in ticks of the clock
    MaxRemovals,    \* how often the removal of a user may be requested
    AsynqMaxRetry,  \* asynq's default number of retries
    FaultKinds,     \* the failures that may happen
    MaxFaults,      \* how many
    NULL

ASSUME ReconcileConstants ==
    /\ Owner \in [Videos -> Users]
    /\ Segments \in Nat /\ Batch \in Nat /\ KeyLimit \in Nat /\ Grace \in Nat
    /\ MaxRemovals \in Nat /\ AsynqMaxRetry \in Nat /\ MaxFaults \in Nat
    /\ NULL \notin Videos

VARIABLES
    row,          \* row[v]: the status of the video's row, "NONE" once it is gone
    active,       \* users with is_active
    tombstoned,   \* users TombstoneUser was applied to
    byDeletedAt,  \* the users with deleted_at, in its order
    age,          \* age[u]: ticks since deleted_at, counted up to Grace + 1
    bucket,       \* the keys in R2
    urls,         \* videos for which the client holds a presigned URL
    queue,        \* asynq's pending list
    retrying,     \* asynq's retry set
    removal,      \* removal[u]: the deleteUserData in progress for u
    worker,       \* the task the worker is processing
    faults        \* failures so far

vars == <<row, active, tombstoned, byDeletedAt, age, bucket, urls, queue, retrying,
          removal, worker, faults>>

-----------------------------------------------------------------------------
(* Keys.  The second component stands for <userID>/<videoID> in the key.     *)

Raw(v) == <<"uploads", v, 0>>
Thumb(v) == <<"thumbs", v, 0>>
Hls(v) == {<<"hls", v, n>> : n \in 1..Segments}
Media(v) == Hls(v) \cup {Thumb(v)}
Keys == UNION {{Raw(v)} \cup Media(v) : v \in Videos}

MutUnder(root, u) == {k \in bucket : root # "hls" /\ k[1] = root /\ Owner[k[2]] = u}

(* ListObjectsByPrefix of "<root>/<userID>/".                                *)
Under(root, u) == {k \in bucket : k[1] = root /\ Owner[k[2]] = u}

(* listUserOrphanKeys: reconcilePrefixes are the only roots there are.       *)
OrphanKeys(u) == UNION {Under(root, u) : root \in {"uploads", "thumbs", "hls"}}

(* Tasks.  video, keys and dry are there for the type that needs them.       *)
Task == [type : {"transcode", "objects", "tick"}, video : Videos \cup {NULL},
         keys : SUBSET Keys, dry : BOOLEAN, left : Nat]
TranscodeTask(v) ==
    [type |-> "transcode", video |-> v, keys |-> {}, dry |-> FALSE, left |-> 1]
CleanupObjectsTask(keys) ==
    [type |-> "objects", video |-> NULL, keys |-> keys, dry |-> FALSE, left |-> AsynqMaxRetry]
ReconcileTickTask(dry) ==
    [type |-> "tick", video |-> NULL, keys |-> {}, dry |-> dry, left |-> AsynqMaxRetry]

Fault(kind) ==
    /\ kind \in FaultKinds
    /\ faults < MaxFaults
    /\ faults' = faults + 1

(* deleteUserData for one user: where it is, what it has read, how many so   *)
(* far.                                                                      *)
RemovalStates ==
    [pc : {"idle", "listed", "enqueue"}, keys : SUBSET Keys, n : 0..MaxRemovals]

(* The handler in progress, its task and what it remembers.                  *)
WorkerStates ==
    [pc : {"idle", "t_load", "t_upload", "t_ready", "t_enqueue", "o_delete", "r_query",
           "r_list", "r_enqueue"},
     task : Task \cup {NULL}, users : SUBSET Users, keys : SUBSET Keys]

Idle == [pc |-> "idle", task |-> NULL, users |-> {}, keys |-> {}]
NoRemoval(n) == [pc |-> "idle", keys |-> {}, n |-> n]

-----------------------------------------------------------------------------
(* The gateway: deleteUserData, called by DELETE /api/users/me and by the    *)
(* webhook event user.removed, which may come again.                         *)

MutListVideoKeysByUser(u) ==
    LET mine == {v \in Videos : Owner[v] = u /\ row[v] # "NONE"}
        keys == {Raw(v) : v \in mine} \cup {Thumb(v) : v \in {v \in mine : row[v] = "READY"}}
    IN  /\ removal[u].pc = "idle"
        /\ removal[u].n < MaxRemovals
        /\ removal' = [removal EXCEPT ![u] = [pc |-> "listed", keys |-> {}, n |-> @.n + 1]]
        /\ queue' = Append(queue, CleanupObjectsTask(keys))
        /\ UNCHANGED <<row, active, tombstoned, byDeletedAt, age, bucket, urls, retrying,
                       worker, faults>>

(* The first statement of the transaction: r2_key of every row, and          *)
(* thumbnail_key where it is set.                                            *)
ListVideoKeysByUser(u) ==
    LET mine == {v \in Videos : Owner[v] = u /\ row[v] # "NONE"}
        keys == {Raw(v) : v \in mine} \cup {Thumb(v) : v \in {v \in mine : row[v] = "READY"}}
    IN  /\ removal[u].pc = "idle"
        /\ removal[u].n < MaxRemovals
        /\ removal' = [removal EXCEPT ![u] = [pc |-> "listed", keys |-> keys, n |-> @.n + 1]]
        /\ UNCHANGED <<row, active, tombstoned, byDeletedAt, age, bucket, urls, queue,
                       retrying, worker, faults>>

(* DeleteVideosByUser, TombstoneUser (deleted_at = NOW()) and the commit.    *)
CommitRemoval(u) ==
    /\ removal[u].pc = "listed"
    /\ row' = [v \in Videos |-> IF Owner[v] = u THEN "NONE" ELSE row[v]]
    /\ active' = active \ {u}
    /\ tombstoned' = tombstoned \cup {u}
    /\ byDeletedAt' = Append(SelectSeq(byDeletedAt, LAMBDA w : w # u), u)
    /\ age' = [age EXCEPT ![u] = 0]
    /\ removal' = [removal EXCEPT ![u].pc = "enqueue"]
    /\ UNCHANGED <<bucket, urls, queue, retrying, worker, faults>>

(* The transaction fails or the gateway dies: nothing was committed.         *)
RollbackRemoval(u) ==
    /\ removal[u].pc = "listed"
    /\ Fault("db") \/ Fault("apicrash")
    /\ removal' = [removal EXCEPT ![u] = NoRemoval(@.n)]
    /\ UNCHANGED <<row, active, tombstoned, byDeletedAt, age, bucket, urls, queue, retrying,
                   worker>>

(* After the commit: cleanup:objects, unless there is no key.  A failure is  *)
(* logged, and a crash leaves nothing behind.                                *)
EnqueueRemoval(u) ==
    /\ removal[u].pc = "enqueue"
    /\ \/ /\ queue' = IF removal[u].keys = {} THEN queue
                      ELSE Append(queue, CleanupObjectsTask(removal[u].keys))
          /\ UNCHANGED faults
       \/ (Fault("redis") \/ Fault("apicrash")) /\ UNCHANGED queue
    /\ removal' = [removal EXCEPT ![u] = NoRemoval(@.n)]
    /\ UNCHANGED <<row, active, tombstoned, byDeletedAt, age, bucket, urls, retrying, worker>>

MutDeactivateUser(u) ==
    /\ active' = active \ {u}
    /\ byDeletedAt' = Append(SelectSeq(byDeletedAt, LAMBDA w : w # u), u)
    /\ age' = [age EXCEPT ![u] = 0]
    /\ UNCHANGED <<row, tombstoned, bucket, urls, queue, retrying, removal, worker, faults>>

(* The webhook event user.deactivated: deleted_at = COALESCE(deleted_at,     *)
(* NOW()).                                                                   *)
DeactivateUser(u) ==
    /\ active' = active \ {u}
    /\ IF u \in active
       THEN /\ byDeletedAt' = Append(byDeletedAt, u)
            /\ age' = [age EXCEPT ![u] = 0]
       ELSE UNCHANGED <<byDeletedAt, age>>
    /\ UNCHANGED <<row, tombstoned, bucket, urls, queue, retrying, removal, worker, faults>>

(* The client uses its presigned URL, whatever became of the row.            *)
ClientPut(v) ==
    /\ v \in urls
    /\ bucket' = bucket \cup {Raw(v)}
    /\ urls' = urls \ {v}
    /\ UNCHANGED <<row, active, tombstoned, byDeletedAt, age, queue, retrying, removal, worker,
                   faults>>

(* Time passes; a presigned URL lives 15 minutes.                            *)
Tick ==
    /\ urls # {} \/ \E u \in Users \ active : age[u] <= Grace
    /\ urls' = {}
    /\ age' = [u \in Users |-> IF u \notin active /\ age[u] <= Grace THEN age[u] + 1
                               ELSE age[u]]
    /\ UNCHANGED <<row, active, tombstoned, byDeletedAt, bucket, queue, retrying, removal,
                   worker, faults>>

-----------------------------------------------------------------------------
(* asynq.  One worker, because DefaultWorkerConcurrency is 1.                *)

FirstPc == [transcode |-> "t_load", objects |-> "o_delete", tick |-> "r_query"]

Deliver ==
    /\ worker.pc = "idle"
    /\ queue # <<>>
    /\ worker' = [Idle EXCEPT !.pc = FirstPc[Head(queue).type], !.task = Head(queue)]
    /\ queue' = Tail(queue)
    /\ UNCHANGED <<row, active, tombstoned, byDeletedAt, age, bucket, urls, retrying, removal,
                   faults>>

Ack == worker' = Idle /\ UNCHANGED retrying

(* A task that failed is retried, or archived when it has no retries left.   *)
Nack ==
    /\ worker' = Idle
    /\ retrying' = IF worker.task.left = 0 THEN retrying
                   ELSE retrying \cup {[worker.task EXCEPT !.left = @ - 1]}

Forward(t) ==
    /\ t \in retrying
    /\ retrying' = retrying \ {t}
    /\ queue' = Append(queue, t)
    /\ UNCHANGED <<row, active, tombstoned, byDeletedAt, age, bucket, urls, removal, worker,
                   faults>>

(* The worker dies; if it was uploading, some files are in the bucket.       *)
WorkerCrash ==
    /\ worker.pc # "idle"
    /\ Fault("crash")
    /\ Nack
    /\ \E files \in SUBSET (IF worker.pc = "t_upload" THEN Media(worker.task.video) ELSE {}) :
         bucket' = bucket \cup files
    /\ UNCHANGED <<row, active, tombstoned, byDeletedAt, age, urls, queue, removal>>

-----------------------------------------------------------------------------
(* HandleTranscode, from the load of the row to the last enqueue.            *)

LoadVideo ==
    /\ worker.pc = "t_load"
    /\ IF row[worker.task.video] = "PROCESSING"
       THEN worker' = [worker EXCEPT !.pc = "t_upload"] /\ UNCHANGED retrying
       ELSE Ack
    /\ UNCHANGED <<row, active, tombstoned, byDeletedAt, age, bucket, urls, queue, removal,
                   faults>>

UploadMedia ==
    /\ worker.pc = "t_upload"
    /\ bucket' = bucket \cup Media(worker.task.video)
    /\ worker' = [worker EXCEPT !.pc = "t_ready"]
    /\ UNCHANGED <<row, active, tombstoned, byDeletedAt, age, urls, queue, retrying, removal,
                   faults>>

(* The re-check and MarkVideoReady.  If the row is gone, what was uploaded   *)
(* is to be deleted; otherwise the raw upload is.                            *)
MarkReady ==
    LET v == worker.task.video
    IN  /\ worker.pc = "t_ready"
        /\ IF row[v] = "PROCESSING"
           THEN /\ row' = [row EXCEPT ![v] = "READY"]
                /\ worker' = [worker EXCEPT !.pc = "t_enqueue", !.keys = {Raw(v)}]
           ELSE /\ worker' = [worker EXCEPT !.pc = "t_enqueue", !.keys = Media(v)]
                /\ UNCHANGED row
        /\ UNCHANGED <<active, tombstoned, byDeletedAt, age, bucket, urls, queue, retrying,
                       removal, faults>>

EnqueueCleanup ==
    /\ worker.pc = "t_enqueue"
    /\ \/ queue' = Append(queue, CleanupObjectsTask(worker.keys)) /\ UNCHANGED faults
       \/ Fault("redis") /\ UNCHANGED queue
    /\ Ack
    /\ UNCHANGED <<row, active, tombstoned, byDeletedAt, age, bucket, urls, removal>>

-----------------------------------------------------------------------------
(* HandleCleanupObjects: one DeleteObjects with every key of the task.       *)

DeleteObjects ==
    LET keys == worker.task.keys
    IN  /\ worker.pc = "o_delete"
        /\ \/ /\ Cardinality(keys) <= KeyLimit
              /\ bucket' = bucket \ keys
              /\ Ack
              /\ UNCHANGED faults
           \/ /\ Cardinality(keys) > KeyLimit
              /\ Nack
              /\ UNCHANGED <<bucket, faults>>
           \/ /\ Cardinality(keys) <= KeyLimit
              /\ Fault("delete")
              /\ \E some \in SUBSET keys : bucket' = bucket \ some
              /\ Nack
        /\ UNCHANGED <<row, active, tombstoned, byDeletedAt, age, urls, queue, removal>>

-----------------------------------------------------------------------------
(* The ticker and make reconcile-once, or make reconcile-once-dry.  The      *)
(* interval is an hour and a tick gets ten minutes, so a tick is enqueued    *)
(* when the last one of its kind is over.                                    *)

TickOf(t, dry) == t.type = "tick" /\ t.dry = dry

EnqueueReconcileTick(dry) ==
    /\ \A i \in 1..Len(queue) : ~TickOf(queue[i], dry)
    /\ \A t \in retrying : ~TickOf(t, dry)
    /\ worker.pc \in {"r_query", "r_list", "r_enqueue"} => ~TickOf(worker.task, dry)
    /\ queue' = Append(queue, ReconcileTickTask(dry))
    /\ UNCHANGED <<row, active, tombstoned, byDeletedAt, age, bucket, urls, retrying, removal,
                   worker, faults>>

(* HandleReconcileTick.                                                      *)

(* ListUsersEligibleForReconcile, before its LIMIT.                          *)
Eligible == {u \in Users \ active : age[u] > Grace}

(* x has the smaller deleted_at.                                             *)
Older(x, y) ==
    \E i, j \in 1..Len(byDeletedAt) : i < j /\ byDeletedAt[i] = x /\ byDeletedAt[j] = y

(* ORDER BY deleted_at ASC LIMIT Batch.                                      *)
ListUsersEligibleForReconcile ==
    /\ worker.pc = "r_query"
    /\ \/ /\ \E users \in SUBSET Eligible :
               /\ Cardinality(users) <= Batch
               /\ users = Eligible \/ Cardinality(users) = Batch
               /\ \A x \in users, y \in Eligible \ users : Older(x, y)
               /\ worker' = [worker EXCEPT !.pc = "r_list", !.users = users]
          /\ UNCHANGED <<retrying, faults>>
       \/ Fault("db") /\ Nack
    /\ UNCHANGED <<row, active, tombstoned, byDeletedAt, age, bucket, urls, queue, removal>>

(* The next user of the batch is listed; if that fails, or finds nothing, or *)
(* this is a dry run, the user is passed over.                               *)
ListUserPrefixes ==
    /\ worker.pc = "r_list"
    /\ \E u \in worker.users :
         /\ \A w \in worker.users \ {u} : Older(u, w)
         /\ LET rest == worker.users \ {u}
                keys == OrphanKeys(u)
            IN  \/ /\ worker' =
                        IF keys = {} \/ worker.task.dry
                        THEN [worker EXCEPT !.users = rest]
                        ELSE [worker EXCEPT !.pc = "r_enqueue", !.users = rest, !.keys = keys]
                   /\ UNCHANGED faults
                \/ Fault("list") /\ worker' = [worker EXCEPT !.users = rest]
    /\ UNCHANGED <<row, active, tombstoned, byDeletedAt, age, bucket, urls, queue, retrying,
                   removal>>

EnqueueOrphans ==
    /\ worker.pc = "r_enqueue"
    /\ \/ queue' = Append(queue, CleanupObjectsTask(worker.keys)) /\ UNCHANGED faults
       \/ Fault("redis") /\ UNCHANGED queue
    /\ worker' = [worker EXCEPT !.pc = "r_list", !.keys = {}]
    /\ UNCHANGED <<row, active, tombstoned, byDeletedAt, age, bucket, urls, retrying, removal>>

(* Every user was looked at, or the ten minutes of the tick are over.        *)
EndTick ==
    /\ worker.pc = "r_list"
    /\ \/ worker.users = {} /\ UNCHANGED faults
       \/ worker.users # {} /\ Fault("budget")
    /\ Ack
    /\ UNCHANGED <<row, active, tombstoned, byDeletedAt, age, bucket, urls, queue, removal>>

-----------------------------------------------------------------------------
(* Every video has been confirmed: its row is PROCESSING, its upload in the  *)
(* bucket, its transcode:video task in the queue, in any order.              *)
Init ==
    /\ row = [v \in Videos |-> "PROCESSING"]
    /\ active = Users
    /\ tombstoned = {}
    /\ byDeletedAt = <<>>
    /\ age = [u \in Users |-> 0]
    /\ bucket = {Raw(v) : v \in Videos}
    /\ urls = Videos
    /\ queue = <<>>
    /\ retrying = {TranscodeTask(v) : v \in Videos}
    /\ removal = [u \in Users |-> NoRemoval(0)]
    /\ worker = Idle
    /\ faults = 0

Removal(u) ==
    ListVideoKeysByUser(u) \/ CommitRemoval(u) \/ RollbackRemoval(u) \/ EnqueueRemoval(u)

Transcode == LoadVideo \/ UploadMedia \/ MarkReady \/ EnqueueCleanup

Sweep ==
    ListUsersEligibleForReconcile \/ ListUserPrefixes \/ EnqueueOrphans \/ EndTick

Next ==
    \/ \E u \in Users : Removal(u) \/ DeactivateUser(u)
    \/ \E v \in Videos : ClientPut(v)
    \/ Tick
    \/ Deliver \/ (\E t \in retrying : Forward(t)) \/ WorkerCrash
    \/ Transcode \/ DeleteObjects \/ Sweep
    \/ \E dry \in BOOLEAN : EnqueueReconcileTick(dry)

Spec == Init /\ [][Next]_vars

(* The processes are alive: a committed removal goes on, the worker takes    *)
(* and processes tasks, asynq forwards retries, the ticker ticks and time    *)
(* passes.  Clients, webhooks and failures are never forced.                 *)
FairSpec ==
    /\ Spec
    /\ \A u \in Users : WF_vars(EnqueueRemoval(u))
    /\ WF_vars(Tick)
    /\ WF_vars(Deliver)
    /\ WF_vars(\E t \in retrying : Forward(t))
    /\ WF_vars(Transcode \/ DeleteObjects \/ Sweep)
    /\ WF_vars(EnqueueReconcileTick(FALSE))

-----------------------------------------------------------------------------
(* Properties.                                                               *)

(* Type correctness.                                                         *)
TypeOK ==
    /\ row \in [Videos -> {"NONE", "PROCESSING", "READY"}]
    /\ active \subseteq Users
    /\ tombstoned \subseteq Users \ active
    /\ age \in [Users -> 0..(Grace + 1)]
    /\ bucket \subseteq Keys
    /\ urls \subseteq Videos
    /\ queue \in Seq(Task)
    /\ retrying \subseteq Task
    /\ removal \in [Users -> RemovalStates]
    /\ worker \in WorkerStates
    /\ faults \in 0..MaxFaults

(* The user is active or within the grace.                                   *)
Spared(u) == u \in active \/ age[u] <= Grace

(* The sweep and the cleanups spare what is in use: a video that is still    *)
(* to be transcoded has its upload and a READY one its files, unless its     *)
(* owner has been inactive for longer than the grace.  A removal that is     *)
(* rolled back deletes nothing.                                              *)
MediaKept ==
    \A v \in Videos : Spared(Owner[v]) =>
        /\ row[v] = "PROCESSING" => Raw(v) \in bucket
        /\ row[v] = "READY" => Media(v) \subseteq bucket

(* The key may be deleted, now and for ever.                                 *)
Dead(k) ==
    \/ row[k[2]] = "NONE"
    \/ row[k[2]] = "READY" /\ k[1] = "uploads"
    \/ ~Spared(Owner[k[2]])

(* The tasks that are waiting or in progress.                                *)
Outstanding ==
    retrying \cup {queue[i] : i \in 1..Len(queue)} \cup
    (IF worker.pc = "idle" THEN {} ELSE {worker.task})

(* Every key that anybody is going to delete may be deleted.                 *)
DeletesOnlyDead ==
    /\ \A t \in Outstanding : \A k \in t.keys : Dead(k)
    /\ \A k \in worker.keys : Dead(k)
    /\ \A u \in Users : removal[u].pc = "enqueue" => \A k \in removal[u].keys : Dead(k)

(* A removal works on the keys of its own user.                              *)
RemovalsKnown ==
    \A u \in Users : \A k \in removal[u].keys : Owner[k[2]] = u

(* A user of the batch is past the grace or, removed since then, has no row. *)
BatchIsDead ==
    \A v \in Videos : Owner[v] \in worker.users => row[v] = "NONE" \/ ~Spared(Owner[v])

(* The task fits the handler.                                                *)
HandlerFits ==
    /\ worker.pc # "idle" => worker.task \in Task
    /\ worker.pc \in {"t_load", "t_upload", "t_ready", "t_enqueue"} =>
         worker.task.type = "transcode"
    /\ \A t \in Outstanding : t.type = "transcode" => t.video \in Videos

(* Nobody else publishes the video that is being transcoded, and what was    *)
(* uploaded for it is in the bucket.                                         *)
UploadsKept ==
    LET v == worker.task.video
    IN  /\ worker.pc \in {"t_upload", "t_ready"} => row[v] # "READY"
        /\ worker.pc = "t_ready" /\ row[v] = "PROCESSING" /\ Spared(Owner[v])
             => Media(v) \subseteq bucket

(* The inductive invariant behind MediaKept: everything that waits to be     *)
(* deleted is dead, and what is dead stays so.                               *)
IInv ==
    /\ TypeOK
    /\ HandlerFits
    /\ RemovalsKnown
    /\ BatchIsDead
    /\ DeletesOnlyDead
    /\ UploadsKept
    /\ MediaKept

(* Of a removed account nothing is left in the bucket in the end, whatever   *)
(* was lost between the commit and the cleanup.                              *)
OrphansAreSwept ==
    \A u \in Users : [](u \in tombstoned => <>[](\A k \in bucket : Owner[k[2]] # u))
=============================================================================
