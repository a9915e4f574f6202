--------------------------- MODULE ReconcileProofs --------------------------
(* The sweep and the cleanups of Reconcile never delete what is in use.      *)
EXTENDS Reconcile, TLAPS

-----------------------------------------------------------------------------
(* Keys.                                                                     *)

(* The second component of a key is its video, and only the key of the raw   *)
(* upload is under uploads/.                                                 *)
LEMMA KeyFacts ==
    /\ \A k \in Keys : k[2] \in Videos
    /\ \A v \in Videos :
         /\ Raw(v) \in Keys /\ Raw(v)[1] = "uploads" /\ Raw(v)[2] = v
         /\ Thumb(v) \in Keys /\ Thumb(v)[2] = v
         /\ Media(v) \subseteq Keys
         /\ \A k \in Media(v) : k[1] # "uploads" /\ k[2] = v
  <1>1. ASSUME NEW v \in Videos, NEW k \in Media(v)
        PROVE  k[1] # "uploads" /\ k[2] = v
    BY <1>1 DEF Media, Hls, Thumb
  <1>2. ASSUME NEW k \in Keys
        PROVE  k[2] \in Videos
    <2>1. PICK v \in Videos : k \in {Raw(v)} \cup Media(v)
      BY <1>2 DEF Keys
    <2>2. k[2] = v
      BY <2>1, <1>1 DEF Raw
    <2> QED
      BY <2>2
  <1>3. ASSUME NEW v \in Videos
        PROVE  /\ Raw(v) \in Keys /\ Raw(v)[1] = "uploads" /\ Raw(v)[2] = v
               /\ Thumb(v) \in Keys /\ Thumb(v)[2] = v
               /\ Media(v) \subseteq Keys
    <2>1. Raw(v) \in Keys /\ Media(v) \subseteq Keys
      BY DEF Keys
    <2>2. Raw(v)[1] = "uploads" /\ Raw(v)[2] = v /\ Thumb(v)[2] = v
      BY DEF Raw, Thumb
    <2>3. Thumb(v) \in Media(v)
      BY DEF Media
    <2> QED
      BY <2>1, <2>2, <2>3
  <1> QED
    BY <1>1, <1>2, <1>3

(* The elements of a queue that has grown or shrunk by one.                  *)
LEMMA AppendElements ==
    ASSUME NEW S, NEW q \in Seq(S), NEW e \in S
    PROVE  /\ Append(q, e) \in Seq(S)
           /\ \A i \in 1..Len(Append(q, e)) :
                Append(q, e)[i] = e \/ (i \in 1..Len(q) /\ Append(q, e)[i] = q[i])
  OBVIOUS

LEMMA TailElements ==
    ASSUME NEW S, NEW q \in Seq(S), q # <<>>
    PROVE  /\ Tail(q) \in Seq(S)
           /\ Head(q) \in S /\ 1 \in 1..Len(q) /\ Head(q) = q[1]
           /\ \A i \in 1..Len(Tail(q)) : i + 1 \in 1..Len(q) /\ Tail(q)[i] = q[i + 1]
  OBVIOUS

-----------------------------------------------------------------------------
(* Tasks have the fields of their type.                                      *)
LEMMA TaskFacts ==
    /\ \A v \in Videos : TranscodeTask(v) \in Task
    /\ \A keys \in SUBSET Keys : CleanupObjectsTask(keys) \in Task
    /\ \A dry \in BOOLEAN : ReconcileTickTask(dry) \in Task
    /\ \A t \in Task : t.left # 0 => [t EXCEPT !.left = @ - 1] \in Task
  BY ReconcileConstants DEF Task, TranscodeTask, CleanupObjectsTask, ReconcileTickTask

(* Memory of the worker that is well-formed stays so.                        *)
LEMMA WorkerUpdate ==
    ASSUME NEW w \in WorkerStates, NEW users \in SUBSET w.users, NEW keys \in SUBSET Keys
    PROVE  /\ [w EXCEPT !.pc = "t_enqueue", !.keys = keys] \in WorkerStates
           /\ [w EXCEPT !.users = users] \in WorkerStates
           /\ [w EXCEPT !.pc = "r_enqueue", !.users = users, !.keys = keys] \in WorkerStates
  BY DEF WorkerStates

(* A failure is counted up to its bound.                                     *)
LEMMA FaultFacts ==
    ASSUME TypeOK, NEW kind, Fault(kind)
    PROVE  faults' \in 0..MaxFaults
  BY ReconcileConstants DEF TypeOK, Fault

(* What a worker that stops leaves behind.                                   *)
LEMMA NackFacts ==
    ASSUME TypeOK, HandlerFits, worker.pc # "idle", Nack
    PROVE  retrying' \subseteq Task /\ worker' = Idle
  BY TaskFacts DEF TypeOK, HandlerFits, Nack

-----------------------------------------------------------------------------
(* The time to live of rows and of the grace: no row comes back, and whoever *)
(* has a row and is spared after a step was spared before it.                *)
LEMMA Aging ==
    ASSUME TypeOK, [Next]_vars, NEW v \in Videos
    PROVE  /\ row[v] = "NONE" => row'[v] = "NONE"
           /\ row[v] = "READY" => row'[v] \in {"READY", "NONE"}
           /\ row'[v] # "NONE" /\ Spared(Owner[v])' => Spared(Owner[v])
  <1> USE ReconcileConstants DEF TypeOK, Spared
  <1>1. CASE UNCHANGED <<row, active, age>>
    BY <1>1
  <1>2. CASE \E u \in Users : CommitRemoval(u)
    BY <1>2 DEF CommitRemoval
  <1>3. CASE \E u \in Users : DeactivateUser(u)
    BY <1>3 DEF DeactivateUser
  <1>4. CASE Tick
    BY <1>4 DEF Tick
  <1>5. CASE MarkReady
    BY <1>5 DEF MarkReady
  <1> QED
    BY <1>1, <1>2, <1>3, <1>4, <1>5
    DEF Next, vars, Removal, ListVideoKeysByUser, RollbackRemoval, EnqueueRemoval, ClientPut,
        Deliver, Forward, WorkerCrash, Transcode, LoadVideo, UploadMedia, EnqueueCleanup,
        DeleteObjects, Sweep, ListUsersEligibleForReconcile, ListUserPrefixes, EnqueueOrphans,
        EndTick, EnqueueReconcileTick

(* What is dead stays dead.                                                  *)
LEMMA DeadForEver ==
    ASSUME TypeOK, [Next]_vars, NEW k \in Keys, Dead(k)
    PROVE  Dead(k)'
  <1>1. k[2] \in Videos
    BY KeyFacts
  <1> QED
    BY <1>1, Aging DEF Dead

-----------------------------------------------------------------------------
(* Types.                                                                    *)
LEMMA Typing ==
    ASSUME TypeOK, HandlerFits, [Next]_vars
    PROVE  TypeOK'
  <1> USE ReconcileConstants
  <1>t. worker.pc # "idle" => worker.task \in Task /\ worker.task.keys \subseteq Keys
    BY DEF HandlerFits, Task
  <1>v. worker.pc \in {"t_load", "t_upload", "t_ready", "t_enqueue"} => worker.task.video \in Videos
    BY DEF HandlerFits, Outstanding
  <1>i. Idle \in WorkerStates
    BY DEF Idle, WorkerStates
  <1>w. /\ worker \in WorkerStates
        /\ worker.users \subseteq Users /\ worker.keys \subseteq Keys
    BY DEF TypeOK, WorkerStates
  <1>r. \A u \in Users : /\ removal[u] \in RemovalStates
                         /\ removal[u].keys \subseteq Keys
                         /\ NoRemoval(removal[u].n) \in RemovalStates
    BY DEF TypeOK, RemovalStates, NoRemoval
  <1>1. CASE UNCHANGED vars
    BY <1>1 DEF TypeOK, vars
  <1>2. ASSUME NEW u \in Users, ListVideoKeysByUser(u)
        PROVE  TypeOK'
    <2> DEFINE mine == {v \in Videos : Owner[v] = u /\ row[v] # "NONE"}
               keys == {Raw(v) : v \in mine} \cup {Thumb(v) : v \in {v \in mine : row[v] = "READY"}}
    <2>1. keys \subseteq Keys
      BY KeyFacts
    <2>2. removal' = [removal EXCEPT ![u] = [pc |-> "listed", keys |-> keys, n |-> removal[u].n + 1]]
      BY <1>2 DEF ListVideoKeysByUser
    <2> HIDE DEF keys
    <2>3. [pc |-> "listed", keys |-> keys, n |-> removal[u].n + 1] \in RemovalStates
      BY <1>2, <1>r, <2>1 DEF RemovalStates, ListVideoKeysByUser
    <2> QED
      BY <1>2, <2>2, <2>3 DEF TypeOK, ListVideoKeysByUser
  <1>3. ASSUME NEW u \in Users, CommitRemoval(u)
        PROVE  TypeOK'
    <2>1. [removal[u] EXCEPT !.pc = "enqueue"] \in RemovalStates
      BY <1>r DEF RemovalStates
    <2>2. removal' \in [Users -> RemovalStates]
      BY <1>3, <2>1 DEF CommitRemoval, TypeOK
    <2>3. row' \in [Videos -> {"NONE", "PROCESSING", "READY"}]
      BY <1>3 DEF CommitRemoval, TypeOK
    <2> QED
      BY <1>3, <2>2, <2>3 DEF TypeOK, CommitRemoval
  <1>4. ASSUME NEW u \in Users, RollbackRemoval(u)
        PROVE  TypeOK'
    <2>1. faults' \in 0..MaxFaults
      BY <1>4, FaultFacts DEF RollbackRemoval
    <2> QED
      BY <1>4, <1>r, <2>1 DEF TypeOK, RollbackRemoval
  <1>5. ASSUME NEW u \in Users, EnqueueRemoval(u)
        PROVE  TypeOK'
    <2>1. CleanupObjectsTask(removal[u].keys) \in Task
      BY <1>r, TaskFacts
    <2>2. faults' \in 0..MaxFaults
      BY <1>5, FaultFacts DEF EnqueueRemoval, TypeOK
    <2>a. queue \in Seq(Task) /\ Append(queue, CleanupObjectsTask(removal[u].keys)) \in Seq(Task)
      BY <2>1, AppendElements DEF TypeOK
    <2>3. queue' \in Seq(Task)
      BY <1>5, <2>a DEF EnqueueRemoval
    <2> QED
      BY <1>5, <1>r, <2>2, <2>3 DEF TypeOK, EnqueueRemoval
  <1>6. ASSUME NEW u \in Users, DeactivateUser(u)
        PROVE  TypeOK'
    <2>a. age \in [Users -> 0..(Grace + 1)] /\ 0 \in 0..(Grace + 1)
      BY DEF TypeOK
    <2>1. age' \in [Users -> 0..(Grace + 1)]
      <3>1. CASE u \in active
        BY <1>6, <2>a, <3>1 DEF DeactivateUser
      <3>2. CASE u \notin active
        BY <1>6, <2>a, <3>2 DEF DeactivateUser
      <3> QED
        BY <3>1, <3>2
    <2>2. active' \subseteq Users /\ tombstoned' \subseteq Users \ active'
      BY <1>6 DEF TypeOK, DeactivateUser
    <2> QED
      BY <1>6, <2>1, <2>2 DEF TypeOK, DeactivateUser
  <1>7. ASSUME NEW v \in Videos, ClientPut(v)
        PROVE  TypeOK'
    BY <1>7, KeyFacts DEF TypeOK, ClientPut
  <1>8. CASE Tick
    BY <1>8 DEF TypeOK, Tick
  <1>9. CASE Deliver
    <2>1. Head(queue) \in Task /\ Tail(queue) \in Seq(Task)
      BY <1>9, TailElements DEF TypeOK, Deliver
    <2>2. FirstPc[Head(queue).type] \in {"t_load", "o_delete", "r_query"}
      BY <2>1 DEF Task, FirstPc
    <2>3. worker' \in WorkerStates
      BY <1>9, <2>1, <2>2 DEF Deliver, Idle, WorkerStates
    <2> QED
      BY <1>9, <2>1, <2>3 DEF TypeOK, Deliver
  <1>10. ASSUME NEW t \in retrying, Forward(t)
         PROVE  TypeOK'
    <2>1. Append(queue, t) \in Seq(Task)
      BY AppendElements DEF TypeOK
    <2> QED
      BY <1>10, <2>1 DEF TypeOK, Forward
  <1>11. CASE WorkerCrash
    <2>1. retrying' \subseteq Task /\ worker' = Idle /\ faults' \in 0..MaxFaults
      BY <1>11, NackFacts, FaultFacts DEF WorkerCrash
    <2>2. bucket' \subseteq Keys
      BY <1>11, <1>v, KeyFacts DEF WorkerCrash, TypeOK
    <2> QED
      BY <1>11, <1>i, <2>1, <2>2 DEF TypeOK, WorkerCrash
  <1>12. CASE LoadVideo
    <2>1. worker' \in WorkerStates
      BY <1>12, <1>i, <1>w DEF LoadVideo, Ack, WorkerStates
    <2> QED
      BY <1>12, <2>1 DEF TypeOK, LoadVideo, Ack
  <1>13. CASE UploadMedia
    <2>1. bucket' \subseteq Keys
      BY <1>13, <1>v, KeyFacts DEF UploadMedia, TypeOK
    <2>2. worker' \in WorkerStates
      BY <1>13, <1>w DEF UploadMedia, WorkerStates
    <2> QED
      BY <1>13, <2>1, <2>2 DEF TypeOK, UploadMedia
  <1>14. CASE MarkReady
    <2>1. {Raw(worker.task.video)} \in SUBSET Keys /\ Media(worker.task.video) \in SUBSET Keys
      BY <1>14, <1>v, KeyFacts DEF MarkReady
    <2>2. worker' \in WorkerStates
      <3>1. \A keys \in SUBSET Keys :
              [worker EXCEPT !.pc = "t_enqueue", !.keys = keys] \in WorkerStates
        BY <1>w, WorkerUpdate
      <3> QED
        BY <1>14, <2>1, <3>1 DEF MarkReady
    <2>3. row' \in [Videos -> {"NONE", "PROCESSING", "READY"}]
      BY <1>14, <1>v DEF MarkReady, TypeOK
    <2> QED
      BY <1>14, <2>2, <2>3 DEF TypeOK, MarkReady
  <1>15. CASE EnqueueCleanup
    <2>1. CleanupObjectsTask(worker.keys) \in Task
      BY <1>w, TaskFacts
    <2>2. faults' \in 0..MaxFaults
      BY <1>15, FaultFacts DEF EnqueueCleanup, TypeOK
    <2>a. queue \in Seq(Task) /\ Append(queue, CleanupObjectsTask(worker.keys)) \in Seq(Task)
      BY <2>1, AppendElements DEF TypeOK
    <2>3. queue' \in Seq(Task)
      BY <1>15, <2>a DEF EnqueueCleanup
    <2> QED
      BY <1>15, <1>i, <2>2, <2>3 DEF TypeOK, EnqueueCleanup, Ack
  <1>16. CASE DeleteObjects
    <2>1. worker' = Idle /\ retrying' \subseteq Task
      BY <1>16, NackFacts DEF DeleteObjects, Ack, TypeOK
    <2>2. faults' \in 0..MaxFaults
      BY <1>16, FaultFacts DEF DeleteObjects, TypeOK
    <2>3. bucket' \subseteq Keys
      BY <1>16 DEF DeleteObjects, TypeOK
    <2> QED
      BY <1>16, <1>i, <2>1, <2>2, <2>3 DEF TypeOK, DeleteObjects
  <1>17. CASE ListUsersEligibleForReconcile
    <2>1. CASE Fault("db") /\ Nack
      BY <1>17, <1>i, <2>1, FaultFacts, NackFacts DEF TypeOK, ListUsersEligibleForReconcile
    <2>2. CASE /\ \E users \in SUBSET Eligible :
                    worker' = [worker EXCEPT !.pc = "r_list", !.users = users]
               /\ UNCHANGED <<retrying, faults>>
      <3>1. worker' \in WorkerStates
        BY <1>w, <2>2 DEF Eligible, WorkerStates
      <3> QED
        BY <1>17, <2>2, <3>1 DEF TypeOK, ListUsersEligibleForReconcile
    <2> QED
      BY <1>17, <2>1, <2>2 DEF ListUsersEligibleForReconcile
  <1>18. CASE ListUserPrefixes
    <2>1. \A u \in Users : OrphanKeys(u) \subseteq Keys
      BY DEF TypeOK, OrphanKeys, Under
    <2>2. faults' \in 0..MaxFaults
      BY <1>18, FaultFacts DEF ListUserPrefixes, TypeOK
    <2>3. PICK u \in worker.users :
            \/ worker' = [worker EXCEPT !.users = worker.users \ {u}]
            \/ worker' = [worker EXCEPT !.pc = "r_enqueue", !.users = worker.users \ {u},
                                        !.keys = OrphanKeys(u)]
      BY <1>18 DEF ListUserPrefixes
    <2>4. worker' \in WorkerStates
      <3>1. OrphanKeys(u) \in SUBSET Keys /\ worker.users \ {u} \in SUBSET worker.users
        BY <1>w, <2>1
      <3>2. CASE worker' = [worker EXCEPT !.users = worker.users \ {u}]
        BY <1>w, <3>1, <3>2, WorkerUpdate
      <3>3. CASE worker' = [worker EXCEPT !.pc = "r_enqueue", !.users = worker.users \ {u},
                                          !.keys = OrphanKeys(u)]
        BY <1>w, <3>1, <3>3, WorkerUpdate
      <3> QED
        BY <2>3, <3>2, <3>3
    <2> QED
      BY <1>18, <2>2, <2>4 DEF TypeOK, ListUserPrefixes
  <1>19. CASE EnqueueOrphans
    <2>1. CleanupObjectsTask(worker.keys) \in Task
      BY <1>w, TaskFacts
    <2>2. faults' \in 0..MaxFaults
      BY <1>19, FaultFacts DEF EnqueueOrphans, TypeOK
    <2>a. queue \in Seq(Task) /\ Append(queue, CleanupObjectsTask(worker.keys)) \in Seq(Task)
      BY <2>1, AppendElements DEF TypeOK
    <2>3. queue' \in Seq(Task)
      BY <1>19, <2>a DEF EnqueueOrphans
    <2>4. worker' \in WorkerStates
      BY <1>19, <1>w DEF EnqueueOrphans, WorkerStates
    <2> QED
      BY <1>19, <2>2, <2>3, <2>4 DEF TypeOK, EnqueueOrphans
  <1>20. CASE EndTick
    <2>1. faults' \in 0..MaxFaults
      BY <1>20, FaultFacts DEF EndTick, TypeOK
    <2> QED
      BY <1>20, <1>i, <2>1 DEF TypeOK, EndTick, Ack
  <1>21. ASSUME NEW dry \in BOOLEAN, EnqueueReconcileTick(dry)
         PROVE  TypeOK'
    <2>1. queue' \in Seq(Task)
      BY <1>21, TaskFacts, AppendElements DEF EnqueueReconcileTick, TypeOK
    <2> QED
      BY <1>21, <2>1 DEF TypeOK, EnqueueReconcileTick
  <1> QED
    BY <1>1, <1>2, <1>3, <1>4, <1>5, <1>6, <1>7, <1>8, <1>9, <1>10, <1>11, <1>12, <1>13,
       <1>14, <1>15, <1>16, <1>17, <1>18, <1>19, <1>20, <1>21
    DEF Next, Removal, Transcode, Sweep

-----------------------------------------------------------------------------
(* Where tasks come from.                                                    *)

(* The retry set receives nothing but the task the worker gives up.          *)
LEMMA RetryingNext ==
    ASSUME [Next]_vars, NEW t \in retrying'
    PROVE  t \in retrying \/ (worker.pc # "idle" /\ t = [worker.task EXCEPT !.left = @ - 1])
  <1>1. CASE retrying' \subseteq retrying
    BY <1>1
  <1>2. CASE Nack /\ worker.pc # "idle"
    BY <1>2 DEF Nack
  <1> QED
    BY <1>1, <1>2
    DEF Next, vars, Removal, ListVideoKeysByUser, CommitRemoval, RollbackRemoval, EnqueueRemoval,
        DeactivateUser, ClientPut, Tick, Deliver, Forward, WorkerCrash, Transcode, LoadVideo,
        UploadMedia, MarkReady, EnqueueCleanup, DeleteObjects, Sweep,
        ListUsersEligibleForReconcile, ListUserPrefixes, EnqueueOrphans, EndTick,
        EnqueueReconcileTick, Ack

(* The queue receives retries, the keys of a removal that committed, the     *)
(* keys a handler has gathered, and ticks.                                   *)
LEMMA QueueNext ==
    ASSUME [Next]_vars
    PROVE  \/ UNCHANGED queue
           \/ queue # <<>> /\ queue' = Tail(queue)
           \/ \E t \in retrying : queue' = Append(queue, t)
           \/ \E u \in Users : /\ removal[u].pc = "enqueue"
                               /\ queue' = Append(queue, CleanupObjectsTask(removal[u].keys))
           \/ queue' = Append(queue, CleanupObjectsTask(worker.keys))
           \/ \E dry \in BOOLEAN : queue' = Append(queue, ReconcileTickTask(dry))
  <1>1. CASE UNCHANGED queue
    BY <1>1
  <1>2. CASE Deliver
    BY <1>2 DEF Deliver
  <1>3. CASE \E t \in retrying : Forward(t)
    BY <1>3 DEF Forward
  <1>4. CASE \E u \in Users : EnqueueRemoval(u)
    BY <1>4 DEF EnqueueRemoval
  <1>5. CASE EnqueueCleanup \/ EnqueueOrphans
    BY <1>5 DEF EnqueueCleanup, EnqueueOrphans
  <1>6. CASE \E dry \in BOOLEAN : EnqueueReconcileTick(dry)
    BY <1>6 DEF EnqueueReconcileTick
  <1> QED
    BY <1>1, <1>2, <1>3, <1>4, <1>5, <1>6
    DEF Next, vars, Removal, ListVideoKeysByUser, CommitRemoval, RollbackRemoval,
        DeactivateUser, ClientPut, Tick, WorkerCrash, Transcode, LoadVideo, UploadMedia,
        MarkReady, DeleteObjects, Sweep, ListUsersEligibleForReconcile, ListUserPrefixes,
        EndTick

(* The worker keeps its task until it is done with it.                       *)
LEMMA WorkerNext ==
    ASSUME TypeOK, [Next]_vars
    PROVE  \/ worker' = Idle
           \/ worker' = worker
           \/ worker.pc = "idle" /\ queue # <<>> /\ worker'.task = Head(queue)
           \/ worker.pc # "idle" /\ worker'.task = worker.task
  <1>1. CASE worker' = Idle \/ UNCHANGED worker
    BY <1>1
  <1>2. CASE Deliver
    BY <1>2 DEF Deliver, Idle
  <1>3. CASE LoadVideo \/ UploadMedia \/ EnqueueOrphans
    BY <1>3 DEF TypeOK, WorkerStates, LoadVideo, UploadMedia, EnqueueOrphans, Ack
  <1>5. CASE MarkReady
    BY <1>5 DEF TypeOK, WorkerStates, MarkReady
  <1>6. CASE ListUserPrefixes
    BY <1>6 DEF TypeOK, WorkerStates, ListUserPrefixes
  <1>4. CASE ListUsersEligibleForReconcile
    BY <1>4 DEF TypeOK, WorkerStates, ListUsersEligibleForReconcile, Nack
  <1> QED
    BY <1>1, <1>2, <1>3, <1>4, <1>5, <1>6
    DEF Next, vars, Removal, ListVideoKeysByUser, CommitRemoval, RollbackRemoval,
        EnqueueRemoval, DeactivateUser, ClientPut, Tick, Forward, WorkerCrash, Transcode,
        EnqueueCleanup, DeleteObjects, Sweep, EndTick, EnqueueReconcileTick, Ack, Nack

(* So a task is one there was before, or new: then it is no transcode, and   *)
(* its keys are those a handler or a removal that committed has gathered.    *)
LEMMA TaskOrigin ==
    ASSUME TypeOK, HandlerFits, [Next]_vars, NEW t \in Outstanding'
    PROVE  \/ \E s \in Outstanding : t.type = s.type /\ t.video = s.video /\ t.keys = s.keys
           \/ /\ t.type # "transcode"
              /\ \/ t.keys \subseteq worker.keys
                 \/ \E u \in Users : removal[u].pc = "enqueue" /\ t.keys = removal[u].keys
  <1>k. /\ worker.keys \in SUBSET Keys /\ \A u \in Users : removal[u].keys \in SUBSET Keys
        /\ queue \in Seq(Task) /\ retrying \subseteq Task
    BY DEF TypeOK, WorkerStates, RemovalStates
  <1>q. \A i \in 1..Len(queue) : queue[i] \in Outstanding
    BY DEF Outstanding
  <1>1. CASE t \in retrying'
    <2>1. CASE t \in retrying
      BY <2>1 DEF Outstanding
    <2>2. CASE worker.pc # "idle" /\ t = [worker.task EXCEPT !.left = @ - 1]
      <3>1. worker.task \in Outstanding /\ worker.task \in Task
        BY <2>2 DEF Outstanding, HandlerFits
      <3>2. /\ t.type = worker.task.type
            /\ t.video = worker.task.video
            /\ t.keys = worker.task.keys
        BY <2>2, <3>1 DEF Task
      <3> QED
        BY <3>1, <3>2
    <2> QED
      BY <1>1, <2>1, <2>2, RetryingNext
  <1>2. CASE \E i \in 1..Len(queue') : t = queue'[i]
    <2>a. ASSUME NEW e \in Task, queue' = Append(queue, e)
          PROVE  t = e \/ t \in Outstanding
      BY <1>2, <1>k, <1>q, <2>a, AppendElements
    <2>1. CASE UNCHANGED queue
      BY <1>2, <1>q, <2>1
    <2>2. CASE queue # <<>> /\ queue' = Tail(queue)
      BY <1>2, <1>k, <1>q, <2>2, TailElements
    <2>3. CASE \E s \in retrying : queue' = Append(queue, s)
      BY <1>k, <2>3, <2>a DEF Outstanding
    <2>4. CASE \E u \in Users : /\ removal[u].pc = "enqueue"
                               /\ queue' = Append(queue, CleanupObjectsTask(removal[u].keys))
      BY <1>k, <2>4, <2>a, TaskFacts DEF CleanupObjectsTask
    <2>5. CASE queue' = Append(queue, CleanupObjectsTask(worker.keys))
      BY <1>k, <2>5, <2>a, TaskFacts DEF CleanupObjectsTask
    <2>6. CASE \E dry \in BOOLEAN : queue' = Append(queue, ReconcileTickTask(dry))
      BY <1>k, <2>6, <2>a, TaskFacts DEF ReconcileTickTask
    <2> QED
      BY <2>1, <2>2, <2>3, <2>4, <2>5, <2>6, QueueNext
  <1>3. CASE worker'.pc # "idle" /\ t = worker'.task
    <2>1. CASE worker' = Idle
      BY <1>3, <2>1 DEF Idle
    <2>2. CASE worker' = worker
      BY <1>3, <2>2 DEF Outstanding
    <2>3. CASE worker.pc = "idle" /\ queue # <<>> /\ worker'.task = Head(queue)
      BY <1>3, <1>k, <1>q, <2>3, TailElements
    <2>4. CASE worker.pc # "idle" /\ worker'.task = worker.task
      BY <1>3, <2>4 DEF Outstanding
    <2> QED
      BY <2>1, <2>2, <2>3, <2>4, WorkerNext
  <1> QED
    BY <1>1, <1>2, <1>3 DEF Outstanding

-----------------------------------------------------------------------------
(* One lemma for each part of the invariant.                                 *)

(* What the listing of a user leaves in the worker's memory.                 *)
LEMMA PrefixFacts ==
    ASSUME TypeOK, ListUserPrefixes
    PROVE  \E u \in worker.users :
             /\ worker'.users = worker.users \ {u}
             /\ worker'.pc \in {"r_list", "r_enqueue"}
             /\ worker'.keys \in {worker.keys, OrphanKeys(u)}
  <1>1. PICK u \in worker.users :
          \/ worker' = [worker EXCEPT !.users = worker.users \ {u}]
          \/ worker' = [worker EXCEPT !.pc = "r_enqueue", !.users = worker.users \ {u},
                                      !.keys = OrphanKeys(u)]
    BY DEF ListUserPrefixes
  <1>2. worker \in WorkerStates /\ worker.pc = "r_list"
    BY DEF TypeOK, ListUserPrefixes
  <1>3. /\ worker'.users = worker.users \ {u}
        /\ worker'.pc \in {"r_list", "r_enqueue"}
        /\ worker'.keys \in {worker.keys, OrphanKeys(u)}
    BY <1>1, <1>2 DEF WorkerStates
  <1> QED
    BY <1>3

(* The task fits the handler.                                                *)
LEMMA HandlerFitsNext ==
    ASSUME TypeOK, HandlerFits, [Next]_vars
    PROVE  HandlerFits'
  <1>1. worker'.pc # "idle" => worker'.task \in Task
    <2>1. CASE worker' = Idle
      BY <2>1 DEF Idle
    <2>2. CASE worker.pc = "idle" /\ queue # <<>> /\ worker'.task = Head(queue)
      BY <2>2, TailElements DEF TypeOK
    <2>3. CASE worker' = worker \/ (worker.pc # "idle" /\ worker'.task = worker.task)
      BY <2>3 DEF HandlerFits
    <2> QED
      BY <2>1, <2>2, <2>3, WorkerNext
  <1>2. worker'.pc \in {"t_load", "t_upload", "t_ready", "t_enqueue"} =>
          worker'.task.type = "transcode"
    <2>1. CASE worker' = Idle
      BY <2>1 DEF Idle
    <2>2. CASE UNCHANGED worker
      BY <2>2 DEF HandlerFits
    <2>3. CASE Deliver
      <3>1. worker'.task = Head(queue) /\ worker'.pc = FirstPc[Head(queue).type]
        BY <2>3 DEF Deliver, Idle
      <3>2. Head(queue).type \in {"transcode", "objects", "tick"}
        <4>1. queue \in Seq(Task) /\ queue # <<>>
          BY <2>3 DEF Deliver, TypeOK
        <4>2. Head(queue) \in Task
          BY <4>1, TailElements
        <4> QED
          BY <4>2 DEF Task
      <3> QED
        BY <3>1, <3>2 DEF FirstPc
    <2>4. CASE LoadVideo \/ UploadMedia
      BY <2>1, <2>4 DEF LoadVideo, UploadMedia, Ack, HandlerFits, TypeOK, WorkerStates
    <2>5. CASE MarkReady
      BY <2>5 DEF MarkReady, HandlerFits, TypeOK, WorkerStates
    <2>6. CASE ListUserPrefixes
      BY <2>6, PrefixFacts
    <2>7. CASE ListUsersEligibleForReconcile \/ EnqueueOrphans
      BY <2>1, <2>7
      DEF ListUsersEligibleForReconcile, EnqueueOrphans, Nack, TypeOK, WorkerStates
    <2> QED
      BY <2>1, <2>2, <2>3, <2>4, <2>5, <2>6, <2>7
      DEF Next, vars, Removal, ListVideoKeysByUser, CommitRemoval, RollbackRemoval,
          EnqueueRemoval, DeactivateUser, ClientPut, Tick, Forward, WorkerCrash, Transcode,
          EnqueueCleanup, DeleteObjects, Sweep, EndTick, EnqueueReconcileTick, Ack, Nack
  <1>3. \A t \in Outstanding' : t.type = "transcode" => t.video \in Videos
    BY TaskOrigin DEF HandlerFits
  <1> QED
    BY <1>1, <1>2, <1>3 DEF HandlerFits

(* A removal works on the keys of its own user.                              *)
LEMMA RemovalsKnownNext ==
    ASSUME TypeOK, RemovalsKnown, [Next]_vars
    PROVE  RemovalsKnown'
  <1>1. CASE UNCHANGED removal
    BY <1>1 DEF RemovalsKnown
  <1>2. ASSUME NEW u \in Users, ListVideoKeysByUser(u)
        PROVE  RemovalsKnown'
    <2> DEFINE mine == {v \in Videos : Owner[v] = u /\ row[v] # "NONE"}
               keys == {Raw(v) : v \in mine} \cup {Thumb(v) : v \in {v \in mine : row[v] = "READY"}}
    <2>1. \A k \in keys : Owner[k[2]] = u
      BY KeyFacts
    <2>2. removal' = [removal EXCEPT ![u] = [pc |-> "listed", keys |-> keys, n |-> removal[u].n + 1]]
      BY <1>2 DEF ListVideoKeysByUser
    <2> HIDE DEF keys
    <2> QED
      BY <2>1, <2>2 DEF RemovalsKnown, TypeOK
  <1>3. ASSUME NEW u \in Users, CommitRemoval(u)
        PROVE  RemovalsKnown'
    BY <1>3 DEF RemovalsKnown, CommitRemoval, TypeOK, RemovalStates
  <1>4. ASSUME NEW u \in Users, RollbackRemoval(u) \/ EnqueueRemoval(u)
        PROVE  RemovalsKnown'
    <2>1. removal' = [removal EXCEPT ![u] = NoRemoval(removal[u].n)]
      BY <1>4 DEF RollbackRemoval, EnqueueRemoval
    <2> QED
      BY <2>1 DEF RemovalsKnown, NoRemoval, TypeOK
  <1> QED
    BY <1>1, <1>2, <1>3, <1>4
    DEF Next, vars, Removal, DeactivateUser, ClientPut, Tick, Deliver, Forward, WorkerCrash,
        Transcode, LoadVideo, UploadMedia, MarkReady, EnqueueCleanup, DeleteObjects, Sweep,
        ListUsersEligibleForReconcile, ListUserPrefixes, EnqueueOrphans, EndTick,
        EnqueueReconcileTick

(* The users of the batch are past the grace.                                *)
LEMMA BatchIsDeadNext ==
    ASSUME TypeOK, BatchIsDead, [Next]_vars
    PROVE  BatchIsDead'
  <1>o. \A v \in Videos : Owner[v] \in Users
    BY ReconcileConstants
  <1>1. CASE worker'.users \subseteq worker.users
    BY <1>1, Aging DEF BatchIsDead
  <1>2. CASE worker' = Idle
    BY <1>2 DEF BatchIsDead, Idle
  <1>3. CASE Deliver
    BY <1>3 DEF BatchIsDead, Deliver, Idle
  <1>4. CASE LoadVideo \/ UploadMedia \/ EnqueueOrphans
    BY <1>1, <1>2, <1>4
    DEF LoadVideo, UploadMedia, EnqueueOrphans, Ack, TypeOK, WorkerStates
  <1>5. CASE MarkReady
    BY <1>1, <1>5 DEF MarkReady, TypeOK, WorkerStates
  <1>6. CASE ListUserPrefixes
    BY <1>1, <1>6, PrefixFacts
  <1>7. CASE ListUsersEligibleForReconcile
    <2>1. CASE Nack
      BY <1>2, <2>1 DEF Nack
    <2>2. CASE \E users \in SUBSET Eligible :
                 worker' = [worker EXCEPT !.pc = "r_list", !.users = users]
      <3>1. worker'.users \subseteq Eligible
        BY <2>2 DEF TypeOK, WorkerStates
      <3>2. UNCHANGED <<row, active, age>>
        BY <1>7 DEF ListUsersEligibleForReconcile
      <3>3. \A u \in Eligible : ~Spared(u)
        BY ReconcileConstants DEF Eligible, Spared, TypeOK
      <3> QED
        BY <3>1, <3>2, <3>3 DEF BatchIsDead, Spared
    <2> QED
      BY <1>7, <2>1, <2>2 DEF ListUsersEligibleForReconcile
  <1> QED
    BY <1>1, <1>2, <1>3, <1>4, <1>5, <1>6, <1>7
    DEF Next, vars, Removal, ListVideoKeysByUser, CommitRemoval, RollbackRemoval,
        EnqueueRemoval, DeactivateUser, ClientPut, Tick, Forward, WorkerCrash, Transcode,
        EnqueueCleanup, DeleteObjects, Sweep, EndTick, EnqueueReconcileTick, Ack, Nack

(* Everything that is going to be deleted is dead.                           *)
LEMMA DeletesOnlyDeadNext ==
    ASSUME TypeOK, HandlerFits, RemovalsKnown, BatchIsDead, DeletesOnlyDead, UploadsKept,
           [Next]_vars
    PROVE  DeletesOnlyDead'
  <1>w. worker.keys \subseteq Keys /\ \A u \in Users : removal[u].keys \subseteq Keys
    BY DEF TypeOK, WorkerStates, RemovalStates
  <1>t. \A t \in Outstanding : t \in Task /\ t.keys \subseteq Keys
    <2>1. \A i \in 1..Len(queue) : queue[i] \in Task
      BY DEF TypeOK
    <2>2. \A t \in Outstanding : t \in Task
      BY <2>1 DEF Outstanding, HandlerFits, TypeOK
    <2> QED
      BY <2>2 DEF Task
  <1>k. \A k \in worker.keys : Dead(k)'
    BY <1>w, DeadForEver DEF DeletesOnlyDead
  <1>r. \A u \in Users : removal[u].pc = "enqueue" => \A k \in removal[u].keys : Dead(k)'
    BY <1>w, DeadForEver DEF DeletesOnlyDead
  <1>1. \A t \in Outstanding' : \A k \in t.keys : Dead(k)'
    <2> SUFFICES ASSUME NEW t \in Outstanding', NEW k \in t.keys
                 PROVE  Dead(k)'
      OBVIOUS
    <2>1. CASE \E s \in Outstanding : t.keys = s.keys
      BY <1>t, <2>1, DeadForEver DEF DeletesOnlyDead
    <2>2. CASE t.keys \subseteq worker.keys
      BY <1>k, <2>2
    <2>3. CASE \E u \in Users : removal[u].pc = "enqueue" /\ t.keys = removal[u].keys
      BY <1>r, <2>3
    <2> QED
      BY <2>1, <2>2, <2>3, TaskOrigin
  <1>2. \A k \in worker'.keys : Dead(k)'
    <2>1. CASE worker'.keys \subseteq worker.keys
      BY <1>k, <2>1
    <2>2. CASE worker' = Idle \/ Deliver
      <3>1. worker'.keys = {}
        <4>1. CASE worker' = Idle
          BY <4>1 DEF Idle
        <4>2. CASE Deliver
          BY <4>2 DEF Idle, Deliver
        <4> QED
          BY <2>2, <4>1, <4>2
      <3> QED
        BY <3>1
    <2>3. CASE LoadVideo \/ UploadMedia
      <3>1. worker' = Idle \/ worker'.keys = worker.keys
        BY <2>3 DEF LoadVideo, UploadMedia, Ack, TypeOK, WorkerStates
      <3> QED
        BY <2>1, <2>2, <3>1
    <2>4. CASE MarkReady
      <3> DEFINE v == worker.task.video
      <3>1. v \in Videos
        BY <2>4 DEF MarkReady, HandlerFits, Outstanding
      <3>2. row \in [Videos -> {"NONE", "PROCESSING", "READY"}] /\ worker \in WorkerStates
        BY DEF TypeOK
      <3>3. CASE row[v] = "PROCESSING"
        <4>1. row'[v] = "READY"
          BY <2>4, <3>1, <3>2, <3>3 DEF MarkReady
        <4>2. worker'.keys = {Raw(v)}
          BY <2>4, <3>2, <3>3 DEF MarkReady, WorkerStates
        <4> QED
          BY <3>1, <4>1, <4>2, KeyFacts DEF Dead
      <3>4. CASE row[v] # "PROCESSING"
        <4>1. row'[v] = "NONE"
          BY <2>4, <3>1, <3>2, <3>4 DEF MarkReady, UploadsKept
        <4>2. worker'.keys = Media(v)
          BY <2>4, <3>2, <3>4 DEF MarkReady, WorkerStates
        <4> QED
          BY <3>1, <4>1, <4>2, KeyFacts DEF Dead
      <3> QED
        BY <3>3, <3>4
    <2>5. CASE ListUserPrefixes
      <3>1. PICK u \in worker.users : worker'.keys \in {worker.keys, OrphanKeys(u)}
        BY <2>5, PrefixFacts
      <3>2. ASSUME NEW k \in OrphanKeys(u)
            PROVE  Dead(k)'
        <4>1. k \in bucket /\ Owner[k[2]] = u
          BY <3>2 DEF OrphanKeys, Under
        <4>2. k \in Keys /\ k[2] \in Videos
          BY <4>1, KeyFacts DEF TypeOK
        <4>3. Dead(k)
          BY <3>1, <4>1, <4>2 DEF BatchIsDead, Dead
        <4> QED
          BY <4>2, <4>3, DeadForEver
      <3> QED
        BY <1>k, <3>1, <3>2
    <2>6. CASE ListUsersEligibleForReconcile
      BY <2>1, <2>2, <2>6 DEF ListUsersEligibleForReconcile, Nack, TypeOK, WorkerStates
    <2>7. CASE EnqueueOrphans
      BY <2>7 DEF EnqueueOrphans, TypeOK, WorkerStates
    <2> QED
      BY <2>1, <2>2, <2>3, <2>4, <2>5, <2>6, <2>7
      DEF Next, vars, Removal, ListVideoKeysByUser, CommitRemoval, RollbackRemoval,
          EnqueueRemoval, DeactivateUser, ClientPut, Tick, Forward, WorkerCrash, Transcode,
          EnqueueCleanup, DeleteObjects, Sweep, EndTick, EnqueueReconcileTick, Ack, Nack
  <1>3. ASSUME NEW u \in Users, removal'[u].pc = "enqueue", NEW k \in removal'[u].keys
        PROVE  Dead(k)'
    <2>1. CASE UNCHANGED removal
      BY <1>3, <1>r, <2>1
    <2>2. ASSUME NEW w \in Users, ListVideoKeysByUser(w)
          PROVE  Dead(k)'
      <3>1. w # u
        BY <1>3, <2>2 DEF ListVideoKeysByUser, TypeOK
      <3>2. removal'[u] = removal[u]
        BY <2>2, <3>1 DEF ListVideoKeysByUser, TypeOK
      <3> QED
        BY <1>3, <1>r, <3>2
    <2>3. ASSUME NEW w \in Users, CommitRemoval(w)
          PROVE  Dead(k)'
      <3>1. removal'[u].keys = removal[u].keys
        BY <2>3 DEF CommitRemoval, TypeOK, RemovalStates
      <3>2. k \in Keys /\ k[2] \in Videos /\ Owner[k[2]] = u
        BY <1>3, <1>w, <3>1, KeyFacts DEF RemovalsKnown
      <3>3. CASE w = u
        BY <2>3, <3>2, <3>3 DEF CommitRemoval, Dead
      <3>4. CASE w # u
        <4>1. removal'[u] = removal[u]
          BY <2>3, <3>4 DEF CommitRemoval, TypeOK
        <4> QED
          BY <1>3, <1>r, <4>1
      <3> QED
        BY <3>3, <3>4
    <2>4. ASSUME NEW w \in Users, RollbackRemoval(w) \/ EnqueueRemoval(w)
          PROVE  Dead(k)'
      <3>1. removal' = [removal EXCEPT ![w] = NoRemoval(removal[w].n)]
        BY <2>4 DEF RollbackRemoval, EnqueueRemoval
      <3>2. w # u
        BY <1>3, <3>1 DEF NoRemoval, TypeOK
      <3>3. removal'[u] = removal[u]
        BY <3>1, <3>2 DEF TypeOK
      <3> QED
        BY <1>3, <1>r, <3>3
    <2> QED
      BY <2>1, <2>2, <2>3, <2>4
      DEF Next, vars, Removal, DeactivateUser, ClientPut, Tick, Deliver, Forward, WorkerCrash,
          Transcode, LoadVideo, UploadMedia, MarkReady, EnqueueCleanup, DeleteObjects, Sweep,
          ListUsersEligibleForReconcile, ListUserPrefixes, EnqueueOrphans, EndTick,
          EnqueueReconcileTick
  <1> QED
    BY <1>1, <1>2, <1>3 DEF DeletesOnlyDead

(* Nobody else publishes the video of the attempt, and its uploads stay.     *)
LEMMA UploadsKeptNext ==
    ASSUME TypeOK, HandlerFits, UploadsKept, [Next]_vars
    PROVE  UploadsKept'
  <1>w. worker \in WorkerStates /\ row \in [Videos -> {"NONE", "PROCESSING", "READY"}]
    BY DEF TypeOK
  <1>v. worker.pc \in {"t_load", "t_upload", "t_ready", "t_enqueue"} => worker.task.video \in Videos
    BY DEF HandlerFits, Outstanding
  <1>1. CASE worker'.pc \notin {"t_upload", "t_ready"}
    BY <1>1 DEF UploadsKept
  <1>2. CASE LoadVideo
    <2>1. CASE worker' = [worker EXCEPT !.pc = "t_upload"]
      <3>1. worker'.pc = "t_upload" /\ worker'.task = worker.task
        BY <1>w, <2>1 DEF WorkerStates
      <3>2. row[worker.task.video] # "READY" /\ UNCHANGED row
        BY <1>2, <2>1, <3>1 DEF LoadVideo, Ack, Idle
      <3> QED
        BY <3>1, <3>2 DEF UploadsKept
    <2> QED
      BY <1>1, <1>2, <2>1 DEF LoadVideo, Ack, Idle
  <1>3. CASE UploadMedia
    <2>1. worker.pc = "t_upload" /\ worker'.task = worker.task
      BY <1>3, <1>w DEF UploadMedia, WorkerStates
    <2> QED
      BY <1>3, <2>1 DEF UploadMedia, UploadsKept
  <1>4. CASE MarkReady
    BY <1>1, <1>4, <1>w DEF MarkReady, WorkerStates
  <1>5. CASE UNCHANGED worker /\ bucket \subseteq bucket'
    <2>1. CASE worker.pc \in {"t_upload", "t_ready"}
      <3>1. PICK v \in Videos : v = worker.task.video
        BY <1>v, <2>1
      <3>2. row'[v] = row[v] \/ row'[v] = "NONE"
        BY <3>1, <1>5, <2>1, <1>w
        DEF Next, vars, Removal, ListVideoKeysByUser, CommitRemoval, RollbackRemoval,
            EnqueueRemoval, DeactivateUser, ClientPut, Tick, Deliver, Forward, WorkerCrash,
            Transcode, LoadVideo, UploadMedia, MarkReady, EnqueueCleanup, DeleteObjects,
            Sweep, ListUsersEligibleForReconcile, ListUserPrefixes, EnqueueOrphans, EndTick,
            EnqueueReconcileTick, WorkerStates
      <3>3. row'[v] # "NONE" /\ Spared(Owner[v])' => Spared(Owner[v])
        BY <3>1, Aging
      <3> QED
        BY <1>5, <3>1, <3>2, <3>3 DEF UploadsKept
    <2> QED
      BY <1>1, <1>5, <2>1
  <1>6. CASE worker' = Idle
    BY <1>1, <1>6 DEF Idle
  <1>7. CASE Deliver
    <2>1. queue \in Seq(Task) /\ queue # <<>>
      BY <1>7 DEF Deliver, TypeOK
    <2>a. Head(queue) \in Task
      BY <2>1, TailElements
    <2>2. Head(queue).type \in {"transcode", "objects", "tick"}
      BY <2>a DEF Task
    <2> QED
      BY <1>1, <1>7, <2>2 DEF Deliver, Idle, FirstPc
  <1>8. CASE ListUserPrefixes
    BY <1>1, <1>8, PrefixFacts
  <1>9. CASE ListUsersEligibleForReconcile \/ EnqueueOrphans
    BY <1>1, <1>6, <1>9, <1>w DEF ListUsersEligibleForReconcile, EnqueueOrphans, Nack, WorkerStates
  <1> QED
    BY <1>2, <1>3, <1>4, <1>5, <1>6, <1>7, <1>8, <1>9
    DEF Next, vars, Removal, ListVideoKeysByUser, CommitRemoval, RollbackRemoval,
        EnqueueRemoval, DeactivateUser, ClientPut, Tick, Forward, WorkerCrash, Transcode,
        EnqueueCleanup, DeleteObjects, Sweep, EndTick, EnqueueReconcileTick, Ack, Nack

(* What is in use stays: a row in use was in use before, and only dead keys  *)
(* are deleted.                                                              *)
LEMMA MediaKeptNext ==
    ASSUME IInv, [Next]_vars
    PROVE  MediaKept'
  <1> USE DEF IInv
  <1> SUFFICES ASSUME NEW v \in Videos, Spared(Owner[v])'
               PROVE  /\ row'[v] = "PROCESSING" => Raw(v) \in bucket'
                      /\ row'[v] = "READY" => Media(v) \subseteq bucket'
    BY DEF MediaKept
  <1>a. row'[v] # "NONE" => Spared(Owner[v])
    BY Aging
  <1>1. CASE UNCHANGED row /\ bucket \subseteq bucket'
    BY <1>1, <1>a DEF MediaKept
  <1>2. CASE \E u \in Users : CommitRemoval(u)
    BY <1>2, <1>a DEF CommitRemoval, MediaKept
  <1>3. CASE MarkReady
    <2>1. worker.task.video \in Videos /\ UNCHANGED bucket
      BY <1>3 DEF MarkReady, HandlerFits, Outstanding
    <2>2. CASE v = worker.task.video /\ row[v] = "PROCESSING"
      <3>1. row'[v] = "READY"
        BY <1>3, <2>2 DEF MarkReady, TypeOK
      <3>2. Media(v) \subseteq bucket
        BY <1>3, <1>a, <2>2, <3>1 DEF MarkReady, UploadsKept
      <3> QED
        BY <2>1, <3>1, <3>2
    <2>3. CASE ~(v = worker.task.video /\ row[v] = "PROCESSING")
      <3>1. row'[v] = row[v]
        BY <1>3, <2>3 DEF MarkReady, TypeOK
      <3> QED
        BY <1>a, <2>1, <3>1 DEF MediaKept
    <2> QED
      BY <2>2, <2>3
  <1>4. CASE DeleteObjects
    <2>1. UNCHANGED row /\ bucket \ worker.task.keys \subseteq bucket'
      BY <1>4 DEF DeleteObjects
    <2>2. \A k \in worker.task.keys : Dead(k)
      BY <1>4 DEF DeleteObjects, DeletesOnlyDead, Outstanding
    <2>3. CASE row[v] = "PROCESSING"
      <3>1. Raw(v) \notin worker.task.keys
        BY <1>a, <2>1, <2>2, <2>3, KeyFacts DEF Dead
      <3> QED
        BY <1>a, <2>1, <2>3, <3>1 DEF MediaKept
    <2>4. CASE row[v] = "READY"
      <3>1. \A k \in Media(v) : k \notin worker.task.keys
        BY <1>a, <2>1, <2>2, <2>4, KeyFacts DEF Dead
      <3> QED
        BY <1>a, <2>1, <2>4, <3>1 DEF MediaKept
    <2> QED
      BY <2>1, <2>3, <2>4
  <1> QED
    BY <1>1, <1>2, <1>3, <1>4
    DEF Next, vars, Removal, ListVideoKeysByUser, RollbackRemoval, EnqueueRemoval,
        DeactivateUser, ClientPut, Tick, Deliver, Forward, WorkerCrash, Transcode, LoadVideo,
        UploadMedia, EnqueueCleanup, Sweep, ListUsersEligibleForReconcile, ListUserPrefixes,
        EnqueueOrphans, EndTick, EnqueueReconcileTick

-----------------------------------------------------------------------------
(* The initial states.                                                       *)
LEMMA Initial ==
    ASSUME Init
    PROVE  IInv
  <1> USE ReconcileConstants DEF Init
  <1>1. TypeOK
    <2>1. \A u \in Users : NoRemoval(0) \in RemovalStates
      BY DEF NoRemoval, RemovalStates
    <2>2. Idle \in WorkerStates
      BY DEF Idle, WorkerStates
    <2>3. bucket \subseteq Keys /\ retrying \subseteq Task
      BY KeyFacts, TaskFacts
    <2>4. queue \in Seq(Task)
      OBVIOUS
    <2> QED
      BY <2>1, <2>2, <2>3, <2>4 DEF TypeOK
  <1>2. \A t \in Outstanding : \E v \in Videos : t = TranscodeTask(v)
    BY DEF Outstanding, Idle
  <1>3. HandlerFits
    BY <1>2 DEF HandlerFits, Idle, TranscodeTask
  <1>4. DeletesOnlyDead
    BY <1>2 DEF DeletesOnlyDead, Idle, NoRemoval, TranscodeTask
  <1>5. RemovalsKnown /\ BatchIsDead /\ UploadsKept /\ MediaKept
    BY DEF RemovalsKnown, BatchIsDead, UploadsKept, MediaKept, Idle, NoRemoval
  <1> QED
    BY <1>1, <1>3, <1>4, <1>5 DEF IInv

(* The inductive invariant of the removal of accounts and the sweep, for any *)
(* users, videos, batch, grace and failures.                                 *)
THEOREM Invariance == Spec => []IInv
  <1>1. Init => IInv
    BY Initial
  <1>2. IInv /\ [Next]_vars => IInv'
    BY Typing, HandlerFitsNext, RemovalsKnownNext, BatchIsDeadNext, DeletesOnlyDeadNext,
       UploadsKeptNext, MediaKeptNext DEF IInv
  <1> QED
    BY <1>1, <1>2, PTL DEF Spec

(* Neither the removal of an account nor the sweep takes the files of a      *)
(* video whose owner is active or within the grace, whatever fails and       *)
(* however late a cleanup:objects task is delivered.                         *)
THEOREM MediaIsKept == Spec => []MediaKept
  <1>1. IInv => MediaKept
    BY DEF IInv
  <1> QED
    BY <1>1, Invariance, PTL
=============================================================================
