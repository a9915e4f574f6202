--------------------------- MODULE GatewayProofs ----------------------------
(* Proofs about Gateway, for any numbers of requests, ids and subjects.      *)
EXTENDS Gateway, TLAPS

(* The two tables of shared/errors.go agree: the status of a sentinel is that
   of its code, so ClassifyError gives an error one status however it was
   built. *)
THEOREM TablesAgree ==
    \A err \in Sentinels : httpStatusFor(err) = httpStatusForCode(codeFor(err))
<1> SUFFICES ASSUME NEW err \in Sentinels
             PROVE  httpStatusFor(err) = httpStatusForCode(codeFor(err))
  OBVIOUS
<1>1. CASE err = "ErrValidation"
  <2>1. codeFor(err) = "VALIDATION_ERROR"
    BY <1>1 DEF codeFor
  <2> QED BY <1>1, <2>1 DEF httpStatusFor, httpStatusForCode
<1>2. CASE err = "ErrUnauthorized"
  <2>1. codeFor(err) = "UNAUTHORIZED"
    BY <1>2 DEF codeFor
  <2> QED BY <1>2, <2>1 DEF httpStatusFor, httpStatusForCode
<1>3. CASE err = "ErrForbidden"
  <2>1. codeFor(err) = "FORBIDDEN"
    BY <1>3 DEF codeFor
  <2> QED BY <1>3, <2>1 DEF httpStatusFor, httpStatusForCode
<1>4. CASE err = "ErrNotFound"
  <2>1. codeFor(err) = "NOT_FOUND"
    BY <1>4 DEF codeFor
  <2> QED BY <1>4, <2>1 DEF httpStatusFor, httpStatusForCode
<1>5. CASE err = "ErrVideoStatusConflict"
  <2>1. codeFor(err) = "VIDEO_STATUS_CONFLICT"
    BY <1>5 DEF codeFor
  <2> QED BY <1>5, <2>1 DEF httpStatusFor, httpStatusForCode
<1>6. CASE err = "ErrVideoNotReady"
  <2>1. codeFor(err) = "VIDEO_NOT_READY"
    BY <1>6 DEF codeFor
  <2> QED BY <1>6, <2>1 DEF httpStatusFor, httpStatusForCode
<1>7. CASE err = "ErrUploadMissing"
  <2>1. codeFor(err) = "UPLOAD_MISSING"
    BY <1>7 DEF codeFor
  <2> QED BY <1>7, <2>1 DEF httpStatusFor, httpStatusForCode
<1>8. CASE err = "ErrUploadSizeInvalid"
  <2>1. codeFor(err) = "UPLOAD_SIZE_INVALID"
    BY <1>8 DEF codeFor
  <2> QED BY <1>8, <2>1 DEF httpStatusFor, httpStatusForCode
<1>9. CASE err = "ErrSelfFollow"
  <2>1. codeFor(err) = "SELF_FOLLOW_NOT_ALLOWED"
    BY <1>9 DEF codeFor
  <2> QED BY <1>9, <2>1 DEF httpStatusFor, httpStatusForCode
<1>10. CASE err = "ErrWebhookSignature"
  <2>1. codeFor(err) = "WEBHOOK_INVALID_SIGNATURE"
    BY <1>10 DEF codeFor
  <2> QED BY <1>10, <2>1 DEF httpStatusFor, httpStatusForCode
<1>11. CASE err = "ErrWebhookEvent"
  <2>1. codeFor(err) = "WEBHOOK_EVENT_UNSUPPORTED"
    BY <1>11 DEF codeFor
  <2> QED BY <1>11, <2>1 DEF httpStatusFor, httpStatusForCode
<1>12. CASE err = "ErrRateLimited"
  <2>1. codeFor(err) = "RATE_LIMITED"
    BY <1>12 DEF codeFor
  <2> QED BY <1>12, <2>1 DEF httpStatusFor, httpStatusForCode
<1>13. CASE err = "ErrInternal"
  <2>1. codeFor(err) = "INTERNAL_ERROR"
    BY <1>13 DEF codeFor
  <2> QED BY <1>13, <2>1 DEF httpStatusFor, httpStatusForCode
<1>14. CASE err = "unknown"
  <2>1. codeFor(err) = "INTERNAL_ERROR"
    BY <1>14 DEF codeFor
  <2> QED BY <1>14, <2>1 DEF httpStatusFor, httpStatusForCode
<1> QED BY <1>1, <1>2, <1>3, <1>4, <1>5, <1>6, <1>7,
           <1>8, <1>9, <1>10, <1>11, <1>12, <1>13, <1>14 DEF Sentinels

(* The statuses that the middleware and the handlers of this module write. *)
LEMMA Statuses ==
    /\ StatusOf("ErrUnauthorized") = 401 /\ StatusOf("ErrInternal") = 500
    /\ StatusOf("ErrRateLimited") = 429 /\ StatusOf("ErrWebhookSignature") = 401
    /\ StatusOf("ErrValidation") = 400 /\ StatusOf("ErrWebhookEvent") = 400
BY DEF StatusOf, Wrapped, ClassifyError, httpStatusFor

-----------------------------------------------------------------------------
(* A step of one request that leaves the table alone. *)
LEMMA RequestStep ==
    ASSUME GateInv, NEW p \in Requests, NEW q \in RequestRecord,
           req' = [req EXCEPT ![p] = q], users' = users, faults' \in 0 .. MaxFaults,
           Known(q)
    PROVE  GateInv'
<1>1. req' \in [Requests -> RequestRecord] /\ req'[p] = q
      /\ \A r \in Requests \ {p} : req'[r] = req[r]
  BY DEF GateInv, TypeOK
<1>2. TypeOK' /\ OneRowPerSubject'
  BY <1>1 DEF GateInv, TypeOK, OneRowPerSubject
<1>3. \A r \in Requests : Known(req'[r])
  BY <1>1 DEF GateInv
<1>4. \A r \in Requests : Known(req[r])'
  BY <1>3 DEF Known, RowsOf
<1> QED BY <1>2, <1>4 DEF GateInv

(* q differs from r in no more than its pc, user, status and failed. *)
Alike(q, r) ==
    q.route = r.route /\ q.input = r.input /\ q.op = r.op /\ q.sub = r.sub /\ q.before = r.before

Later == {"select", "create", "reselect", "limit", "handler", "lookup", "event", "done"}

(* The ways in which a step changes its request. *)
LEMMA GotoFields ==
    ASSUME GateInv, NEW p \in Requests, NEW pc \in Later, Goto(p, pc)
    PROVE  \E q \in RequestRecord :
              req' = [req EXCEPT ![p] = q] /\ Alike(q, req[p]) /\ q.pc = pc
              /\ q.user = req[p].user /\ q.status = req[p].status /\ q.failed = req[p].failed
<1> DEFINE q == [req[p] EXCEPT !.pc = pc]
<1>1. req[p] \in RequestRecord /\ req' = [req EXCEPT ![p] = q]
  BY DEF GateInv, TypeOK, Goto
<1>2. q \in RequestRecord /\ Alike(q, req[p]) /\ q.pc = pc /\ q.user = req[p].user
      /\ q.status = req[p].status /\ q.failed = req[p].failed
  BY <1>1 DEF RequestRecord, Alike, Later
<1> HIDE DEF q
<1> QED BY <1>1, <1>2

LEMMA WithUserFields ==
    ASSUME GateInv, NEW p \in Requests, NEW pc \in Later, NEW i \in Ids, WithUser(p, i, pc)
    PROVE  \E q \in RequestRecord :
              req' = [req EXCEPT ![p] = q] /\ Alike(q, req[p]) /\ q.pc = pc
              /\ q.user = i /\ q.status = req[p].status /\ q.failed = req[p].failed
<1> DEFINE q == [req[p] EXCEPT !.user = i, !.pc = pc]
<1>1. req[p] \in RequestRecord /\ req' = [req EXCEPT ![p] = q]
  BY DEF GateInv, TypeOK, WithUser
<1>2. q \in RequestRecord /\ Alike(q, req[p]) /\ q.pc = pc /\ q.user = i
      /\ q.status = req[p].status /\ q.failed = req[p].failed
  BY <1>1 DEF RequestRecord, Alike, Later
<1> HIDE DEF q
<1> QED BY <1>1, <1>2

LEMMA RespondFields ==
    ASSUME GateInv, NEW p \in Requests, NEW pc \in Later, NEW st \in Nat, Respond(p, st, pc)
    PROVE  \E q \in RequestRecord :
              req' = [req EXCEPT ![p] = q] /\ Alike(q, req[p]) /\ q.pc = pc
              /\ q.user = req[p].user /\ q.status = Written(req[p], st)
              /\ q.failed = req[p].failed
<1> DEFINE w == Written(req[p], st)
           q == [req[p] EXCEPT !.status = w, !.pc = pc]
<1>1. req[p] \in RequestRecord /\ req' = [req EXCEPT ![p] = q]
  BY DEF GateInv, TypeOK, Respond
<1>2. w \in Nat
  BY <1>1 DEF Written, RequestRecord
<1> HIDE DEF w
<1>3. q \in RequestRecord /\ Alike(q, req[p]) /\ q.pc = pc /\ q.user = req[p].user
      /\ q.status = w /\ q.failed = req[p].failed
  BY <1>1, <1>2 DEF RequestRecord, Alike, Later
<1> HIDE DEF q
<1> QED BY <1>1, <1>3 DEF w

LEMMA RespondFailedFields ==
    ASSUME GateInv, NEW p \in Requests, NEW pc \in Later, NEW st \in Nat, RespondFailed(p, st, pc)
    PROVE  /\ faults' \in 0 .. MaxFaults
           /\ \E q \in RequestRecord :
                 req' = [req EXCEPT ![p] = q] /\ Alike(q, req[p]) /\ q.pc = pc
                 /\ q.user = req[p].user /\ q.status = Written(req[p], st) /\ q.failed
<1> DEFINE w == Written(req[p], st)
           q == [req[p] EXCEPT !.status = w, !.pc = pc, !.failed = TRUE]
<1>1. req[p] \in RequestRecord /\ req' = [req EXCEPT ![p] = q]
  BY DEF GateInv, TypeOK, RespondFailed
<1>2. w \in Nat
  BY <1>1 DEF Written, RequestRecord
<1> HIDE DEF w
<1>3. q \in RequestRecord /\ Alike(q, req[p]) /\ q.pc = pc /\ q.user = req[p].user
      /\ q.status = w /\ q.failed
  BY <1>1, <1>2 DEF RequestRecord, Alike, Later
<1>4. faults' \in 0 .. MaxFaults
  BY GatewayAssumption DEF GateInv, TypeOK, RespondFailed
<1> HIDE DEF q
<1> QED BY <1>1, <1>3, <1>4 DEF w

(* The same, with what is left to show about the request. *)
LEMMA GotoStep ==
    ASSUME GateInv, NEW p \in Requests, NEW pc \in Later, Goto(p, pc), UNCHANGED <<users, faults>>,
           \A q \in RequestRecord :
              Alike(q, req[p]) /\ q.pc = pc /\ q.user = req[p].user
              /\ q.status = req[p].status /\ q.failed = req[p].failed => Known(q)
    PROVE  GateInv'
<1>1. faults' \in 0 .. MaxFaults
  BY DEF GateInv, TypeOK
<1> QED BY <1>1, GotoFields, RequestStep

LEMMA RespondStep ==
    ASSUME GateInv, NEW p \in Requests, NEW pc \in Later, NEW st \in Nat,
           Respond(p, st, pc), UNCHANGED <<users, faults>>,
           \A q \in RequestRecord :
              Alike(q, req[p]) /\ q.pc = pc /\ q.user = req[p].user
              /\ q.status = Written(req[p], st) /\ q.failed = req[p].failed => Known(q)
    PROVE  GateInv'
<1>1. faults' \in 0 .. MaxFaults
  BY DEF GateInv, TypeOK
<1> QED BY <1>1, RespondFields, RequestStep

LEMMA RespondFailedStep ==
    ASSUME GateInv, NEW p \in Requests, NEW pc \in Later, NEW st \in Nat,
           RespondFailed(p, st, pc), users' = users,
           \A q \in RequestRecord :
              Alike(q, req[p]) /\ q.pc = pc /\ q.user = req[p].user
              /\ q.status = Written(req[p], st) /\ q.failed => Known(q)
    PROVE  GateInv'
<1>1. faults' \in 0 .. MaxFaults
  BY RespondFailedFields
<1>2. \E q \in RequestRecord :
         req' = [req EXCEPT ![p] = q] /\ Alike(q, req[p]) /\ q.pc = pc
         /\ q.user = req[p].user /\ q.status = Written(req[p], st) /\ q.failed
  BY RespondFailedFields
<1> QED BY <1>1, <1>2, RequestStep

LEMMA WithUserStep ==
    ASSUME GateInv, NEW p \in Requests, NEW pc \in Later, NEW i \in Ids,
           WithUser(p, i, pc), UNCHANGED <<users, faults>>,
           \A q \in RequestRecord :
              Alike(q, req[p]) /\ q.pc = pc /\ q.user = i
              /\ q.status = req[p].status /\ q.failed = req[p].failed => Known(q)
    PROVE  GateInv'
<1>1. faults' \in 0 .. MaxFaults
  BY DEF GateInv, TypeOK
<1> QED BY <1>1, WithUserFields, RequestStep

-----------------------------------------------------------------------------
(* A request comes in: its history starts with what the table says. *)
LEMMA BeginKeeps ==
    ASSUME GateInv, NEW p \in Requests, Begin(p)
    PROVE  GateInv'
<1>1. UNCHANGED <<users, faults>>
  BY DEF Begin
<1>2. PICK route \in Routes, s \in Subs :
         \E input \in Inputs(route), op \in Ops(route), status \in {0, 404, 405},
            pc \in {"done", "token", "limit"} :
            /\ req' = [req EXCEPT ![p] = Incoming(route, input, op, s, pc, status)]
            /\ \/ /\ route = "none"
                  /\ pc = "done" /\ status \in {mapEchoHTTPError(e).status : e \in {404, 405}}
               \/ /\ route = "api" \/ (route = "playlist" /\ input # "absent")
                  /\ pc = "token" /\ status = 0
               \/ /\ route = "webhook" \/ (route = "playlist" /\ input = "absent")
                  /\ pc = "limit" /\ status = 0
  BY Zenon DEF Begin
<1>3. PICK input \in Inputs(route), op \in Ops(route), status \in {0, 404, 405},
           pc \in {"done", "token", "limit"} :
            /\ req' = [req EXCEPT ![p] = Incoming(route, input, op, s, pc, status)]
            /\ \/ /\ route = "none"
                  /\ pc = "done" /\ status \in {mapEchoHTTPError(e).status : e \in {404, 405}}
               \/ /\ route = "api" \/ (route = "playlist" /\ input # "absent")
                  /\ pc = "token" /\ status = 0
               \/ /\ route = "webhook" \/ (route = "playlist" /\ input = "absent")
                  /\ pc = "limit" /\ status = 0
  BY <1>2, Zenon
<1>4. /\ pc = "token" => route \in {"api", "playlist"} /\ status = 0
      /\ pc = "limit" => route \in {"webhook", "playlist"} /\ status = 0
      /\ pc = "done" => route = "none"
      /\ req' = [req EXCEPT ![p] = Incoming(route, input, op, s, pc, status)]
  BY <1>3
<1>5. /\ input \in {"absent", "bad", "unsigned", "garbled", "valid"}
      /\ op \in {"delete_me", "other", "user.deactivated", "user.removed"}
  BY DEF Inputs, Ops, Routes
<1>6. /\ Standing(s) \in {"unknown", "active", "inactive"}
      /\ Standing(s) # "unknown" => RowsOf(s) # {}
      /\ Standing(s) = "inactive" => \A i \in RowsOf(s) : ~users[i].active
  BY DEF Standing
<1> DEFINE q == Incoming(route, input, op, s, pc, status)
<1>7. /\ q \in RequestRecord
      /\ q.pc = pc /\ q.route = route /\ q.sub = s /\ q.status = status
      /\ q.before = Standing(s) /\ q.user = NoId /\ ~q.failed
  BY <1>5, <1>6 DEF Incoming, RequestRecord
<1>8. req' = [req EXCEPT ![p] = q] /\ status # 500
  BY <1>4
<1> HIDE DEF q
<1>9. Known(q)
  BY <1>4, <1>6, <1>7, <1>8 DEF Known
<1>10. users' = users /\ faults' \in 0 .. MaxFaults
  BY <1>1 DEF GateInv, TypeOK
<1>11. q \in RequestRecord /\ req' = [req EXCEPT ![p] = q]
  BY <1>7, <1>8
<1> QED BY <1>9, <1>10, <1>11, RequestStep

(* A refusal of resolveUser goes on to the limiter without a user. *)
LEMMA RefuseKeeps ==
    ASSUME GateInv, NEW p \in Requests, users' = users,
           req[p].pc \in {"token", "select", "reselect", "create"},
           Refuse(p, "ErrUnauthorized") \/ RefuseFailed(p)
    PROVE  GateInv'
<1>1. Known(req[p])
  BY DEF GateInv
<1>2. \A q \in RequestRecord :
         /\ Alike(q, req[p]) /\ q.pc \in {"limit", "done"} /\ q.user = req[p].user
         /\ q.status = Written(req[p], 401) \/ (q.status = Written(req[p], 500) /\ q.failed)
         => Known(q)
  BY <1>1 DEF Known, Alike, Written
<1>3. CASE Respond(p, 401, "limit") /\ UNCHANGED faults
  BY <1>2, <1>3, RespondStep DEF Later
<1>4. CASE RespondFailed(p, 401, "done")
  BY <1>2, <1>4, RespondFailedStep DEF Later
<1>5. CASE RespondFailed(p, 500, "limit")
  BY <1>2, <1>5, RespondFailedStep DEF Later
<1> QED BY <1>3, <1>4, <1>5, Statuses DEF Refuse, RefuseFailed

(* extractBearer and CheckToken. *)
LEMMA CheckTokenKeeps ==
    ASSUME GateInv, NEW p \in Requests, CheckToken(p)
    PROVE  GateInv'
<1>1. Known(req[p]) /\ req[p].pc = "token" /\ users' = users
  BY DEF GateInv, CheckToken, At
<1>2. CASE Goto(p, "select") /\ UNCHANGED faults
  <2>1. \A q \in RequestRecord :
           Alike(q, req[p]) /\ q.pc = "select" /\ q.user = req[p].user
           /\ q.status = req[p].status /\ q.failed = req[p].failed => Known(q)
    BY <1>1 DEF Known, Alike
  <2> QED BY <1>1, <1>2, <2>1, GotoStep DEF Later
<1>3. CASE Refuse(p, "ErrUnauthorized")
  BY <1>1, <1>3, RefuseKeeps
<1> QED BY <1>2, <1>3 DEF CheckToken

(* A row that is found active becomes the user of the request; since rows do
   not come back, the subject was not inactive when the request came. *)
LEMMA AdmitKeeps ==
    ASSUME GateInv, NEW p \in Requests, NEW i \in RowsOf(req[p].sub), Admit(p, i),
           req[p].pc \in {"select", "reselect"}, users' = users
    PROVE  GateInv'
<1>1. Known(req[p]) /\ i \in Ids
  BY DEF GateInv, RowsOf
<1>2. CASE users[i].active /\ WithUser(p, i, "limit") /\ UNCHANGED faults
  <2>1. \A q \in RequestRecord :
           Alike(q, req[p]) /\ q.pc = "limit" /\ q.user = i
           /\ q.status = req[p].status /\ q.failed = req[p].failed => Known(q)
    BY <1>1, <1>2 DEF Known, Alike
  <2> QED BY <1>1, <1>2, <2>1, WithUserStep DEF Later
<1>3. CASE Refuse(p, "ErrUnauthorized")
  BY <1>3, RefuseKeeps
<1> QED BY <1>2, <1>3 DEF Admit

(* The lookups of getOrCreateUser: after a lost race there is a row. *)
LEMMA GetUserKeeps ==
    ASSUME GateInv, NEW p \in Requests, GetUserByZitadelID(p)
    PROVE  GateInv'
<1>1. Known(req[p]) /\ req[p].pc \in {"select", "reselect"} /\ users' = users
  BY DEF GateInv, GetUserByZitadelID, At
<1>2. CASE \E i \in RowsOf(req[p].sub) : Admit(p, i)
  BY <1>1, <1>2, AdmitKeeps
<1>3. CASE At(p, "select") /\ Goto(p, "create") /\ UNCHANGED faults
  <2>1. \A q \in RequestRecord :
           Alike(q, req[p]) /\ q.pc = "create" /\ q.user = req[p].user
           /\ q.status = req[p].status /\ q.failed = req[p].failed => Known(q)
    BY <1>1, <1>3 DEF Known, Alike, At
  <2> QED BY <1>1, <1>3, <2>1, GotoStep DEF Later
<1>4. CASE RowsOf(req[p].sub) = {} /\ At(p, "reselect")
  BY <1>1, <1>4 DEF Known, At
<1>5. CASE RefuseFailed(p)
  BY <1>1, <1>5, RefuseKeeps
<1> QED BY <1>2, <1>3, <1>4, <1>5 DEF GetUserByZitadelID

(* A step that inserts a row for the request's subject. *)
LEMMA InsertStep ==
    ASSUME GateInv, NEW p \in Requests, NEW i \in Free, req[p].pc = "create",
           RowsOf(req[p].sub) = {}, Insert(i, req[p].sub),
           NEW q \in RequestRecord, req' = [req EXCEPT ![p] = q],
           faults' \in 0 .. MaxFaults, Known(q)'
    PROVE  GateInv'
<1> DEFINE s == req[p].sub
<1>1. s \in Subs /\ i \in Ids /\ users[i].sub = NoSub
  BY DEF GateInv, Known, Free
<1>2. req' \in [Requests -> RequestRecord] /\ req'[p] = q
      /\ \A r \in Requests \ {p} : req'[r] = req[r] /\ req[r] \in RequestRecord
  BY DEF GateInv, TypeOK
<1>3. /\ users'[i] = [sub |-> s, active |-> TRUE]
      /\ \A j \in Ids \ {i} : users'[j] = users[j]
      /\ users' \in [Ids -> [sub: Subs \cup {NoSub}, active: BOOLEAN]]
  BY <1>1 DEF GateInv, TypeOK, Insert
<1>4. OneRowPerSubject'
  BY <1>1, <1>3 DEF GateInv, OneRowPerSubject, RowsOf
<1>5. \A r \in Requests \ {p} : Known(req[r])'
  <2> TAKE r \in Requests \ {p}
  <2>1. Known(req[r]) /\ req[r] \in RequestRecord
    BY <1>2 DEF GateInv
  <2>2. \A z \in Subs : RowsOf(z) \subseteq {j \in Ids : users'[j].sub = z}
    BY <1>1, <1>3, GatewayAssumption DEF RowsOf
  <2> QED BY <1>1, <1>2, <1>3, <2>1, <2>2, GatewayAssumption DEF Known, RowsOf
<1>6. \A r \in Requests : Known(req[r])'
  BY <1>2, <1>5 DEF Known, RowsOf
<1> QED BY <1>2, <1>3, <1>4, <1>6 DEF GateInv, TypeOK

(* CreateUser: the winner has a row, the loser knows that there is one. *)
LEMMA CreateUserKeeps ==
    ASSUME GateInv, NEW p \in Requests, CreateUser(p)
    PROVE  GateInv'
<1>1. Known(req[p]) /\ req[p].pc = "create" /\ req[p].sub \in Subs
  BY DEF GateInv, CreateUser, At, Known
<1>2. CASE RowsOf(req[p].sub) # {} /\ Goto(p, "reselect") /\ UNCHANGED <<users, faults>>
  <2>1. \A q \in RequestRecord :
           Alike(q, req[p]) /\ q.pc = "reselect" /\ q.user = req[p].user
           /\ q.status = req[p].status /\ q.failed = req[p].failed => Known(q)
    BY <1>1, <1>2 DEF Known, Alike
  <2> QED BY <1>2, <2>1, GotoStep DEF Later
<1>3. CASE RefuseFailed(p) /\ UNCHANGED users
  BY <1>1, <1>3, RefuseKeeps
<1>4. ASSUME NEW i \in Free, RowsOf(req[p].sub) = {}, Insert(i, req[p].sub),
             (WithUser(p, i, "limit") /\ UNCHANGED faults) \/ RefuseFailed(p)
      PROVE  GateInv'
  <2>0. i \in Ids /\ users'[i].sub = req[p].sub
    BY <1>4 DEF Free, Insert, GateInv, TypeOK
  <2>1. CASE WithUser(p, i, "limit") /\ UNCHANGED faults
    <3>1. PICK q \in RequestRecord :
             req' = [req EXCEPT ![p] = q] /\ Alike(q, req[p]) /\ q.pc = "limit"
             /\ q.user = i /\ q.status = req[p].status /\ q.failed = req[p].failed
      BY <2>0, <2>1, WithUserFields DEF Later
    <3>2. Known(q)'
      BY <1>1, <1>4, <2>0, <3>1 DEF Known, Alike, RowsOf
    <3>3. faults' \in 0 .. MaxFaults
      BY <2>1 DEF GateInv, TypeOK
    <3> QED BY <1>1, <1>4, <3>1, <3>2, <3>3, InsertStep
  <2>2. CASE RefuseFailed(p)
    <3>1. RespondFailed(p, 500, "limit") /\ "limit" \in Later
      BY <2>2, Statuses DEF RefuseFailed, Later
    <3>2. faults' \in 0 .. MaxFaults
      BY <3>1, RespondFailedFields
    <3>3. PICK q \in RequestRecord :
             req' = [req EXCEPT ![p] = q] /\ Alike(q, req[p]) /\ q.pc = "limit"
             /\ q.user = req[p].user /\ q.status = Written(req[p], 500) /\ q.failed
      BY <3>1, RespondFailedFields
    <3>4. Known(q)'
      BY <1>1, <1>4, <2>0, <3>3 DEF Known, Alike, RowsOf, Written
    <3> QED BY <1>1, <1>4, <3>2, <3>3, <3>4, InsertStep
  <2> QED BY <1>4, <2>1, <2>2
<1> QED BY <1>2, <1>3, <1>4 DEF CreateUser

(* The limiters: a request of the API group goes on only with its user. *)
LEMMA LimitKeeps ==
    ASSUME GateInv, NEW p \in Requests, Limit(p)
    PROVE  GateInv'
<1>1. Known(req[p]) /\ req[p].pc = "limit" /\ UNCHANGED <<users, faults>>
  BY DEF GateInv, Limit, At
<1>2. \A q \in RequestRecord :
         Alike(q, req[p]) /\ q.pc = "done" /\ q.user = req[p].user
         /\ (\E st \in {401, 429} : q.status = Written(req[p], st))
         /\ q.failed = req[p].failed => Known(q)
  BY <1>1 DEF Known, Alike, Written
<1>3. CASE Respond(p, 401, "done")
  BY <1>1, <1>2, <1>3, RespondStep DEF Later
<1>4. CASE Respond(p, 429, "done")
  BY <1>1, <1>2, <1>4, RespondStep DEF Later
<1>5. CASE Goto(p, "handler") /\ (req[p].route # "api" \/ req[p].user # NoId)
  <2>1. \A q \in RequestRecord :
           Alike(q, req[p]) /\ q.pc = "handler" /\ q.user = req[p].user
           /\ q.status = req[p].status /\ q.failed = req[p].failed => Known(q)
    BY <1>1, <1>5 DEF Known, Alike
  <2> QED BY <1>1, <1>5, <2>1, GotoStep DEF Later
<1> QED BY <1>3, <1>4, <1>5, Statuses DEF Limit

(* A handler that leaves the table alone. *)
LEMMA OtherHandlerKeeps ==
    ASSUME GateInv, NEW p \in Requests, OtherHandler(p)
    PROVE  GateInv'
<1>1. Known(req[p]) /\ req[p].pc = "handler" /\ req[p].route \in {"api", "playlist"}
      /\ UNCHANGED <<users, faults>> /\ Respond(p, 200, "done")
  BY DEF GateInv, OtherHandler, At
<1>2. \A q \in RequestRecord :
         Alike(q, req[p]) /\ q.pc = "done" /\ q.user = req[p].user
         /\ q.status = Written(req[p], 200) /\ q.failed = req[p].failed => Known(q)
  BY <1>1 DEF Known, Alike, Written
<1> QED BY <1>1, <1>2, RespondStep DEF Later

(* A row is taken out: it is the only one of its subject. *)
LEMMA DeactivatedStep ==
    ASSUME GateInv, NEW p \in Requests, NEW i \in Ids, Deactivated(i),
           NEW q \in RequestRecord, req' = [req EXCEPT ![p] = q],
           faults' \in 0 .. MaxFaults, Known(q)'
    PROVE  GateInv'
<1>1. req' \in [Requests -> RequestRecord] /\ req'[p] = q
      /\ \A r \in Requests \ {p} : req'[r] = req[r]
  BY DEF GateInv, TypeOK
<1>2. /\ \A j \in Ids : users'[j].sub = users[j].sub
      /\ \A j \in Ids : users'[j].active => users[j].active
      /\ users' \in [Ids -> [sub: Subs \cup {NoSub}, active: BOOLEAN]]
  BY DEF GateInv, TypeOK, Deactivated
<1>3. OneRowPerSubject'
  BY <1>2 DEF GateInv, OneRowPerSubject
<1>4. \A r \in Requests \ {p} : Known(req[r])'
  BY <1>1, <1>2 DEF GateInv, Known, RowsOf
<1>5. \A r \in Requests : Known(req[r])'
  BY <1>1, <1>4 DEF Known, RowsOf
<1> QED BY <1>1, <1>2, <1>3, <1>5 DEF GateInv, TypeOK

(* DeleteMe and the two events end with the update of one row. *)
LEMMA TakeOutKeeps ==
    ASSUME GateInv, NEW p \in Requests, NEW i \in RowsOf(req[p].sub), NEW st \in {200, 204},
           TakeOut(p, i, st), req[p].sub \in Subs,
           (req[p].pc = "handler" /\ req[p].route = "api") \/ req[p].pc = "event"
    PROVE  GateInv'
<1>1. Known(req[p]) /\ i \in Ids /\ users[i].sub = req[p].sub /\ st \in Nat /\ "done" \in Later
  BY DEF GateInv, RowsOf, Later
<1>2. /\ \A j \in Ids : users[j].sub = req[p].sub => j = i
      /\ Deactivated(i) =>
            /\ \A j \in Ids : users'[j].sub = users[j].sub
            /\ \A j \in Ids : users'[j].active => users[j].active /\ j # i
  BY <1>1, GatewayAssumption DEF GateInv, TypeOK, Deactivated, OneRowPerSubject
<1>2a. ASSUME Deactivated(i), NEW q \in RequestRecord, Alike(q, req[p]), q.pc = "done",
              q.status = Written(req[p], st), req[p].failed => q.failed
       PROVE  Known(q)'
  BY <1>1, <1>2, <1>2a DEF Known, Alike, Written, RowsOf
<1>2b. ASSUME Deactivated(i), NEW q \in RequestRecord, Alike(q, req[p]), q.pc = "done",
              q.status = Written(req[p], 500), q.failed
       PROVE  Known(q)'
  BY <1>1, <1>2, <1>2b DEF Known, Alike, Written, RowsOf
<1>3. ASSUME NEW q \in RequestRecord, Alike(q, req[p]), q.pc = "done",
             q.status = Written(req[p], 500) /\ q.failed
      PROVE  Known(q)
  BY <1>1, <1>3 DEF Known, Alike, Written
<1>4. CASE Deactivated(i) /\ Respond(p, st, "done") /\ UNCHANGED faults
  <2>1. PICK q \in RequestRecord :
           req' = [req EXCEPT ![p] = q] /\ Alike(q, req[p]) /\ q.pc = "done"
           /\ q.user = req[p].user /\ q.status = Written(req[p], st)
           /\ q.failed = req[p].failed
    BY <1>1, <1>4, RespondFields
  <2>2. Known(q)'
    <3>1. req[p].failed => q.failed
      BY ONLY <2>1
    <3>2. Deactivated(i)
      BY <1>4
    <3>3. Alike(q, req[p]) /\ q.pc = "done" /\ q.status = Written(req[p], st)
      BY ONLY <2>1
    <3> QED BY <1>2a, <3>1, <3>2, <3>3
  <2>3. faults' \in 0 .. MaxFaults
    BY <1>4 DEF GateInv, TypeOK
  <2> QED BY <1>1, <1>4, <2>1, <2>2, <2>3, DeactivatedStep
<1>5. CASE RespondFailed(p, 500, "done") /\ (Deactivated(i) \/ UNCHANGED users)
  <2>1. faults' \in 0 .. MaxFaults
    BY <1>1, <1>5, RespondFailedFields
  <2>2. PICK q \in RequestRecord :
           req' = [req EXCEPT ![p] = q] /\ Alike(q, req[p]) /\ q.pc = "done"
           /\ q.user = req[p].user /\ q.status = Written(req[p], 500) /\ q.failed
    BY <1>1, <1>5, RespondFailedFields
  <2>3. CASE Deactivated(i)
    <3>1. Known(q)'
      BY <1>2b, <2>2, <2>3
    <3> QED BY <1>1, <2>1, <2>2, <2>3, <3>1, DeactivatedStep
  <2>4. CASE UNCHANGED users
    <3>1. Known(q)
      BY <1>3, <2>2
    <3> QED BY <2>1, <2>2, <2>4, <3>1, RequestStep
  <2> QED BY <1>5, <2>3, <2>4
<1> QED BY <1>4, <1>5, Statuses DEF TakeOut

LEMMA DeleteMeKeeps ==
    ASSUME GateInv, NEW p \in Requests, DeleteMe(p)
    PROVE  GateInv'
<1>1. Known(req[p]) /\ req[p].pc = "handler" /\ req[p].route = "api"
      /\ TakeOut(p, req[p].user, 204)
  BY DEF GateInv, DeleteMe, At
<1>2. req[p].user \in RowsOf(req[p].sub) /\ req[p].sub \in Subs
  BY <1>1 DEF Known
<1> QED BY <1>1, <1>2, TakeOutKeeps

LEMMA ApplyEventKeeps ==
    ASSUME GateInv, NEW p \in Requests, ApplyEvent(p)
    PROVE  GateInv'
<1>1. Known(req[p]) /\ req[p].pc = "event" /\ TakeOut(p, req[p].user, 200)
  BY DEF GateInv, ApplyEvent, At
<1>2. req[p].user \in RowsOf(req[p].sub) /\ req[p].sub \in Subs
  BY <1>1 DEF Known
<1> QED BY <1>1, <1>2, TakeOutKeeps

(* The refusals of the webhook. *)
LEMMA HandleWebhookKeeps ==
    ASSUME GateInv, NEW p \in Requests, HandleWebhook(p)
    PROVE  GateInv'
<1>1. Known(req[p]) /\ req[p].pc = "handler" /\ req[p].route = "webhook"
      /\ UNCHANGED <<users, faults>>
  BY DEF GateInv, HandleWebhook, At
<1>2. \A q \in RequestRecord :
         Alike(q, req[p]) /\ q.pc = "done" /\ q.user = req[p].user
         /\ (\E st \in {400, 401} : q.status = Written(req[p], st))
         /\ q.failed = req[p].failed => Known(q)
  BY <1>1 DEF Known, Alike, Written
<1>3. CASE Respond(p, 400, "done")
  BY <1>1, <1>2, <1>3, RespondStep DEF Later
<1>4. CASE Respond(p, 401, "done")
  BY <1>1, <1>2, <1>4, RespondStep DEF Later
<1>5. CASE Goto(p, "lookup")
  <2>1. \A q \in RequestRecord :
           Alike(q, req[p]) /\ q.pc = "lookup" /\ q.user = req[p].user
           /\ q.status = req[p].status /\ q.failed = req[p].failed => Known(q)
    BY <1>1 DEF Known, Alike
  <2> QED BY <1>1, <1>5, <2>1, GotoStep DEF Later
<1> QED BY <1>3, <1>4, <1>5, Statuses DEF HandleWebhook

(* A subject without a row had none when the event came, for rows stay. *)
LEMMA LookupUserKeeps ==
    ASSUME GateInv, NEW p \in Requests, LookupUser(p)
    PROVE  GateInv'
<1>1. Known(req[p]) /\ req[p].pc = "lookup" /\ users' = users
  BY DEF GateInv, LookupUser, At
<1>2. CASE \E i \in RowsOf(req[p].sub) : WithUser(p, i, "event") /\ UNCHANGED faults
  <2>1. PICK i \in RowsOf(req[p].sub) : WithUser(p, i, "event") /\ UNCHANGED faults
    BY <1>2
  <2>2. i \in Ids
    BY DEF RowsOf
  <2>3. \A q \in RequestRecord :
           Alike(q, req[p]) /\ q.pc = "event" /\ q.user = i
           /\ q.status = req[p].status /\ q.failed = req[p].failed => Known(q)
    BY <1>1 DEF Known, Alike
  <2> QED BY <1>1, <2>1, <2>2, <2>3, WithUserStep DEF Later
<1>3. CASE RowsOf(req[p].sub) = {} /\ Respond(p, 200, "done") /\ UNCHANGED faults
  <2>1. \A q \in RequestRecord :
           Alike(q, req[p]) /\ q.pc = "done" /\ q.user = req[p].user
           /\ q.status = Written(req[p], 200) /\ q.failed = req[p].failed => Known(q)
    BY <1>1, <1>3 DEF Known, Alike, Written
  <2> QED BY <1>1, <1>3, <2>1, RespondStep DEF Later
<1>4. CASE RespondFailed(p, 500, "done")
  <2>1. \A q \in RequestRecord :
           Alike(q, req[p]) /\ q.pc = "done" /\ q.user = req[p].user
           /\ q.status = Written(req[p], 500) /\ q.failed => Known(q)
    BY <1>1 DEF Known, Alike, Written
  <2> QED BY <1>1, <1>4, <2>1, RespondFailedStep DEF Later
<1> QED BY <1>2, <1>3, <1>4, Statuses DEF LookupUser

-----------------------------------------------------------------------------
(* The table the gateway starts on satisfies the invariant. *)
LEMMA GatewayInitial == Init => GateInv
<1> SUFFICES ASSUME Init PROVE GateInv
  OBVIOUS
<1>1. NewReq \in RequestRecord /\ NewReq.pc = "new" /\ NewReq.before = "unknown"
      /\ NewReq.status = 0
  BY DEF NewReq, RequestRecord, Routes
<1>2. TypeOK
  <2>1. /\ [sub |-> NoSub, active |-> FALSE] \in [sub: Subs \cup {NoSub}, active: BOOLEAN]
        /\ [sub: Subs, active: BOOLEAN] \subseteq [sub: Subs \cup {NoSub}, active: BOOLEAN]
    <3>1. [sub |-> NoSub, active |-> FALSE] \in [sub: Subs \cup {NoSub}, active: BOOLEAN]
      OBVIOUS
    <3>2. ASSUME NEW u \in [sub: Subs, active: BOOLEAN]
          PROVE  u \in [sub: Subs \cup {NoSub}, active: BOOLEAN]
      BY <3>2
    <3> QED BY <3>1, <3>2
  <2>2. users \in [Ids -> [sub: Subs \cup {NoSub}, active: BOOLEAN]]
    BY <2>1 DEF Init
  <2>3. req \in [Requests -> RequestRecord]
    BY <1>1 DEF Init
  <2>4. faults \in 0 .. MaxFaults
    BY GatewayAssumption DEF Init
  <2> QED BY <2>2, <2>3, <2>4 DEF TypeOK
<1>3. OneRowPerSubject
  BY DEF Init, OneRowPerSubject
<1>4. Known(NewReq)
  BY <1>1 DEF Known
<1>5. \A p \in Requests : Known(req[p])
  BY <1>4 DEF Init
<1> QED BY <1>2, <1>3, <1>5 DEF GateInv

(* Every step of every request keeps it. *)
LEMMA GatewayStep == GateInv /\ [Next]_vars => GateInv'
<1> SUFFICES ASSUME GateInv, [Next]_vars PROVE GateInv'
  OBVIOUS
<1>1. ASSUME NEW p \in Requests, Begin(p) \/ Authenticate(p) \/ Limit(p) \/ Handler(p)
      PROVE  GateInv'
  <2>1. CASE Begin(p) \/ Authenticate(p)
    BY <2>1, BeginKeeps, CheckTokenKeeps, GetUserKeeps, CreateUserKeeps DEF Authenticate
  <2>2. CASE Limit(p) \/ Handler(p)
    BY <2>2, LimitKeeps, OtherHandlerKeeps, DeleteMeKeeps, HandleWebhookKeeps,
       LookupUserKeeps, ApplyEventKeeps DEF Handler
  <2> QED BY <1>1, <2>1, <2>2
<1>2. CASE UNCHANGED vars
  <2>1. TypeOK' /\ OneRowPerSubject' /\ users' = users /\ req' = req
    BY <1>2 DEF vars, GateInv, TypeOK, OneRowPerSubject
  <2>2. \A p \in Requests : Known(req[p])'
    BY <2>1 DEF GateInv, Known, RowsOf
  <2> QED BY <2>1, <2>2 DEF GateInv
<1> QED BY <1>1, <1>2 DEF Next

(* The invariant holds throughout (auth.go, ratelimit.go, webhook.go,
   account.go). *)
THEOREM GatewayInvariant == Spec => []GateInv
BY GatewayInitial, GatewayStep, PTL DEF Spec

(* A handler of the API group has the user of the token and is the first to
   answer. *)
THEOREM HandlersHaveUsers == Spec => []HandlerHasUser
<1>1. GateInv => HandlerHasUser
  BY DEF GateInv, Known, HandlerHasUser, At
<1> QED BY <1>1, GatewayInvariant, PTL

(* After its row was taken out a subject reaches no handler any more. *)
THEOREM RemovedStayOut == Spec => []RemovedStaysOut
<1>1. GateInv => RemovedStaysOut
  BY DEF GateInv, Known, RemovedStaysOut, At
<1> QED BY <1>1, GatewayInvariant, PTL

(* The races at the first login leave one row per subject. *)
THEOREM RowsAreUnique == Spec => []OneRowPerSubject
BY GatewayInvariant, PTL DEF GateInv

(* An acknowledged event has taken the subject's row out. *)
THEOREM AckedAreInactive == Spec => []AckedIsInactive
<1>1. GateInv => AckedIsInactive
  BY DEF GateInv, Known, AckedIsInactive, At
<1> QED BY <1>1, GatewayInvariant, PTL

(* A 500 has its cause in a failure. *)
THEOREM InternalHasCause == Spec => []InternalForCause
<1>1. GateInv => InternalForCause
  BY DEF GateInv, Known, InternalForCause
<1> QED BY <1>1, GatewayInvariant, PTL
=============================================================================
