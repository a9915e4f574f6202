------------------------------ MODULE Gateway -------------------------------
(***************************************************************************)
(* The way of a request through the api-gateway: the middleware chains that *)
(* routes.go builds (middleware/auth.go, middleware/ratelimit.go), the two   *)
(* handlers that change the users table's is_active (handlers/account.go,   *)
(* handlers/webhook.go), and the responses written on the way.              *)
(*                                                                          *)
(*   api        Authenticate -> RateLimitAuth -> a handler                  *)
(*   playlist   AuthenticateOptional -> RateLimitWebhook -> GetPlaylist     *)
(*   webhook    RateLimitWebhook -> WebhookHandler.Handle                   *)
(*                                                                          *)
(* RespondError returns what c.JSON returns, nil once the response is out;  *)
(* the chain reads nil as "go on".  Whether a limiter grants is open here:  *)
(* RateLimiter says when it does.                                           *)
(***************************************************************************)
EXTENDS Errors

CONSTANTS
    Requests,    \* requests that come in, each served by a goroutine of its own
    Ids,         \* users.id
    Subs,        \* Zitadel subjects
    NoSub,       \* the zitadel_id of an id that has no row
    NoId,        \* no *db.User on the context
    MaxFaults    \* bound on the failures

ASSUME GatewayAssumption ==
    /\ NoSub \notin Subs
    /\ NoId \notin Ids
    /\ MaxFaults \in Nat

VARIABLES
    users,    \* users: id -> zitadel_id, is_active
    req,      \* the requests, one per caller
    faults    \* failures so far

vars == <<users, req, faults>>

Routes == {"api", "playlist", "webhook", "none"}

(* The header of an API request, the signature and body of a webhook. *)
Inputs(route) ==
    CASE route = "webhook" -> {"unsigned", "garbled", "valid"}
      [] route = "none" -> {"absent"}
      [] OTHER -> {"absent", "bad", "valid"}

(* The handlers that touch users, and the events of the webhook. *)
Ops(route) ==
    CASE route = "api" -> {"delete_me", "other"}
      [] route = "webhook" -> {"user.deactivated", "user.removed", "other"}
      [] OTHER -> {"other"}

RowsOf(s) == {i \in Ids : users[i].sub = s}

(* is_active of the subject's row, as far as it has one. *)
Standing(s) ==
    IF RowsOf(s) = {} THEN "unknown"
    ELSE IF \E i \in RowsOf(s) : users[i].active THEN "active" ELSE "inactive"

(* status: of the response, 0 while there is none.  before and failed are
   history: the subject's standing when the request came, and whether a failure
   has hit this request. *)
NewReq == [pc |-> "new", route |-> "none", input |-> "absent", op |-> "other",
           sub |-> NoSub, user |-> NoId, status |-> 0, before |-> "unknown",
           failed |-> FALSE]

At(p, pc) == req[p].pc = pc

Goto(p, pc) == req' = [req EXCEPT ![p] = [@ EXCEPT !.pc = pc]]

WithUser(p, i, pc) == req' = [req EXCEPT ![p] = [@ EXCEPT !.user = i, !.pc = pc]]

(* The status goes out with the first write. *)
Written(q, status) == IF q.status = 0 THEN status ELSE q.status

(* RespondOK, RespondError, c.NoContent: a response and what comes next. *)
Respond(p, status, pc) ==
    req' = [req EXCEPT ![p] = [@ EXCEPT !.status = Written(req[p], status), !.pc = pc]]

(* The same on the path of a failure. *)
RespondFailed(p, status, pc) ==
    /\ faults < MaxFaults
    /\ faults' = faults + 1
    /\ req' = [req EXCEPT ![p] = [@ EXCEPT !.status = Written(req[p], status), !.pc = pc,
                                           !.failed = TRUE]]

-----------------------------------------------------------------------------
Incoming(route, input, op, s, pc, status) ==
    [pc |-> pc, route |-> route, input |-> input, op |-> op, sub |-> s, user |-> NoId,
     status |-> status, before |-> Standing(s), failed |-> FALSE]

(* NewRouter: the chain of a route.  AuthenticateOptional passes a request
   without a header on; an unknown path or method gets the framework's error. *)
Begin(p) ==
    /\ At(p, "new")
    /\ \E route \in Routes, s \in Subs :
       \E input \in Inputs(route), op \in Ops(route), status \in {0, 404, 405},
          pc \in {"done", "token", "limit"} :
          /\ req' = [req EXCEPT ![p] = Incoming(route, input, op, s, pc, status)]
          /\ \/ /\ route = "none"
                /\ pc = "done" /\ status \in {mapEchoHTTPError(e).status : e \in {404, 405}}
             \/ /\ route = "api" \/ (route = "playlist" /\ input # "absent")
                /\ pc = "token" /\ status = 0
             \/ /\ route = "webhook" \/ (route = "playlist" /\ input = "absent")
                /\ pc = "limit" /\ status = 0
    /\ UNCHANGED <<users, faults>>

(* A refusal in resolveUser.  The middleware returns the error of the write, if
   there is one, and HTTPErrorHandler leaves a committed response alone;
   otherwise it calls next. *)
Refuse(p, err) ==
    \/ Respond(p, StatusOf(err), "limit") /\ UNCHANGED faults
    \/ RespondFailed(p, StatusOf(err), "done")

(* The same after a failed query: one failure, the write works. *)
RefuseFailed(p) == RespondFailed(p, StatusOf("ErrInternal"), "limit")

(* extractBearer and CheckToken. *)
CheckToken(p) ==
    /\ At(p, "token")
    /\ \/ /\ req[p].input = "valid"
          /\ Goto(p, "select") /\ UNCHANGED faults
       \/ /\ req[p].input # "valid"
          /\ Refuse(p, "ErrUnauthorized")
    /\ UNCHANGED users

(* The tail of resolveUser: is_active is looked at once, in the row read.
   MutAdmit forgets it. *)
MutAdmit(p, i) ==
    /\ WithUser(p, i, "limit")
    /\ UNCHANGED faults

Admit(p, i) ==
    \/ /\ users[i].active
       /\ WithUser(p, i, "limit")
       /\ UNCHANGED faults
    \/ /\ ~users[i].active
       /\ Refuse(p, "ErrUnauthorized")

(* getOrCreateUser: the lookup, and the second one after a lost race. *)
GetUserByZitadelID(p) ==
    /\ At(p, "select") \/ At(p, "reselect")
    /\ \/ \E i \in RowsOf(req[p].sub) : Admit(p, i)
       \/ /\ RowsOf(req[p].sub) = {} /\ At(p, "select")
          /\ Goto(p, "create") /\ UNCHANGED faults
       \/ /\ RowsOf(req[p].sub) = {} /\ At(p, "reselect")
          /\ Refuse(p, "ErrInternal")
       \/ RefuseFailed(p)
    /\ UNCHANGED users

Insert(i, s) == users' = [users EXCEPT ![i] = [sub |-> s, active |-> TRUE]]

Free == {i \in Ids : users[i].sub = NoSub}

(* Mutant: no unique index on zitadel_id. *)
MutCreateUser(p) ==
    /\ At(p, "create")
    /\ \E i \in Free :
          /\ Insert(i, req[p].sub)
          /\ WithUser(p, i, "limit")
    /\ UNCHANGED faults

(* Mutant: an insert without ON CONFLICT, whose unique violation is an error. *)
MutCreateUserStrict(p) ==
    /\ At(p, "create")
    /\ \/ /\ RowsOf(req[p].sub) = {}
          /\ \E i \in Free :
                /\ Insert(i, req[p].sub)
                /\ WithUser(p, i, "limit")
       \/ /\ RowsOf(req[p].sub) # {}
          /\ Respond(p, StatusOf("ErrInternal"), "limit")
          /\ UNCHANGED users
    /\ UNCHANGED faults

(* CreateUser, ON CONFLICT (zitadel_id) DO NOTHING: the loser of a race gets
   no row and looks again.  A failure may be a taken username or a lost
   connection, after which the row may be there or not. *)
CreateUser(p) ==
    /\ At(p, "create")
    /\ \/ /\ RowsOf(req[p].sub) # {}
          /\ Goto(p, "reselect")
          /\ UNCHANGED <<users, faults>>
       \/ /\ RowsOf(req[p].sub) = {}
          /\ \E i \in Free :
                /\ Insert(i, req[p].sub)
                /\ \/ /\ WithUser(p, i, "limit")
                      /\ UNCHANGED faults
                   \/ RefuseFailed(p)
       \/ RefuseFailed(p) /\ UNCHANGED users

-----------------------------------------------------------------------------
(* Mutant: NewRateLimitAuth takes the user for granted. *)
MutLimit(p) ==
    /\ At(p, "limit")
    /\ \/ Goto(p, "handler")
       \/ Respond(p, StatusOf("ErrRateLimited"), "done")
    /\ UNCHANGED <<users, faults>>

(* NewRateLimitAuth and NewRateLimitWebhook.  Without a user the first answers
   401, also when the response of Authenticate is out already.  (RealIP of a
   TCP request is not empty.) *)
Limit(p) ==
    /\ At(p, "limit")
    /\ \/ /\ req[p].route = "api" /\ req[p].user = NoId
          /\ Respond(p, StatusOf("ErrUnauthorized"), "done")
       \/ /\ req[p].route # "api" \/ req[p].user # NoId
          /\ \/ Goto(p, "handler")
             \/ Respond(p, StatusOf("ErrRateLimited"), "done")
    /\ UNCHANGED <<users, faults>>

-----------------------------------------------------------------------------
(* A handler that leaves is_active alone; the other modules are about those. *)
OtherHandler(p) ==
    /\ At(p, "handler") /\ req[p].route \in {"api", "playlist"} /\ req[p].op = "other"
    /\ Respond(p, 200, "done")
    /\ UNCHANGED <<users, faults>>

Deactivated(i) == users' = [users EXCEPT ![i].active = FALSE]

(* The last step of a request that takes a row out: the answer, or a failure
   before or after the update took effect. *)
TakeOut(p, i, status) ==
    \/ /\ Deactivated(i)
       /\ Respond(p, status, "done") /\ UNCHANGED faults
    \/ /\ Deactivated(i) \/ UNCHANGED users
       /\ RespondFailed(p, StatusOf("ErrInternal"), "done")

(* DeleteMe: deleteUserData ends with TombstoneUser. *)
DeleteMe(p) ==
    /\ At(p, "handler") /\ req[p].route = "api" /\ req[p].op = "delete_me"
    /\ TakeOut(p, req[p].user, 204)

(* WebhookHandler.Handle: signature, then body, then event. *)
HandleWebhook(p) ==
    /\ At(p, "handler") /\ req[p].route = "webhook"
    /\ \/ /\ req[p].input = "unsigned"
          /\ Respond(p, StatusOf("ErrWebhookSignature"), "done")
       \/ /\ req[p].input = "garbled"
          /\ Respond(p, StatusOf("ErrValidation"), "done")
       \/ /\ req[p].input = "valid" /\ req[p].op = "other"
          /\ Respond(p, StatusOf("ErrWebhookEvent"), "done")
       \/ /\ req[p].input = "valid" /\ req[p].op # "other"
          /\ Goto(p, "lookup")
    /\ UNCHANGED <<users, faults>>

(* lookupUserIDByZitadelID: a subject that never came here is acknowledged. *)
LookupUser(p) ==
    /\ At(p, "lookup")
    /\ \/ \E i \in RowsOf(req[p].sub) :
             WithUser(p, i, "event") /\ UNCHANGED faults
       \/ /\ RowsOf(req[p].sub) = {}
          /\ Respond(p, 200, "done") /\ UNCHANGED faults
       \/ RespondFailed(p, StatusOf("ErrInternal"), "done")
    /\ UNCHANGED users

(* Mutant: a failed update is acknowledged as well. *)
MutApplyEvent(p) ==
    /\ At(p, "event")
    /\ \/ Deactivated(req[p].user) /\ Respond(p, 200, "done") /\ UNCHANGED faults
       \/ UNCHANGED users /\ RespondFailed(p, 200, "done")

(* handleUserDeactivated and handleUserRemoved. *)
ApplyEvent(p) ==
    /\ At(p, "event")
    /\ TakeOut(p, req[p].user, 200)

-----------------------------------------------------------------------------
(* The gateway starts on a table that earlier runs of it have left. *)
Init ==
    /\ users \in [Ids -> [sub: Subs, active: BOOLEAN] \cup {[sub |-> NoSub, active |-> FALSE]}]
    /\ \A i, j \in Ids :
          users[i].sub = users[j].sub /\ users[i].sub # NoSub => i = j
    /\ req = [p \in Requests |-> NewReq]
    /\ faults = 0

Authenticate(p) == CheckToken(p) \/ GetUserByZitadelID(p) \/ CreateUser(p)

Handler(p) ==
    OtherHandler(p) \/ DeleteMe(p) \/ HandleWebhook(p) \/ LookupUser(p) \/ ApplyEvent(p)

Next ==
    \/ \E p \in Requests : Begin(p) \/ Authenticate(p) \/ Limit(p) \/ Handler(p)
    \/ (\A p \in Requests : At(p, "done")) /\ UNCHANGED vars

Spec == Init /\ [][Next]_vars

-----------------------------------------------------------------------------
RequestRecord ==
    [pc: {"new", "token", "select", "create", "reselect", "limit", "handler", "lookup",
          "event", "done"},
     route: Routes, input: {"absent", "bad", "unsigned", "garbled", "valid"},
     op: {"delete_me", "other", "user.deactivated", "user.removed"},
     sub: Subs \cup {NoSub}, user: Ids \cup {NoId}, status: Nat,
     before: {"unknown", "active", "inactive"}, failed: BOOLEAN]

TypeOK ==
    /\ users \in [Ids -> [sub: Subs \cup {NoSub}, active: BOOLEAN]]
    /\ req \in [Requests -> RequestRecord]
    /\ faults \in 0 .. MaxFaults

(* A handler of the API group runs for the user of the token, and nothing was
   answered before it (auth.go resolveUser and Authenticate, ratelimit.go
   NewRateLimitAuth): a request that was refused goes on to the limiter and
   must end there. *)
HandlerHasUser ==
    \A p \in Requests :
        At(p, "handler") /\ req[p].route = "api" =>
            /\ req[p].status = 0
            /\ req[p].user \in RowsOf(req[p].sub)

(* Once a row is inactive no later request of its subject reaches a handler of
   the API group (auth.go: "must not be able to keep using the API with a
   pre-deactivation token"): there is no way back through getOrCreateUser. *)
RemovedStaysOut ==
    \A p \in Requests :
        At(p, "handler") /\ req[p].route = "api" => req[p].before # "inactive"

(* First requests at the same time make one row (auth.go getOrCreateUser: "a
   concurrent first-login for the same sub collapses to a single row"). *)
OneRowPerSubject ==
    \A i, j \in Ids :
        users[i].sub = users[j].sub /\ users[i].sub # NoSub => i = j

(* A webhook that was answered 200 has done its work: the subject's row, if
   there was one when the event came, is inactive from then on, whatever ran
   beside it (webhook.go handleUserDeactivated, handleUserRemoved). *)
AckedIsInactive ==
    \A p \in Requests :
        /\ At(p, "done") /\ req[p].route = "webhook"
        /\ req[p].status = 200 /\ req[p].before # "unknown"
        => \A i \in RowsOf(req[p].sub) : ~users[i].active

(* 500 is for failures only: neither a race at the first login nor one with a
   removal is answered with it (auth.go getOrCreateUser's second lookup,
   errors.go httpStatusFor). *)
InternalForCause ==
    \A p \in Requests :
        req[p].status = 500 => req[p].failed

(* What is known of a request on its way; with TypeOK and OneRowPerSubject it
   is inductive. *)
Known(q) ==
    /\ q.pc # "new" => q.sub \in Subs
    /\ q.pc \in {"token", "select", "create", "reselect"} =>
          q.route \in {"api", "playlist"} /\ q.status = 0 /\ q.user = NoId
    /\ q.pc = "reselect" => RowsOf(q.sub) # {}
    /\ q.pc \in {"lookup", "event"} => q.route = "webhook"
    /\ q.pc \in {"limit", "handler", "lookup", "event"} /\ q.route = "webhook" => q.status = 0
    /\ q.pc = "event" => q.user \in RowsOf(q.sub)
    /\ q.pc \in {"limit", "handler"} /\ q.route = "api" /\ q.user # NoId =>
          q.status = 0 /\ q.user \in RowsOf(q.sub) /\ q.before # "inactive"
    /\ q.pc = "handler" /\ q.route = "api" => q.user # NoId
    /\ q.before # "unknown" => q.sub \in Subs /\ RowsOf(q.sub) # {}
    /\ q.before = "inactive" => \A i \in RowsOf(q.sub) : ~users[i].active
    /\ q.pc = "done" /\ q.route = "webhook" /\ q.status = 200 /\ q.before # "unknown" =>
          \A i \in RowsOf(q.sub) : ~users[i].active
    /\ q.status = 500 => q.failed

(* The inductive invariant: the five properties above follow from it. *)
GateInv == TypeOK /\ OneRowPerSubject /\ \A p \in Requests : Known(req[p])
=============================================================================
