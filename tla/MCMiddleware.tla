----------------------------- MODULE MCMiddleware -----------------------------
(* The two halves of api-gateway/middleware for TLC: a behaviour is one of the
   rate limiter's store, or one of requests in the middleware chains.  The half
   that is not observed stays in one state. *)
EXTENDS RateLimiter, Gateway, TLC

VARIABLE part    \* "limiter" or "chains"

(* The identities of one limiter.                                            *)
OneStore == [k \in Keys |-> "auth"]

(* Requests, ids and subjects differ in nothing but their names.             *)
Symmetry == Permutations(Requests) \cup Permutations(Ids) \cup Permutations(Subs)

MiddlewareInit ==
    /\ part \in {"limiter", "chains"}
    /\ LimiterInit
    /\ Init
    /\ part = "limiter" => \A i \in Ids : users[i].sub = NoSub

MiddlewareNext ==
    \/ part = "limiter" /\ LimiterNext /\ UNCHANGED <<part, vars>>
    \/ part = "chains" /\ Next /\ UNCHANGED <<part, limiterVars>>

MiddlewareSpec == MiddlewareInit /\ [][MiddlewareNext]_<<part, vars, limiterVars>>
===============================================================================
