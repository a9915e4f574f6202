---------------------------- MODULE RateLimiter ----------------------------
(***************************************************************************)
(* api-gateway/middleware/ratelimit.go: the token buckets of the two        *)
(* limiters, their map and their janitors.  A call of allow takes four      *)
(* steps that other calls and the janitor of its store may come between:    *)
(* Load, LoadOrStore, the write of lastSeen, and AllowN.  lastSeen is read  *)
(* and written without a lock; the janitor sees the value of the last write *)
(* step.  (time.Time.Sub looks at one word, the monotonic reading, so no    *)
(* read is torn, and AllowN's mutex orders the write before the take.)      *)
(*                                                                          *)
(* Credit is counted in clock ticks: a token is worth Cost ticks and the    *)
(* bucket holds at most Cap = burst * Cost.                                 *)
(***************************************************************************)
EXTENDS Integers, FiniteSets

CONSTANTS
    Callers,     \* goroutines that may be inside allow at the same time
    Stores,      \* the limiter instances: per user and per IP
    Keys,        \* the identities, of all stores
    Store,       \* the store an identity is looked up in
    NoKey,       \* a caller that is outside allow
    Cost,        \* ticks in which one token is refilled
    Cap,         \* the credit of a full bucket
    TTL,         \* RateLimitConfig.TTL
    MaxClock,    \* bound on the clock
    MaxBuckets   \* bound on the entries ever made

(* RateLimitConfig.validate, and the numbers routes.go passes: a bucket that
   was not used for TTL = 10 minutes has long been refilled (in one minute). *)
ASSUME LimiterAssumption ==
    /\ IsFiniteSet(Callers)
    /\ Cost \in Nat \ {0} /\ Cap \in Nat \ {0} /\ TTL \in Nat \ {0}
    /\ Cap <= TTL
    /\ Store \in [Keys -> Stores]
    /\ NoKey \notin Keys
    /\ MaxClock \in Nat /\ MaxBuckets \in Nat

VARIABLES
    clock,   \* time.Now()
    m,       \* sync.Map: identity -> entry, 0 when absent
    heap,    \* the entries: credit, last and lastSeen; since and spent are history
    made,    \* entries made so far
    gone,    \* history: entries a janitor has deleted from the map
    call,    \* the calls of allow
    jan      \* the janitors

limiterVars == <<clock, m, heap, made, gone, call, jan>>

Buckets == 1 .. MaxBuckets

Time == 0 .. MaxClock

(* History: since is the oldest reading of the clock that a call of the identity
   had in hand when the entry was made, spent is all the entry has granted. *)
Bucket == [credit: 0 .. Cap, last: Time, lastSeen: Time, since: Time, spent: Nat]

(* rate.NewLimiter: full. *)
NewLimiter(t, since) ==
    [credit |-> Cap, last |-> t, lastSeen |-> t, since |-> since, spent |-> 0]

Idle == [pc |-> "idle", key |-> NoKey, now |-> 0, entry |-> 0]

(* seen is history: the lastSeen that the verdict on a key was based on. *)
Resting == [pc |-> "wait", now |-> 0, todo |-> {}, stale |-> {},
            seen |-> [k \in Keys |-> 0]]

(* A call of allow that has read the clock and not yet asked for a token; those of
   one identity, and the oldest reading among them. *)
Waits(c) == c.pc \in {"load", "store", "touch", "take"}

Waiting(k) == {p \in Callers : Waits(call[p]) /\ call[p].key = k}

Oldest(k) ==
    CHOOSE t \in {call[p].now : p \in Waiting(k)} : \A p \in Waiting(k) : t <= call[p].now

KeysOf(s) == {k \in Keys : Store[k] = s}

-----------------------------------------------------------------------------
(* The clock moves on its own.                                               *)
Advance ==
    /\ clock < MaxClock
    /\ clock' = clock + 1
    /\ UNCHANGED <<m, heap, made, gone, call, jan>>

(* allow: now := time.Now(). *)
Call(p, k) ==
    /\ call[p].pc = "idle"
    /\ call' = [call EXCEPT ![p] = [pc |-> "load", key |-> k, now |-> clock, entry |-> 0]]
    /\ UNCHANGED <<clock, m, heap, made, gone, jan>>

Load(p) ==
    LET e == m[call[p].key]
    IN
    /\ call[p].pc = "load"
    /\ call' = [call EXCEPT ![p].pc = IF e = 0 THEN "store" ELSE "touch", ![p].entry = e]
    /\ UNCHANGED <<clock, m, heap, made, gone, jan>>

(* Mutant: Store instead of LoadOrStore. *)
MutLoadOrStore(p) ==
    /\ call[p].pc = "store" /\ made < MaxBuckets
    /\ made' = made + 1
    /\ m' = [m EXCEPT ![call[p].key] = made + 1]
    /\ heap' = [heap EXCEPT ![made + 1] = NewLimiter(call[p].now, Oldest(call[p].key))]
    /\ call' = [call EXCEPT ![p].pc = "touch", ![p].entry = made + 1]
    /\ UNCHANGED <<clock, gone, jan>>

(* The first touch: the entry another caller has stored meanwhile wins. *)
LoadOrStore(p) ==
    LET k == call[p].key
    IN
    /\ call[p].pc = "store"
    /\ \/ /\ m[k] # 0
          /\ call' = [call EXCEPT ![p].pc = "touch", ![p].entry = m[k]]
          /\ UNCHANGED <<m, heap, made>>
       \/ /\ m[k] = 0 /\ made < MaxBuckets
          /\ made' = made + 1
          /\ m' = [m EXCEPT ![k] = made + 1]
          /\ heap' = [heap EXCEPT ![made + 1] = NewLimiter(call[p].now, Oldest(k))]
          /\ call' = [call EXCEPT ![p].pc = "touch", ![p].entry = made + 1]
    /\ UNCHANGED <<clock, gone, jan>>

(* entry.lastSeen = now. *)
Touch(p) ==
    /\ call[p].pc = "touch"
    /\ heap' = [heap EXCEPT ![call[p].entry].lastSeen = call[p].now]
    /\ call' = [call EXCEPT ![p].pc = "take"]
    /\ UNCHANGED <<clock, m, made, gone, jan>>

(* The credit of bucket b at time t; a time before b.last adds nothing. *)
CreditAt(b, t) ==
    LET c == IF t < b.last THEN b.credit ELSE b.credit + (t - b.last)
    IN  IF c > Cap THEN Cap ELSE c

(* rate.Limiter.AllowN(t, 1) when it grants: last becomes t even if t is
   earlier.  A refusal changes nothing. *)
AllowN(b, t) ==
    [b EXCEPT !.credit = CreditAt(b, t) - Cost, !.last = t, !.spent = @ + Cost]

(* Mutant: AllowN(now, 0), which asks for no token. *)
MutTake(p) ==
    LET e == call[p].entry
    IN
    /\ call[p].pc = "take"
    /\ call' = [call EXCEPT ![p].pc = "granted"]
    /\ heap' = [heap EXCEPT ![e].spent = @ + Cost]
    /\ UNCHANGED <<clock, m, made, gone, jan>>

Take(p) ==
    LET e == call[p].entry
        t == call[p].now
    IN
    /\ call[p].pc = "take"
    /\ \/ /\ CreditAt(heap[e], t) >= Cost
          /\ heap' = [heap EXCEPT ![e] = AllowN(@, t)]
          /\ call' = [call EXCEPT ![p].pc = "granted"]
       \/ /\ CreditAt(heap[e], t) < Cost
          /\ call' = [call EXCEPT ![p].pc = "refused"]
          /\ UNCHANGED heap
    /\ UNCHANGED <<clock, m, made, gone, jan>>

Return(p) ==
    /\ call[p].pc \in {"granted", "refused"}
    /\ call' = [call EXCEPT ![p] = Idle]
    /\ UNCHANGED <<clock, m, heap, made, gone, jan>>

-----------------------------------------------------------------------------
(* runJanitor, sweep: the ticker fires.  Range shows no consistent snapshot:
   it visits the keys one by one, each as the map is at that moment. *)
SweepStart(s) ==
    /\ jan[s].pc = "wait"
    /\ jan' = [jan EXCEPT ![s] = [Resting EXCEPT !.pc = "range", !.now = clock,
                                                 !.todo = KeysOf(s)]]
    /\ UNCHANGED <<clock, m, heap, made, gone, call>>

(* Mutant: every entry that was not used at this very moment is stale. *)
MutStale(t, lastSeen) == t - lastSeen > 0

Stale(t, lastSeen) == t - lastSeen > TTL

SweepVisit(s, k) ==
    LET stale == m[k] # 0 /\ Stale(jan[s].now, heap[m[k]].lastSeen)
    IN
    /\ jan[s].pc = "range" /\ k \in jan[s].todo
    /\ \/ /\ stale
          /\ jan' = [jan EXCEPT ![s].todo = @ \ {k}, ![s].stale = @ \cup {k},
                                ![s].seen[k] = heap[m[k]].lastSeen]
       \/ /\ ~stale
          /\ jan' = [jan EXCEPT ![s].todo = @ \ {k}]
    /\ UNCHANGED <<clock, m, heap, made, gone, call>>

(* s.m.Delete(k), whatever the entry is by now. *)
SweepDelete(s, k) ==
    /\ jan[s].pc = "range" /\ jan[s].todo = {} /\ k \in jan[s].stale
    /\ m' = [m EXCEPT ![k] = 0]
    /\ gone' = gone \cup ({m[k]} \ {0})
    /\ jan' = [jan EXCEPT ![s].stale = @ \ {k}, ![s].seen[k] = 0]
    /\ UNCHANGED <<clock, heap, made, call>>

SweepEnd(s) ==
    /\ jan[s].pc = "range" /\ jan[s].todo = {} /\ jan[s].stale = {}
    /\ jan' = [jan EXCEPT ![s] = Resting]
    /\ UNCHANGED <<clock, m, heap, made, gone, call>>

-----------------------------------------------------------------------------
LimiterInit ==
    /\ clock = 0
    /\ m = [k \in Keys |-> 0]
    /\ heap = [b \in Buckets |-> NewLimiter(0, 0)]
    /\ made = 0
    /\ gone = {}
    /\ call = [p \in Callers |-> Idle]
    /\ jan = [s \in Stores |-> Resting]

(* What runs inside allow and beside it. *)
AllowStep(p) == Load(p) \/ LoadOrStore(p) \/ Touch(p) \/ Take(p)

Background ==
    \/ Advance
    \/ \E s \in Stores : SweepStart(s) \/ SweepEnd(s)
    \/ \E s \in Stores, k \in Keys : SweepVisit(s, k) \/ SweepDelete(s, k)

LimiterNext ==
    \/ \E p \in Callers : AllowStep(p) \/ Return(p)
    \/ \E p \in Callers, k \in Keys : Call(p, k)
    \/ Background

LimiterSpec == LimiterInit /\ [][LimiterNext]_limiterVars

-----------------------------------------------------------------------------
CallRecord == [pc: {"idle", "load", "store", "touch", "take", "granted", "refused"},
               key: Keys \cup {NoKey}, now: Time, entry: 0 .. MaxBuckets]

JanitorRecord == [pc: {"wait", "range"}, now: Time, todo: SUBSET Keys,
                  stale: SUBSET Keys, seen: [Keys -> Time]]

LimiterTypeOK ==
    /\ clock \in Time
    /\ made \in 0 .. MaxBuckets
    /\ m \in [Keys -> 0 .. MaxBuckets]
    /\ heap \in [Buckets -> Bucket]
    /\ gone \subseteq Buckets
    /\ call \in [Callers -> CallRecord]
    /\ jan \in [Stores -> JanitorRecord]

(* What an entry has granted when it is refilled n times as fast as the clock
   runs, at most: a full bucket and n times the ticks it has lived. *)
Quota(n) ==
    \A b \in 1 .. made : heap[b].spent <= Cap + n * (clock - heap[b].since)

(* A call reads the clock before it waits for the entry, so calls reach AllowN
   with old readings, and one that does sets the entry back: the time since its
   reading refills the entry again.  However often that happens, each of n
   concurrent calls wins every tick at most once: an entry grants a full bucket
   and n times its refill.  That is the burst and rate of ratelimit.go:68-72 when
   calls do not overlap, and more (Quota(1) does not hold) when they do. *)
QuotaHonoured == Quota(Cardinality(Callers))

(* Callers of one identity draw from the entry in the map, also when they see
   the identity for the first time at once (ratelimit.go: "shares a single
   limiter"); a caller holds another entry only if a janitor evicted it after
   the caller had loaded it. *)
OneBucketPerKey ==
    \A p \in Callers :
        call[p].pc \in {"touch", "take"} =>
            call[p].entry = m[call[p].key] \/ call[p].entry \in gone

(* A janitor that forgets an entry gives nobody credit: the entry is full, so
   a new one is no better.  Two races are excepted: the entry was used after
   the janitor had looked at it, or a call with an old reading of the clock
   has overwritten a newer lastSeen (sweep reads lastSeen and deletes later,
   without a lock). *)
EvictionIsNeutral ==
    [][\A s \in Stores : \A k \in jan[s].stale \ jan'[s].stale :
           m[k] # 0 =>
               LET b == heap[m[k]]
               IN  \/ CreditAt(b, clock) = Cap
                   \/ b.lastSeen # jan[s].seen[k]
                   \/ b.lastSeen < b.last]_limiterVars
=============================================================================
