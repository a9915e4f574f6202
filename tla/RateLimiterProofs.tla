------------------------- MODULE RateLimiterProofs --------------------------
(* Proofs about RateLimiter, for every number of callers, identities and
   entries and for all rates. *)
EXTENDS RateLimiter, FiniteSetTheorems, TLAPS

-----------------------------------------------------------------------------
(* The inductive invariant, first part.  No reading of the clock lies ahead of
   the clock; a caller past Load holds an entry, one that was made, and its
   reading is no older than what the entry may be set back to; a janitor's
   verdict rests on the lastSeen it has noted. *)
ReadingsPast ==
    /\ \A b \in Buckets : heap[b].last <= clock
    /\ \A p \in Callers : call[p].now <= clock
    /\ \A s \in Stores : jan[s].now <= clock

Holding ==
    \A p \in Callers :
        /\ call[p].pc # "idle" => call[p].key \in Keys
        /\ call[p].pc \in {"touch", "take"} => call[p].entry # 0

Timely(c) ==
    Waits(c) =>
        /\ c.entry <= made
        /\ m[c.key] # 0 => heap[m[c.key]].since <= c.now
        /\ c.entry # 0 => heap[c.entry].since <= c.now

Since ==
    /\ \A k \in Keys : m[k] <= made
    /\ \A b \in Buckets : heap[b].since <= heap[b].last
    /\ \A p \in Callers : Timely(call[p])

Noted ==
    \A s \in Stores :
        /\ jan[s].pc = "wait" => jan[s].stale = {}
        /\ \A k \in jan[s].stale : jan[s].now - jan[s].seen[k] > TTL

LInv == LimiterTypeOK /\ ReadingsPast /\ Holding /\ Since /\ Noted /\ OneBucketPerKey

-----------------------------------------------------------------------------
(* The types the actions write (ratelimit.go: a new entry, a granted call). *)
LEMMA NewLimiterType ==
    ASSUME NEW t \in Time, NEW since \in Time
    PROVE  NewLimiter(t, since) \in Bucket
BY LimiterAssumption DEF NewLimiter, Bucket, Time

(* The credit of an entry lies between nothing and a full bucket, and grows by
   no more than the time that has passed. *)
LEMMA CreditBounds ==
    ASSUME NEW b \in Bucket, NEW t \in Time
    PROVE  /\ CreditAt(b, t) \in 0 .. Cap
           /\ t >= b.last => CreditAt(b, t) <= b.credit + (t - b.last)
           /\ t < b.last => CreditAt(b, t) <= b.credit
BY LimiterAssumption DEF CreditAt, Bucket, Time

(* What a grant makes of an entry. *)
LEMMA GrantType ==
    ASSUME NEW b \in Bucket, NEW t \in Time, CreditAt(b, t) >= Cost
    PROVE  /\ AllowN(b, t) \in Bucket
           /\ AllowN(b, t).last = t /\ AllowN(b, t).since = b.since
           /\ AllowN(b, t).credit = CreditAt(b, t) - Cost
           /\ AllowN(b, t).spent = b.spent + Cost
<1> DEFINE c == CreditAt(b, t)
<1>1. c \in 0 .. Cap
  BY CreditBounds
<1>2. c - Cost \in 0 .. Cap /\ b.spent + Cost \in Nat
  BY <1>1, LimiterAssumption DEF Bucket
<1>3. AllowN(b, t) = [b EXCEPT !.credit = c - Cost, !.last = t, !.spent = b.spent + Cost]
  BY DEF AllowN
<1> HIDE DEF c
<1>4. LET a == AllowN(b, t)
      IN  /\ a \in Bucket /\ a.last = t /\ a.since = b.since
          /\ a.credit = c - Cost /\ a.spent = b.spent + Cost
  BY <1>2, <1>3 DEF Bucket
<1> QED BY <1>4 DEF c

(* A set of clock readings has a least one. *)
LEMMA LeastNatural ==
    ASSUME NEW T, T \subseteq Nat, T # {}
    PROVE  \E x \in T : \A y \in T : x <= y
<1> DEFINE Less == OpToRel(<, Nat)
<1>1. \A u, v \in Nat : u < v => <<u, v>> \in Less
  BY DEF OpToRel
<1>2. \E x \in T : \A y \in T : <<y, x>> \notin Less
  BY WFMin, NatLessThanWellFounded
<1> HIDE DEF Less
<1>3. \A x, y \in Nat : <<y, x>> \notin Less => x <= y
  <2> SUFFICES ASSUME NEW x \in Nat, NEW y \in Nat, ~(x <= y) PROVE <<y, x>> \in Less
    OBVIOUS
  <2>1. y < x
    OBVIOUS
  <2> QED BY <1>1, <2>1
<1> QED BY <1>2, <1>3

(* The oldest reading among the calls of an identity exists, and is one of theirs. *)
LEMMA OldestReading ==
    ASSUME LimiterTypeOK, NEW p \in Callers, Waits(call[p])
    PROVE  /\ Oldest(call[p].key) \in Time
           /\ \A q \in Callers :
                  Waits(call[q]) /\ call[q].key = call[p].key =>
                      Oldest(call[p].key) <= call[q].now
<1> DEFINE W == Waiting(call[p].key)
           T == {call[q].now : q \in W}
<1>1. \A q \in Callers : call[q].now \in Time /\ call[q].now \in Nat
  BY DEF LimiterTypeOK, CallRecord, Time
<1>2. p \in W /\ W \subseteq Callers
  BY DEF Waiting
<1>3. T \subseteq Nat /\ T # {} /\ T \subseteq Time
  BY <1>1, <1>2
<1>5. \E x \in T : \A y \in T : x <= y
  BY <1>3, LeastNatural
<1>6. \E t \in T : \A q \in W : t <= call[q].now
  BY <1>5
<1>7. Oldest(call[p].key) \in T /\ \A q \in W : Oldest(call[p].key) <= call[q].now
  BY <1>6 DEF Oldest
<1> QED BY <1>3, <1>7 DEF Waiting

(* A gateway that starts has no entry (newRateLimiterStore). *)
LEMMA LimiterInitial == LimiterInit => LInv
<1> SUFFICES ASSUME LimiterInit PROVE LInv
  OBVIOUS
<1> USE LimiterAssumption DEF LimiterInit, Buckets, Time
<1>1. 0 \in Time
  OBVIOUS
<1>2. NewLimiter(0, 0) \in Bucket
  BY <1>1, NewLimiterType
<1>3. LimiterTypeOK
  <2>1. Idle \in CallRecord
    BY DEF Idle, CallRecord
  <2>2. Resting \in JanitorRecord
    BY DEF Resting, JanitorRecord
  <2> QED BY <1>2, <2>1, <2>2 DEF LimiterTypeOK
<1>4. ReadingsPast /\ Since
  BY DEF ReadingsPast, Since, Timely, Waits, NewLimiter, Idle, Resting
<1>5. Holding /\ Noted /\ OneBucketPerKey
  BY DEF Holding, Noted, OneBucketPerKey, Idle, Resting
<1> QED BY <1>3, <1>4, <1>5 DEF LInv

-----------------------------------------------------------------------------
(* A step that gives one call a new record and leaves heap, clock and janitors
   alone keeps the accounts; what is left to show is about that record. *)
LEMMA CallStep ==
    ASSUME LInv, NEW p \in Callers, NEW c \in CallRecord,
           call' = [call EXCEPT ![p] = c], UNCHANGED <<clock, m, heap, made, gone, jan>>,
           c.now <= clock,
           c.pc # "idle" => c.key \in Keys, Timely(c),
           c.pc \in {"touch", "take"} =>
               c.entry # 0 /\ (c.entry = m[c.key] \/ c.entry \in gone)
    PROVE  LInv'
<1>1. call' \in [Callers -> CallRecord] /\ call'[p] = c
      /\ \A q \in Callers \ {p} : call'[q] = call[q]
  BY DEF LInv, LimiterTypeOK
<1>2. LimiterTypeOK'
  BY <1>1 DEF LInv, LimiterTypeOK
<1>3. Noted'
  BY DEF LInv, Noted
<1>4. ReadingsPast' /\ Since'
  BY <1>1 DEF LInv, ReadingsPast, Since, Timely
<1>5. Holding' /\ OneBucketPerKey'
  BY <1>1 DEF LInv, Holding, OneBucketPerKey
<1> QED BY <1>2, <1>3, <1>4, <1>5 DEF LInv

(* The record of a call that is inside allow. *)
LEMMA Inside ==
    ASSUME LInv, NEW p \in Callers, call[p].pc # "idle"
    PROVE  /\ call[p] \in CallRecord /\ call[p].key \in Keys
           /\ call[p].now \in Time /\ call[p].now <= clock
           /\ m[call[p].key] \in 0 .. MaxBuckets
           /\ Timely(call[p])
           /\ call[p].pc \in {"touch", "take"} => call[p].entry \in Buckets
BY LimiterAssumption DEF LInv, LimiterTypeOK, Holding, Since, ReadingsPast, CallRecord, Buckets

(* allow reads the clock. *)
LEMMA CallKeeps ==
    ASSUME LInv, NEW p \in Callers, NEW k \in Keys, Call(p, k)
    PROVE  LInv'
<1> DEFINE c == [pc |-> "load", key |-> k, now |-> clock, entry |-> 0]
<1>1. c \in CallRecord /\ c.now <= clock
  BY LimiterAssumption DEF LInv, LimiterTypeOK, CallRecord, Time
<1>2. m[k] # 0 => heap[m[k]].since <= clock
  <2> SUFFICES ASSUME m[k] # 0 PROVE heap[m[k]].since <= clock
    OBVIOUS
  <2>1. m[k] \in Buckets
    BY LimiterAssumption DEF LInv, LimiterTypeOK, Buckets
  <2>2. heap[m[k]] \in Bucket /\ heap[m[k]].since <= heap[m[k]].last /\ heap[m[k]].last <= clock
    BY <2>1 DEF LInv, LimiterTypeOK, Since, ReadingsPast
  <2> QED BY <2>2 DEF Bucket, Time, LInv, LimiterTypeOK
<1>3. Timely(c)
  BY <1>2, LimiterAssumption DEF Timely, LInv, LimiterTypeOK
<1> QED BY <1>1, <1>3, CallStep DEF Call

(* Load: the entry found is the one in the map. *)
LEMMA LoadKeeps ==
    ASSUME LInv, NEW p \in Callers, Load(p)
    PROVE  LInv'
<1> DEFINE e == m[call[p].key]
           c == [call[p] EXCEPT !.pc = IF e = 0 THEN "store" ELSE "touch", !.entry = e]
<1>1. /\ call[p] \in CallRecord /\ call[p].key \in Keys
      /\ call[p].now <= clock /\ e \in 0 .. MaxBuckets
      /\ e <= made /\ (e # 0 => heap[e].since <= call[p].now)
  BY Inside DEF Load, Timely, Waits, LInv, Since
<1>2. /\ c \in CallRecord /\ c.now = call[p].now /\ c.key = call[p].key /\ c.entry = e
      /\ c.pc = IF e = 0 THEN "store" ELSE "touch"
  BY <1>1 DEF CallRecord
<1>3. call' = [call EXCEPT ![p] = c]
  BY DEF Load, LInv, LimiterTypeOK
<1> HIDE DEF c
<1>4. /\ UNCHANGED <<clock, m, heap, made, gone, jan>>
      /\ c.now <= clock /\ c.key \in Keys
      /\ c.pc \in {"touch", "take"} => c.entry # 0 /\ c.entry = m[c.key]
      /\ Timely(c)
  BY <1>1, <1>2 DEF Load, Timely
<1> HIDE DEF e
<1> QED BY <1>2, <1>3, <1>4, CallStep

(* LoadOrStore stores only where the map has nothing, so no holder of an entry
   in the map loses it. *)
LEMMA LoadOrStoreKeeps ==
    ASSUME LInv, NEW p \in Callers, LoadOrStore(p)
    PROVE  LInv'
<1> DEFINE k == call[p].key
           c(e) == [call[p] EXCEPT !.pc = "touch", !.entry = e]
<1>1. /\ call[p] \in CallRecord /\ k \in Keys /\ call[p].now \in Time
      /\ call[p].now <= clock /\ m[k] \in 0 .. MaxBuckets
      /\ m[k] <= made /\ (m[k] # 0 => heap[m[k]].since <= call[p].now)
  BY Inside DEF LoadOrStore, Timely, Waits, LInv, Since
<1>2. \A e \in 0 .. MaxBuckets :
         c(e) \in CallRecord /\ c(e).now = call[p].now /\ c(e).key = k
         /\ c(e).entry = e /\ c(e).pc = "touch"
  BY <1>1 DEF CallRecord
<1>3. CASE m[k] # 0 /\ call' = [call EXCEPT ![p].pc = "touch", ![p].entry = m[k]]
             /\ UNCHANGED <<m, heap, made>>
  <2>1. call' = [call EXCEPT ![p] = c(m[k])]
    BY <1>3 DEF LInv, LimiterTypeOK
  <2>2. /\ c(m[k]) \in CallRecord /\ c(m[k]).now = call[p].now /\ c(m[k]).key = k
        /\ c(m[k]).entry = m[k] /\ c(m[k]).pc = "touch"
    BY <1>1, <1>2
  <2> DEFINE d == c(m[k])
  <2>3. d \in CallRecord /\ call' = [call EXCEPT ![p] = d]
    BY <2>1, <2>2
  <2>4. d.now <= clock /\ d.key \in Keys /\ d.entry # 0 /\ d.entry = m[d.key] /\ Timely(d)
    BY <1>1, <1>3, <2>2 DEF Timely
  <2>5. UNCHANGED <<clock, m, heap, made, gone, jan>>
    BY <1>3 DEF LoadOrStore
  <2> HIDE DEF d
  <2> QED BY <2>3, <2>4, <2>5, CallStep
<1>4. CASE /\ m[k] = 0 /\ made < MaxBuckets
           /\ made' = made + 1
           /\ m' = [m EXCEPT ![k] = made + 1]
           /\ heap' = [heap EXCEPT ![made + 1] = NewLimiter(call[p].now, Oldest(k))]
           /\ call' = [call EXCEPT ![p].pc = "touch", ![p].entry = made + 1]
  <2> DEFINE n == made + 1
             o == Oldest(k)
             b == NewLimiter(call[p].now, o)
  <2>1. n \in Buckets /\ n # 0 /\ n \in 0 .. MaxBuckets /\ made' \in 0 .. MaxBuckets
        /\ UNCHANGED <<clock, gone, jan>>
    BY <1>4, LimiterAssumption DEF LInv, LimiterTypeOK, LoadOrStore, Buckets
  <2>2. call' = [call EXCEPT ![p] = c(n)]
    BY <1>4 DEF LInv, LimiterTypeOK
  <2>3. /\ c(n) \in CallRecord /\ c(n).now = call[p].now /\ c(n).key = k
        /\ c(n).entry = n /\ c(n).pc = "touch"
    BY <1>2, <2>1
  <2>4. m' = [m EXCEPT ![k] = n] /\ heap' = [heap EXCEPT ![n] = b]
    BY <1>4
  <2> HIDE DEF c, n
  <2>5. call' \in [Callers -> CallRecord] /\ call'[p] = c(n)
        /\ \A q \in Callers \ {p} : call'[q] = call[q]
    BY <2>2, <2>3 DEF LInv, LimiterTypeOK
  <2>0. o \in Time /\ \A q \in Callers : Waits(call[q]) /\ call[q].key = k => o <= call[q].now
    BY OldestReading DEF LInv, LoadOrStore, Waits
  <2>6. b \in Bucket /\ b.last = call[p].now /\ b.since = o /\ o <= call[p].now
    BY <1>1, <2>0, NewLimiterType DEF LoadOrStore, Waits, NewLimiter
  <2> HIDE DEF o, b
  <2>7. LimiterTypeOK'
    BY <1>1, <2>1, <2>4, <2>5, <2>6 DEF LInv, LimiterTypeOK
  <2>9. ReadingsPast'
    BY <1>1, <2>1, <2>3, <2>4, <2>5, <2>6 DEF LInv, LimiterTypeOK, ReadingsPast
  <2>12. Since'
    <3>1. \A x \in Keys : m'[x] <= made'
      BY <1>4, <2>1, <2>4 DEF LInv, LimiterTypeOK, Since
    <3>2. \A x \in Buckets : heap'[x].since <= heap'[x].last
      BY <2>1, <2>4, <2>6 DEF LInv, LimiterTypeOK, Since
    <3>3. ASSUME NEW q \in Callers PROVE Timely(call[q])'
      <4> SUFFICES ASSUME Waits(call'[q])
                   PROVE  /\ call'[q].entry <= made'
                          /\ m'[call'[q].key] # 0 => heap'[m'[call'[q].key]].since <= call'[q].now
                          /\ call'[q].entry # 0 => heap'[call'[q].entry].since <= call'[q].now
        BY DEF Timely
      <4>1. heap'[n] = b /\ \A x \in Buckets \ {n} : heap'[x] = heap[x]
        BY <2>1, <2>4 DEF LInv, LimiterTypeOK
      <4>2. m'[k] = n /\ \A x \in Keys \ {k} : m'[x] = m[x]
        BY <1>1, <2>4 DEF LInv, LimiterTypeOK
      <4>3. made' = n /\ n = made + 1 /\ made \in Nat
        BY <1>4, LimiterAssumption DEF n, LInv, LimiterTypeOK
      <4>4. CASE q = p
        BY <1>1, <2>3, <2>5, <2>6, <4>1, <4>2, <4>3, <4>4
      <4>5. CASE q # p
        <5>1. /\ call'[q] = call[q] /\ Waits(call[q]) /\ Timely(call[q])
              /\ call[q] \in CallRecord /\ call[q].key \in Keys /\ m[call[q].key] \in 0 .. MaxBuckets
          BY <2>5, <4>5 DEF LInv, LimiterTypeOK, Since, Holding, Waits
        <5>2. call[q].entry <= made /\ call[q].entry \in 0 .. MaxBuckets
              /\ m[call[q].key] <= made
          BY <5>1 DEF Timely, CallRecord, LInv, Since
        <5>3. call[q].entry # 0 => heap'[call[q].entry] = heap[call[q].entry]
          BY <4>1, <4>3, <5>2 DEF Buckets
        <5>4. CASE call[q].key = k
          BY <2>0, <2>6, <4>1, <4>2, <4>3, <5>1, <5>2, <5>3, <5>4 DEF Timely
        <5>5. CASE call[q].key # k
          <6>1. m'[call[q].key] = m[call[q].key]
            BY <4>2, <5>1, <5>5
          <6>2. m[call[q].key] # 0 => heap'[m[call[q].key]] = heap[m[call[q].key]]
            BY <4>1, <4>3, <5>1, <5>2 DEF Buckets
          <6> QED BY <4>3, <5>1, <5>2, <5>3, <6>1, <6>2 DEF Timely
        <5> QED BY <5>4, <5>5
      <4> QED BY <4>4, <4>5
    <3> QED BY <3>1, <3>2, <3>3 DEF Since
  <2>10. Holding' /\ Noted'
    BY <1>1, <2>1, <2>3, <2>5 DEF LInv, Holding, Noted
  <2>11. OneBucketPerKey'
    <3> SUFFICES ASSUME NEW q \in Callers, call'[q].pc \in {"touch", "take"}
                 PROVE  call'[q].entry = m'[call'[q].key] \/ call'[q].entry \in gone'
      BY DEF OneBucketPerKey
    <3>1. CASE q = p
      BY <1>1, <2>3, <2>4, <2>5, <3>1 DEF LInv, LimiterTypeOK
    <3>2. CASE q # p
      <4>1. call'[q] = call[q] /\ call[q].key \in Keys /\ call[q].entry # 0
            /\ (call[q].entry = m[call[q].key] \/ call[q].entry \in gone)
        BY <2>5, <3>2 DEF LInv, Holding, OneBucketPerKey
      <4> QED BY <1>1, <1>4, <2>1, <2>4, <4>1 DEF LInv, LimiterTypeOK
    <3> QED BY <3>1, <3>2
  <2> QED BY <2>7, <2>9, <2>10, <2>11, <2>12 DEF LInv
<1> QED BY <1>3, <1>4 DEF LoadOrStore

(* A step of one call that also replaces the entry it holds. *)
LEMMA EntryStep ==
    ASSUME LInv, NEW p \in Callers, call[p].pc \in {"touch", "take"},
           NEW pc \in {"take", "granted", "refused"},
           NEW b \in Bucket, b.last <= clock, b.since <= b.last,
           b.since = heap[call[p].entry].since,
           heap' = [heap EXCEPT ![call[p].entry] = b],
           call' = [call EXCEPT ![p].pc = pc],
           UNCHANGED <<clock, m, made, gone, jan>>
    PROVE  LInv'
<1> DEFINE c == [call[p] EXCEPT !.pc = pc]
<1>1. call[p] \in CallRecord /\ call[p].entry \in Buckets
  BY Inside
<1>2. c \in CallRecord /\ c.now = call[p].now /\ c.key = call[p].key
      /\ c.entry = call[p].entry /\ c.pc = pc
  BY <1>1 DEF CallRecord
<1>3. call' = [call EXCEPT ![p] = c]
  BY DEF LInv, LimiterTypeOK
<1> HIDE DEF c
<1>4. call' \in [Callers -> CallRecord] /\ call'[p] = c
      /\ \A q \in Callers \ {p} : call'[q] = call[q]
  BY <1>2, <1>3 DEF LInv, LimiterTypeOK
<1>5. LimiterTypeOK'
  BY <1>1, <1>4 DEF LInv, LimiterTypeOK
<1>6. ReadingsPast'
  BY <1>1, <1>2, <1>4 DEF LInv, LimiterTypeOK, ReadingsPast
<1>8. Since'
  <2>1. \A x \in Buckets : heap'[x].since = heap[x].since /\ heap'[x].since <= heap'[x].last
    BY <1>1 DEF LInv, LimiterTypeOK, Since
  <2>2. ASSUME NEW q \in Callers PROVE Timely(call[q])'
    <3>1. /\ call[q] \in CallRecord /\ Timely(call[q])
          /\ Waits(call[q]) => call[q].key \in Keys /\ m[call[q].key] \in 0 .. MaxBuckets
      BY DEF LInv, LimiterTypeOK, Since, Holding, Waits
    <3>2. /\ call'[q].entry = call[q].entry /\ call'[q].key = call[q].key
          /\ call'[q].now = call[q].now /\ (Waits(call'[q]) => Waits(call[q]))
      BY <1>2, <1>4 DEF Waits
    <3>3. call[q].entry # 0 => call[q].entry \in Buckets
      BY <3>1, LimiterAssumption DEF CallRecord, Buckets
    <3>4. Waits(call[q]) /\ m[call[q].key] # 0 => m[call[q].key] \in Buckets
      BY <3>1, LimiterAssumption DEF Buckets
    <3> QED BY <2>1, <3>1, <3>2, <3>3, <3>4 DEF Timely
  <2> QED BY <2>1, <2>2 DEF LInv, Since
<1>7. Holding' /\ Noted' /\ OneBucketPerKey'
  BY <1>1, <1>2, <1>4 DEF LInv, Holding, Noted, OneBucketPerKey
<1> QED BY <1>5, <1>6, <1>7, <1>8 DEF LInv

(* The write of lastSeen touches nothing that is accounted. *)
LEMMA TouchKeeps ==
    ASSUME LInv, NEW p \in Callers, Touch(p)
    PROVE  LInv'
<1> DEFINE e == call[p].entry
           b == [heap[e] EXCEPT !.lastSeen = call[p].now]
<1>1. e \in Buckets /\ call[p].now \in Time
  BY Inside DEF Touch
<1>2. heap[e] \in Bucket /\ heap[e].since <= heap[e].last /\ heap[e].last <= clock
  BY <1>1 DEF LInv, LimiterTypeOK, Since, ReadingsPast
<1>3. b \in Bucket /\ b.since = heap[e].since /\ b.last = heap[e].last
  BY <1>1, <1>2 DEF Bucket
<1>4. heap' = [heap EXCEPT ![e] = b]
  BY <1>1 DEF Touch, LInv, LimiterTypeOK
<1> HIDE DEF b
<1> QED BY <1>2, <1>3, <1>4, EntryStep DEF Touch

(* AllowN sets the entry back to no time before its since. *)
LEMMA TakeKeeps ==
    ASSUME LInv, NEW p \in Callers, Take(p)
    PROVE  LInv'
<1> DEFINE e == call[p].entry
           t == call[p].now
<1>1. e \in Buckets /\ t \in Time /\ t <= clock /\ heap[e].since <= t
  BY Inside DEF Take, Timely, Waits, Buckets
<1>2. heap[e] \in Bucket /\ heap[e].since <= heap[e].last /\ heap[e].last <= clock
  BY <1>1 DEF LInv, LimiterTypeOK, Since, ReadingsPast
<1>3. CASE /\ CreditAt(heap[e], t) >= Cost
           /\ heap' = [heap EXCEPT ![e] = AllowN(@, t)]
           /\ call' = [call EXCEPT ![p].pc = "granted"]
  <2>1. /\ AllowN(heap[e], t) \in Bucket /\ AllowN(heap[e], t).last = t
        /\ AllowN(heap[e], t).since = heap[e].since
    BY <1>1, <1>2, <1>3, GrantType
  <2>2. heap' = [heap EXCEPT ![e] = AllowN(heap[e], t)]
    BY <1>3
  <2> QED BY <1>1, <1>3, <2>1, <2>2, EntryStep DEF Take
<1>4. CASE UNCHANGED heap /\ call' = [call EXCEPT ![p].pc = "refused"]
  <2>1. heap' = [heap EXCEPT ![e] = heap[e]]
    BY <1>1, <1>4 DEF LInv, LimiterTypeOK
  <2> QED BY <1>2, <1>4, <2>1, EntryStep DEF Take
<1> QED BY <1>3, <1>4 DEF Take

(* allow returns. *)
LEMMA ReturnKeeps ==
    ASSUME LInv, NEW p \in Callers, Return(p)
    PROVE  LInv'
<1>1. Idle \in CallRecord /\ Idle.pc = "idle" /\ Idle.now <= clock /\ Timely(Idle)
  BY LimiterAssumption DEF Idle, CallRecord, Time, LInv, LimiterTypeOK, Timely, Waits
<1> QED BY <1>1, CallStep DEF Return

(* Time passes. *)
LEMMA AdvanceKeeps ==
    ASSUME LInv, Advance
    PROVE  LInv'
<1>1. clock \in Nat /\ clock' = clock + 1 /\ clock' \in Time
  BY LimiterAssumption DEF LInv, LimiterTypeOK, Advance, Time
<1>2. /\ \A b \in Buckets : heap[b].last \in Nat
      /\ \A p \in Callers : call[p].now \in Nat
      /\ \A s \in Stores : jan[s].now \in Nat
  BY DEF LInv, LimiterTypeOK, Bucket, CallRecord, JanitorRecord, Time
<1>3. ReadingsPast'
  BY <1>1, <1>2 DEF LInv, ReadingsPast, Advance
<1>4. LimiterTypeOK' /\ Holding' /\ Since' /\ Noted' /\ OneBucketPerKey'
  BY <1>1 DEF LInv, LimiterTypeOK, Holding, Since, Timely, Noted, OneBucketPerKey, Advance
<1> QED BY <1>3, <1>4 DEF LInv

(* A step of one janitor that leaves the entries and the map alone. *)
LEMMA JanitorStep ==
    ASSUME LInv, NEW s \in Stores, NEW j \in JanitorRecord,
           jan' = [jan EXCEPT ![s] = j], UNCHANGED <<clock, m, heap, made, gone, call>>,
           j.now <= clock, j.pc = "wait" => j.stale = {},
           \A k \in j.stale : j.now - j.seen[k] > TTL
    PROVE  LInv'
<1>1. jan' \in [Stores -> JanitorRecord] /\ jan'[s] = j
      /\ \A z \in Stores \ {s} : jan'[z] = jan[z]
  BY DEF LInv, LimiterTypeOK
<1>2. LimiterTypeOK'
  BY <1>1 DEF LInv, LimiterTypeOK
<1>3. ReadingsPast' /\ Noted'
  BY <1>1 DEF LInv, ReadingsPast, Noted
<1>4. Holding' /\ Since' /\ OneBucketPerKey'
  BY DEF LInv, Holding, Since, Timely, OneBucketPerKey
<1> QED BY <1>2, <1>3, <1>4 DEF LInv

(* A sweep begins with an empty verdict on every identity of its store. *)
LEMMA SweepStartKeeps ==
    ASSUME LInv, NEW s \in Stores, SweepStart(s)
    PROVE  LInv'
<1> DEFINE j == [Resting EXCEPT !.pc = "range", !.now = clock, !.todo = KeysOf(s)]
<1>1. Resting \in JanitorRecord /\ Resting.stale = {}
  BY LimiterAssumption DEF Resting, JanitorRecord, Time
<1>2. KeysOf(s) \in SUBSET Keys /\ clock \in Time /\ clock <= clock
  BY DEF KeysOf, LInv, LimiterTypeOK, Time
<1>3. j \in JanitorRecord /\ j.now = clock /\ j.pc = "range" /\ j.stale = {}
  BY <1>1, <1>2 DEF JanitorRecord
<1>4. jan' = [jan EXCEPT ![s] = j] /\ UNCHANGED <<clock, m, heap, made, gone, call>>
  BY DEF SweepStart
<1> HIDE DEF j
<1>5. \A k \in j.stale : j.now - j.seen[k] > TTL
  BY <1>3
<1> QED BY <1>2, <1>3, <1>4, <1>5, JanitorStep

(* The janitor notes the lastSeen it judges by. *)
LEMMA SweepVisitKeeps ==
    ASSUME LInv, NEW s \in Stores, NEW k \in Keys, SweepVisit(s, k)
    PROVE  LInv'
<1>1. /\ jan[s] \in JanitorRecord /\ jan[s].pc = "range" /\ jan[s].now <= clock
      /\ \A x \in jan[s].stale : jan[s].now - jan[s].seen[x] > TTL
      /\ UNCHANGED <<clock, m, heap, made, gone, call>>
  BY DEF LInv, LimiterTypeOK, ReadingsPast, Noted, SweepVisit
<1>2. CASE /\ m[k] # 0 /\ Stale(jan[s].now, heap[m[k]].lastSeen)
           /\ jan' = [jan EXCEPT ![s].todo = @ \ {k}, ![s].stale = @ \cup {k},
                                 ![s].seen[k] = heap[m[k]].lastSeen]
  <2> DEFINE l == heap[m[k]].lastSeen
             j == [jan[s] EXCEPT !.todo = jan[s].todo \ {k}, !.stale = jan[s].stale \cup {k},
                                 !.seen = [jan[s].seen EXCEPT ![k] = l]]
  <2>1. m[k] \in Buckets /\ l \in Time /\ jan[s].now - l > TTL
    BY <1>2, LimiterAssumption DEF LInv, LimiterTypeOK, Buckets, Bucket, Stale
  <2>2. /\ j \in JanitorRecord /\ j.now = jan[s].now /\ j.pc = jan[s].pc
        /\ j.stale = jan[s].stale \cup {k}
        /\ j.seen = [jan[s].seen EXCEPT ![k] = l]
    BY <1>1, <2>1 DEF JanitorRecord
  <2>3. jan' = [jan EXCEPT ![s] = j]
    BY <1>2 DEF LInv, LimiterTypeOK
  <2> HIDE DEF j, l
  <2>4. \A x \in j.stale : j.now - j.seen[x] > TTL
    BY <1>1, <2>1, <2>2 DEF JanitorRecord
  <2> QED BY <1>1, <2>2, <2>3, <2>4, JanitorStep
<1>3. CASE jan' = [jan EXCEPT ![s].todo = @ \ {k}]
  <2> DEFINE j == [jan[s] EXCEPT !.todo = jan[s].todo \ {k}]
  <2>1. /\ j \in JanitorRecord /\ j.now = jan[s].now /\ j.pc = jan[s].pc
        /\ j.stale = jan[s].stale /\ j.seen = jan[s].seen
    BY <1>1 DEF JanitorRecord
  <2>2. jan' = [jan EXCEPT ![s] = j]
    BY <1>3 DEF LInv, LimiterTypeOK
  <2> HIDE DEF j
  <2> QED BY <1>1, <2>1, <2>2, JanitorStep
<1> QED BY <1>2, <1>3 DEF SweepVisit

(* An entry leaves the map and is remembered as gone. *)
LEMMA SweepDeleteKeeps ==
    ASSUME LInv, NEW s \in Stores, NEW k \in Keys, SweepDelete(s, k)
    PROVE  LInv'
<1> DEFINE j == [jan[s] EXCEPT !.stale = jan[s].stale \ {k},
                               !.seen = [jan[s].seen EXCEPT ![k] = 0]]
<1>1. /\ jan[s] \in JanitorRecord /\ jan[s].pc = "range" /\ jan[s].now <= clock
      /\ \A x \in jan[s].stale : jan[s].now - jan[s].seen[x] > TTL
      /\ UNCHANGED <<clock, heap, made, call>>
      /\ m' = [m EXCEPT ![k] = 0] /\ gone' = gone \cup ({m[k]} \ {0})
  BY DEF LInv, LimiterTypeOK, ReadingsPast, Noted, SweepDelete
<1>2. 0 \in Time /\ 0 \in 0 .. MaxBuckets /\ {m[k]} \ {0} \subseteq Buckets
  BY LimiterAssumption DEF LInv, LimiterTypeOK, Buckets, Time
<1>3. /\ j \in JanitorRecord /\ j.now = jan[s].now /\ j.pc = jan[s].pc
      /\ j.stale = jan[s].stale \ {k}
      /\ j.seen = [jan[s].seen EXCEPT ![k] = 0]
  BY <1>1, <1>2 DEF JanitorRecord
<1>4. jan' = [jan EXCEPT ![s] = j]
  BY DEF SweepDelete, LInv, LimiterTypeOK
<1> HIDE DEF j
<1>5. \A x \in j.stale : j.now - j.seen[x] > TTL
  BY <1>1, <1>3 DEF JanitorRecord
<1>6. jan' \in [Stores -> JanitorRecord] /\ jan'[s] = j
      /\ \A z \in Stores \ {s} : jan'[z] = jan[z]
  BY <1>3, <1>4 DEF LInv, LimiterTypeOK
<1>7. LimiterTypeOK'
  BY <1>1, <1>2, <1>6 DEF LInv, LimiterTypeOK
<1>8. Holding' /\ Since'
  <2>1. m'[k] = 0 /\ \A x \in Keys \ {k} : m'[x] = m[x]
    BY <1>1 DEF LInv, LimiterTypeOK
  <2>2. \A q \in Callers : Timely(call[q])'
    BY <1>1, <2>1 DEF LInv, Since, Timely, Holding, Waits
  <2> QED BY <1>1, <2>1, <2>2, LimiterAssumption DEF LInv, LimiterTypeOK, Holding, Since
<1>9. ReadingsPast' /\ Noted'
  BY <1>1, <1>3, <1>5, <1>6 DEF LInv, ReadingsPast, Noted
<1>10. OneBucketPerKey'
  BY <1>1 DEF LInv, LimiterTypeOK, Holding, OneBucketPerKey
<1> QED BY <1>7, <1>8, <1>9, <1>10 DEF LInv

(* A sweep ends when its list is empty. *)
LEMMA SweepEndKeeps ==
    ASSUME LInv, NEW s \in Stores, SweepEnd(s)
    PROVE  LInv'
<1>1. Resting \in JanitorRecord /\ Resting.now <= clock /\ Resting.stale = {}
  BY LimiterAssumption DEF Resting, JanitorRecord, Time, LInv, LimiterTypeOK
<1> QED BY <1>1, JanitorStep DEF SweepEnd

(* Every step of the limiters keeps the invariant. *)
LEMMA LimiterStep == LInv /\ [LimiterNext]_limiterVars => LInv'
<1> SUFFICES ASSUME LInv, [LimiterNext]_limiterVars PROVE LInv'
  OBVIOUS
<1>1. CASE \E p \in Callers : AllowStep(p) \/ Return(p)
  BY <1>1, LoadKeeps, LoadOrStoreKeeps, TouchKeeps, TakeKeeps, ReturnKeeps DEF AllowStep
<1>2. CASE \E p \in Callers, k \in Keys : Call(p, k)
  BY <1>2, CallKeeps
<1>3. CASE Background
  BY <1>3, AdvanceKeeps, SweepStartKeeps, SweepEndKeeps, SweepVisitKeeps, SweepDeleteKeeps
     DEF Background
<1>4. CASE UNCHANGED limiterVars
  BY <1>4 DEF limiterVars, LInv, LimiterTypeOK, ReadingsPast, Holding, Since, Timely,
              Noted, OneBucketPerKey
<1> QED BY <1>1, <1>2, <1>3, <1>4 DEF LimiterNext

-----------------------------------------------------------------------------
(* The invariant holds throughout (ratelimit.go allow and sweep). *)
THEOREM LimiterInvariant == LimiterSpec => []LInv
BY LimiterInitial, LimiterStep, PTL DEF LimiterSpec

(* The state of the limiters keeps its type. *)
THEOREM LimiterTypeCorrect == LimiterSpec => []LimiterTypeOK
BY LimiterInvariant, PTL DEF LInv

-----------------------------------------------------------------------------
(* The inductive invariant, second part: the account of an entry.  L lists which
   calls have set the entry back over which ticks; the entry's credit and what
   it has spent are covered by a full bucket, its age and the ticks listed.  A
   call that is listed for a tick reads the clock again, at that tick or later,
   before it asks again; and for every tick the entry has been through one call
   is not listed and will not set it back over that tick. *)
Ledger(b, L) ==
    /\ L \subseteq Callers \X (heap[b].since + 1 .. clock)
    /\ heap[b].credit + heap[b].spent <=
           Cap + (heap[b].last - heap[b].since) + Cardinality(L)
    /\ \A q \in Callers, x \in Nat :
           <<q, x>> \in L /\ Waits(call[q]) => x <= call[q].now
    /\ \A x \in heap[b].since + 1 .. clock :
           x <= heap[b].last \/ (\E q \in Callers : <<q, x>> \in L) =>
               \E p \in Callers : <<p, x>> \notin L /\ (Waits(call[p]) => x <= call[p].now)

Accounted == \A b \in Buckets : \E L \in SUBSET (Callers \X Nat) : Ledger(b, L)

(* One call is missing in the list for every tick up to l, so the ticks up to l
   and those listed are no more than one per call and tick. *)
LEMMA LedgerBound ==
    ASSUME NEW P, IsFiniteSet(P), NEW s \in Nat, NEW l \in Nat, NEW c \in Nat,
           s <= l, l <= c, NEW L, L \subseteq P \X (s + 1 .. c),
           \A x \in s + 1 .. l : \E p \in P : <<p, x>> \notin L
    PROVE  (l - s) + Cardinality(L) <= Cardinality(P) * (c - s)
<1> DEFINE X == s + 1 .. l
           w == [x \in X |-> CHOOSE p \in P : <<p, x>> \notin L]
           f == [x \in X |-> <<w[x], x>>]
           M == {f[x] : x \in X}
           A == P \X (s + 1 .. c)
<1>1. \A x \in X : w[x] \in P /\ <<w[x], x>> \notin L
  OBVIOUS
<1>2. IsFiniteSet(X) /\ Cardinality(X) = l - s
  <2>1. s + 1 \in Int /\ l \in Int
    OBVIOUS
  <2>2. IsFiniteSet(X) /\ Cardinality(X) = IF s + 1 > l THEN 0 ELSE l - (s + 1) + 1
    BY <2>1, FS_Interval
  <2> QED BY <2>2
<1>3. IsFiniteSet(A) /\ Cardinality(A) = Cardinality(P) * (c - s)
  <2>1. s + 1 \in Int /\ c \in Int
    OBVIOUS
  <2>2. /\ IsFiniteSet(s + 1 .. c)
        /\ Cardinality(s + 1 .. c) = IF s + 1 > c THEN 0 ELSE c - (s + 1) + 1
    BY <2>1, FS_Interval
  <2>3. Cardinality(s + 1 .. c) = c - s
    BY <2>2
  <2>4. IsFiniteSet(A) /\ Cardinality(A) = Cardinality(P) * Cardinality(s + 1 .. c)
    BY <2>2, FS_Product
  <2> QED BY <2>3, <2>4
<1>4. M \subseteq A /\ M \cap L = {}
  <2>1. X \subseteq s + 1 .. c
    OBVIOUS
  <2>2. \A x \in X : f[x] \in A /\ f[x] \notin L
    BY <1>1, <2>1
  <2> QED BY <2>2
<1>5. f \in Bijection(X, M)
  <2>1. f \in [X -> M]
    OBVIOUS
  <2>2. \A a, b \in X : f[a] = f[b] => a = b
    OBVIOUS
  <2>3. \A y \in M : \E x \in X : f[x] = y
    OBVIOUS
  <2> HIDE DEF f, M, X
  <2> QED BY <2>1, <2>2, <2>3 DEF Bijection, Injection, IsInjective, Surjection
<1> HIDE DEF X, w, f, M, A
<1>6. IsFiniteSet(M) /\ Cardinality(M) = l - s
  <2>1. ExistsBijection(X, M)
    BY <1>5 DEF ExistsBijection
  <2> QED BY <1>2, <2>1, FS_Bijection
<1>7. L \in SUBSET A
  BY DEF A
<1>8. IsFiniteSet(L) /\ IsFiniteSet(M \cup L)
      /\ Cardinality(M \cup L) = Cardinality(M) + Cardinality(L)
  <2>1. IsFiniteSet(L)
    BY <1>3, <1>7, FS_Subset
  <2>2. /\ IsFiniteSet(M \cup L)
        /\ Cardinality(M \cup L) = Cardinality(M) + Cardinality(L) - Cardinality(M \cap L)
    BY <1>6, <2>1, FS_Union
  <2>3. Cardinality(M \cap L) = 0
    BY <1>4, FS_EmptySet
  <2>4. Cardinality(M) \in Nat /\ Cardinality(L) \in Nat
    BY <1>6, <2>1, FS_CardinalityType
  <2> QED BY <2>1, <2>2, <2>3, <2>4
<1>9. Cardinality(M \cup L) <= Cardinality(A)
  <2>1. M \cup L \in SUBSET A
    BY <1>4, <1>7
  <2> QED BY <1>3, <2>1, FS_Subset
<1> QED BY <1>3, <1>6, <1>8, <1>9

(* The lists an account may hold are finite. *)
LEMMA ListsFinite ==
    ASSUME NEW s \in Nat, NEW c \in Nat
    PROVE  /\ IsFiniteSet(Callers \X (s + 1 .. c))
           /\ \A L \in SUBSET (Callers \X (s + 1 .. c)) : IsFiniteSet(L) /\ Cardinality(L) \in Nat
<1>1. s + 1 \in Int /\ c \in Int
  OBVIOUS
<1>2. IsFiniteSet(s + 1 .. c)
  BY <1>1, FS_Interval
<1>3. IsFiniteSet(Callers \X (s + 1 .. c))
  BY <1>2, FS_Product, LimiterAssumption
<1>4. \A L \in SUBSET (Callers \X (s + 1 .. c)) : IsFiniteSet(L)
  BY <1>3, FS_Subset
<1> QED BY <1>3, <1>4, FS_CardinalityType

(* The ticks that a grant with an old reading lists. *)
LEMMA Strip ==
    ASSUME NEW p, NEW t \in Nat, NEW l \in Nat, t < l
    PROVE  IsFiniteSet({p} \X (t + 1 .. l)) /\ Cardinality({p} \X (t + 1 .. l)) = l - t
<1> DEFINE I == t + 1 .. l
           K == {p} \X I
<1>1. t + 1 \in Int /\ l \in Int
  OBVIOUS
<1>2. IsFiniteSet(I) /\ Cardinality(I) = IF t + 1 > l THEN 0 ELSE l - (t + 1) + 1
  BY <1>1, FS_Interval
<1>3. IsFiniteSet({p}) /\ Cardinality({p}) = 1
  BY FS_Singleton
<1>4. IsFiniteSet(K) /\ Cardinality(K) = Cardinality({p}) * Cardinality(I)
  BY <1>2, <1>3, FS_Product
<1>5. Cardinality(I) = l - t
  BY <1>2
<1> HIDE DEF I, K
<1>6. IsFiniteSet(K) /\ Cardinality(K) = l - t
  BY <1>3, <1>4, <1>5
<1> QED BY <1>6 DEF K, I

(* The account of an entry survives a step that leaves the entry alone, but for
   lastSeen: a call that reads the clock reads one as new as any tick listed. *)
LEMMA LedgerStays ==
    ASSUME LInv, LInv', NEW b \in Buckets, NEW L, Ledger(b, L), clock <= clock',
           heap'[b].credit = heap[b].credit, heap'[b].last = heap[b].last,
           heap'[b].since = heap[b].since, heap'[b].spent = heap[b].spent,
           \A q \in Callers :
               Waits(call[q])' => \/ Waits(call[q]) /\ call'[q].now = call[q].now
                                  \/ call'[q].now = clock
    PROVE  Ledger(b, L)'
<1> DEFINE s == heap[b].since
           l == heap[b].last
<1>1. /\ s \in Nat /\ l \in Nat /\ l <= clock /\ clock \in Nat /\ clock' \in Nat
      /\ \A q \in Callers : call[q].now \in Nat
  BY LimiterAssumption DEF LInv, LimiterTypeOK, ReadingsPast, Bucket, CallRecord, Time
<1>2. /\ L \subseteq Callers \X (s + 1 .. clock)
      /\ \A q \in Callers, x \in Nat : <<q, x>> \in L /\ Waits(call[q]) => x <= call[q].now
      /\ \A x \in s + 1 .. clock :
            x <= l \/ (\E q \in Callers : <<q, x>> \in L) =>
               \E p \in Callers : <<p, x>> \notin L /\ (Waits(call[p]) => x <= call[p].now)
  BY DEF Ledger
<1>3. heap'[b].since = s /\ heap'[b].last = l
  OBVIOUS
<1> HIDE DEF s, l
<1>4. s + 1 .. clock \subseteq s + 1 .. clock'
  BY <1>1
<1>5. \A q \in Callers, x \in Nat : <<q, x>> \in L /\ Waits(call[q])' => x <= call'[q].now
  <2> SUFFICES ASSUME NEW q \in Callers, NEW x \in Nat, <<q, x>> \in L, Waits(call[q])'
               PROVE  x <= call'[q].now
    OBVIOUS
  <2>1. x <= clock
    BY <1>1, <1>2
  <2> QED BY <1>2, <2>1
<1>6. \A x \in s + 1 .. clock' :
         x <= l \/ (\E q \in Callers : <<q, x>> \in L) =>
            \E p \in Callers : <<p, x>> \notin L /\ (Waits(call[p])' => x <= call'[p].now)
  <2> SUFFICES ASSUME NEW x \in s + 1 .. clock', x <= l \/ \E q \in Callers : <<q, x>> \in L
               PROVE  \E p \in Callers : <<p, x>> \notin L /\ (Waits(call[p])' => x <= call'[p].now)
    OBVIOUS
  <2>1. x \in s + 1 .. clock
    <3>1. CASE x <= l
      BY <1>1, <3>1
    <3>2. CASE \E q \in Callers : <<q, x>> \in L
      BY <1>2, <3>2
    <3> QED BY <3>1, <3>2
  <2>2. PICK p \in Callers : <<p, x>> \notin L /\ (Waits(call[p]) => x <= call[p].now)
    BY <1>2, <2>1
  <2>3. Waits(call[p])' => x <= call'[p].now
    BY <2>1, <2>2
  <2> QED BY <2>2, <2>3
<1>7. L \subseteq Callers \X (s + 1 .. clock')
  BY <1>2, <1>4
<1>8. heap'[b].credit + heap'[b].spent
         <= Cap + (heap'[b].last - heap'[b].since) + Cardinality(L)
  BY DEF Ledger
<1> QED BY <1>3, <1>5, <1>6, <1>7, <1>8 DEF Ledger

(* A new entry owes nothing: the call that makes it will not set it back behind
   its own reading of the clock, and nobody behind the oldest one. *)
LEMMA LedgerOpens ==
    ASSUME LInv, LInv', NEW p \in Callers, NEW b \in Buckets, NEW k \in Keys,
           call[p].key = k, Waits(call[p]), clock' = clock,
           heap'[b] = NewLimiter(call[p].now, Oldest(k)), call'[p].now = call[p].now
    PROVE  Ledger(b, {})'
<1> DEFINE s == heap'[b].since
           l == heap'[b].last
<1>1. /\ s \in Nat /\ l = call'[p].now /\ s <= l /\ l \in Nat
      /\ heap'[b].credit = Cap /\ heap'[b].spent = 0 /\ clock' \in Nat
  BY LimiterAssumption DEF LInv, LimiterTypeOK, Since, NewLimiter, Bucket, Time
<1>2. Cardinality({}) = 0
  BY FS_EmptySet
<1> HIDE DEF s, l
<1>3. Cap + 0 <= Cap + (l - s) + 0
  BY <1>1, LimiterAssumption
<1>4. \A x \in s + 1 .. clock' : x <= l => x <= call'[p].now
  BY <1>1
<1>5. heap'[b].since = s /\ heap'[b].last = l
  BY DEF s, l
<1> QED BY <1>1, <1>2, <1>3, <1>4, <1>5 DEF Ledger

(* The sum of an account, when a grant moves the entry forward or back. *)
LEMMA GrantSum ==
    ASSUME NEW cap \in Nat, NEW cost \in Nat, NEW c \in Nat, NEW e \in Nat, NEW d \in Nat,
           NEW l \in Nat, NEW s \in Nat, NEW t \in Nat, NEW n \in Nat,
           d + e <= cap + (l - s) + n,
           t >= l => c <= d + (t - l), t < l => c <= d
    PROVE  /\ t >= l => (c - cost) + (e + cost) <= cap + (t - s) + n
           /\ t < l => (c - cost) + (e + cost) <= cap + (t - s) + (n + (l - t))
OBVIOUS

(* A grant: with an old reading the call is listed for the ticks it wins again.
   Each of them keeps a call that is not listed, and the call that was granted
   will read the clock anew before it asks again. *)
LEMMA LedgerGrants ==
    ASSUME LInv, LInv', NEW p \in Callers, NEW b \in Buckets, NEW L, Ledger(b, L),
           call[p].pc = "take", call[p].entry = b, clock' = clock,
           CreditAt(heap[b], call[p].now) >= Cost,
           heap'[b] = AllowN(heap[b], call[p].now),
           ~Waits(call[p])',
           \A q \in Callers \ {p} : call'[q] = call[q]
    PROVE  \E N \in SUBSET (Callers \X Nat) : Ledger(b, N)'
<1> DEFINE s == heap[b].since
           l == heap[b].last
           t == call[p].now
           c == CreditAt(heap[b], t)
           d == heap[b].credit
           e == heap[b].spent
<1>1. heap[b] \in Bucket /\ t \in Time
  BY DEF LInv, LimiterTypeOK, CallRecord
<1>2. /\ s \in Nat /\ l \in Nat /\ t \in Nat /\ d \in Nat /\ e \in Nat /\ clock \in Nat
      /\ s <= l /\ l <= clock /\ t <= clock /\ Cap \in Nat /\ Cost \in Nat
      /\ \A q \in Callers : call[q].now \in Nat
  BY <1>1, LimiterAssumption DEF LInv, LimiterTypeOK, ReadingsPast, Since, Bucket, CallRecord, Time
<1>3. s <= t
  BY LimiterAssumption DEF LInv, Since, Timely, Waits, Buckets
<1>4. c \in Nat /\ (t >= l => c <= d + (t - l)) /\ (t < l => c <= d)
  BY <1>1, CreditBounds, LimiterAssumption
<1>5. /\ heap'[b].since = s /\ heap'[b].last = t
      /\ heap'[b].credit = c - Cost /\ heap'[b].spent = e + Cost
  BY <1>1, GrantType
<1>6. /\ L \subseteq Callers \X (s + 1 .. clock)
      /\ d + e <= Cap + (l - s) + Cardinality(L)
      /\ \A q \in Callers, x \in Nat : <<q, x>> \in L /\ Waits(call[q]) => x <= call[q].now
      /\ \A x \in s + 1 .. clock :
            x <= l \/ (\E q \in Callers : <<q, x>> \in L) =>
               \E q \in Callers : <<q, x>> \notin L /\ (Waits(call[q]) => x <= call[q].now)
  BY DEF Ledger
<1>7. Waits(call[p]) /\ call[p].now = t
  BY DEF Waits
<1> HIDE DEF s, l, t, c, d, e
<1>8. CASE t >= l
  <2>1. Cardinality(L) \in Nat
    BY <1>2, <1>6, ListsFinite
  <2>2. (c - Cost) + (e + Cost) <= Cap + (t - s) + Cardinality(L)
    BY <1>2, <1>4, <1>6, <1>8, <2>1, GrantSum
  <2>3. \A q \in Callers, x \in Nat : <<q, x>> \in L /\ Waits(call[q])' => x <= call'[q].now
    BY <1>6
  <2>4. ASSUME NEW x \in s + 1 .. clock, x <= t \/ \E q \in Callers : <<q, x>> \in L
        PROVE  \E q \in Callers : <<q, x>> \notin L /\ (Waits(call[q])' => x <= call'[q].now)
    <3>1. CASE x <= l \/ \E q \in Callers : <<q, x>> \in L
      <4>1. PICK q \in Callers : <<q, x>> \notin L /\ (Waits(call[q]) => x <= call[q].now)
        BY <1>6, <3>1
      <4> QED BY <4>1
    <3>2. CASE ~(x <= l \/ \E q \in Callers : <<q, x>> \in L)
      BY <3>2
    <3> QED BY <3>1, <3>2
  <2>5. Ledger(b, L)'
    BY <1>5, <1>6, <2>2, <2>3, <2>4 DEF Ledger
  <2>6. L \in SUBSET (Callers \X Nat)
    BY <1>2, <1>6
  <2> QED BY <2>5, <2>6
<1>9. CASE t < l
  <2>0. PICK N : N = L \cup ({p} \X (t + 1 .. l))
    OBVIOUS
  <2>1. \A x \in t + 1 .. l : <<p, x>> \notin L
    BY <1>2, <1>6, <1>7
  <2>2. /\ N \subseteq Callers \X (s + 1 .. clock)
        /\ Cardinality(L) \in Nat
        /\ Cardinality(N) = Cardinality(L) + (l - t)
    <3>1. N \subseteq Callers \X (s + 1 .. clock)
      BY <1>2, <1>3, <1>6, <1>9, <2>0
    <3>2. IsFiniteSet(L) /\ Cardinality(L) \in Nat
      BY <1>2, <1>6, ListsFinite
    <3>3. Cardinality(N) = Cardinality(L) + (l - t)
      <4> DEFINE K == {p} \X (t + 1 .. l)
      <4>1. IsFiniteSet(K) /\ Cardinality(K) = l - t
        BY <1>2, <1>9, Strip
      <4>2. L \cap K = {} /\ N = L \cup K
        BY <2>0, <2>1
      <4> HIDE DEF K
      <4>3. Cardinality(N) = Cardinality(L) + Cardinality(K) - Cardinality(L \cap K)
        BY <3>2, <4>1, <4>2, FS_Union
      <4>4. Cardinality(L \cap K) = 0
        BY <4>2, FS_EmptySet
      <4> QED BY <1>2, <3>2, <4>1, <4>3, <4>4
    <3> QED BY <3>1, <3>2, <3>3
  <2>3. (c - Cost) + (e + Cost) <= Cap + (t - s) + (Cardinality(L) + (l - t))
    BY <1>2, <1>4, <1>6, <1>9, <2>2, GrantSum
  <2>4. \A q \in Callers \ {p} : \A x : <<q, x>> \in N => <<q, x>> \in L
    BY <2>0
  <2>5. \A x : (\E q \in Callers : <<q, x>> \in N) =>
                  (\E q \in Callers : <<q, x>> \in L) \/ (x \in t + 1 .. l)
    BY <2>0
  <2>6. \A q \in Callers, x \in Nat : <<q, x>> \in N /\ Waits(call[q])' => x <= call'[q].now
    BY <1>6, <2>4
  <2>7. ASSUME NEW x \in s + 1 .. clock, x <= t \/ \E q \in Callers : <<q, x>> \in N
        PROVE  \E q \in Callers : <<q, x>> \notin N /\ (Waits(call[q])' => x <= call'[q].now)
    <3>0. x \in Int /\ (x <= t \/ x \in t + 1 .. l => x <= l)
      BY <1>2, <1>9
    <3>1. x <= l \/ \E q \in Callers : <<q, x>> \in L
      BY <2>5, <2>7, <3>0
    <3>2. PICK q \in Callers : <<q, x>> \notin L /\ (Waits(call[q]) => x <= call[q].now)
      BY <1>6, <3>1
    <3>3. CASE q # p
      BY <2>4, <3>2, <3>3
    <3>4. CASE q = p
      <4>1. <<p, x>> \notin N
        BY <1>2, <1>7, <2>0, <3>2, <3>4
      <4> QED BY <4>1
    <3> QED BY <3>3, <3>4
  <2>10. (c - Cost) + (e + Cost) <= Cap + (t - s) + Cardinality(N)
    BY <2>2, <2>3
  <2>8. Ledger(b, N)'
    BY <1>5, <2>2, <2>10, <2>6, <2>7 DEF Ledger
  <2>9. N \in SUBSET (Callers \X Nat)
    BY <1>2, <2>2
  <2> QED BY <2>8, <2>9
<1> QED BY <1>2, <1>8, <1>9

(* Every step keeps an account of every entry: one takes a token, one makes an
   entry, and the others leave the entries alone. *)
LEMMA AccountStep == LInv /\ LInv' /\ Accounted /\ [LimiterNext]_limiterVars => Accounted'
<1> SUFFICES ASSUME LInv, LInv', Accounted, [LimiterNext]_limiterVars, NEW b \in Buckets
             PROVE  \E N \in SUBSET (Callers \X Nat) : Ledger(b, N)'
  BY DEF Accounted
<1>1. PICK L \in SUBSET (Callers \X Nat) : Ledger(b, L)
  BY DEF Accounted
<1> DEFINE Alone ==
      /\ clock <= clock'
      /\ heap'[b].credit = heap[b].credit /\ heap'[b].last = heap[b].last
      /\ heap'[b].since = heap[b].since /\ heap'[b].spent = heap[b].spent
      /\ \A q \in Callers :
            Waits(call[q])' => \/ Waits(call[q]) /\ call'[q].now = call[q].now
                               \/ call'[q].now = clock
<1>2. Alone => Ledger(b, L)'
  BY <1>1, LedgerStays
<1>3. /\ clock \in Nat /\ heap \in [Buckets -> Bucket] /\ call \in [Callers -> CallRecord]
      /\ heap[b] \in Bucket
  BY LimiterAssumption DEF LInv, LimiterTypeOK, Time
<1>4. ASSUME NEW p \in Callers, NEW c,
             call' = [call EXCEPT ![p] = c], UNCHANGED <<clock, heap>>,
             Waits(c) => (Waits(call[p]) /\ c.now = call[p].now) \/ c.now = clock
      PROVE  Alone
  BY <1>3, <1>4
<1>5. ASSUME NEW p \in Callers, LoadOrStore(p)
      PROVE  \E N \in SUBSET (Callers \X Nat) : Ledger(b, N)'
  <2> DEFINE k == call[p].key
  <2>1. call[p] \in CallRecord /\ k \in Keys /\ Waits(call[p]) /\ clock' = clock
    BY <1>3, <1>5, Inside DEF LoadOrStore, Waits
  <2>2. CASE /\ call' = [call EXCEPT ![p].pc = "touch", ![p].entry = m[k]]
             /\ UNCHANGED <<m, heap, made>>
    <3> DEFINE c == [call[p] EXCEPT !.pc = "touch", !.entry = m[k]]
    <3>1. c.now = call[p].now /\ call' = [call EXCEPT ![p] = c]
      BY <1>3, <2>1, <2>2 DEF CallRecord
    <3> HIDE DEF c
    <3> QED BY <1>1, <1>2, <1>4, <2>1, <2>2, <3>1
  <2>3. CASE /\ heap' = [heap EXCEPT ![made + 1] = NewLimiter(call[p].now, Oldest(k))]
             /\ call' = [call EXCEPT ![p].pc = "touch", ![p].entry = made + 1]
    <3> DEFINE c == [call[p] EXCEPT !.pc = "touch", !.entry = made + 1]
    <3>1. c.now = call[p].now /\ call' = [call EXCEPT ![p] = c]
      BY <1>3, <2>1, <2>3 DEF CallRecord
    <3> HIDE DEF c
    <3>2. call'[p].now = call[p].now /\ \A q \in Callers \ {p} : call'[q] = call[q]
      BY <1>3, <3>1
    <3>3. CASE b = made + 1
      <4>1. heap'[b] = NewLimiter(call[p].now, Oldest(k))
        BY <1>3, <2>3, <3>3
      <4>2. Ledger(b, {})'
        BY <2>1, <3>2, <4>1, LedgerOpens
      <4> QED BY <4>2
    <3>4. CASE b # made + 1
      <4>1. heap'[b] = heap[b]
        BY <1>3, <2>3, <3>4
      <4>2. Alone
        BY <1>3, <2>1, <3>2, <4>1
      <4> QED BY <1>1, <1>2, <4>2
    <3> QED BY <3>3, <3>4
  <2> QED BY <1>5, <2>2, <2>3 DEF LoadOrStore
<1>6. ASSUME NEW p \in Callers, Take(p)
      PROVE  \E N \in SUBSET (Callers \X Nat) : Ledger(b, N)'
  <2> DEFINE t == call[p].now
             e == call[p].entry
  <2>1. call[p] \in CallRecord /\ e \in Buckets /\ call[p].pc = "take" /\ clock' = clock
    BY <1>3, <1>6, Inside DEF Take
  <2>2. ASSUME NEW pc \in {"granted", "refused"}, call' = [call EXCEPT ![p].pc = pc]
        PROVE  ~Waits(call[p])' /\ \A q \in Callers \ {p} : call'[q] = call[q]
    BY <1>3, <2>1, <2>2 DEF Waits, CallRecord
  <2>3. CASE /\ CreditAt(heap[e], t) >= Cost
             /\ heap' = [heap EXCEPT ![e] = AllowN(@, t)]
             /\ call' = [call EXCEPT ![p].pc = "granted"]
    <3>1. ~Waits(call[p])' /\ \A q \in Callers \ {p} : call'[q] = call[q]
      BY <2>2, <2>3
    <3>2. CASE b = e
      <4>1. heap'[b] = AllowN(heap[b], t) /\ CreditAt(heap[b], t) >= Cost
        BY <1>3, <2>1, <2>3, <3>2
      <4> HIDE DEF t
      <4> QED BY <1>1, <2>1, <3>1, <3>2, <4>1, LedgerGrants DEF t
    <3>3. CASE b # e
      <4>1. heap'[b] = heap[b]
        BY <1>3, <2>3, <3>3
      <4>2. Alone
        BY <1>3, <2>1, <3>1, <4>1
      <4> QED BY <1>1, <1>2, <4>2
    <3> QED BY <3>2, <3>3
  <2>4. CASE UNCHANGED heap /\ call' = [call EXCEPT ![p].pc = "refused"]
    <3>1. ~Waits(call[p])' /\ \A q \in Callers \ {p} : call'[q] = call[q]
      BY <2>2, <2>4
    <3>2. Alone
      BY <1>3, <2>1, <2>4, <3>1
    <3> QED BY <1>1, <1>2, <3>2
  <2> QED BY <1>6, <2>3, <2>4 DEF Take
<1>7. ASSUME NEW p \in Callers, Touch(p) PROVE Alone
  <2> DEFINE e == call[p].entry
             h == [heap[e] EXCEPT !.lastSeen = call[p].now]
             c == [call[p] EXCEPT !.pc = "take"]
  <2>1. call[p] \in CallRecord /\ e \in Buckets /\ heap[e] \in Bucket /\ clock' = clock
        /\ Waits(call[p])
    BY <1>3, <1>7, Inside DEF Touch, Waits
  <2>2. c.now = call[p].now /\ call' = [call EXCEPT ![p] = c]
    BY <1>3, <1>7, <2>1 DEF Touch, CallRecord
  <2>3. /\ h.credit = heap[e].credit /\ h.last = heap[e].last
        /\ h.since = heap[e].since /\ h.spent = heap[e].spent
        /\ heap' = [heap EXCEPT ![e] = h]
    BY <1>3, <1>7, <2>1 DEF Touch, Bucket
  <2> HIDE DEF c, h
  <2>4. /\ heap'[b].credit = heap[b].credit /\ heap'[b].last = heap[b].last
        /\ heap'[b].since = heap[b].since /\ heap'[b].spent = heap[b].spent
    BY <1>3, <2>3
  <2> QED BY <1>3, <2>1, <2>2, <2>4
<1>8. ASSUME NEW p \in Callers, Load(p) PROVE Alone
  <2> DEFINE e == m[call[p].key]
             c == [call[p] EXCEPT !.pc = IF e = 0 THEN "store" ELSE "touch", !.entry = e]
  <2>1. call[p] \in CallRecord /\ Waits(call[p]) /\ UNCHANGED <<clock, heap>>
    BY <1>3, <1>8 DEF Load, Waits
  <2>2. c.now = call[p].now /\ call' = [call EXCEPT ![p] = c]
    BY <1>3, <1>8, <2>1 DEF Load, CallRecord
  <2> HIDE DEF c
  <2> QED BY <1>4, <2>1, <2>2
<1>9. ASSUME NEW p \in Callers, Return(p) PROVE Alone
  <2>1. ~Waits(Idle)
    BY DEF Waits, Idle
  <2> QED BY <1>4, <1>9, <2>1 DEF Return
<1>10. ASSUME NEW p \in Callers, NEW k \in Keys, Call(p, k) PROVE Alone
  <2> DEFINE c == [pc |-> "load", key |-> k, now |-> clock, entry |-> 0]
  <2>1. c.now = clock
    OBVIOUS
  <2>2. call' = [call EXCEPT ![p] = c] /\ UNCHANGED <<clock, heap>>
    BY <1>10 DEF Call
  <2> HIDE DEF c
  <2> QED BY <1>4, <2>1, <2>2
<1>11. ASSUME UNCHANGED <<heap, call>>, clock <= clock' PROVE Alone
  BY <1>3, <1>11 DEF Waits
<1>12. CASE Background
  <2>1. UNCHANGED <<heap, call>> /\ (clock' = clock \/ clock' = clock + 1)
    BY <1>12 DEF Background, Advance, SweepStart, SweepEnd, SweepVisit, SweepDelete
  <2>2. clock <= clock'
    BY <1>3, <2>1
  <2> QED BY <1>1, <1>2, <1>11, <2>1, <2>2
<1>13. CASE UNCHANGED limiterVars
  <2>1. UNCHANGED <<heap, call>> /\ clock <= clock'
    BY <1>3, <1>13 DEF limiterVars
  <2> QED BY <1>1, <1>2, <1>11, <2>1
<1> HIDE DEF Alone
<1>14. CASE \E p \in Callers : AllowStep(p) \/ Return(p)
  BY <1>1, <1>2, <1>5, <1>6, <1>7, <1>8, <1>9, <1>14 DEF AllowStep
<1>15. CASE \E p \in Callers, k \in Keys : Call(p, k)
  BY <1>1, <1>2, <1>10, <1>15
<1> QED BY <1>12, <1>13, <1>14, <1>15 DEF LimiterNext

(* No entry has spent anything when the gateway starts. *)
LEMMA AccountInitial == LimiterInit => Accounted
<1> SUFFICES ASSUME LimiterInit, NEW b \in Buckets PROVE Ledger(b, {})
  BY DEF Accounted
<1>1. /\ heap[b].credit = Cap /\ heap[b].spent = 0 /\ heap[b].last = 0 /\ heap[b].since = 0
      /\ clock = 0
  BY DEF LimiterInit, NewLimiter
<1>2. Cardinality({}) = 0
  BY FS_EmptySet
<1>3. \A x \in 0 + 1 .. 0 : FALSE
  OBVIOUS
<1> QED BY <1>1, <1>2, <1>3, LimiterAssumption DEF Ledger

(* No entry grants more than its burst and, for every call that may be in flight,
   the time it has lived, whatever the order in which the calls reach AllowN. *)
THEOREM QuotaIsHonoured == LimiterSpec => []QuotaHonoured
<1>1. LInv /\ Accounted => QuotaHonoured
  <2> SUFFICES ASSUME LInv, Accounted, NEW b \in 1 .. made
               PROVE  heap[b].spent <= Cap + Cardinality(Callers) * (clock - heap[b].since)
    BY DEF QuotaHonoured, Quota
  <2> DEFINE s == heap[b].since
             l == heap[b].last
             d == heap[b].credit
             e == heap[b].spent
             n == Cardinality(Callers) * (clock - s)
  <2>1. b \in Buckets /\ heap[b] \in Bucket /\ clock \in Nat
    BY LimiterAssumption DEF LInv, LimiterTypeOK, Buckets, Time
  <2>2. /\ s \in Nat /\ l \in Nat /\ d \in Nat /\ e \in Nat /\ Cap \in Nat
        /\ s <= l /\ l <= clock
    BY <2>1, LimiterAssumption DEF LInv, ReadingsPast, Since, Bucket, Time
  <2>3. PICK L \in SUBSET (Callers \X Nat) : Ledger(b, L)
    BY <2>1 DEF Accounted
  <2>4. /\ L \subseteq Callers \X (s + 1 .. clock)
        /\ d + e <= Cap + (l - s) + Cardinality(L)
        /\ \A x \in s + 1 .. clock : x <= l => \E p \in Callers : <<p, x>> \notin L
    BY <2>3 DEF Ledger
  <2> HIDE DEF s, l, d, e
  <2>5. \A x \in s + 1 .. l : \E p \in Callers : <<p, x>> \notin L
    BY <2>1, <2>2, <2>4
  <2>6. (l - s) + Cardinality(L) <= n
    BY <2>1, <2>2, <2>4, <2>5, LedgerBound, LimiterAssumption
  <2>7. Cardinality(L) \in Nat
    BY <2>1, <2>2, <2>4, ListsFinite
  <2>8. n \in Int
    <3>1. Cardinality(Callers) \in Nat
      BY FS_CardinalityType, LimiterAssumption
    <3> QED BY <2>1, <2>2, <3>1
  <2> HIDE DEF n
  <2>9. e <= Cap + n
    BY <2>2, <2>4, <2>6, <2>7, <2>8
  <2> QED BY <2>9 DEF e, n, s
<1>2. LimiterInit => LInv /\ Accounted
  BY LimiterInitial, AccountInitial
<1>3. LInv /\ Accounted /\ [LimiterNext]_limiterVars => (LInv /\ Accounted)'
  BY LimiterStep, AccountStep
<1> QED BY <1>1, <1>2, <1>3, PTL DEF LimiterSpec

(* Concurrent callers of an identity share the entry in the map, unless it was
   evicted under them. *)
THEOREM BucketsAreShared == LimiterSpec => []OneBucketPerKey
BY LimiterInvariant, PTL DEF LInv

(* An eviction gives no credit but in the two races the property names. *)
THEOREM EvictionsAreNeutral == LimiterSpec => EvictionIsNeutral
<1> DEFINE Neutral(s, k) ==
        m[k] # 0 => LET b == heap[m[k]]
                    IN  \/ CreditAt(b, clock) = Cap
                        \/ b.lastSeen # jan[s].seen[k]
                        \/ b.lastSeen < b.last
<1>1. ASSUME LInv, NEW s \in Stores, NEW k \in jan[s].stale
      PROVE  Neutral(s, k)
  <2> SUFFICES ASSUME m[k] # 0, heap[m[k]].lastSeen = jan[s].seen[k],
                      ~(heap[m[k]].lastSeen < heap[m[k]].last)
               PROVE  CreditAt(heap[m[k]], clock) = Cap
    OBVIOUS
  <2>0. jan[s] \in JanitorRecord /\ jan[s].now - jan[s].seen[k] > TTL
        /\ jan[s].now <= clock /\ clock \in Nat
    BY <1>1 DEF LInv, LimiterTypeOK, Noted, ReadingsPast, Time
  <2>1. k \in Keys /\ jan[s].now \in Nat /\ jan[s].seen[k] \in Nat
    BY <1>1, <2>0 DEF JanitorRecord, Time
  <2>2. heap[m[k]] \in Bucket
    <3>1. m[k] \in Buckets
      BY <1>1, <2>1, LimiterAssumption DEF LInv, LimiterTypeOK, Buckets
    <3> QED BY <1>1, <3>1 DEF LInv, LimiterTypeOK
  <2>3. heap[m[k]].credit \in Nat /\ heap[m[k]].last \in Nat /\ heap[m[k]].lastSeen \in Nat
    BY <2>2, LimiterAssumption DEF Bucket, Time
  <2> QED BY <2>0, <2>1, <2>3, LimiterAssumption DEF CreditAt
<1>2. LInv /\ [LimiterNext]_limiterVars =>
        [\A s \in Stores : \A k \in jan[s].stale \ jan'[s].stale : Neutral(s, k)]_limiterVars
  BY <1>1
<1> QED BY <1>2, LimiterInvariant, PTL DEF LimiterSpec, EvictionIsNeutral
=============================================================================
