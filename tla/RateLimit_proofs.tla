-------------------------- MODULE RateLimit_proofs --------------------------
(***************************************************************************)
(* RateLimit implements Buckets for every set of keys, requests and        *)
(* limiters and every burst that refills, with the lag of a request, in    *)
(* the time a visitor takes to become stale.                               *)
(***************************************************************************)
EXTENDS RateLimit, TLAPS

\* Nobody has been seen when the process starts (ratelimit.go newRateLimiter).
LEMMA LInitInv == LInit => LInv
BY RateLimitAssumption
   DEF LInit, LInv, LTypeOK, BucketsApart, PendingCall, Refilled, Known, NoCall, Told, Verdicts

\* A lookup (ratelimit.go get) keeps the buckets apart and the visitor in the map.
LEMMA GetKeeps ==
    ASSUME LInv, NEW r \in Requests, NEW k \in Keys, Get(r, k)
    PROVE  LInv'
<1> USE RateLimitAssumption
<1>1. PICK l \in Limiters :
          /\ IF Known(k) THEN l = visitors[k] /\ UNCHANGED tokens
             ELSE Fresh(l) /\ tokens' = [tokens EXCEPT ![l] = Burst]
          /\ visitors' = [visitors EXCEPT ![k] = l]
          /\ call' = [call EXCEPT ![r] = Waiting(k, l, 0)]
  BY DEF Get
<1>2. age' = [age EXCEPT ![k] = 0]
  BY DEF Get
<1>3. LTypeOK'
  BY <1>1, <1>2 DEF LInv, LTypeOK, Known, Verdicts, Waiting
<1>4. \A j \in Keys : j # k => visitors[j] # l
  BY <1>1 DEF LInv, LTypeOK, BucketsApart, Known, Fresh
<1>5. BucketsApart'
  BY <1>1, <1>4 DEF LInv, LTypeOK, BucketsApart, Known
<1>6. ASSUME NEW q \in Requests PROVE PendingCall(q)'
  <2>1. CASE q = r
    BY <1>1, <1>2, <2>1 DEF LInv, LTypeOK, PendingCall, Waiting
  <2>2. CASE q # r
    <3>1. PendingCall(q)
      BY DEF LInv
    <3>2. call'[q] = call[q]
      BY <1>1, <2>2 DEF LInv, LTypeOK
    <3>3. ASSUME call[q].verdict = "pending", call[q].key = k PROVE l = visitors[k]
      BY <1>1, <3>1, <3>3 DEF PendingCall, Known
    <3> QED
      BY <1>1, <1>2, <3>1, <3>2, <3>3 DEF LInv, LTypeOK, PendingCall
  <2> QED BY <2>1, <2>2
<1>7. ASSUME NEW j \in Keys PROVE Refilled(j)'
  <2>1. Refilled(j) /\ Refilled(k)
    BY DEF LInv
  <2>2. CASE j = k
    BY <1>1, <1>2, <2>1, <2>2 DEF LInv, LTypeOK, Refilled, Known
  <2>3. CASE j # k
    <3>1. visitors'[j] = visitors[j] /\ age'[j] = age[j]
      BY <1>1, <1>2, <2>3 DEF LInv, LTypeOK
    <3>2. visitors[j] # NoLimiter => tokens'[visitors[j]] = tokens[visitors[j]]
      BY <1>1, <1>4, <2>3 DEF LInv, LTypeOK, Known
    <3> QED BY <2>1, <3>1, <3>2 DEF Refilled, Known
  <2> QED BY <2>2, <2>3
<1> QED BY <1>3, <1>5, <1>6, <1>7 DEF LInv

\* Allow (ratelimit.go, after get) spends from a visitor seen at most a lag ago.
LEMMA AllowKeeps ==
    ASSUME LInv, NEW r \in Requests, Allow(r)
    PROVE  LInv'
<1> USE RateLimitAssumption
<1> DEFINE l == call[r].limiter
           k == call[r].key
<1>1. /\ k \in Keys /\ l \in Limiters /\ visitors[k] = l
      /\ age[k] <= call[r].lag /\ call[r].lag <= MaxLag
  BY DEF LInv, LTypeOK, PendingCall, Allow
<1>2. /\ visitors' = visitors /\ age' = age
      /\ \/ tokens[l] > 0 /\ tokens' = [tokens EXCEPT ![l] = @ - 1]
         \/ tokens' = tokens
      /\ \E v \in {"allowed", "refused"} :
            call' = [call EXCEPT ![r] = Told(v)]
  BY DEF Allow
<1>3. LTypeOK'
  BY <1>1, <1>2 DEF LInv, LTypeOK, NoCall, Told, Verdicts
<1>4. BucketsApart'
  BY <1>2 DEF LInv, BucketsApart, Known
<1>5. ASSUME NEW q \in Requests PROVE PendingCall(q)'
  <2>1. CASE q = r
    BY <1>2, <2>1 DEF LInv, LTypeOK, PendingCall, NoCall, Told
  <2>2. CASE q # r
    BY <1>2, <2>2 DEF LInv, LTypeOK, PendingCall
  <2> QED BY <2>1, <2>2
<1>6. ASSUME NEW j \in Keys PROVE Refilled(j)'
  <2>1. CASE j = k
    BY <1>1, <1>2, <1>3, <2>1 DEF LInv, LTypeOK, Refilled, Known
  <2>2. CASE j # k
    <3>1. Known(j) => visitors[j] # l
      BY <1>1, <2>2 DEF LInv, BucketsApart
    <3> QED BY <1>2, <3>1 DEF LInv, LTypeOK, Refilled, Known
  <2> QED BY <2>1, <2>2
<1> QED BY <1>3, <1>4, <1>5, <1>6 DEF LInv

\* The pending calls hold visitors that are not stale: the cleanup goroutine
\* (ratelimit.go cleanup) never drops one that is in use, and what it drops is full.
LEMMA StaleIsIdleAndFull ==
    ASSUME LInv, NEW k \in Keys, IsStale(k)
    PROVE  /\ \A r \in Requests : call[r].verdict = "pending" => call[r].key # k
           /\ tokens[visitors[k]] = Burst
<1> USE RateLimitAssumption
<1>1. visitors[k] \in Limiters /\ age[k] > Stale /\ Stale >= MaxLag
  BY DEF LInv, LTypeOK, IsStale, Known
<1>2. ASSUME NEW r \in Requests, call[r].verdict = "pending", call[r].key = k
      PROVE  FALSE
  BY <1>1, <1>2 DEF LInv, LTypeOK, PendingCall
<1>3. tokens[visitors[k]] = Burst
  <2>1. Refilled(k) /\ tokens[visitors[k]] \in 0 .. Burst /\ age[k] \in Nat
    BY <1>1 DEF LInv, LTypeOK
  <2> QED BY <1>1, <2>1 DEF Refilled, IsStale
<1> QED BY <1>2, <1>3

\* A cleanup pass (ratelimit.go cleanup).
LEMMA CleanupKeeps ==
    ASSUME LInv, Cleanup
    PROVE  LInv'
<1> USE RateLimitAssumption
<1>1. LTypeOK'
  BY DEF LInv, LTypeOK, Cleanup
<1>2. BucketsApart'
  BY DEF LInv, LTypeOK, BucketsApart, Cleanup, Known, IsStale
<1>3. ASSUME NEW q \in Requests PROVE PendingCall(q)'
  <2>1. PendingCall(q)
    BY DEF LInv
  <2>2. call[q].verdict = "pending" => ~IsStale(call[q].key)
    BY <2>1, StaleIsIdleAndFull DEF PendingCall
  <2> QED BY <2>1, <2>2 DEF LInv, LTypeOK, PendingCall, Cleanup
<1>4. ASSUME NEW j \in Keys PROVE Refilled(j)'
  BY DEF LInv, LTypeOK, Refilled, Cleanup, Known, IsStale
<1> QED BY <1>1, <1>2, <1>3, <1>4 DEF LInv

\* Time passes: the tokens of a limiter keep up with the age of its visitor.
LEMMA TickKeeps ==
    ASSUME LInv, Tick
    PROVE  LInv'
<1> USE RateLimitAssumption
<1>1. LTypeOK'
  BY DEF LInv, LTypeOK, Tick, Waiting, Verdicts
<1>2. BucketsApart'
  BY DEF LInv, BucketsApart, Tick, Known
<1>3. ASSUME NEW q \in Requests PROVE PendingCall(q)'
  <2>1. CASE call[q].verdict = "pending"
    <3>1. /\ call'[q].key = call[q].key /\ call'[q].lag = call[q].lag + 1
          /\ call'[q].limiter = call[q].limiter
      BY <2>1 DEF LInv, LTypeOK, Tick, Waiting
    <3>2. age'[call[q].key] <= age[call[q].key] + 1 /\ age[call[q].key] \in Nat
      BY <2>1 DEF LInv, LTypeOK, Tick, PendingCall
    <3> QED BY <2>1, <3>1, <3>2 DEF LInv, LTypeOK, PendingCall, Tick
  <2>2. CASE call[q].verdict # "pending"
    BY <2>2 DEF LInv, LTypeOK, PendingCall, Tick
  <2> QED BY <2>1, <2>2
<1>4. ASSUME NEW j \in Keys PROVE Refilled(j)'
  <2>1. CASE Known(j)
    <3>1. visitors[j] \in Limiters /\ Refilled(j)
      BY <2>1 DEF LInv, LTypeOK, Known
    <3>2. /\ tokens[visitors[j]] \in 0 .. Burst /\ age[j] \in 0 .. Stale + 1
          /\ age'[j] <= age[j] + 1 /\ age'[j] \in Nat
          /\ visitors' = visitors
          /\ tokens'[visitors[j]] = IF tokens[visitors[j]] < Burst
                                    THEN tokens[visitors[j]] + 1 ELSE Burst
      BY <2>1, <3>1 DEF LInv, LTypeOK, Tick
    <3> QED BY <2>1, <3>1, <3>2 DEF Refilled, Known
  <2>2. CASE ~Known(j)
    BY <2>2 DEF Refilled, Tick, Known
  <2> QED BY <2>1, <2>2
<1> QED BY <1>1, <1>2, <1>3, <1>4 DEF LInv

\* Every step of the limiter keeps its invariant.
LEMMA LNextInv == LInv /\ [LNext]_lvars => LInv'
<1> SUFFICES ASSUME LInv, [LNext]_lvars PROVE LInv'
  OBVIOUS
<1>1. CASE Tick BY <1>1, TickKeeps
<1>2. CASE Cleanup BY <1>2, CleanupKeeps
<1>3. CASE Restart
  <2>1. LInit' BY <1>3 DEF Restart, LInit
  <2> QED BY <2>1, RateLimitAssumption
          DEF LInit, LInv, LTypeOK, BucketsApart, PendingCall, Refilled, Known, NoCall, Told, Verdicts
<1>4. ASSUME NEW r \in Requests, Allow(r) PROVE LInv'
  BY <1>4, AllowKeeps
<1>5. ASSUME NEW r \in Requests, Leave(r) PROVE LInv'
  BY <1>5, RateLimitAssumption
     DEF Leave, LInv, LTypeOK, BucketsApart, PendingCall, Refilled, Known, NoCall, Told, Verdicts
<1>6. ASSUME NEW r \in Requests, NEW k \in Keys, Get(r, k) PROVE LInv'
  BY <1>6, GetKeeps
<1>7. CASE UNCHANGED lvars
  BY <1>7 DEF lvars, LInv, LTypeOK, BucketsApart, PendingCall, Refilled, Known
<1> QED BY <1>1, <1>2, <1>3, <1>4, <1>5, <1>6, <1>7 DEF LNext

\* The invariant of the limiter: types, one limiter per visitor, a waiting request
\* holds its key's limiter, an idle one has refilled (ratelimit.go get, cleanup).
THEOREM LimiterInvariant == LSpec => []LInv
BY LInitInv, LNextInv, PTL DEF LSpec

\* Two requests of a key never spend from two buckets (ratelimit.go get, Allow).
THEOREM RequestsShareBucket == LSpec => []OneBucketPerKey
<1>1. LInv => OneBucketPerKey
  BY DEF LInv, PendingCall, OneBucketPerKey
<1> QED BY <1>1, LimiterInvariant, PTL

-----------------------------------------------------------------------------
\* The refinement, one lemma per kind of step.

\* The bucket of a key is its limiter's, or a full one (ratelimit.go get).
LEMMA LevelValue ==
    ASSUME NEW k \in Keys
    PROVE  Level[k] = IF Known(k) THEN tokens[visitors[k]] ELSE Burst
BY DEF Level

\* A lookup is invisible: a new visitor's bucket is full, as an absent one's.
LEMMA GetStutters ==
    ASSUME LInv, NEW r \in Requests, NEW k \in Keys, Get(r, k)
    PROVE  Level' = Level /\ Verdict' = Verdict
<1> USE RateLimitAssumption
<1>1. PICK l \in Limiters :
          /\ IF Known(k) THEN l = visitors[k] /\ UNCHANGED tokens
             ELSE Fresh(l) /\ tokens' = [tokens EXCEPT ![l] = Burst]
          /\ visitors' = [visitors EXCEPT ![k] = l]
          /\ call' = [call EXCEPT ![r] = Waiting(k, l, 0)]
  BY DEF Get
<1>2. ASSUME NEW j \in Keys PROVE (IF Known(j) THEN tokens[visitors[j]] ELSE Burst)' =
                                  IF Known(j) THEN tokens[visitors[j]] ELSE Burst
  <2>1. CASE Known(k)
    <3>1. visitors' = visitors /\ tokens' = tokens
      BY <1>1, <2>1 DEF LInv, LTypeOK
    <3> QED BY <3>1 DEF Known
  <2>2. CASE ~Known(k) /\ j = k
    BY <1>1, <2>2 DEF LInv, LTypeOK, Known
  <2>3. CASE ~Known(k) /\ j # k
    <3>1. visitors'[j] = visitors[j] /\ visitors[j] # l
      BY <1>1, <2>3 DEF LInv, LTypeOK, Fresh
    <3>2. visitors[j] \in Limiters => tokens'[visitors[j]] = tokens[visitors[j]]
      BY <1>1, <2>3, <3>1 DEF LInv, LTypeOK
    <3> QED BY <3>1, <3>2 DEF LInv, LTypeOK, Known
  <2> QED BY <2>1, <2>2, <2>3
<1>3. Level' = Level
  BY <1>2, Zenon DEF Level
<1>4. ASSUME NEW q \in Requests
      PROVE (IF call[q].verdict = "pending" THEN "none" ELSE call[q].verdict)' =
            IF call[q].verdict = "pending" THEN "none" ELSE call[q].verdict
  BY <1>1 DEF LInv, LTypeOK, Waiting, Get
<1>5. Verdict' = Verdict
  BY <1>4, Zenon DEF Verdict
<1> QED BY <1>3, <1>5

\* A cleanup pass is invisible: what it drops is full.
LEMMA CleanupStutters ==
    ASSUME LInv, Cleanup
    PROVE  Level' = Level /\ Verdict' = Verdict
<1>1. ASSUME NEW j \in Keys PROVE (IF Known(j) THEN tokens[visitors[j]] ELSE Burst)' =
                                  IF Known(j) THEN tokens[visitors[j]] ELSE Burst
  <2>1. CASE IsStale(j)
    <3>1. tokens[visitors[j]] = Burst
      BY <2>1, StaleIsIdleAndFull
    <3> QED BY <2>1, <3>1 DEF Cleanup, Known, IsStale
  <2>2. CASE ~IsStale(j)
    BY <2>2 DEF Cleanup, Known
  <2> QED BY <2>1, <2>2
<1>2. Level' = Level
  BY <1>1, Zenon DEF Level
<1>3. Verdict' = Verdict
  BY DEF Verdict, Cleanup
<1> QED BY <1>2, <1>3

\* Time refills the abstract buckets.
LEMMA TickRefills ==
    ASSUME LInv, Tick
    PROVE  Abstract!Refill
<1>1. ASSUME NEW j \in Keys
      PROVE  Level'[j] = IF Level[j] < Burst THEN Level[j] + 1 ELSE Burst
  BY RateLimitAssumption DEF LInv, LTypeOK, Tick, Level, Known
<1>2. Level' = [j \in Keys |-> IF Level[j] < Burst THEN Level[j] + 1 ELSE Burst]
  BY <1>1 DEF Level
<1>3. ASSUME NEW q \in Requests
      PROVE (IF call[q].verdict = "pending" THEN "none" ELSE call[q].verdict)' =
            IF call[q].verdict = "pending" THEN "none" ELSE call[q].verdict
  BY DEF LInv, LTypeOK, Waiting, Tick
<1>4. Verdict' = Verdict
  BY <1>3, Zenon DEF Verdict
<1> QED BY <1>2, <1>4 DEF Abstract!Refill

\* Allow spends a token of the abstract bucket, or finds it empty.
LEMMA AllowDecides ==
    ASSUME LInv, NEW r \in Requests, Allow(r)
    PROVE  \E k \in Keys : Abstract!Pass(r, k) \/ Abstract!Turn(r, k)
<1> USE RateLimitAssumption
<1> DEFINE l == call[r].limiter
           k == call[r].key
<1>1. /\ k \in Keys /\ l \in Limiters /\ visitors[k] = l /\ Known(k)
      /\ Level[k] = tokens[l] /\ Verdict[r] = "none"
  BY DEF LInv, LTypeOK, PendingCall, Allow, Known, Level, Verdict
<1>2. visitors' = visitors
  BY DEF Allow
<1>3. CASE tokens[l] > 0
  <2>1. tokens' = [tokens EXCEPT ![l] = @ - 1] /\ call' = [call EXCEPT ![r] = Told("allowed")]
    BY <1>3 DEF Allow
  <2>2. ASSUME NEW j \in Keys PROVE Level'[j] = IF j = k THEN Level[j] - 1 ELSE Level[j]
    <3>1. CASE j = k
      BY <1>1, <1>2, <2>1, <3>1 DEF LInv, LTypeOK, Level, Known
    <3>2. CASE j # k
      <4>1. visitors[j] # l
        BY <1>1, <3>2 DEF LInv, BucketsApart
      <4> QED BY <1>2, <2>1, <3>2, <4>1 DEF LInv, LTypeOK, Level, Known
    <3> QED BY <3>1, <3>2
  <2>3. Level' = [Level EXCEPT ![k] = @ - 1]
    BY <2>2, <1>1 DEF Level
  <2>4. Verdict' = [Verdict EXCEPT ![r] = "allowed"]
    BY <2>1 DEF LInv, LTypeOK, Verdict, Told
  <2> QED BY <1>1, <1>3, <2>3, <2>4 DEF Abstract!Pass
<1>4. CASE ~(tokens[l] > 0)
  <2>1. tokens' = tokens /\ call' = [call EXCEPT ![r] = Told("refused")]
    BY <1>4 DEF Allow
  <2>2. Level' = Level
    BY <1>2, <2>1 DEF Level, Known
  <2>3. Verdict' = [Verdict EXCEPT ![r] = "refused"]
    BY <2>1 DEF LInv, LTypeOK, Verdict, Told
  <2>4. Level[k] = 0
    BY <1>1, <1>4 DEF LInv, LTypeOK
  <2> QED BY <1>1, <2>2, <2>3, <2>4 DEF Abstract!Turn
<1> QED BY <1>3, <1>4

\* The limiter implements everlasting buckets: no client can tell that idle visitors
\* are dropped (ratelimit.go get, cleanup).
THEOREM LimiterImplementsBuckets == LSpec => ImplementsBuckets
<1>1. LInit => Abstract!BInit
  BY DEF LInit, Abstract!BInit, Level, Verdict, Known, NoCall, Told
<1>2. LInv /\ [LNext]_lvars => [Abstract!BNext]_(Abstract!bvars)
  <2> SUFFICES ASSUME LInv, [LNext]_lvars PROVE [Abstract!BNext]_(Abstract!bvars)
    OBVIOUS
  <2>1. CASE Tick
    BY <2>1, TickRefills DEF Abstract!BNext
  <2>2. CASE Cleanup
    BY <2>2, CleanupStutters DEF Abstract!bvars
  <2>3. CASE Restart
    BY <2>3 DEF Restart, Abstract!BNext, Abstract!Reset, Level, Verdict, Known, NoCall, Told
  <2>4. ASSUME NEW r \in Requests, Allow(r) PROVE Abstract!BNext
    BY <2>4, AllowDecides DEF Abstract!BNext
  <2>5. ASSUME NEW r \in Requests, Leave(r) PROVE Abstract!BNext
    <3>1. Level' = Level
      BY <2>5 DEF Leave, Level, Known
    <3>2. Verdict' = [Verdict EXCEPT ![r] = "none"]
      BY <2>5 DEF Leave, LInv, LTypeOK, Verdict, NoCall, Told
    <3> QED BY <3>1, <3>2 DEF Abstract!BNext, Abstract!Forget
  <2>6. ASSUME NEW r \in Requests, NEW k \in Keys, Get(r, k)
        PROVE  UNCHANGED Abstract!bvars
    BY <2>6, GetStutters DEF Abstract!bvars
  <2>7. CASE UNCHANGED lvars
    BY <2>7 DEF lvars, Abstract!bvars, Level, Verdict, Known
  <2> QED BY <2>1, <2>2, <2>3, <2>4, <2>5, <2>6, <2>7 DEF LNext
<1> QED BY <1>1, <1>2, LimiterInvariant, PTL DEF LSpec, ImplementsBuckets, Abstract!BSpec
=============================================================================
