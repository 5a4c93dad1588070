----------------------------- MODULE RateLimit -----------------------------
(***************************************************************************)
(* middleware.rateLimiter: one token bucket (rate.Limiter) for each client *)
(* address or user id, kept in a map under a mutex.  A request looks its   *)
(* limiter up in one critical section and calls Allow on it after the      *)
(* unlock; a goroutine drops from time to time the visitors not seen for   *)
(* staleTimeout, so that the next request of that key starts a new bucket. *)
(*                                                                         *)
(* A tick is the time in which one token refills.  All three limits of the *)
(* server (10, 60 and 120 a minute) refill their burst in one minute.      *)
(***************************************************************************)
EXTENDS Naturals

CONSTANTS
    Keys,        \* client addresses and user ids
    Requests,    \* requests at a time
    Limiters,    \* rate.Limiter objects
    Burst,       \* tokens of a full limiter
    Stale,       \* staleTimeout, in ticks
    MaxLag,      \* bound on the ticks between a request's lookup and its Allow
    NoLimiter, NoKey

ASSUME RateLimitAssumption ==
    /\ Burst \in Nat /\ Stale \in Nat /\ MaxLag \in Nat
    /\ NoLimiter \notin Limiters /\ NoKey \notin Keys
    \* A minute to refill, three minutes to be stale: two are left for the lag.
    /\ Burst + MaxLag <= Stale

VARIABLES
    visitors,    \* key -> its limiter
    age,         \* key -> ticks since lastSeen, up to Stale + 1
    tokens,      \* limiter -> tokens left
    call         \* request -> the limiter it looked up, how long ago, its verdict

lvars == <<visitors, age, tokens, call>>

Verdicts == {"none", "pending", "allowed", "refused"}

\* A request that holds no limiter, and one that waits between get and Allow.
Told(v) == [verdict |-> v, key |-> NoKey, limiter |-> NoLimiter, lag |-> 0]
Waiting(k, l, n) == [verdict |-> "pending", key |-> k, limiter |-> l, lag |-> n]

NoCall == Told("none")

LTypeOK ==
    /\ visitors \in [Keys -> Limiters \cup {NoLimiter}]
    /\ age \in [Keys -> 0 .. Stale + 1]
    /\ tokens \in [Limiters -> 0 .. Burst]
    /\ call \in [Requests -> [verdict: Verdicts, key: Keys \cup {NoKey},
                              limiter: Limiters \cup {NoLimiter}, lag: 0 .. MaxLag]]

LInit ==
    /\ visitors = [k \in Keys |-> NoLimiter]
    /\ age = [k \in Keys |-> 0]
    /\ tokens = [l \in Limiters |-> Burst]
    /\ call = [r \in Requests |-> NoCall]

Known(k) == visitors[k] # NoLimiter

Fresh(l) ==
    /\ \A k \in Keys : visitors[k] # l
    /\ \A r \in Requests : call[r].limiter # l

-----------------------------------------------------------------------------

GetUnseen(r, k) ==
    /\ call[r].verdict = "none"
    /\ \E l \in Limiters :
          /\ IF Known(k)
             THEN l = visitors[k] /\ UNCHANGED tokens
             ELSE Fresh(l) /\ tokens' = [tokens EXCEPT ![l] = Burst]
          /\ visitors' = [visitors EXCEPT ![k] = l]
          /\ call' = [call EXCEPT ![r] = Waiting(k, l, 0)]
    /\ UNCHANGED age

\* get, under the mutex: the key's visitor, or a new one with a full bucket.
Get(r, k) ==
    /\ call[r].verdict = "none"
    /\ \E l \in Limiters :
          /\ IF Known(k)
             THEN l = visitors[k] /\ UNCHANGED tokens
             ELSE Fresh(l) /\ tokens' = [tokens EXCEPT ![l] = Burst]
          /\ visitors' = [visitors EXCEPT ![k] = l]
          /\ call' = [call EXCEPT ![r] = Waiting(k, l, 0)]
    /\ age' = [age EXCEPT ![k] = 0]

\* Allow, after the unlock, on the limiter that was looked up.
Allow(r) ==
    /\ call[r].verdict = "pending"
    /\ LET l == call[r].limiter IN
       IF tokens[l] > 0
       THEN /\ tokens' = [tokens EXCEPT ![l] = @ - 1]
            /\ call' = [call EXCEPT ![r] = Told("allowed")]
       ELSE /\ call' = [call EXCEPT ![r] = Told("refused")]
            /\ UNCHANGED tokens
    /\ UNCHANGED <<visitors, age>>

\* The request has been answered.
Leave(r) ==
    /\ call[r].verdict \in {"allowed", "refused"}
    /\ call' = [call EXCEPT ![r] = NoCall]
    /\ UNCHANGED <<visitors, age, tokens>>

\* One pass of the cleanup goroutine, under the mutex.  It sleeps cleanupInterval
\* between two passes; here a pass may happen at any time.
SeenBeforeNow(k) == Known(k) /\ age[k] > 0

IsStale(k) == Known(k) /\ age[k] > Stale

Cleanup ==
    /\ \E k \in Keys : IsStale(k)
    /\ visitors' = [k \in Keys |-> IF IsStale(k) THEN NoLimiter ELSE visitors[k]]
    /\ age' = [k \in Keys |-> IF IsStale(k) THEN 0 ELSE age[k]]
    /\ UNCHANGED <<tokens, call>>

\* Time passes; no request waits longer than MaxLag for its Allow.
Tick ==
    /\ \A r \in Requests : call[r].verdict = "pending" => call[r].lag < MaxLag
    /\ tokens' = [l \in Limiters |-> IF tokens[l] < Burst THEN tokens[l] + 1 ELSE Burst]
    /\ age' = [k \in Keys |-> IF Known(k) /\ age[k] <= Stale THEN age[k] + 1 ELSE age[k]]
    /\ call' = [r \in Requests |-> IF call[r].verdict = "pending"
                                   THEN Waiting(call[r].key, call[r].limiter, call[r].lag + 1)
                                   ELSE call[r]]
    /\ UNCHANGED visitors

\* The process ends; the next one starts with an empty map.
Restart ==
    /\ visitors' = [k \in Keys |-> NoLimiter]
    /\ age' = [k \in Keys |-> 0]
    /\ tokens' = [l \in Limiters |-> Burst]
    /\ call' = [r \in Requests |-> NoCall]

LNext ==
    \/ Tick
    \/ Cleanup
    \/ Restart
    \/ \E r \in Requests : Allow(r) \/ Leave(r) \/ \E k \in Keys : Get(r, k)

LSpec == LInit /\ [][LNext]_lvars

-----------------------------------------------------------------------------

\* The bucket a client observes: a dropped visitor counts as a full one.
Level == [k \in Keys |-> IF Known(k) THEN tokens[visitors[k]] ELSE Burst]
Verdict == [r \in Requests |-> IF call[r].verdict = "pending" THEN "none" ELSE call[r].verdict]

Abstract == INSTANCE Buckets WITH level <- Level, verdict <- Verdict

\* Dropping idle visitors cannot be observed (ratelimit.go get, cleanup): the
\* limiter admits exactly the requests that one everlasting bucket per key would,
\* whatever the interleaving of lookups, Allow calls and cleanup passes.
ImplementsBuckets == Abstract!BSpec

\* A request that waits between lookup and Allow still holds its key's limiter, so
\* two requests of a key never spend from two buckets (ratelimit.go get, Allow).
OneBucketPerKey ==
    \A r \in Requests :
        call[r].verdict = "pending" => visitors[call[r].key] = call[r].limiter

-----------------------------------------------------------------------------
\* What the proof needs of a reachable state.

BucketsApart ==
    \A j, k \in Keys : Known(k) /\ visitors[j] = visitors[k] => j = k

PendingCall(r) ==
    call[r].verdict = "pending" =>
        /\ call[r].key \in Keys
        /\ call[r].limiter \in Limiters
        /\ visitors[call[r].key] = call[r].limiter
        /\ age[call[r].key] <= call[r].lag

\* A visitor not seen for longer than MaxLag has been refilling since.
Refilled(k) ==
    Known(k) => tokens[visitors[k]] = Burst \/ tokens[visitors[k]] + MaxLag >= age[k]

LInv ==
    /\ LTypeOK
    /\ BucketsApart
    /\ \A r \in Requests : PendingCall(r)
    /\ \A k \in Keys : Refilled(k)
=============================================================================
