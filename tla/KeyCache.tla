------------------------------ MODULE KeyCache ------------------------------
(***************************************************************************)
(* ValidateToken of providers/identity and its jwksCache: the provider's   *)
(* signing keys, fetched when a token names a key that is not cached or    *)
(* the cache is older than its TTL.  One mutex is held from the look at    *)
(* the cache to the end of the fetch, so that validations wait for each    *)
(* other; the provider publishes and withdraws keys meanwhile, and a fetch *)
(* may fail.                                                               *)
(***************************************************************************)
EXTENDS Naturals

CONSTANTS
    Kids,        \* key ids at the provider
    Usable,      \* those of RSA signing keys, which the cache accepts
    Requests,    \* requests at a time
    TTL,         \* jwksCacheTTL
    FetchTime,   \* the timeout of the http client
    MaxTime,     \* bound on the clock
    Nobody

ASSUME KeyCacheAssumption ==
    /\ Usable \subseteq Kids /\ Usable # {}
    /\ TTL \in Nat \ {0} /\ FetchTime \in Nat /\ MaxTime \in Nat
    /\ Nobody \notin Requests

VARIABLES
    now,
    published,   \* keys the provider publishes
    leftAt,      \* key -> when it was withdrawn, 0 while it is published
    keys,        \* cached keys
    expiresAt,   \* until when they are served
    owner,       \* who holds the mutex
    check        \* request -> its lookup of a key

kvars == <<now, published, leftAt, keys, expiresAt, owner, check>>
cache == <<keys, expiresAt>>
provider == <<now, published, leftAt>>

Fetching == {"fetching", "answered"}
Places == {"none", "locking", "found", "missing", "failed"} \cup Fetching

\* A lookup: where it is and since when, the key, the provider's answer, and
\* whether the key was unpublished at some moment of it.
Lookup == [at: Places, kid: Usable, since: 0 .. MaxTime, answer: SUBSET Kids, out: BOOLEAN]
NoLookup == [at |-> "none", kid |-> CHOOSE k \in Usable : TRUE, since |-> 0,
             answer |-> {}, out |-> FALSE]

Outdated(c) ==
    [at |-> c.at, kid |-> c.kid, since |-> c.since, answer |-> c.answer, out |-> TRUE]

KTypeOK ==
    /\ now \in 0 .. MaxTime
    /\ published \subseteq Kids
    /\ leftAt \in [Kids -> 0 .. MaxTime]
    /\ keys \subseteq Usable
    /\ expiresAt \in 0 .. MaxTime + TTL
    /\ owner \in Requests \cup {Nobody}
    /\ check \in [Requests -> Lookup]

KInit ==
    /\ now = 0
    /\ published = Kids
    /\ leftAt = [k \in Kids |-> 0]
    /\ keys = {} /\ expiresAt = 0
    /\ owner = Nobody
    /\ check = [r \in Requests |-> NoLookup]

-----------------------------------------------------------------------------
\* The provider and the clock.

Publish(k) ==
    /\ k \notin published
    /\ published' = published \cup {k}
    /\ leftAt' = [leftAt EXCEPT ![k] = 0]
    /\ UNCHANGED <<now, cache, owner, check>>

Withdraw(k) ==
    /\ k \in published
    /\ published' = published \ {k}
    /\ leftAt' = [leftAt EXCEPT ![k] = now]
    /\ check' = [r \in Requests |->
                    IF check[r].at # "none" /\ check[r].kid = k THEN Outdated(check[r])
                    ELSE check[r]]
    /\ UNCHANGED <<now, cache, owner>>

\* The client gives a fetch up after FetchTime.
Tick ==
    /\ now < MaxTime
    /\ \A r \in Requests : check[r].at \in Fetching => now < check[r].since + FetchTime
    /\ now' = now + 1
    /\ UNCHANGED <<published, leftAt, cache, owner, check>>

-----------------------------------------------------------------------------
\* A validation.

Look(r, k) ==
    /\ check[r].at = "none"
    /\ check' = [check EXCEPT ![r] = [at |-> "locking", kid |-> k, since |-> now,
                                      answer |-> {}, out |-> k \notin published]]
    /\ UNCHANGED <<provider, cache, owner>>

Settle(r, place) == check' = [check EXCEPT ![r].at = place, ![r].since = now]

FreshOnArrival(r) == check[r].since < expiresAt

\* The clock is read with the mutex held.
Fresh(r) == now < expiresAt

Waiting(r) == check[r].at = "locking" /\ owner = Nobody

LockTrustingFresh(r) ==
    /\ Waiting(r)
    /\ IF Fresh(r)
       THEN /\ Settle(r, IF check[r].kid \in keys THEN "found" ELSE "missing")
            /\ owner' = owner
       ELSE Settle(r, "fetching") /\ owner' = r
    /\ UNCHANGED <<provider, cache>>

\* A fresh cache that has the key answers, and else the keys are fetched.
Lock(r) ==
    /\ Waiting(r)
    /\ IF Fresh(r) /\ check[r].kid \in keys
       THEN Settle(r, "found") /\ owner' = owner
       ELSE Settle(r, "fetching") /\ owner' = r
    /\ UNCHANGED <<provider, cache>>

\* The provider answers with what it publishes at that moment.
Respond(r) ==
    /\ check[r].at = "fetching"
    /\ check' = [check EXCEPT ![r].at = "answered", ![r].answer = published]
    /\ UNCHANGED <<provider, cache, owner>>

\* JWK.rsaPublicKey: keys of another type or use are skipped.
Accepted(answer) == answer \cap Usable

\* The whole cache is replaced by the keys of the answer.
Store(r) ==
    /\ check[r].at = "answered"
    /\ keys' = Accepted(check[r].answer)
    /\ expiresAt' = now + TTL
    /\ owner' = Nobody
    /\ check' = [check EXCEPT ![r].at = IF check[r].kid \in keys' THEN "found" ELSE "missing",
                              ![r].since = now, ![r].answer = {}]
    /\ UNCHANGED provider

FetchFailsLocked(r) ==
    /\ check[r].at \in Fetching
    /\ check' = [check EXCEPT ![r].at = "failed", ![r].answer = {}]
    /\ UNCHANGED <<provider, cache, owner>>

\* No answer, another status, or an answer that is no key set: the cache stays.
FetchFails(r) ==
    /\ check[r].at \in Fetching
    /\ owner' = Nobody
    /\ check' = [check EXCEPT ![r].at = "failed", ![r].answer = {}]
    /\ UNCHANGED <<provider, cache>>

Forget(r) ==
    /\ check[r].at \in {"found", "missing", "failed"}
    /\ check' = [check EXCEPT ![r] = NoLookup]
    /\ UNCHANGED <<provider, cache, owner>>

Fetch(r) == Respond(r) \/ Store(r) \/ FetchFails(r)

\* The process restarts: its memory is lost.
Restart ==
    /\ keys' = {} /\ expiresAt' = 0
    /\ owner' = Nobody
    /\ check' = [r \in Requests |-> NoLookup]
    /\ UNCHANGED provider

\* Keys the cache does not accept come and go without effect.
Rotate == Tick \/ \E k \in Usable : Publish(k) \/ Withdraw(k)

KNext ==
    \/ Rotate \/ Restart
    \/ \E r \in Requests :
         \/ \E k \in Usable : Look(r, k)
         \/ Lock(r) \/ Fetch(r) \/ Forget(r)

KSpec == KInit /\ [][KNext]_kvars

-----------------------------------------------------------------------------
\* What the cache promises.

\* A key that validates a token is published, or was withdrawn less than the TTL
\* and one fetch ago: whoever waits for the mutex, however long, is not given a
\* key whose time ran out meanwhile.
ServedKeysRecent ==
    \A r \in Requests :
        check[r].at = "found" =>
            \/ check[r].kid \in published
            \/ check[r].since < leftAt[check[r].kid] + TTL + FetchTime

\* A token is refused for an unknown key only if the key was not published at some
\* moment of the validation: a key that is younger than the cache is fetched.
KnownKeysAccepted ==
    \A r \in Requests : check[r].at = "missing" => check[r].out

\* A cached key has been published until a fetch before the cache runs out, at least.
CachedKey(k) ==
    k \in keys => k \in published \/ expiresAt <= leftAt[k] + TTL + FetchTime

\* Who fetches holds the mutex, and the answer is no older than the fetch.
LookupAt(r) ==
    LET c == check[r] IN
    /\ c.at \in Fetching <=> owner = r
    /\ c.since <= now
    /\ c.at \in Fetching => now <= c.since + FetchTime
    /\ c.at # "none" => c.kid \in published \/ c.out
    /\ c.at = "answered" =>
         /\ \A k \in c.answer : k \in published \/ c.since <= leftAt[k]
         /\ c.kid \in c.answer \/ c.out

\* The inductive invariant of both.
KInv ==
    /\ KTypeOK
    /\ ServedKeysRecent
    /\ KnownKeysAccepted
    /\ expiresAt <= now + TTL
    /\ \A k \in Usable : CachedKey(k)
    /\ \A r \in Requests : LookupAt(r)
=============================================================================
