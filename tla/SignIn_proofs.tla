---------------------------- MODULE SignIn_proofs ----------------------------
(***************************************************************************)
(* The key cache and signing in, for any keys, requests, browsers, logins  *)
(* and people, and any times.                                              *)
(***************************************************************************)
EXTENDS SignIn, TLAPS

\* The empty cache (jwks.go newJWKSCache).
LEMMA KeysInit == KInit => KInv
<1> SUFFICES ASSUME KInit PROVE KInv
  OBVIOUS
<1>1. NoLookup.kid \in Usable
  BY KeyCacheAssumption DEF NoLookup
<1>2. KTypeOK
  BY <1>1, KeyCacheAssumption DEF KInit, KTypeOK, NoLookup, Lookup, Places
<1> QED
  BY <1>1, <1>2, KeyCacheAssumption
     DEF KInit, KInv, KTypeOK, NoLookup, ServedKeysRecent, KnownKeysAccepted, CachedKey,
         LookupAt, Fetching

\* Keys appear at the provider.
LEMMA PublishKeeps ==
    ASSUME KInv, NEW k \in Usable, Publish(k) PROVE KInv'
<1> USE KeyCacheAssumption
<1>1. KTypeOK'
  BY DEF KInv, KTypeOK, Publish, cache
<1>2. \A j \in Usable : j # k => leftAt'[j] = leftAt[j]
  BY DEF KInv, KTypeOK, Publish
<1>3. (ServedKeysRecent /\ KnownKeysAccepted)'
  BY <1>2 DEF KInv, KTypeOK, Lookup, Publish, cache, ServedKeysRecent, KnownKeysAccepted
<1>4. \A j \in Usable : CachedKey(j)'
  BY <1>2 DEF KInv, KTypeOK, Publish, cache, CachedKey
<1>5. ASSUME NEW q \in Requests PROVE LookupAt(q)'
  <2>1. LookupAt(q) /\ check[q] \in Lookup
    BY DEF KInv, KTypeOK
  <2>2. \A j \in Kids : j \in published \/ j = k => j \in published'
    BY DEF Publish
  <2>3. \A j \in Kids : j # k => leftAt'[j] = leftAt[j]
    BY DEF KInv, KTypeOK, Publish
  <2> QED BY <2>1, <2>2, <2>3 DEF Publish, cache, LookupAt, Lookup
<1> QED BY <1>1, <1>3, <1>4, <1>5 DEF KInv, Publish, cache

\* Keys leave the provider.
LEMMA WithdrawKeeps ==
    ASSUME KInv, NEW k \in Usable, Withdraw(k) PROVE KInv'
<1> USE KeyCacheAssumption
<1>1. /\ leftAt' = [leftAt EXCEPT ![k] = now] /\ published' = published \ {k}
      /\ UNCHANGED <<now, keys, expiresAt, owner>>
  BY DEF Withdraw, cache
<1>2. ASSUME NEW q \in Requests
      PROVE  /\ check'[q] \in Lookup
             /\ check'[q].at = check[q].at /\ check'[q].kid = check[q].kid
             /\ check'[q].since = check[q].since /\ check'[q].answer = check[q].answer
             /\ check[q].out => check'[q].out
             /\ check[q].at # "none" /\ check[q].kid = k => check'[q].out
  BY DEF KInv, KTypeOK, Lookup, Withdraw, Outdated
<1>3. KTypeOK'
  BY <1>1, <1>2 DEF KInv, KTypeOK, Withdraw
<1>4. (ServedKeysRecent /\ KnownKeysAccepted)'
  BY <1>1, <1>2
     DEF KInv, KTypeOK, Lookup, ServedKeysRecent, KnownKeysAccepted, LookupAt
<1>5. \A j \in Usable : CachedKey(j)'
  BY <1>1 DEF KInv, KTypeOK, CachedKey
<1>6. ASSUME NEW q \in Requests PROVE LookupAt(q)'
  <2>1. LookupAt(q) /\ check[q] \in Lookup
    BY DEF KInv, KTypeOK
  <2>2. \A j \in Kids : j # k => leftAt'[j] = leftAt[j] /\ (j \in published => j \in published')
    BY <1>1 DEF KInv, KTypeOK
  <2>3. leftAt'[k] = now
    BY <1>1 DEF KInv, KTypeOK
  <2> QED BY <1>1, <1>2, <2>1, <2>2, <2>3 DEF LookupAt, Lookup
<1> QED BY <1>1, <1>3, <1>4, <1>5, <1>6 DEF KInv

\* Time passes while a fetch is younger than the client's timeout.
LEMMA TickKeeps == ASSUME KInv, Tick PROVE KInv'
<1> USE KeyCacheAssumption
<1>1. KTypeOK'
  BY DEF KInv, KTypeOK, Tick, cache
<1>2. (ServedKeysRecent /\ KnownKeysAccepted)'
  BY DEF KInv, KTypeOK, Tick, cache, ServedKeysRecent, KnownKeysAccepted
<1>3. \A j \in Usable : CachedKey(j)'
  BY DEF KInv, Tick, cache, CachedKey
<1>4. ASSUME NEW q \in Requests PROVE LookupAt(q)'
  <2>1. LookupAt(q) /\ check[q] \in Lookup
    BY DEF KInv, KTypeOK
  <2> QED BY <2>1 DEF KInv, KTypeOK, Tick, cache, LookupAt, Lookup
<1> QED BY <1>1, <1>2, <1>3, <1>4 DEF KInv, KTypeOK, Tick, cache

\* A restart empties the cache and ends the validations.
LEMMA RestartKeeps == ASSUME KInv, Restart PROVE KInv'
<1> USE KeyCacheAssumption
<1>1. NoLookup \in Lookup
  BY DEF NoLookup, Lookup, KInv, KTypeOK, Places
<1>2. KTypeOK'
  BY <1>1 DEF KInv, KTypeOK, Restart, provider
<1> QED
  BY <1>1, <1>2 DEF KInv, KTypeOK, Restart, provider, NoLookup, ServedKeysRecent,
     KnownKeysAccepted, CachedKey, LookupAt, Fetching, Lookup

\* Steps of one lookup: the others are as they were, and the time and the provider.
LEMMA OneLookup ==
    ASSUME KInv, NEW r \in Requests, NEW c \in Lookup, check' = [check EXCEPT ![r] = c],
           UNCHANGED provider,
           keys' \subseteq Usable, expiresAt' \in 0 .. MaxTime + TTL, expiresAt' <= now + TTL,
           \A k \in Usable : CachedKey(k)',
           owner' \in {owner, r, Nobody}, owner' # owner => owner \in {r, Nobody},
           LookupAt(r)',
           c.at = "found" => c.kid \in published \/ c.since < leftAt[c.kid] + TTL + FetchTime,
           c.at = "missing" => c.out
    PROVE  KInv'
<1> USE KeyCacheAssumption
<1>1. KTypeOK'
  BY DEF KInv, KTypeOK, provider
<1>2. \A q \in Requests : check'[q] = IF q = r THEN c ELSE check[q]
  BY DEF KInv, KTypeOK
<1>3. (ServedKeysRecent /\ KnownKeysAccepted)'
  BY <1>2 DEF KInv, KTypeOK, provider, ServedKeysRecent, KnownKeysAccepted
<1>4. ASSUME NEW q \in Requests PROVE LookupAt(q)'
  <2>1. CASE q = r
    BY <2>1
  <2>2. CASE q # r
    <3>1. LookupAt(q) /\ check'[q] = check[q]
      BY <1>2, <2>2 DEF KInv
    <3>2. owner' = q <=> owner = q
      BY <2>2
    <3> QED BY <3>1, <3>2 DEF LookupAt, provider
  <2> QED BY <2>1, <2>2
<1> QED BY <1>1, <1>3, <1>4 DEF KInv, provider

\* A validation begins (zitadel.go ValidateToken).
LEMMA LookKeeps ==
    ASSUME KInv, NEW r \in Requests, NEW k \in Usable, Look(r, k) PROVE KInv'
<1> DEFINE c == [at |-> "locking", kid |-> k, since |-> now, answer |-> {},
                 out |-> k \notin published]
<1> USE KeyCacheAssumption
<1>1. c \in Lookup
  BY DEF KInv, KTypeOK, Lookup, Places
<1>2. check' = [check EXCEPT ![r] = c] /\ UNCHANGED <<provider, cache, owner>>
  BY DEF Look
<1>3. LookupAt(r)'
  <2>1. check'[r] = c /\ LookupAt(r) /\ check[r].at = "none"
    BY <1>2 DEF KInv, KTypeOK, Look
  <2>2. c.at = "locking" /\ c.since = now /\ c.kid = k
    OBVIOUS
  <2>3. k \in published \/ c.out
    <3>1. c.out = (k \notin published)
      BY Zenon
    <3> QED BY <3>1, Zenon
  <2> HIDE DEF c
  <2> QED BY <1>2, <2>1, <2>2, <2>3 DEF KInv, KTypeOK, LookupAt, Fetching, provider
<1>4. \A j \in Usable : CachedKey(j)'
  BY <1>2 DEF KInv, CachedKey, cache, provider
<1> QED
  <2>1. c.at = "locking"
    OBVIOUS
  <2> HIDE DEF c
  <2> QED BY <1>1, <1>2, <1>3, <1>4, <2>1, OneLookup DEF KInv, KTypeOK, cache

\* The mutex is taken (jwks.go key): a key is served from the cache, or a fetch begins.
LEMMA LockKeeps ==
    ASSUME KInv, NEW r \in Requests, Lock(r) PROVE KInv'
<1> USE KeyCacheAssumption
<1> DEFINE c == [check[r] EXCEPT !.at = IF owner' = r THEN "fetching" ELSE "found", !.since = now]
<1>0. check[r] \in Lookup /\ LookupAt(r) /\ check[r].at = "locking" /\ owner = Nobody
  BY DEF KInv, KTypeOK, Lock, Waiting
<1>1. c \in Lookup
  BY <1>0 DEF KInv, KTypeOK, Lookup, Places, Fetching
<1>2. check' = [check EXCEPT ![r] = c] /\ UNCHANGED <<provider, cache>> /\ owner' \in {owner, r}
  BY <1>0 DEF KInv, KTypeOK, Lock, Settle
<1>3. /\ owner' # r => Fresh(r) /\ check[r].kid \in keys
      /\ c.at = IF owner' = r THEN "fetching" ELSE "found"
      /\ c.since = now /\ c.kid = check[r].kid /\ c.out = check[r].out
  BY <1>0 DEF Lock, Lookup
<1>4. LookupAt(r)'
  <2>1. check'[r] = c
    BY <1>2 DEF KInv, KTypeOK
  <2> HIDE DEF c
  <2> QED BY <1>0, <1>2, <1>3, <2>1 DEF KInv, KTypeOK, LookupAt, Fetching, provider
<1>5. \A j \in Usable : CachedKey(j)'
  BY <1>2 DEF KInv, CachedKey, cache, provider
<1>6. c.at = "found" => c.kid \in published \/ c.since < leftAt[c.kid] + TTL + FetchTime
  <2>1. ASSUME owner' # r PROVE CachedKey(c.kid) /\ now < expiresAt /\ c.kid \in keys
    BY <1>0, <1>3, <2>1 DEF KInv, KTypeOK, Lookup, Fresh
  <2>2. leftAt[check[r].kid] \in Nat
    BY <1>0 DEF KInv, KTypeOK, Lookup
  <2> HIDE DEF c
  <2> QED BY <1>3, <2>1, <2>2 DEF KInv, KTypeOK, CachedKey
<1> QED
  <2>1. c.at # "missing"
    BY <1>3
  <2> HIDE DEF c
  <2> QED BY <1>0, <1>1, <1>2, <1>4, <1>5, <1>6, <2>1, OneLookup DEF KInv, KTypeOK, cache

\* The provider answers (jwks.go refresh, the client's Do).
LEMMA RespondKeeps ==
    ASSUME KInv, NEW r \in Requests, Respond(r) PROVE KInv'
<1> USE KeyCacheAssumption
<1> DEFINE c == [check[r] EXCEPT !.at = "answered", !.answer = published]
<1>0. check[r] \in Lookup /\ LookupAt(r) /\ check[r].at = "fetching"
  BY DEF KInv, KTypeOK, Respond
<1>1. c \in Lookup
  BY <1>0 DEF KInv, KTypeOK, Lookup, Places, Fetching
<1>2. check' = [check EXCEPT ![r] = c] /\ UNCHANGED <<provider, cache, owner>>
  BY <1>0 DEF KInv, KTypeOK, Respond
<1>3. /\ c.at = "answered" /\ c.answer = published
      /\ c.since = check[r].since /\ c.kid = check[r].kid /\ c.out = check[r].out
  BY <1>0 DEF Lookup
<1>4. LookupAt(r)'
  <2>1. check'[r] = c
    BY <1>2 DEF KInv, KTypeOK
  <2> HIDE DEF c
  <2> QED BY <1>0, <1>2, <1>3, <2>1 DEF KInv, KTypeOK, LookupAt, Fetching, provider
<1>5. \A j \in Usable : CachedKey(j)'
  BY <1>2 DEF KInv, CachedKey, cache, provider
<1> HIDE DEF c
<1> QED BY <1>1, <1>2, <1>3, <1>4, <1>5, OneLookup DEF KInv, KTypeOK, cache

\* The cache is replaced (jwks.go refresh).
LEMMA StoreKeeps ==
    ASSUME KInv, NEW r \in Requests, Store(r) PROVE KInv'
<1> USE KeyCacheAssumption
<1> DEFINE c == [check[r] EXCEPT !.at = IF check[r].kid \in keys' THEN "found" ELSE "missing",
                                 !.since = now, !.answer = {}]
<1>0. check[r] \in Lookup /\ LookupAt(r) /\ check[r].at = "answered" /\ owner = r
  BY DEF KInv, KTypeOK, Store, LookupAt, Fetching
<1>1. c \in Lookup
  BY <1>0 DEF KInv, KTypeOK, Lookup, Places
<1>2. /\ check' = [check EXCEPT ![r] = c] /\ UNCHANGED provider /\ owner' = Nobody
      /\ keys' = check[r].answer \cap Usable /\ expiresAt' = now + TTL
  BY <1>0 DEF KInv, KTypeOK, Store, Accepted
<1>3. /\ c.at = IF check[r].kid \in keys' THEN "found" ELSE "missing"
      /\ c.since = now /\ c.kid = check[r].kid /\ c.out = check[r].out
  BY <1>0 DEF Lookup
<1>4. LookupAt(r)'
  <2>1. check'[r] = c
    BY <1>2 DEF KInv, KTypeOK
  <2> HIDE DEF c
  <2> QED BY <1>0, <1>2, <1>3, <2>1 DEF KInv, KTypeOK, LookupAt, Fetching, provider
<1>5. ASSUME NEW k \in Usable, k \in keys'
      PROVE  k \in published \/ now <= leftAt[k] + FetchTime
  <2>1. k \in published \/ check[r].since <= leftAt[k]
    BY <1>0, <1>2, <1>5 DEF LookupAt
  <2>2. now <= check[r].since + FetchTime
    BY <1>0 DEF LookupAt, Fetching
  <2>3. leftAt[k] \in Nat /\ check[r].since \in Nat /\ now \in Nat
    BY <1>0 DEF KInv, KTypeOK, Lookup
  <2> QED BY <2>1, <2>2, <2>3
<1>6. \A k \in Usable : leftAt[k] \in Nat
  BY DEF KInv, KTypeOK
<1>7. \A k \in Usable : CachedKey(k)'
  BY <1>2, <1>5, <1>6 DEF KInv, KTypeOK, CachedKey, provider
<1>8. /\ c.at = "found" => c.kid \in published \/ c.since < leftAt[c.kid] + TTL + FetchTime
      /\ c.at = "missing" => c.out
  <2>1. check[r].kid \in Usable
    BY <1>0 DEF Lookup
  <2>2. check[r].kid \in check[r].answer \/ check[r].out
    BY <1>0 DEF LookupAt
  <2> HIDE DEF c
  <2> QED BY <1>2, <1>3, <1>5, <1>6, <2>1, <2>2 DEF KInv, KTypeOK
<1>9. expiresAt' \in 0 .. MaxTime + TTL /\ expiresAt' <= now + TTL /\ keys' \subseteq Usable
  BY <1>2 DEF KInv, KTypeOK
<1> HIDE DEF c
<1> QED BY <1>0, <1>1, <1>2, <1>4, <1>7, <1>8, <1>9, OneLookup

\* A fetch fails and the mutex is released (jwks.go key, its deferred Unlock).
LEMMA FetchFailsKeeps ==
    ASSUME KInv, NEW r \in Requests, FetchFails(r) PROVE KInv'
<1> USE KeyCacheAssumption
<1> DEFINE c == [check[r] EXCEPT !.at = "failed", !.answer = {}]
<1>0. check[r] \in Lookup /\ LookupAt(r) /\ check[r].at \in Fetching /\ owner = r
  BY DEF KInv, KTypeOK, FetchFails, LookupAt
<1>1. c \in Lookup
  BY <1>0 DEF KInv, KTypeOK, Lookup, Places
<1>2. check' = [check EXCEPT ![r] = c] /\ UNCHANGED <<provider, cache>> /\ owner' = Nobody
  BY <1>0 DEF KInv, KTypeOK, FetchFails
<1>3. /\ c.at = "failed"
      /\ c.since = check[r].since /\ c.kid = check[r].kid /\ c.out = check[r].out
  BY <1>0 DEF Lookup
<1>4. LookupAt(r)'
  <2>1. check'[r] = c
    BY <1>2 DEF KInv, KTypeOK
  <2> HIDE DEF c
  <2> QED BY <1>0, <1>2, <1>3, <2>1 DEF KInv, KTypeOK, LookupAt, Fetching, provider
<1>5. \A j \in Usable : CachedKey(j)'
  BY <1>2 DEF KInv, CachedKey, cache, provider
<1> HIDE DEF c
<1> QED BY <1>0, <1>1, <1>2, <1>3, <1>4, <1>5, OneLookup DEF KInv, KTypeOK, cache

\* A validation is over.
LEMMA ForgetKeeps ==
    ASSUME KInv, NEW r \in Requests, Forget(r) PROVE KInv'
<1> USE KeyCacheAssumption
<1>0. LookupAt(r) /\ check[r].at \notin Fetching
  BY DEF KInv, Forget, Fetching
<1>1. NoLookup \in Lookup /\ NoLookup.at = "none" /\ NoLookup.since = 0
  BY DEF KInv, KTypeOK, NoLookup, Lookup, Places
<1>2. check' = [check EXCEPT ![r] = NoLookup] /\ UNCHANGED <<provider, cache, owner>>
  BY DEF Forget
<1>4. LookupAt(r)'
  <2>1. check'[r] = NoLookup
    BY <1>2 DEF KInv, KTypeOK
  <2> QED BY <1>0, <1>1, <1>2, <2>1 DEF KInv, KTypeOK, LookupAt, Fetching, provider
<1>5. \A j \in Usable : CachedKey(j)'
  BY <1>2 DEF KInv, CachedKey, cache, provider
<1> QED BY <1>1, <1>2, <1>4, <1>5, OneLookup DEF KInv, KTypeOK, cache

\* Every step of the key cache and of the provider keeps the invariant.
LEMMA KeysNext == KInv /\ [KNext]_kvars => KInv'
<1> SUFFICES ASSUME KInv, [KNext]_kvars PROVE KInv'
  OBVIOUS
<1>1. CASE Rotate
  BY <1>1, PublishKeeps, WithdrawKeeps, TickKeeps DEF Rotate
<1>2. CASE Restart
  BY <1>2, RestartKeeps
<1>3. ASSUME NEW r \in Requests, \/ \E k \in Usable : Look(r, k)
                                 \/ Lock(r) \/ Fetch(r) \/ Forget(r)
      PROVE  KInv'
  BY <1>3, LookKeeps, LockKeeps, RespondKeeps, StoreKeeps, FetchFailsKeeps, ForgetKeeps DEF Fetch
<1>4. CASE UNCHANGED kvars
  BY <1>4 DEF kvars, KInv, KTypeOK, ServedKeysRecent, KnownKeysAccepted, CachedKey, LookupAt
<1> QED BY <1>1, <1>2, <1>3, <1>4 DEF KNext

\* The cache serves keys that are recent, and fetches those it does not know (jwks.go).
THEOREM KeysInvariant == KSpec => []KInv
BY KeysInit, KeysNext, PTL DEF KSpec

-----------------------------------------------------------------------------
\* Signing in.

\* No cookie and no callback at first.
LEMMA SignInInit == Init => IInv
<1> SUFFICES ASSUME Init PROVE IInv
  OBVIOUS
<1>1. KInv
  BY KeysInit DEF Init
<1>2. TypeOK
  BY <1>1 DEF Init, KInv, TypeOK, Jar, Flow, Call, NoCall
<1>3. \A r \in Requests : call[r] = NoCall /\ check[r] = NoLookup
  BY DEF Init, KInit
<1>4. \A b \in Browsers : jar[b].login = NoFlow /\ jar[b].session = NoOne
  BY DEF Init
<1>5. \A f \in Flows : flow[f].stage = "new"
  BY DEF Init
<1>6. SessionOfItsLogin /\ \A b \in Browsers : CookiesAt(b)
  BY <1>4 DEF SessionOfItsLogin, CookiesAt
<1>7. \A f \in Flows : LoginAt(f)
  BY <1>5 DEF LoginAt
<1>8. \A r \in Requests : call[r].at = "none" /\ check[r].at = "none"
  <2>1. NoCall.at = "none"
    BY DEF NoCall
  <2>2. NoLookup.at = "none"
    BY DEF NoLookup
  <2> QED BY <1>3, <2>1, <2>2
<1>9. MismatchExplained /\ \A r \in Requests : CallAt(r)
  BY <1>8 DEF MismatchExplained, CallAt
<1> QED
  BY <1>1, <1>2, <1>6, <1>7, <1>9 DEF IInv

\* What a step may do to a login (authflow/handler.go): it goes on and never back.
GoesOn(f) ==
    /\ flow[f].stage # "new" => flow'[f].stage # "new" /\ flow'[f].browser = flow[f].browser
    /\ flow[f].stage \in {"authorized", "spent"} =>
         flow'[f].stage \in {"authorized", "spent"} /\ flow'[f].subject = flow[f].subject
    /\ flow[f].stage = "spent" => flow'[f].stage = "spent"
    /\ flow[f].disturbed => flow'[f].disturbed

\* The cookies of a login are lost, and nothing else happens to it.
LEMMA DisturbedFacts ==
    ASSUME TypeOK, NEW f
    PROVE  /\ Disturbed(f) \in [Flows -> Flow]
           /\ \A g \in Flows :
                /\ Disturbed(f)[g].stage = flow[g].stage
                /\ Disturbed(f)[g].browser = flow[g].browser
                /\ Disturbed(f)[g].subject = flow[g].subject
                /\ g # f => Disturbed(f)[g] = flow[g]
                /\ flow[g].disturbed => Disturbed(f)[g].disturbed
           /\ f \in Flows => Disturbed(f)[f].disturbed
BY DEF TypeOK, Flow, Disturbed

\* Sessions stand while the logins go on.
LEMMA SessionsStand ==
    ASSUME IInv, \A f \in Flows : GoesOn(f), identities \subseteq identities',
           \A b \in Browsers : jar'[b].session \in {jar[b].session, NoOne}
    PROVE  SessionOfItsLogin'
<1> SUFFICES ASSUME NEW b \in Browsers, jar'[b].session # NoOne
             PROVE  /\ jar'[b].session \in identities'
                    /\ \E f \in Flows :
                         /\ flow'[f].browser = b /\ flow'[f].stage = "spent"
                         /\ flow'[f].subject = jar'[b].session
  BY DEF SessionOfItsLogin
<1>1. jar'[b].session = jar[b].session /\ jar[b].session \in identities
  BY DEF IInv, SessionOfItsLogin
<1>2. PICK f \in Flows : /\ flow[f].browser = b /\ flow[f].stage = "spent"
                         /\ flow[f].subject = jar[b].session
  BY <1>1 DEF IInv, SessionOfItsLogin
<1>3. GoesOn(f)
  OBVIOUS
<1> QED BY <1>1, <1>2, <1>3 DEF GoesOn

Explained(r) ==
    call[r].at = "mismatch" /\ flow[call[r].flow].browser = call[r].browser =>
        flow[call[r].flow].disturbed \/ flow[call[r].flow].stage = "spent"

\* A callback that waits stands while the logins go on.
LEMMA CallStands ==
    ASSUME IInv, \A f \in Flows : GoesOn(f), identities \subseteq identities',
           NEW r \in Requests, call'[r] = call[r],
           check'[r].at # "none" <=> check[r].at # "none"
    PROVE  CallAt(r)' /\ Explained(r)'
<1>1. CallAt(r) /\ Explained(r)
  BY DEF IInv, MismatchExplained, Explained
<1>2. CASE call[r].at = "none"
  BY <1>1, <1>2 DEF CallAt, Explained
<1>3. CASE call[r].at # "none"
  <2>1. call[r].flow \in Flows /\ GoesOn(call[r].flow)
    BY <1>1, <1>3 DEF CallAt
  <2>2. CallAt(r)'
    BY <1>1, <1>3, <2>1 DEF CallAt, GoesOn
  <2>3. Explained(r)'
    BY <1>1, <1>3, <2>1 DEF CallAt, Explained, GoesOn
  <2> QED BY <2>2, <2>3
<1> QED BY <1>2, <1>3

\* The invariant from its parts.
LEMMA Assemble ==
    ASSUME TypeOK', KInv', SessionOfItsLogin',
           \A b \in Browsers : CookiesAt(b)',
           \A f \in Flows : LoginAt(f)',
           \A r \in Requests : CallAt(r)' /\ Explained(r)'
    PROVE  IInv'
BY DEF IInv, MismatchExplained, Explained

\* Steps of a browser and of the provider's page: no callback is touched.
LEMMA BrowserStep ==
    ASSUME IInv, KInv', TypeOK', UNCHANGED <<call, identities, kvars>>,
           \A f \in Flows : GoesOn(f),
           \A b \in Browsers : jar'[b].session \in {jar[b].session, NoOne},
           \A b \in Browsers : CookiesAt(b)',
           \A f \in Flows : LoginAt(f)'
    PROVE  IInv'
<1>1. SessionOfItsLogin'
  BY SessionsStand
<1>2. \A r \in Requests : CallAt(r)' /\ Explained(r)'
  BY CallStands DEF kvars
<1> QED BY <1>1, <1>2, Assemble

\* Login (handler.go 94).
LEMMA LoginKeeps ==
    ASSUME IInv, KInv', NEW b \in Browsers, NEW f \in Flows, Login(b, f) PROVE IInv'
<1> USE SignInAssumption
<1> DEFINE old == jar[b].login
<1>1. TypeOK /\ old \in Flows \cup {NoFlow} /\ flow[f] \in Flow
  BY DEF IInv, TypeOK, Jar
<1>2. /\ jar' = [jar EXCEPT ![b].login = f]
      /\ flow' = [Disturbed(old) EXCEPT ![f].stage = "begun", ![f].browser = b]
      /\ UNCHANGED <<call, identities, kvars>> /\ flow[f].stage = "new"
  BY DEF Login
<1>3. old # NoFlow => old # f /\ flow[old].browser = b
  BY <1>2 DEF IInv, CookiesAt
<1>4. /\ flow'[f].stage = "begun" /\ flow'[f].browser = b
      /\ \A g \in Flows : g # f => flow'[g] = Disturbed(old)[g]
      /\ flow' \in [Flows -> Flow]
      /\ flow[f].disturbed => flow'[f].disturbed
  <2>1. Disturbed(old) \in [Flows -> Flow]
    BY <1>1, DisturbedFacts
  <2>2. old # f => Disturbed(old)[f] = flow[f]
    BY <1>1, DisturbedFacts
  <2>3. old # f
    BY <1>3
  <2> HIDE DEF old
  <2> QED BY <1>2, <2>1, <2>2, <2>3 DEF Flow
<1>5. /\ jar' \in [Browsers -> Jar] /\ jar'[b].login = f
      /\ \A d \in Browsers : /\ jar'[d].session = jar[d].session
                             /\ d # b => jar'[d] = jar[d]
  BY <1>1, <1>2 DEF TypeOK, Jar
<1>6. TypeOK'
  BY <1>1, <1>2, <1>4, <1>5 DEF TypeOK, KInv
<1>7. ASSUME NEW g \in Flows PROVE GoesOn(g)
  <2>1. CASE g = f
    BY <1>2, <1>4, <2>1 DEF GoesOn
  <2>2. CASE g # f
    BY <1>1, <1>4, <2>2, DisturbedFacts DEF GoesOn
  <2> QED BY <2>1, <2>2
<1>8. ASSUME NEW d \in Browsers PROVE CookiesAt(d)'
  <2>1. CASE d = b
    BY <1>4, <1>5, <2>1 DEF CookiesAt
  <2>2. CASE d # b
    <3>1. CookiesAt(d) /\ jar'[d].login = jar[d].login /\ jar[d].login \in Flows \cup {NoFlow}
      BY <1>1, <1>5, <2>2 DEF IInv, TypeOK, Jar
    <3>2. jar[d].login # NoFlow => GoesOn(jar[d].login)
      BY <1>7, <3>1
    <3> QED BY <3>1, <3>2 DEF CookiesAt, GoesOn
  <2> QED BY <2>1, <2>2
<1>9. ASSUME NEW g \in Flows PROVE LoginAt(g)'
  <2>1. CASE g = f
    BY <1>4, <1>5, <2>1 DEF LoginAt
  <2>2. CASE g # f
    <3>1. /\ flow'[g].stage = flow[g].stage /\ flow'[g].browser = flow[g].browser
          /\ flow'[g].subject = flow[g].subject
          /\ flow[g].disturbed => flow'[g].disturbed
          /\ g = old => flow'[g].disturbed
      BY <1>1, <1>4, <2>2, DisturbedFacts
    <3>2. LoginAt(g)
      BY DEF IInv
    <3>3. flow[g].stage \in {"begun", "authorized"} /\ ~flow'[g].disturbed =>
              jar'[flow[g].browser].login = g
      <4>1. SUFFICES ASSUME flow[g].stage \in {"begun", "authorized"}, ~flow'[g].disturbed
                     PROVE  jar'[flow[g].browser].login = g
        OBVIOUS
      <4>2. flow[g].browser \in Browsers /\ jar[flow[g].browser].login = g
        BY <3>1, <3>2, <4>1 DEF LoginAt
      <4>3. flow[g].browser # b
        BY <3>1, <4>1, <4>2
      <4> QED BY <1>5, <4>2, <4>3
    <3> QED BY <3>1, <3>2, <3>3 DEF LoginAt
  <2> QED BY <2>1, <2>2
<1> QED BY <1>2, <1>5, <1>6, <1>7, <1>8, <1>9, BrowserStep

\* Somebody signs in on the provider's page.
LEMMA AuthorizeKeeps ==
    ASSUME IInv, KInv', NEW f \in Flows, NEW s \in Subjects, Authorize(f, s) PROVE IInv'
<1> USE SignInAssumption
<1>1. TypeOK /\ flow[f] \in Flow
  BY DEF IInv, TypeOK
<1>2. /\ flow' = [flow EXCEPT ![f].stage = "authorized", ![f].subject = s]
      /\ jar' = jar /\ UNCHANGED <<call, identities, kvars>> /\ flow[f].stage = "begun"
  BY DEF Authorize
<1>3. /\ flow' \in [Flows -> Flow]
      /\ flow'[f].stage = "authorized" /\ flow'[f].subject = s
      /\ flow'[f].browser = flow[f].browser /\ flow'[f].disturbed = flow[f].disturbed
      /\ \A g \in Flows : g # f => flow'[g] = flow[g]
  BY <1>1, <1>2 DEF TypeOK, Flow
<1>4. TypeOK'
  BY <1>1, <1>2, <1>3 DEF TypeOK, KInv
<1>5. ASSUME NEW g \in Flows PROVE GoesOn(g)
  BY <1>2, <1>3 DEF GoesOn
<1>6. \A d \in Browsers : CookiesAt(d)'
  BY <1>1, <1>2, <1>3 DEF IInv, CookiesAt, TypeOK, Jar
<1>7. \A g \in Flows : LoginAt(g)'
  BY <1>2, <1>3 DEF IInv, LoginAt
<1> QED BY <1>2, <1>4, <1>5, <1>6, <1>7, BrowserStep

\* The cookies of a login run out (handler.go 453).
LEMMA ExpireLoginKeeps ==
    ASSUME IInv, KInv', NEW b \in Browsers, ExpireLogin(b) PROVE IInv'
<1> USE SignInAssumption
<1> DEFINE old == jar[b].login
<1>1. TypeOK /\ old \in Flows
  BY DEF IInv, TypeOK, Jar, ExpireLogin
<1>2. /\ jar' = [jar EXCEPT ![b].login = NoFlow] /\ flow' = Disturbed(old)
      /\ UNCHANGED <<call, identities, kvars>>
  BY DEF ExpireLogin
<1>3. /\ jar' \in [Browsers -> Jar] /\ jar'[b].login = NoFlow
      /\ \A d \in Browsers : /\ jar'[d].session = jar[d].session
                             /\ d # b => jar'[d] = jar[d]
  BY <1>1, <1>2 DEF TypeOK, Jar
<1>4. /\ flow' \in [Flows -> Flow]
      /\ \A g \in Flows :
           /\ flow'[g].stage = flow[g].stage /\ flow'[g].browser = flow[g].browser
           /\ flow'[g].subject = flow[g].subject
           /\ flow[g].disturbed => flow'[g].disturbed
           /\ g = old => flow'[g].disturbed
  BY <1>1, <1>2, DisturbedFacts
<1>5. TypeOK'
  BY <1>1, <1>2, <1>3, <1>4 DEF TypeOK, KInv
<1>6. \A g \in Flows : GoesOn(g)
  BY <1>4 DEF GoesOn
<1>7. \A d \in Browsers : CookiesAt(d)'
  BY <1>1, <1>3, <1>4 DEF IInv, CookiesAt, TypeOK, Jar
<1>8. \A g \in Flows : LoginAt(g)'
  BY <1>1, <1>3, <1>4 DEF IInv, LoginAt
<1> QED BY <1>2, <1>3, <1>5, <1>6, <1>7, <1>8, BrowserStep

\* A session ends.
LEMMA EndSessionKeeps ==
    ASSUME IInv, KInv', NEW b \in Browsers, EndSession(b) PROVE IInv'
<1>1. /\ jar' = [jar EXCEPT ![b].session = NoOne] /\ flow' = flow
      /\ UNCHANGED <<call, identities, kvars>> /\ TypeOK
  BY DEF EndSession, IInv
<1>2. /\ jar' \in [Browsers -> Jar]
      /\ \A d \in Browsers : /\ jar'[d].login = jar[d].login
                             /\ jar'[d].session \in {jar[d].session, NoOne}
  BY <1>1 DEF TypeOK, Jar
<1>3. TypeOK'
  BY <1>1, <1>2 DEF TypeOK, KInv
<1>4. \A g \in Flows : GoesOn(g)
  BY <1>1 DEF GoesOn
<1>5. \A d \in Browsers : CookiesAt(d)'
  BY <1>1, <1>2 DEF IInv, CookiesAt
<1>6. \A g \in Flows : LoginAt(g)'
  BY <1>1, <1>2 DEF IInv, LoginAt
<1> QED BY <1>1, <1>2, <1>3, <1>4, <1>5, <1>6, BrowserStep

\* A step of one callback, in which logins go on, identities may be added and the
\* other callbacks wait.
LEMMA CallStep ==
    ASSUME IInv, KInv', TypeOK', NEW r \in Requests,
           \A q \in Requests : q # r =>
               call'[q] = call[q] /\ (check'[q].at # "none" <=> check[q].at # "none"),
           \A f \in Flows : GoesOn(f), identities \subseteq identities',
           SessionOfItsLogin',
           \A b \in Browsers : CookiesAt(b)',
           \A f \in Flows : LoginAt(f)',
           CallAt(r)', Explained(r)'
    PROVE  IInv'
<1>1. ASSUME NEW q \in Requests PROVE CallAt(q)' /\ Explained(q)'
  <2>1. CASE q = r
    BY <2>1
  <2>2. CASE q # r
    <3>1. call'[q] = call[q] /\ (check'[q].at # "none" <=> check[q].at # "none")
      BY <2>2
    <3> QED BY <3>1, CallStands
  <2> QED BY <2>1, <2>2
<1> QED BY <1>1, Assemble

\* Cookies and logins are not touched.
LEMMA QuietStep ==
    ASSUME IInv, KInv', call' \in [Requests -> Call], identities' \subseteq Subjects,
           UNCHANGED <<jar, flow>>, identities \subseteq identities'
    PROVE  /\ TypeOK' /\ SessionOfItsLogin'
           /\ \A f \in Flows : GoesOn(f)
           /\ \A b \in Browsers : CookiesAt(b)'
           /\ \A f \in Flows : LoginAt(f)'
<1>1. TypeOK'
  BY DEF IInv, TypeOK, KInv
<1>2. \A f \in Flows : GoesOn(f)
  BY DEF GoesOn
<1>3. SessionOfItsLogin'
  BY <1>2, SessionsStand
<1>4. /\ \A b \in Browsers : CookiesAt(b)'
      /\ \A f \in Flows : LoginAt(f)'
  BY DEF IInv, CookiesAt, LoginAt
<1> QED BY <1>1, <1>2, <1>3, <1>4

\* Callback compares the state with the cookie (handler.go 174).
LEMMA CallbackKeeps ==
    ASSUME IInv, KInv', NEW r \in Requests, NEW b \in Browsers, NEW f \in Flows,
           Callback(r, b, f)
    PROVE  IInv'
<1> DEFINE c == [at |-> IF jar[b].login = f THEN "exchanging" ELSE "mismatch",
                 browser |-> b, flow |-> f, cookies |-> jar[b].login, subject |-> NoOne]
<1>1. /\ call' = [call EXCEPT ![r] = c] /\ UNCHANGED <<jar, flow, identities, kvars>>
      /\ flow[f].stage \in {"authorized", "spent"}
  BY DEF Callback
<1>2. call \in [Requests -> Call] /\ identities \subseteq Subjects /\ c \in Call
  BY DEF IInv, TypeOK, Jar, Call
<1>3. call' \in [Requests -> Call] /\ call'[r] = c /\ \A q \in Requests : q # r => call'[q] = call[q]
  BY <1>1, <1>2
<1>4. check' = check /\ CallAt(r) /\ call[r].at = "none"
  BY <1>1 DEF IInv, kvars, Callback
<1>5. /\ c.at = IF jar[b].login = f THEN "exchanging" ELSE "mismatch"
      /\ c.browser = b /\ c.flow = f /\ c.cookies = jar[b].login
  OBVIOUS
<1>6. CookiesAt(b) /\ LoginAt(f)
  BY DEF IInv
<1> HIDE DEF c
<1>7. CallAt(r)'
  <2>1. jar[b].login = f => flow[f].browser = b
    BY <1>6, SignInAssumption DEF CookiesAt
  <2> QED BY <1>1, <1>3, <1>4, <1>5, <2>1 DEF CallAt
<1>8. Explained(r)'
  BY <1>1, <1>3, <1>5, <1>6 DEF Explained, LoginAt
<1>9. /\ TypeOK' /\ SessionOfItsLogin' /\ \A g \in Flows : GoesOn(g)
      /\ \A d \in Browsers : CookiesAt(d)'
      /\ \A g \in Flows : LoginAt(g)'
  BY <1>1, <1>2, <1>3, QuietStep
<1> QED BY <1>1, <1>3, <1>4, <1>7, <1>8, <1>9, CallStep

\* A login is spent at the provider.
LEMMA SpendFacts ==
    ASSUME IInv, KInv', NEW f \in Flows, flow[f].stage = "authorized",
           flow' = [flow EXCEPT ![f].stage = "spent"],
           UNCHANGED <<jar, identities>>, call' \in [Requests -> Call]
    PROVE  /\ TypeOK' /\ SessionOfItsLogin'
           /\ \A g \in Flows : GoesOn(g)
           /\ \A b \in Browsers : CookiesAt(b)'
           /\ \A g \in Flows : LoginAt(g)'
           /\ flow'[f].stage = "spent" /\ flow'[f].subject = flow[f].subject
<1>1. TypeOK /\ flow[f] \in Flow
  BY DEF IInv, TypeOK
<1>2. /\ flow' \in [Flows -> Flow]
      /\ flow'[f].stage = "spent" /\ flow'[f].subject = flow[f].subject
      /\ flow'[f].browser = flow[f].browser /\ flow'[f].disturbed = flow[f].disturbed
      /\ \A g \in Flows : g # f => flow'[g] = flow[g]
  BY <1>1 DEF TypeOK, Flow
<1>3. TypeOK'
  BY <1>1, <1>2 DEF TypeOK, KInv
<1>4. \A g \in Flows : GoesOn(g)
  BY <1>2 DEF GoesOn
<1>5. SessionOfItsLogin'
  BY <1>4, SessionsStand
<1>6. \A b \in Browsers : CookiesAt(b)'
  BY <1>1, <1>2 DEF IInv, CookiesAt, TypeOK, Jar
<1>7. \A g \in Flows : LoginAt(g)'
  BY <1>2 DEF IInv, LoginAt
<1> QED BY <1>2, <1>3, <1>4, <1>5, <1>6, <1>7

\* The code is exchanged (oauth.go ExchangeCode) and the validation begins.
LEMMA ExchangeKeeps ==
    ASSUME IInv, KInv', NEW r \in Requests, Exchange(r) PROVE IInv'
<1> DEFINE f == call[r].flow
           c == [call[r] EXCEPT !.at = "validating", !.subject = flow[f].subject]
<1>1. PICK k \in published \cap Usable : Look(r, k)
  BY DEF Exchange
<1>2. /\ call[r].at = "exchanging" /\ call[r] \in Call /\ CallAt(r)
      /\ f \in Flows /\ flow[f].stage = "authorized" /\ flow[f].subject \in Subjects
  BY DEF IInv, TypeOK, Exchange, Redeems, CallAt, LoginAt
<1>3. /\ flow' = [flow EXCEPT ![f].stage = "spent"]
      /\ call' = [call EXCEPT ![r] = c] /\ UNCHANGED <<jar, identities>>
  BY <1>2 DEF IInv, TypeOK, Exchange, Spend, Claimed
<1>4. c \in Call
  BY <1>2 DEF Call
<1>5. /\ c.at = "validating" /\ c.subject = flow[f].subject
      /\ c.browser = call[r].browser /\ c.flow = f /\ c.cookies = call[r].cookies
  BY <1>2 DEF Call
<1> HIDE DEF c
<1>6. call' \in [Requests -> Call] /\ call'[r] = c /\ \A q \in Requests : q # r => call'[q] = call[q]
  BY <1>3, <1>4 DEF IInv, TypeOK
<1>7. check'[r].at = "locking" /\ \A q \in Requests : q # r => check'[q] = check[q]
  BY <1>1 DEF IInv, TypeOK, KTypeOK, Look
<1>8. /\ TypeOK' /\ SessionOfItsLogin' /\ \A g \in Flows : GoesOn(g)
      /\ \A d \in Browsers : CookiesAt(d)'
      /\ \A g \in Flows : LoginAt(g)'
      /\ flow'[f].stage = "spent" /\ flow'[f].subject = flow[f].subject
  BY <1>2, <1>3, <1>6, SpendFacts
<1>9. GoesOn(f)
  BY <1>2, <1>8
<1>10. CallAt(r)'
  BY <1>2, <1>5, <1>6, <1>7, <1>8, <1>9 DEF CallAt, GoesOn
<1>11. Explained(r)'
  BY <1>5, <1>6 DEF Explained
<1> QED BY <1>3, <1>6, <1>7, <1>8, <1>10, <1>11, CallStep

\* A place the answer is given from.
LEMMA GoToFacts ==
    ASSUME IInv, NEW r \in Requests, NEW p \in {"identifying", "welcomed", "refused"}, GoTo(r, p)
    PROVE  /\ call' \in [Requests -> Call]
           /\ call'[r].at = p /\ call'[r].browser = call[r].browser
           /\ call'[r].flow = call[r].flow /\ call'[r].cookies = call[r].cookies
           /\ call'[r].subject = call[r].subject
           /\ \A q \in Requests : q # r => call'[q] = call[q]
<1>1. call \in [Requests -> Call]
  BY DEF IInv, TypeOK
<1> QED BY <1>1 DEF GoTo, Call

\* The code is refused.
LEMMA ExchangeFailsKeeps ==
    ASSUME IInv, KInv', NEW r \in Requests, ExchangeFails(r) PROVE IInv'
<1> DEFINE f == call[r].flow
<1>1. /\ call[r].at = "exchanging" /\ CallAt(r) /\ f \in Flows
      /\ GoTo(r, "refused") /\ UNCHANGED <<jar, identities, kvars>>
  BY DEF IInv, ExchangeFails, CallAt
<1>2. /\ call' \in [Requests -> Call]
      /\ call'[r].at = "refused" /\ call'[r].browser = call[r].browser
      /\ call'[r].flow = f
      /\ \A q \in Requests : q # r => call'[q] = call[q]
  BY <1>1, GoToFacts
<1>3. check' = check
  BY <1>1 DEF kvars
<1>4. /\ TypeOK' /\ SessionOfItsLogin' /\ \A g \in Flows : GoesOn(g)
      /\ \A d \in Browsers : CookiesAt(d)'
      /\ \A g \in Flows : LoginAt(g)'
  <2>1. CASE UNCHANGED flow
    <3>1. identities' \subseteq Subjects /\ identities \subseteq identities'
      BY <1>1 DEF IInv, TypeOK
    <3> QED BY <1>1, <1>2, <2>1, <3>1, QuietStep
  <2>2. CASE Redeems(r) /\ Spend(f)
    <3>1. flow[f].stage = "authorized" /\ flow' = [flow EXCEPT ![f].stage = "spent"]
      BY <2>2 DEF Redeems, Spend
    <3> QED BY <1>1, <1>2, <3>1, SpendFacts
  <2> QED BY <2>1, <2>2 DEF ExchangeFails
<1>5. GoesOn(f)
  BY <1>1, <1>4
<1>6. CallAt(r)'
  BY <1>1, <1>2, <1>3, <1>5 DEF CallAt, GoesOn
<1>7. Explained(r)'
  BY <1>2 DEF Explained
<1> QED BY <1>1, <1>2, <1>3, <1>4, <1>6, <1>7, CallStep

\* The lookup of the key goes on (jwks.go key).
LEMMA ValidateKeeps ==
    ASSUME IInv, KInv', NEW r \in Requests, Validate(r) PROVE IInv'
<1>1. UNCHANGED web /\ (Lock(r) \/ Fetch(r))
  BY DEF Validate
<1>2. \A q \in Requests : check'[q].at # "none" <=> check[q].at # "none"
  <2>1. check \in [Requests -> Lookup] /\ check[r].at # "none"
    BY <1>1 DEF IInv, TypeOK, KTypeOK, Lock, Waiting, Fetch, Respond, Store, FetchFails, Fetching
  <2>2. \A q \in Requests : q # r => check'[q] = check[q]
    BY <1>1, <2>1 DEF Lock, Waiting, Settle, Fetch, Respond, Store, FetchFails
  <2>3. check'[r].at # "none"
    BY <1>1, <2>1 DEF Lock, Settle, Fetch, Respond, Store, FetchFails, Lookup
  <2> QED BY <2>1, <2>2, <2>3
<1>3. /\ TypeOK' /\ SessionOfItsLogin' /\ \A g \in Flows : GoesOn(g)
      /\ \A d \in Browsers : CookiesAt(d)'
      /\ \A g \in Flows : LoginAt(g)'
  <2>1. /\ call' \in [Requests -> Call] /\ UNCHANGED <<jar, flow>>
        /\ identities' \subseteq Subjects /\ identities \subseteq identities'
    BY <1>1 DEF web, IInv, TypeOK
  <2> QED BY <2>1, QuietStep
<1>4. \A q \in Requests : CallAt(q)' /\ Explained(q)'
  BY <1>1, <1>2, <1>3, CallStands DEF web
<1> QED BY <1>3, <1>4, Assemble

\* The token is accepted or refused (handler.go 254).
LEMMA ValidatedKeeps ==
    ASSUME IInv, KInv', NEW r \in Requests, Validated(r) PROVE IInv'
<1>1. /\ Forget(r) /\ UNCHANGED <<jar, flow, identities>>
      /\ CallAt(r) /\ check \in [Requests -> Lookup]
      /\ \E p \in {"identifying", "refused"} : GoTo(r, p)
  BY DEF IInv, TypeOK, KTypeOK, Validated
<1>2. /\ call[r].at = "validating" /\ check'[r].at = "none"
      /\ \A q \in Requests : q # r => check'[q] = check[q]
  <2>1. check[r].at # "none" /\ check' = [check EXCEPT ![r] = NoLookup]
    BY <1>1 DEF Forget
  <2>2. NoLookup.at = "none"
    BY DEF NoLookup
  <2> QED BY <1>1, <2>1, <2>2 DEF CallAt
<1>3. /\ call' \in [Requests -> Call]
      /\ call'[r].at \in {"identifying", "refused"} /\ call'[r].browser = call[r].browser
      /\ call'[r].flow = call[r].flow /\ call'[r].cookies = call[r].cookies
      /\ call'[r].subject = call[r].subject
      /\ \A q \in Requests : q # r => call'[q] = call[q]
  BY <1>1, GoToFacts
<1>4. /\ TypeOK' /\ SessionOfItsLogin' /\ \A g \in Flows : GoesOn(g)
      /\ \A d \in Browsers : CookiesAt(d)'
      /\ \A g \in Flows : LoginAt(g)'
  <2>1. identities' \subseteq Subjects /\ identities \subseteq identities'
    BY <1>1 DEF IInv, TypeOK
  <2> QED BY <1>1, <1>3, <2>1, QuietStep
<1>5. CallAt(r)'
  BY <1>1, <1>2, <1>3 DEF CallAt
<1>6. Explained(r)'
  BY <1>3 DEF Explained
<1> QED BY <1>1, <1>2, <1>3, <1>4, <1>5, <1>6, CallStep

\* The identity is found or created (identity/service.go).
LEMMA IdentifyKeeps ==
    ASSUME IInv, KInv', NEW r \in Requests, Identify(r) PROVE IInv'
<1>1. /\ call[r].at = "identifying" /\ CallAt(r) /\ LoginAt(call[r].flow)
      /\ UNCHANGED <<jar, flow, kvars>>
      /\ identities' \in {identities, identities \cup {call[r].subject}}
      /\ \E p \in {"welcomed", "refused"} :
            GoTo(r, p) /\ (p = "welcomed" => call[r].subject \in identities')
  BY DEF IInv, Identify, User, CallAt
<1>2. /\ call' \in [Requests -> Call]
      /\ call'[r].at \in {"welcomed", "refused"} /\ call'[r].browser = call[r].browser
      /\ call'[r].at = "welcomed" => call[r].subject \in identities'
      /\ call'[r].flow = call[r].flow /\ call'[r].cookies = call[r].cookies
      /\ call'[r].subject = call[r].subject
      /\ \A q \in Requests : q # r => call'[q] = call[q]
  BY <1>1, GoToFacts
<1>3. call[r].subject \in Subjects /\ check' = check
  BY <1>1 DEF CallAt, LoginAt, kvars
<1>4. /\ TypeOK' /\ SessionOfItsLogin' /\ \A g \in Flows : GoesOn(g)
      /\ \A d \in Browsers : CookiesAt(d)'
      /\ \A g \in Flows : LoginAt(g)'
  <2>1. identities' \subseteq Subjects /\ identities \subseteq identities'
    BY <1>1, <1>3 DEF IInv, TypeOK
  <2> QED BY <1>1, <1>2, <2>1, QuietStep
<1>5. CallAt(r)'
  BY <1>1, <1>2, <1>3 DEF CallAt
<1>6. Explained(r)'
  BY <1>2 DEF Explained
<1>7. identities \subseteq identities'
  BY <1>1
<1> QED BY <1>2, <1>3, <1>4, <1>5, <1>6, <1>7, CallStep

\* A callback that is over.
LEMMA OverFacts ==
    ASSUME IInv, NEW r \in Requests, Answered(r), check' = check, call[r].at # "validating"
    PROVE  /\ call' \in [Requests -> Call] /\ CallAt(r)' /\ Explained(r)'
           /\ \A q \in Requests : q # r => call'[q] = call[q]
<1>1. NoCall \in Call /\ NoCall.at = "none"
  BY DEF NoCall, Call
<1>2. call \in [Requests -> Call] /\ CallAt(r)
  BY DEF IInv, TypeOK
<1>3. /\ call' \in [Requests -> Call] /\ call'[r].at = "none"
      /\ \A q \in Requests : q # r => call'[q] = call[q]
  BY <1>1, <1>2 DEF Answered
<1>4. CallAt(r)' /\ Explained(r)'
  BY <1>2, <1>3 DEF CallAt, Explained
<1> QED BY <1>3, <1>4

\* An error is answered, or an answer is lost.
LEMMA RefuseKeeps ==
    ASSUME IInv, KInv', NEW r \in Requests, Refuse(r) \/ Lose(r) PROVE IInv'
<1>1. /\ Answered(r) /\ UNCHANGED <<jar, flow, identities, kvars>>
      /\ call[r].at # "validating"
  BY DEF Refuse, Lose
<1>2. check' = check
  BY <1>1 DEF kvars
<1>3. /\ call' \in [Requests -> Call] /\ CallAt(r)' /\ Explained(r)'
      /\ \A q \in Requests : q # r => call'[q] = call[q]
  BY <1>1, <1>2, OverFacts
<1>4. identities' \subseteq Subjects /\ identities \subseteq identities'
  BY <1>1 DEF IInv, TypeOK
<1>5. /\ TypeOK' /\ SessionOfItsLogin' /\ \A g \in Flows : GoesOn(g)
      /\ \A d \in Browsers : CookiesAt(d)'
      /\ \A g \in Flows : LoginAt(g)'
  BY <1>1, <1>3, <1>4, QuietStep
<1> QED BY <1>2, <1>3, <1>4, <1>5, CallStep

\* The browser stores its session and drops the cookies of the login (handler.go 325).
LEMMA WelcomeKeeps ==
    ASSUME IInv, KInv', NEW r \in Requests, Welcome(r) PROVE IInv'
<1> USE SignInAssumption
<1> DEFINE b == call[r].browser
           f == call[r].flow
           old == jar[b].login
<1>1. /\ call[r].at = "welcomed" /\ CallAt(r) /\ b \in Browsers /\ f \in Flows
      /\ flow[f].browser = b /\ flow[f].stage = "spent"
      /\ call[r].subject = flow[f].subject /\ call[r].subject \in identities
  BY DEF IInv, Welcome, User, CallAt
<1>2. /\ jar' = [jar EXCEPT ![b] = [login |-> NoFlow, session |-> call[r].subject]]
      /\ flow' = IF old = f THEN flow ELSE Disturbed(old)
      /\ UNCHANGED <<identities, kvars>> /\ Answered(r)
  BY DEF Welcome, User
<1>3. TypeOK /\ old \in Flows \cup {NoFlow} /\ call[r].subject \in Subjects
  BY <1>1 DEF IInv, TypeOK, Jar
<1>4. /\ jar' \in [Browsers -> Jar] /\ jar'[b].login = NoFlow
      /\ jar'[b].session = call[r].subject
      /\ \A d \in Browsers : d # b => jar'[d] = jar[d]
  BY <1>1, <1>2, <1>3 DEF TypeOK, Jar
<1>5. /\ flow' \in [Flows -> Flow]
      /\ \A g \in Flows :
           /\ flow'[g].stage = flow[g].stage /\ flow'[g].browser = flow[g].browser
           /\ flow'[g].subject = flow[g].subject
           /\ flow[g].disturbed => flow'[g].disturbed
           /\ g = old /\ g # f => flow'[g].disturbed
  <2>1. CASE old = f
    BY <1>2, <1>3, <2>1 DEF TypeOK
  <2>2. CASE old # f
    BY <1>2, <1>3, <2>2, DisturbedFacts
  <2> QED BY <2>1, <2>2
<1>6. check' = check
  BY <1>2 DEF kvars
<1>7. /\ call' \in [Requests -> Call] /\ CallAt(r)' /\ Explained(r)'
      /\ \A q \in Requests : q # r => call'[q] = call[q]
  BY <1>1, <1>2, <1>6, OverFacts
<1>8. TypeOK'
  BY <1>2, <1>3, <1>4, <1>5, <1>7 DEF TypeOK, KInv
<1>9. \A g \in Flows : GoesOn(g)
  BY <1>5 DEF GoesOn
<1>10. SessionOfItsLogin'
  <2> SUFFICES ASSUME NEW d \in Browsers, jar'[d].session # NoOne
               PROVE  /\ jar'[d].session \in identities'
                      /\ \E g \in Flows :
                           /\ flow'[g].browser = d /\ flow'[g].stage = "spent"
                           /\ flow'[g].subject = jar'[d].session
    BY DEF SessionOfItsLogin
  <2>1. CASE d = b
    <3>1. flow'[f].browser = d /\ flow'[f].stage = "spent" /\ flow'[f].subject = jar'[d].session
      BY <1>1, <1>4, <1>5, <2>1
    <3> HIDE DEF b, f
    <3> QED BY <1>1, <1>2, <1>4, <2>1, <3>1
  <2>2. CASE d # b
    <3>1. jar'[d] = jar[d]
      BY <1>4, <2>2
    <3>2. PICK g \in Flows : /\ flow[g].browser = d /\ flow[g].stage = "spent"
                             /\ flow[g].subject = jar[d].session
      BY <3>1 DEF IInv, SessionOfItsLogin
    <3> QED BY <1>2, <1>5, <3>1, <3>2 DEF IInv, SessionOfItsLogin
  <2> QED BY <2>1, <2>2
<1>11. \A d \in Browsers : CookiesAt(d)'
  BY <1>3, <1>4, <1>5 DEF IInv, TypeOK, Jar, CookiesAt
<1>12. ASSUME NEW g \in Flows PROVE LoginAt(g)'
  <2>1. LoginAt(g)
    BY DEF IInv
  <2>2. flow[g].stage \in {"begun", "authorized"} /\ ~flow'[g].disturbed =>
            jar'[flow[g].browser].login = g
    <3>1. SUFFICES ASSUME flow[g].stage \in {"begun", "authorized"}, ~flow'[g].disturbed
                   PROVE  jar'[flow[g].browser].login = g
      OBVIOUS
    <3>2. flow[g].browser \in Browsers /\ jar[flow[g].browser].login = g
      BY <1>5, <2>1, <3>1 DEF LoginAt
    <3>3. flow[g].browser # b
      BY <1>1, <1>5, <3>1, <3>2
    <3> QED BY <1>4, <3>2, <3>3
  <2> QED BY <1>5, <2>1, <2>2 DEF LoginAt
<1>13. identities \subseteq identities'
  BY <1>2
<1> QED BY <1>6, <1>7, <1>8, <1>9, <1>10, <1>11, <1>12, <1>13, CallStep

\* Only the keys or the clock change.
LEMMA RotateKeeps ==
    ASSUME IInv, KInv', Rotate, UNCHANGED web PROVE IInv'
<1>1. \A q \in Requests : check'[q].at # "none" <=> check[q].at # "none"
  BY DEF IInv, TypeOK, KTypeOK, Rotate, Tick, Publish, Withdraw, Outdated
<1>2. /\ TypeOK' /\ SessionOfItsLogin' /\ \A g \in Flows : GoesOn(g)
      /\ \A d \in Browsers : CookiesAt(d)'
      /\ \A g \in Flows : LoginAt(g)'
  <2>1. /\ call' \in [Requests -> Call] /\ UNCHANGED <<jar, flow>>
        /\ identities' \subseteq Subjects /\ identities \subseteq identities'
    BY DEF web, IInv, TypeOK
  <2> QED BY <2>1, QuietStep
<1>3. \A q \in Requests : CallAt(q)' /\ Explained(q)'
  BY <1>1, <1>2, CallStands DEF web
<1> QED BY <1>2, <1>3, Assemble

\* A restart leaves the cookies and the table.
LEMMA RestartServerKeeps ==
    ASSUME IInv, KInv', RestartServer PROVE IInv'
<1>1. NoCall \in Call /\ NoCall.at = "none"
  BY DEF NoCall, Call
<1>2. NoLookup.at = "none"
  BY DEF NoLookup
<1>3. /\ call' \in [Requests -> Call]
      /\ \A q \in Requests : call'[q].at = "none" /\ check'[q].at = "none"
  BY <1>1, <1>2 DEF RestartServer, Restart
<1>4. /\ TypeOK' /\ SessionOfItsLogin'
      /\ \A d \in Browsers : CookiesAt(d)'
      /\ \A g \in Flows : LoginAt(g)'
  <2>1. /\ UNCHANGED <<jar, flow>>
        /\ identities' \subseteq Subjects /\ identities \subseteq identities'
    BY DEF RestartServer, IInv, TypeOK
  <2> QED BY <1>3, <2>1, QuietStep
<1>5. \A q \in Requests : CallAt(q)' /\ Explained(q)'
  BY <1>3 DEF CallAt, Explained
<1> QED BY <1>4, <1>5, Assemble

\* Signing in moves the key cache as the cache moves.
LEMMA KeysMove == [Next]_vars => [KNext]_kvars
<1> SUFFICES ASSUME [Next]_vars PROVE [KNext]_kvars
  OBVIOUS
<1>1. CASE Browse
  BY <1>1 DEF Browse, Login, Authorize, ExpireLogin, EndSession, kvars
<1>2. CASE \E r \in Requests, b \in Browsers, f \in Flows : Callback(r, b, f)
  BY <1>2 DEF Callback, kvars
<1>3. ASSUME NEW r \in Requests, Advance(r) PROVE [KNext]_kvars
  <2>1. CASE Exchange(r)
    BY <2>1 DEF Exchange, KNext
  <2>2. CASE Validate(r) \/ Validated(r)
    BY <2>2 DEF Validate, Validated, KNext
  <2>3. CASE ExchangeFails(r) \/ Identify(r) \/ Welcome(r) \/ Lose(r) \/ Refuse(r)
    BY <2>3 DEF ExchangeFails, Identify, Welcome, Lose, Refuse, kvars
  <2> QED BY <1>3, <2>1, <2>2, <2>3 DEF Advance
<1>4. CASE Rotate \/ RestartServer
  BY <1>4 DEF RestartServer, KNext
<1>5. CASE UNCHANGED vars
  BY <1>5 DEF vars, kvars
<1> QED BY <1>1, <1>2, <1>3, <1>4, <1>5 DEF Next

\* Every step keeps the invariant.
LEMMA SignInNext == IInv /\ [Next]_vars => IInv'
<1> SUFFICES ASSUME IInv, [Next]_vars PROVE IInv'
  OBVIOUS
<1>1. KInv'
  BY KeysMove, KeysNext DEF IInv
<1>2. CASE Browse
  BY <1>1, <1>2, LoginKeeps, AuthorizeKeeps, ExpireLoginKeeps, EndSessionKeeps DEF Browse
<1>3. CASE \E r \in Requests, b \in Browsers, f \in Flows : Callback(r, b, f)
  BY <1>1, <1>3, CallbackKeeps
<1>4. ASSUME NEW r \in Requests, Advance(r) PROVE IInv'
  BY <1>1, <1>4, ExchangeKeeps, ExchangeFailsKeeps, ValidateKeeps, ValidatedKeeps,
     IdentifyKeeps, WelcomeKeeps, RefuseKeeps DEF Advance
<1>5. CASE Rotate /\ UNCHANGED web
  BY <1>1, <1>5, RotateKeeps
<1>6. CASE RestartServer
  BY <1>1, <1>6, RestartServerKeeps
<1>7. CASE UNCHANGED vars
  <2>1. UNCHANGED web /\ check' = check
    BY <1>7 DEF vars, kvars
  <2>2. /\ TypeOK' /\ SessionOfItsLogin' /\ \A g \in Flows : GoesOn(g)
        /\ \A d \in Browsers : CookiesAt(d)'
        /\ \A g \in Flows : LoginAt(g)'
    <3>1. /\ call' \in [Requests -> Call] /\ UNCHANGED <<jar, flow>>
          /\ identities' \subseteq Subjects /\ identities \subseteq identities'
      BY <2>1 DEF web, IInv, TypeOK
    <3> QED BY <1>1, <3>1, QuietStep
  <2>3. \A q \in Requests : CallAt(q)' /\ Explained(q)'
    BY <2>1, <2>2, CallStands DEF web
  <2> QED BY <1>1, <2>2, <2>3, Assemble
<1> QED BY <1>2, <1>3, <1>4, <1>5, <1>6, <1>7 DEF Next

-----------------------------------------------------------------------------

\* The inductive invariant of signing in holds in every reachable state.
THEOREM SignInInvariant == Spec => []IInv
BY SignInInit, SignInNext, PTL DEF Spec

\* Cookies, logins, callbacks and the key cache keep their types.
THEOREM SignInTypes == Spec => []TypeOK
<1>1. IInv => TypeOK
  BY DEF IInv
<1> QED BY <1>1, SignInInvariant, PTL

\* A key that validates a token is published or left it less than the cache's TTL and
\* a fetch ago (jwks.go key).
THEOREM KeysAreRecent == Spec => []ServedKeysRecent
<1>1. IInv => ServedKeysRecent
  BY DEF IInv, KInv
<1> QED BY <1>1, SignInInvariant, PTL

\* A key that is published all along is found, however old the cache (jwks.go key).
THEOREM NewKeysAreKnown == Spec => []KnownKeysAccepted
<1>1. IInv => KnownKeysAccepted
  BY DEF IInv, KInv
<1> QED BY <1>1, SignInInvariant, PTL

\* A browser's session is of a login that it began itself (handler.go Callback).
THEOREM SessionsAreOwn == Spec => []SessionOfItsLogin
<1>1. IInv => SessionOfItsLogin
  BY DEF IInv
<1> QED BY <1>1, SignInInvariant, PTL

\* A mismatched state has its reason in the browser (handler.go Callback).
THEOREM MismatchesAreExplained == Spec => []MismatchExplained
<1>1. IInv => MismatchExplained
  BY DEF IInv
<1> QED BY <1>1, SignInInvariant, PTL

-----------------------------------------------------------------------------
\* The implementation of Sessions.

\* What the abstract login is made of stands still for g.
LEMMA SameLogin ==
    ASSUME NEW g \in Flows,
           flow'[g].stage = flow[g].stage, flow'[g].browser = flow[g].browser,
           flow'[g].subject = flow[g].subject,
           (\E r \in Requests : Exchanged(r)' /\ call'[r].flow = g)
               <=> (\E r \in Requests : Exchanged(r) /\ call[r].flow = g)
    PROVE  LoginOf(g)' = LoginOf(g)
<1>1. Status(g)' = Status(g)
  BY DEF Status
<1> QED BY <1>1 DEF LoginOf

\* Callbacks that only leave the exchange behind them do not meet in it.
LEMMA OneStays ==
    ASSUME OneExchangePerLogin,
           \A r \in Requests : Exchanged(r)' => Exchanged(r) /\ call'[r].flow = call[r].flow
    PROVE  OneExchangePerLogin'
BY DEF OneExchangePerLogin

\* Logins may be disturbed and callbacks go on, but none leaves or enters the
\* exchange: nothing that is abstract happens.
LEMMA NothingHappens ==
    ASSUME OneExchangePerLogin,
           \A g \in Flows : /\ flow'[g].stage = flow[g].stage /\ flow'[g].browser = flow[g].browser
                            /\ flow'[g].subject = flow[g].subject,
           \A r \in Requests : /\ Exchanged(r)' <=> Exchanged(r)
                               /\ Exchanged(r) => call'[r].flow = call[r].flow
    PROVE  OneExchangePerLogin' /\ AbstractLogin' = AbstractLogin
<1>1. OneExchangePerLogin'
  BY OneStays
<1>2. ASSUME NEW g \in Flows PROVE LoginOf(g)' = LoginOf(g)
  <2>1. (\E r \in Requests : Exchanged(r)' /\ call'[r].flow = g)
            <=> (\E r \in Requests : Exchanged(r) /\ call[r].flow = g)
    OBVIOUS
  <2> QED BY <2>1, SameLogin
<1> QED BY <1>1, <1>2, Zenon DEF AbstractLogin

\* A callback is past the exchange only if its login is spent.
LEMMA ExchangedIsSpent ==
    ASSUME IInv, NEW r \in Requests, Exchanged(r)
    PROVE  /\ call[r].flow \in Flows /\ flow[call[r].flow].stage = "spent"
           /\ flow[call[r].flow].browser = call[r].browser
           /\ call[r].subject = flow[call[r].flow].subject
           /\ LoginOf(call[r].flow).status = "exchanged"
<1>1. /\ call[r].flow \in Flows /\ flow[call[r].flow].stage = "spent"
      /\ flow[call[r].flow].browser = call[r].browser
      /\ call[r].subject = flow[call[r].flow].subject
  BY DEF IInv, CallAt, Exchanged
<1>2. Status(call[r].flow) = "exchanged"
  BY <1>1 DEF Status
<1> QED BY <1>1, <1>2 DEF LoginOf

\* The one callback of a login leaves the exchange: the login is over.
LEMMA ExchangeLeft ==
    ASSUME SInv, NEW r \in Requests, NEW f \in Flows, f = call[r].flow,
           Exchanged(r), ~Exchanged(r)',
           \A q \in Requests : q # r => call'[q] = call[q],
           \A g \in Flows : /\ flow'[g].stage = flow[g].stage /\ flow'[g].browser = flow[g].browser
                            /\ flow'[g].subject = flow[g].subject
    PROVE  /\ OneExchangePerLogin'
           /\ LoginOf(f).status = "exchanged"
           /\ AbstractLogin' = [AbstractLogin EXCEPT ![f].status = "over"]
<1>1. \A q \in Requests : /\ q # r => (Exchanged(q)' <=> Exchanged(q))
                          /\ Exchanged(q)' => q # r
  BY DEF Exchanged
<1>2. OneExchangePerLogin'
  BY <1>1, OneStays DEF SInv
<1>3. LoginOf(f).status = "exchanged" /\ flow[f].stage = "spent"
  BY ExchangedIsSpent DEF SInv
<1>4. ~\E q \in Requests : Exchanged(q)' /\ call'[q].flow = f
  BY <1>1 DEF SInv, OneExchangePerLogin
<1>5. LoginOf(f)' = [LoginOf(f) EXCEPT !.status = "over"]
  <2>1. Status(f)' = "over"
    BY <1>3, <1>4 DEF Status
  <2> QED BY <2>1 DEF LoginOf
<1>6. ASSUME NEW g \in Flows, g # f PROVE LoginOf(g)' = LoginOf(g)
  <2>1. (\E q \in Requests : Exchanged(q)' /\ call'[q].flow = g)
            <=> (\E q \in Requests : Exchanged(q) /\ call[q].flow = g)
    BY <1>1, <1>6
  <2> QED BY <2>1, SameLogin
<1> QED BY <1>2, <1>3, <1>5, <1>6 DEF AbstractLogin

\* A login that ends alone.
LEMMA FailsAlone ==
    ASSUME NEW f \in Flows, AbstractLogin[f].status \in {"authorized", "exchanged"},
           AbstractLogin' = [AbstractLogin EXCEPT ![f].status = "over"],
           AbstractSession' = AbstractSession
    PROVE  Promise!SNext
<1>1. AbstractLogin' = [g \in Flows |-> IF g \in {f} THEN [AbstractLogin[g] EXCEPT !.status = "over"]
                                        ELSE AbstractLogin[g]]
  BY DEF AbstractLogin
<1>2. Promise!Fail({f})
  BY <1>1 DEF Promise!Fail
<1> QED BY <1>2 DEF Promise!SNext

LEMMA SameSessions ==
    ASSUME UNCHANGED jar PROVE AbstractSession' = AbstractSession
BY DEF AbstractSession

\* What is to be shown of each step.
Follows == OneExchangePerLogin' /\ (Promise!SNext \/ UNCHANGED Promise!svars)

\* Callbacks and sessions stand still while a login may be disturbed.
LEMMA QuietFollows ==
    ASSUME SInv, UNCHANGED call, AbstractSession' = AbstractSession,
           \A g \in Flows : /\ flow'[g].stage = flow[g].stage /\ flow'[g].browser = flow[g].browser
                            /\ flow'[g].subject = flow[g].subject
    PROVE  Follows
<1>1. \A r \in Requests : (Exchanged(r)' <=> Exchanged(r)) /\ call'[r].flow = call[r].flow
  BY DEF Exchanged
<1>2. OneExchangePerLogin' /\ AbstractLogin' = AbstractLogin
  BY <1>1, NothingHappens DEF SInv
<1> QED BY <1>2 DEF Follows, Promise!svars

\* A callback goes on, outside of the exchange or inside.
LEMMA CallGoesOn ==
    ASSUME SInv, NEW r \in Requests, UNCHANGED <<jar, flow>>,
           \A q \in Requests : q # r => call'[q] = call[q],
           Exchanged(r)' <=> Exchanged(r),
           Exchanged(r) => call'[r].flow = call[r].flow
    PROVE  Follows
<1>1. \A q \in Requests : /\ Exchanged(q)' <=> Exchanged(q)
                          /\ Exchanged(q) => call'[q].flow = call[q].flow
  <2>1. \A q \in Requests : q # r => (Exchanged(q)' <=> Exchanged(q)) /\ call'[q].flow = call[q].flow
    BY DEF Exchanged
  <2> QED BY <2>1
<1>2. OneExchangePerLogin' /\ AbstractLogin' = AbstractLogin
  BY <1>1, NothingHappens DEF SInv
<1> QED BY <1>2, SameSessions DEF Follows, Promise!svars

\* The one callback of a login ends without a session.
LEMMA CallFails ==
    ASSUME SInv, NEW r \in Requests, UNCHANGED <<jar, flow>>,
           Exchanged(r), ~Exchanged(r)',
           \A q \in Requests : q # r => call'[q] = call[q]
    PROVE  Follows
<1>1. PICK f \in Flows : f = call[r].flow
  BY ExchangedIsSpent DEF SInv
<1>2. /\ OneExchangePerLogin' /\ LoginOf(f).status = "exchanged"
      /\ AbstractLogin' = [AbstractLogin EXCEPT ![f].status = "over"]
  BY <1>1, ExchangeLeft
<1>3. Promise!SNext
  BY <1>2, FailsAlone, SameSessions DEF AbstractLogin
<1> QED BY <1>2, <1>3 DEF Follows

\* The browser and the provider's page.
LEMMA BrowseFollows ==
    ASSUME SInv, Browse PROVE Follows
<1> USE SignInAssumption
<1>1. ASSUME NEW b \in Browsers, NEW f \in Flows, Login(b, f) PROVE Follows
  <2>1. /\ flow[f].stage = "new" /\ UNCHANGED call
        /\ flow' = [Disturbed(jar[b].login) EXCEPT ![f].stage = "begun", ![f].browser = b]
        /\ jar' = [jar EXCEPT ![b].login = f]
    BY <1>1 DEF Login
  <2>2. TypeOK
    BY DEF SInv, IInv
  <2>3. /\ flow'[f].stage = "begun" /\ flow'[f].browser = b /\ flow'[f].subject = flow[f].subject
        /\ \A g \in Flows : g # f => /\ flow'[g].stage = flow[g].stage
                                     /\ flow'[g].browser = flow[g].browser
                                     /\ flow'[g].subject = flow[g].subject
    BY <2>1, <2>2, DisturbedFacts DEF Flow
  <2>4. \A r \in Requests : (Exchanged(r)' <=> Exchanged(r)) /\ call'[r].flow = call[r].flow
    BY <2>1 DEF Exchanged
  <2>5. OneExchangePerLogin'
    BY <2>4, OneStays DEF SInv
  <2>6. ASSUME NEW g \in Flows, g # f PROVE LoginOf(g)' = LoginOf(g)
    BY <2>3, <2>4, <2>6, SameLogin
  <2>7. /\ LoginOf(f)' = [status |-> "begun", browser |-> b, subject |-> flow[f].subject]
        /\ LoginOf(f).status = "new"
    <3>1. Status(f)' = "begun" /\ Status(f) = "new"
      <4>1. flow[f].stage = "new" /\ flow'[f].stage = "begun"
        BY <2>1, <2>3
      <4> QED BY <4>1 DEF Status
    <3> QED BY <2>3, <3>1 DEF LoginOf
  <2>8. AbstractLogin' = [AbstractLogin EXCEPT ![f].status = "begun", ![f].browser = b]
    <3> DEFINE next == [AbstractLogin EXCEPT ![f].status = "begun", ![f].browser = b]
    <3>1. next = [g \in Flows |-> next[g]] /\ AbstractLogin' = [g \in Flows |-> AbstractLogin'[g]]
      BY DEF AbstractLogin
    <3>2. next[f] = [status |-> "begun", browser |-> b, subject |-> flow[f].subject]
      BY DEF AbstractLogin, LoginOf
    <3>3. \A g \in Flows : AbstractLogin'[g] = next[g]
      BY <2>6, <2>7, <3>2 DEF AbstractLogin
    <3> QED BY <3>1, <3>3
  <2>9. AbstractSession' = AbstractSession
    BY <2>1, <2>2 DEF AbstractSession, TypeOK, Jar
  <2>10. Promise!Begin(b, f)
    BY <2>7, <2>8, <2>9 DEF Promise!Begin, AbstractLogin
  <2> QED BY <2>5, <2>10 DEF Follows, Promise!SNext
<1>2. ASSUME NEW f \in Flows, NEW s \in Subjects, Authorize(f, s) PROVE Follows
  <2>1. /\ flow[f].stage = "begun" /\ UNCHANGED <<call, jar>>
        /\ flow' = [flow EXCEPT ![f].stage = "authorized", ![f].subject = s]
    BY <1>2 DEF Authorize
  <2>2. /\ flow'[f].stage = "authorized" /\ flow'[f].browser = flow[f].browser /\ flow'[f].subject = s
        /\ \A g \in Flows : g # f => flow'[g] = flow[g]
    BY <2>1 DEF SInv, IInv, TypeOK, Flow
  <2>3. \A r \in Requests : (Exchanged(r)' <=> Exchanged(r)) /\ call'[r].flow = call[r].flow
    BY <2>1 DEF Exchanged
  <2>4. OneExchangePerLogin'
    BY <2>3, OneStays DEF SInv
  <2>5. ASSUME NEW g \in Flows, g # f PROVE LoginOf(g)' = LoginOf(g)
    BY <2>2, <2>3, <2>5, SameLogin
  <2>6. /\ LoginOf(f)' = [status |-> "authorized", browser |-> flow[f].browser, subject |-> s]
        /\ LoginOf(f).status = "begun"
    <3>1. Status(f)' = "authorized" /\ Status(f) = "begun"
      <4>1. flow[f].stage = "begun" /\ flow'[f].stage = "authorized"
        BY <2>1, <2>2
      <4> QED BY <4>1 DEF Status
    <3> QED BY <2>2, <3>1 DEF LoginOf
  <2>7. AbstractLogin' = [AbstractLogin EXCEPT ![f].status = "authorized", ![f].subject = s]
    <3> DEFINE next == [AbstractLogin EXCEPT ![f].status = "authorized", ![f].subject = s]
    <3>1. next = [g \in Flows |-> next[g]] /\ AbstractLogin' = [g \in Flows |-> AbstractLogin'[g]]
      BY DEF AbstractLogin
    <3>2. next[f] = [status |-> "authorized", browser |-> flow[f].browser, subject |-> s]
      BY DEF AbstractLogin, LoginOf
    <3>3. \A g \in Flows : AbstractLogin'[g] = next[g]
      BY <2>5, <2>6, <3>2 DEF AbstractLogin
    <3> QED BY <3>1, <3>3
  <2>8. Promise!Authorize(f, s)
    BY <2>1, <2>6, <2>7, SameSessions DEF Promise!Authorize, AbstractLogin
  <2> QED BY <2>4, <2>8 DEF Follows, Promise!SNext
<1>3. ASSUME NEW b \in Browsers, ExpireLogin(b) PROVE Follows
  <2>1. UNCHANGED call /\ flow' = Disturbed(jar[b].login) /\ jar' = [jar EXCEPT ![b].login = NoFlow]
    BY <1>3 DEF ExpireLogin
  <2>2. TypeOK
    BY DEF SInv, IInv
  <2>3. AbstractSession' = AbstractSession
    BY <2>1, <2>2 DEF AbstractSession, TypeOK, Jar
  <2> QED BY <2>1, <2>2, <2>3, DisturbedFacts, QuietFollows
<1>4. ASSUME NEW b \in Browsers, EndSession(b) PROVE Follows
  <2>1. UNCHANGED <<call, flow>> /\ jar' = [jar EXCEPT ![b].session = NoOne]
    BY <1>4 DEF EndSession
  <2>2. AbstractSession' = [AbstractSession EXCEPT ![b] = NoOne]
    BY <2>1 DEF AbstractSession, SInv, IInv, TypeOK, Jar
  <2>3. \A r \in Requests : (Exchanged(r)' <=> Exchanged(r)) /\ call'[r].flow = call[r].flow
    BY <2>1 DEF Exchanged
  <2>4. OneExchangePerLogin' /\ AbstractLogin' = AbstractLogin
    BY <2>1, <2>3, NothingHappens DEF SInv
  <2> QED BY <2>2, <2>4 DEF Follows, Promise!SNext, Promise!SignOut
<1> QED BY <1>1, <1>2, <1>3, <1>4 DEF Browse

\* Callback, whose redirect may have been opened before.
LEMMA CallbackFollows ==
    ASSUME SInv, NEW r \in Requests, NEW b \in Browsers, NEW f \in Flows, Callback(r, b, f)
    PROVE  Follows
<1>1. /\ call[r].at = "none" /\ UNCHANGED <<jar, flow>>
      /\ call'[r].at \in {"exchanging", "mismatch"}
      /\ \A q \in Requests : q # r => call'[q] = call[q]
  BY DEF Callback, SInv, IInv, TypeOK
<1> QED BY <1>1, CallGoesOn DEF Exchanged

\* The code is exchanged, which the provider allows once.
LEMMA ExchangeFollows ==
    ASSUME SInv, NEW r \in Requests, Exchange(r) PROVE Follows
<1>1. PICK f \in Flows : f = call[r].flow
  BY DEF SInv, IInv, CallAt, Exchange
<1>2. /\ call[r].at = "exchanging" /\ flow[f].stage = "authorized" /\ flow[f].subject \in Subjects
      /\ UNCHANGED jar /\ flow' = [flow EXCEPT ![f].stage = "spent"]
      /\ call' = [call EXCEPT ![r].at = "validating", ![r].subject = flow[f].subject]
  BY <1>1 DEF Exchange, Redeems, Spend, Claimed, SInv, IInv, LoginAt
<1>3. /\ flow'[f].stage = "spent" /\ flow'[f].browser = flow[f].browser
      /\ flow'[f].subject = flow[f].subject
      /\ \A g \in Flows : g # f => flow'[g] = flow[g]
  BY <1>2 DEF SInv, IInv, TypeOK, Flow
<1>4. /\ call'[r].at = "validating" /\ call'[r].flow = f
      /\ \A q \in Requests : q # r => call'[q] = call[q]
  BY <1>1, <1>2 DEF SInv, IInv, TypeOK, Call
<1>5. /\ ~Exchanged(r) /\ Exchanged(r)'
      /\ \A q \in Requests : q # r => (Exchanged(q)' <=> Exchanged(q)) /\ call'[q].flow = call[q].flow
  BY <1>2, <1>4 DEF Exchanged
<1>6. \A q \in Requests : Exchanged(q) => call[q].flow # f
  BY <1>2, ExchangedIsSpent DEF SInv
<1>7. OneExchangePerLogin'
  BY <1>4, <1>5, <1>6 DEF SInv, OneExchangePerLogin
<1>8. ASSUME NEW g \in Flows, g # f PROVE LoginOf(g)' = LoginOf(g)
  <2>1. (\E q \in Requests : Exchanged(q)' /\ call'[q].flow = g)
            <=> (\E q \in Requests : Exchanged(q) /\ call[q].flow = g)
    BY <1>4, <1>5, <1>8
  <2> QED BY <1>3, <1>8, <2>1, SameLogin
<1>9. LoginOf(f)' = [LoginOf(f) EXCEPT !.status = "exchanged"] /\ LoginOf(f).status = "authorized"
  <2>1. Status(f)' = "exchanged" /\ Status(f) = "authorized"
    BY <1>2, <1>3, <1>4, <1>5 DEF Status
  <2> QED BY <1>3, <2>1 DEF LoginOf
<1>10. AbstractLogin' = [AbstractLogin EXCEPT ![f].status = "exchanged"]
  BY <1>8, <1>9 DEF AbstractLogin
<1>11. Promise!Exchange(f)
  BY <1>2, <1>9, <1>10, SameSessions DEF Promise!Exchange, AbstractLogin
<1> QED BY <1>7, <1>11 DEF Follows, Promise!SNext

\* The exchange fails, before or after the provider took the code.
LEMMA ExchangeFailsFollows ==
    ASSUME SInv, NEW r \in Requests, ExchangeFails(r) PROVE Follows
<1>1. PICK f \in Flows : f = call[r].flow
  BY DEF SInv, IInv, CallAt, ExchangeFails
<1>2. /\ call[r].at = "exchanging" /\ UNCHANGED jar /\ GoTo(r, "refused")
      /\ UNCHANGED flow \/ (Redeems(r) /\ Spend(f))
  BY <1>1 DEF ExchangeFails
<1>3. call'[r].at = "refused" /\ \A q \in Requests : q # r => call'[q] = call[q]
  BY <1>2, GoToFacts DEF SInv
<1>4. \A q \in Requests : /\ Exchanged(q)' <=> Exchanged(q)
                          /\ Exchanged(q) => call'[q].flow = call[q].flow
  BY <1>2, <1>3 DEF Exchanged
<1>5. CASE UNCHANGED flow
  BY <1>2, <1>3, <1>4, <1>5, CallGoesOn
<1>6. CASE Redeems(r) /\ Spend(f)
  <2>1. flow[f].stage = "authorized" /\ flow' = [flow EXCEPT ![f].stage = "spent"]
    BY <1>1, <1>6 DEF Redeems, Spend
  <2>2. /\ flow'[f].stage = "spent" /\ flow'[f].browser = flow[f].browser
        /\ flow'[f].subject = flow[f].subject
        /\ \A g \in Flows : g # f => flow'[g] = flow[g]
    BY <2>1 DEF SInv, IInv, TypeOK, Flow
  <2>3. ~\E q \in Requests : Exchanged(q)' /\ call'[q].flow = f
    BY <1>4, <2>1, ExchangedIsSpent DEF SInv
  <2>4. OneExchangePerLogin'
    BY <1>4, OneStays DEF SInv
  <2>5. ASSUME NEW g \in Flows, g # f PROVE LoginOf(g)' = LoginOf(g)
    <3>1. (\E q \in Requests : Exchanged(q)' /\ call'[q].flow = g)
              <=> (\E q \in Requests : Exchanged(q) /\ call[q].flow = g)
      BY <1>4
    <3> QED BY <2>2, <2>5, <3>1, SameLogin
  <2>6. LoginOf(f)' = [LoginOf(f) EXCEPT !.status = "over"] /\ LoginOf(f).status = "authorized"
    <3>1. Status(f)' = "over" /\ Status(f) = "authorized"
      BY <2>1, <2>2, <2>3 DEF Status
    <3> QED BY <2>2, <3>1 DEF LoginOf
  <2>7. AbstractLogin' = [AbstractLogin EXCEPT ![f].status = "over"]
    BY <2>5, <2>6 DEF AbstractLogin
  <2>8. Promise!SNext
    BY <1>2, <2>6, <2>7, SameSessions, FailsAlone DEF AbstractLogin
  <2> QED BY <2>4, <2>8 DEF Follows
<1> QED BY <1>2, <1>5, <1>6

\* A callback is placed: it stays in the exchange or it is refused.
LEMMA GoToFollows ==
    ASSUME SInv, NEW r \in Requests, NEW p \in {"identifying", "welcomed", "refused"}, GoTo(r, p),
           Exchanged(r), UNCHANGED <<jar, flow>>
    PROVE  Follows
<1>1. /\ call'[r].at = p /\ call'[r].flow = call[r].flow
      /\ \A q \in Requests : q # r => call'[q] = call[q]
  BY GoToFacts DEF SInv
<1>2. CASE p = "refused"
  BY <1>1, <1>2, CallFails DEF Exchanged
<1>3. CASE p # "refused"
  BY <1>1, <1>3, CallGoesOn DEF Exchanged
<1> QED BY <1>2, <1>3

\* The token is accepted or refused, the identity is found or not.
LEMMA CheckFollows ==
    ASSUME SInv, NEW r \in Requests, Validated(r) \/ Identify(r) PROVE Follows
<1>1. CASE Validated(r)
  <2>1. check[r].at # "none"
    BY <1>1 DEF Validated, Forget
  <2>2. Exchanged(r)
    BY <2>1 DEF SInv, IInv, CallAt, Exchanged
  <2> QED BY <1>1, <2>2, GoToFollows DEF Validated
<1>2. CASE Identify(r)
  <2>1. Exchanged(r)
    BY <1>2 DEF Identify, Exchanged
  <2> QED BY <1>2, <2>1, GoToFollows DEF Identify
<1> QED BY <1>1, <1>2

\* A callback that is answered is nowhere.
LEMMA AnsweredLeaves ==
    ASSUME SInv, NEW r \in Requests, Answered(r)
    PROVE  ~Exchanged(r)' /\ \A q \in Requests : q # r => call'[q] = call[q]
BY DEF SInv, IInv, TypeOK, Answered, NoCall, Exchanged

\* The session goes to the browser that began the login.
LEMMA WelcomeFollows ==
    ASSUME SInv, NEW r \in Requests, Welcome(r) PROVE Follows
<1>1. PICK f \in Flows, b \in Browsers : f = call[r].flow /\ b = call[r].browser
  BY DEF SInv, IInv, Welcome, CallAt
<1>2. Exchanged(r) /\ Answered(r) /\ TypeOK
  BY DEF SInv, IInv, Welcome, Exchanged
<1>3. flow[f].browser = b /\ call[r].subject = flow[f].subject
  BY <1>1, <1>2, ExchangedIsSpent DEF SInv
<1>4. \A g \in Flows : /\ flow'[g].stage = flow[g].stage /\ flow'[g].browser = flow[g].browser
                       /\ flow'[g].subject = flow[g].subject
  <2>1. flow' = flow \/ flow' = Disturbed(jar[b].login)
    BY <1>1 DEF Welcome
  <2> QED BY <1>2, <2>1, DisturbedFacts
<1>5. /\ OneExchangePerLogin' /\ LoginOf(f).status = "exchanged"
      /\ AbstractLogin' = [AbstractLogin EXCEPT ![f].status = "over"]
  BY <1>1, <1>2, <1>4, AnsweredLeaves, ExchangeLeft
<1>6. AbstractSession' = [AbstractSession EXCEPT ![b] = flow[f].subject]
  <2>1. jar' = [jar EXCEPT ![b] = [login |-> NoFlow, session |-> flow[f].subject]]
    BY <1>1, <1>3 DEF Welcome, User
  <2>2. \A d \in Browsers : jar'[d].session = IF d = b THEN flow[f].subject ELSE jar[d].session
    BY <1>2, <2>1 DEF TypeOK
  <2> QED BY <2>2 DEF AbstractSession
<1>7. AbstractLogin[f].browser = b /\ AbstractLogin[f].subject = flow[f].subject
  BY <1>3 DEF AbstractLogin, LoginOf
<1>8. Promise!Welcome(f)
  BY <1>5, <1>6, <1>7 DEF Promise!Welcome, AbstractLogin
<1> QED BY <1>5, <1>8 DEF Follows, Promise!SNext

\* An error is answered, or the answer is lost.
LEMMA RefuseFollows ==
    ASSUME SInv, NEW r \in Requests, Refuse(r) \/ Lose(r) PROVE Follows
<1>1. /\ ~Exchanged(r)' /\ UNCHANGED <<jar, flow>>
      /\ \A q \in Requests : q # r => call'[q] = call[q]
  BY AnsweredLeaves DEF Refuse, Lose
<1>2. CASE Exchanged(r)
  BY <1>1, <1>2, CallFails
<1>3. CASE ~Exchanged(r)
  BY <1>1, <1>3, CallGoesOn
<1> QED BY <1>2, <1>3

\* The logins whose code was exchanged end with the process.
LEMMA RestartFollows ==
    ASSUME SInv, RestartServer PROVE Follows
<1>1. UNCHANGED <<jar, flow>> /\ \A r \in Requests : ~Exchanged(r)'
  BY DEF RestartServer, NoCall, Exchanged
<1>2. OneExchangePerLogin'
  BY <1>1 DEF OneExchangePerLogin
<1> DEFINE F == {f \in Flows : LoginOf(f).status = "exchanged"}
           next == [f \in Flows |-> IF f \in F THEN [AbstractLogin[f] EXCEPT !.status = "over"]
                                    ELSE AbstractLogin[f]]
<1>3. ASSUME NEW f \in Flows PROVE AbstractLogin'[f] = next[f]
  <2>1. /\ LoginOf(f)'.browser = LoginOf(f).browser /\ LoginOf(f)'.subject = LoginOf(f).subject
        /\ LoginOf(f).status = Status(f) /\ LoginOf(f)'.status = Status(f)'
    BY <1>1 DEF LoginOf
  <2>2. CASE f \in F
    <3>1. flow[f].stage = "spent"
      <4>1. flow[f].stage # "exchanged"
        BY DEF SInv, IInv, TypeOK, Flow
      <4> QED BY <2>1, <2>2, <4>1 DEF Status
    <3>2. Status(f)' = "over"
      BY <1>1, <3>1 DEF Status
    <3>3. LoginOf(f)' = [LoginOf(f) EXCEPT !.status = "over"]
      BY <1>1, <3>2 DEF LoginOf
    <3> QED BY <2>2, <3>3 DEF AbstractLogin
  <2>3. CASE f \notin F
    <3>1. Status(f)' = Status(f)
      BY <1>1, <2>1, <2>3 DEF Status
    <3>2. LoginOf(f)' = LoginOf(f)
      BY <1>1, <3>1 DEF LoginOf
    <3> QED BY <2>3, <3>2 DEF AbstractLogin
  <2> QED BY <2>2, <2>3
<1>4. AbstractLogin' = next
  <2>1. AbstractLogin' = [f \in Flows |-> AbstractLogin'[f]]
    BY DEF AbstractLogin
  <2> HIDE DEF F
  <2> QED BY <1>3, <2>1
<1>5. Promise!Fail(F)
  BY <1>1, <1>4, SameSessions DEF Promise!Fail, AbstractLogin
<1>6. F \in SUBSET Flows
  OBVIOUS
<1> QED BY <1>2, <1>5, <1>6 DEF Follows, Promise!SNext

\* Every step is one of Sessions, or none, and keeps exchanges apart.
LEMMA StepsFollow ==
    ASSUME SInv, [Next]_vars PROVE Follows
<1>1. CASE Browse
  BY <1>1, BrowseFollows
<1>2. CASE \E r \in Requests, b \in Browsers, f \in Flows : Callback(r, b, f)
  BY <1>2, CallbackFollows
<1>3. ASSUME NEW r \in Requests, Advance(r) PROVE Follows
  <2>1. CASE Validate(r)
    BY <2>1, QuietFollows, SameSessions DEF Validate, web
  <2> QED BY <1>3, <2>1, ExchangeFollows, ExchangeFailsFollows, CheckFollows, WelcomeFollows,
             RefuseFollows DEF Advance
<1>4. CASE (Rotate /\ UNCHANGED web) \/ UNCHANGED vars
  BY <1>4, QuietFollows, SameSessions DEF vars, web
<1>5. CASE RestartServer
  BY <1>5, RestartFollows
<1> QED BY <1>1, <1>2, <1>3, <1>4, <1>5 DEF Next

\* No login is in two callbacks past its exchange (handler.go Callback), beside the
\* inductive invariant of signing in.
THEOREM ExchangesAreApart == Spec => []SInv
<1>1. Init => SInv
  BY SignInInit DEF SInv, Init, OneExchangePerLogin, Exchanged, NoCall
<1>2. SInv /\ [Next]_vars => SInv'
  BY SignInNext, StepsFollow DEF SInv, Follows
<1> QED BY <1>1, <1>2, PTL DEF Spec

\* Login, Callback and the cookies of any number of tabs keep the promise of Sessions:
\* at most one session for each login, where and of whom the login says.
THEOREM SessionsAsPromised == Spec => ImplementsSessions
<1>1. Init => Promise!SInit
  <2> SUFFICES ASSUME Init PROVE Promise!SInit
    OBVIOUS
  <2>1. \A f \in Flows : LoginOf(f) = [status |-> "new", browser |-> NoBrowser, subject |-> NoOne]
    <3>1. \A f \in Flows : /\ flow[f].stage = "new" /\ flow[f].browser = NoBrowser
                           /\ flow[f].subject = NoOne
      BY DEF Init
    <3>2. \A f \in Flows : Status(f) = "new"
      BY <3>1 DEF Status
    <3> QED BY <3>1, <3>2 DEF LoginOf
  <2>2. AbstractSession = [b \in Browsers |-> NoOne]
    BY DEF Init, AbstractSession
  <2> QED BY <2>1, <2>2 DEF Promise!SInit, AbstractLogin
<1>2. SInv /\ [Next]_vars => [Promise!SNext]_(Promise!svars)
  BY StepsFollow DEF Follows
<1> QED BY <1>1, <1>2, ExchangesAreApart, PTL DEF Spec, ImplementsSessions, Promise!SSpec
=============================================================================
