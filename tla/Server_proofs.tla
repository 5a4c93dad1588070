---------------------------- MODULE Server_proofs ----------------------------
(***************************************************************************)
(* The process of the server: its invariant for every number of requests,  *)
(* connections and panics, and that the rate limiter inside it behaves as  *)
(* RateLimit says, and so implements Buckets.                              *)
(***************************************************************************)
EXTENDS Server, RateLimit_proofs, FiniteSetTheorems

\* What a change of one request's stage does to the sets of requests.
LEMMA StageSets ==
    ASSUME TypeOK, NEW r \in Requests, NEW p \in Stages, GoTo(r, p)
    PROVE  /\ Active' = IF p = "none" THEN Active \ {r} ELSE Active \cup {r}
           /\ Querying' = IF p = "querying" THEN Querying \cup {r} ELSE Querying \ {r}
           /\ stage' \in [Requests -> Stages]
BY DEF TypeOK, GoTo, Active, Querying

\* Counting a set of requests with one more or one less.
LEMMA Counting ==
    ASSUME NEW S \in SUBSET Requests, NEW r \in Requests
    PROVE  /\ Cardinality(S) \in Nat
           /\ r \notin S => /\ Cardinality(S \cup {r}) = Cardinality(S) + 1
                            /\ Cardinality(S \ {r}) = Cardinality(S)
           /\ r \in S => /\ Cardinality(S \ {r}) = Cardinality(S) - 1
                         /\ Cardinality(S \cup {r}) = Cardinality(S)
                         /\ Cardinality(S) > 0
<1>1. IsFiniteSet(S)
  BY ServerAssumption, FS_Subset
<1>2. Cardinality(S) \in Nat
  BY <1>1, FS_CardinalityType
<1>3. CASE r \notin S
  <2>1. Cardinality(S \cup {r}) = Cardinality(S) + 1
    BY <1>1, <1>3, FS_AddElement
  <2>2. S \ {r} = S
    BY <1>3
  <2> QED BY <1>2, <1>3, <2>1, <2>2
<1>4. CASE r \in S
  <2>1. Cardinality(S \ {r}) = Cardinality(S) - 1
    BY <1>1, <1>4, FS_RemoveElement
  <2>2. Cardinality(S) # 0
    BY <1>1, <1>4, FS_EmptySet
  <2>3. Cardinality(S \cup {r}) = Cardinality(S)
    <3>1. S \cup {r} = S
      BY <1>4
    <3> QED BY <3>1
  <2>4. Cardinality(S) > 0
    BY <1>2, <2>2
  <2> QED BY <1>2, <1>4, <2>1, <2>3, <2>4
<1> QED BY <1>2, <1>3, <1>4

\* The number of requests in the server and in the database after such a change.
In(place) == IF place = "none" THEN 0 ELSE 1
Queries(place) == IF place = "querying" THEN 1 ELSE 0

LEMMA StageCounts ==
    ASSUME TypeOK, NEW r \in Requests, NEW p \in Stages, GoTo(r, p)
    PROVE  /\ Cardinality(Active') = Cardinality(Active) + In(p) - In(stage[r])
           /\ Cardinality(Querying') = Cardinality(Querying) + Queries(p) - Queries(stage[r])
           /\ stage' \in [Requests -> Stages]
           /\ Active' # {} => Active # {} \/ stage[r] = "none"
<1>1. Active \in SUBSET Requests /\ Querying \in SUBSET Requests
  BY DEF Active, Querying
<1>2. /\ r \in Active <=> stage[r] # "none"
      /\ r \in Querying <=> stage[r] = "querying"
  BY DEF Active, Querying
<1>3. Cardinality(Active') = Cardinality(Active) + In(p) - In(stage[r])
  <2> DEFINE S == Active
  <2>1. /\ Cardinality(S) \in Nat
        /\ r \notin S => /\ Cardinality(S \cup {r}) = Cardinality(S) + 1
                         /\ Cardinality(S \ {r}) = Cardinality(S)
        /\ r \in S => /\ Cardinality(S \ {r}) = Cardinality(S) - 1
                      /\ Cardinality(S \cup {r}) = Cardinality(S)
    BY <1>1, Counting
  <2>2. Active' = IF p = "none" THEN S \ {r} ELSE S \cup {r}
    BY StageSets
  <2> HIDE DEF S
  <2>3. r \in S <=> stage[r] # "none"
    BY <1>2 DEF S
  <2>4. Cardinality(Active') = Cardinality(S) + In(p) - In(stage[r])
    <3>1. CASE p = "none"
      <4>1. Active' = S \ {r}
        BY <2>2, <3>1
      <4>2. Cardinality(Active') = Cardinality(S \ {r})
        BY <4>1
      <4> QED BY <2>1, <2>3, <3>1, <4>2 DEF In
    <3>2. CASE p # "none"
      <4>1. Active' = S \cup {r}
        BY <2>2, <3>2
      <4>2. Cardinality(Active') = Cardinality(S \cup {r})
        BY <4>1
      <4> QED BY <2>1, <2>3, <3>2, <4>2 DEF In
    <3> QED BY <3>1, <3>2
  <2> QED BY <2>4 DEF S
<1>4. Cardinality(Querying') = Cardinality(Querying) + Queries(p) - Queries(stage[r])
  <2> DEFINE S == Querying
  <2>1. /\ Cardinality(S) \in Nat
        /\ r \notin S => /\ Cardinality(S \cup {r}) = Cardinality(S) + 1
                         /\ Cardinality(S \ {r}) = Cardinality(S)
        /\ r \in S => /\ Cardinality(S \ {r}) = Cardinality(S) - 1
                      /\ Cardinality(S \cup {r}) = Cardinality(S)
    BY <1>1, Counting
  <2>2. Querying' = IF p = "querying" THEN S \cup {r} ELSE S \ {r}
    BY StageSets
  <2> HIDE DEF S
  <2>3. r \in S <=> stage[r] = "querying"
    BY <1>2 DEF S
  <2>4. Cardinality(Querying') = Cardinality(S) + Queries(p) - Queries(stage[r])
    <3>1. CASE p = "querying"
      <4>1. Querying' = S \cup {r}
        BY <2>2, <3>1
      <4>2. Cardinality(Querying') = Cardinality(S \cup {r})
        BY <4>1
      <4> QED BY <2>1, <2>3, <3>1, <4>2 DEF Queries
    <3>2. CASE p # "querying"
      <4>1. Querying' = S \ {r}
        BY <2>2, <3>2
      <4>2. Cardinality(Querying') = Cardinality(S \ {r})
        BY <4>1
      <4> QED BY <2>1, <2>3, <3>2, <4>2 DEF Queries
    <3> QED BY <3>1, <3>2
  <2> QED BY <2>4 DEF S
<1>5. Active' # {} => Active # {} \/ stage[r] = "none"
  BY <1>2, StageSets
<1> QED BY <1>3, <1>4, <1>5, StageSets

\* Every step of the server is a step of its limiter, or leaves it alone.
LEMMA NextLimits == Next => [LNext]_lvars
<1> SUFFICES ASSUME Next PROVE [LNext]_lvars
  OBVIOUS
<1>1. CASE Boot \/ New \/ Assign \/ Listen \/ Notify
  BY <1>1 DEF Boot, New, OpenPool, Assign, Listen, Notify, MoveTo
<1>2. CASE StartPanics \/ Kill \/ Closed
  BY <1>2 DEF StartPanics, Kill, Closed, Exit, LNext
<1>3. CASE Signal
  BY <1>3 DEF Signal, Exit, LNext
<1>4. CASE Shutdown \/ Expire \/ Drained \/ Close
  BY <1>4 DEF Shutdown, Expire, Drained, Close, MoveTo
<1>5. CASE Limiting
  BY <1>5 DEF Limiting, LNext
<1>6. ASSUME NEW r \in Requests, Accept(r) \/ Begin(r) \/ Return(r) \/ Acquire(r)
                                 \/ PoolClosed(r) \/ Release(r)
      PROVE  UNCHANGED lvars
  BY <1>6 DEF Accept, Begin, Return, Acquire, PoolClosed, Release
<1>7. ASSUME NEW r \in Requests, Lookup(r) \/ Limit(r) \/ Answer(r) \/ Panic(r)
      PROVE  LNext
  BY <1>7 DEF Lookup, Limit, Answer, Panic, LNext
<1> QED BY <1>1, <1>2, <1>3, <1>4, <1>5, <1>6, <1>7 DEF Next, Stopping, Advance

\* Nothing runs when the process is down: its exit leaves the initial state.
LEMMA ExitInv == Init' => IInv'
<1> SUFFICES ASSUME Init' PROVE IInv'
  OBVIOUS
<1>1. LInv'
  <2>1. LInit' BY DEF Init
  <2> QED BY <2>1, RateLimitAssumption
          DEF LInit, LInv, LTypeOK, BucketsApart, PendingCall, Refilled, Known, NoCall, Told, Verdicts
<1>2. Active' = {} /\ Querying' = {}
  BY DEF Init, Active, Querying
<1>3. Cardinality(Active') = 0 /\ Cardinality(Querying') = 0
  BY <1>2, FS_EmptySet
<1>4. TypeOK'
  <2>1. (signalled \in BOOLEAN /\ inShutdown \in BOOLEAN
         /\ expired \in BOOLEAN /\ poolOpen \in BOOLEAN)'
    BY Zenon DEF Init
  <2>2. 0 \in 0 .. PoolSize /\ 0 \in 0 .. MaxTx /\ 0 \in 0 .. MaxPanics
    BY ServerAssumption
  <2>3. (acquired \in 0 .. PoolSize /\ inFlight \in Nat /\ panics \in 0 .. MaxPanics)'
    BY <2>2 DEF Init
  <2>4. (txLeft \in [Requests -> 0 .. MaxTx] /\ stage \in [Requests -> Stages])'
    BY <2>2 DEF Init, Stages
  <2> QED BY <1>1, <2>1, <2>3, <2>4 DEF TypeOK, Init, LInv, Mains, Servers
<1>5. (GaugeDrift /\ ConnectionsReturned)'
  BY <1>3, ServerAssumption DEF Init, GaugeDrift, ConnectionsReturned
<1>6. (DrainBeforeClose /\ ShutdownOrder)'
  BY DEF Init, DrainBeforeClose, ShutdownOrder
<1> QED BY <1>1, <1>4, <1>5, <1>6 DEF IInv

\* The steps of main and of the server's goroutine leave the requests alone.
ProcessStep ==
    \/ Boot \/ New \/ Assign \/ Listen \/ Notify \/ Shutdown \/ Expire \/ Drained \/ Close

LEMMA ProcessInv ==
    ASSUME IInv, LInv', ProcessStep \/ (Signal /\ ~Exit) \/ Limiting
    PROVE  IInv'
<1>1. UNCHANGED requests
  BY DEF ProcessStep, Boot, New, OpenPool, Assign, Listen, Notify, Shutdown, Expire, Drained,
         Close, Signal, Limiting, MoveTo
<1>2. Active' = Active /\ Querying' = Querying
  BY <1>1 DEF requests, Active, Querying
<1>3. TypeOK'
  BY <1>1 DEF IInv, TypeOK, LInv, Mains, Servers, ProcessStep, Boot, New, OpenPool, Assign, Listen,
         Notify, Shutdown, Expire, Drained, Close, Signal, Limiting, MoveTo, process, requests
<1>4. (GaugeDrift /\ ConnectionsReturned)'
  BY <1>1, <1>2 DEF IInv, GaugeDrift, ConnectionsReturned, requests
<1>5. (DrainBeforeClose /\ ShutdownOrder)'
  BY <1>1, <1>2 DEF IInv, TypeOK, DrainBeforeClose, ShutdownOrder, Mains, Servers,
         ProcessStep, Boot, New, OpenPool, Assign, Listen, Notify, Shutdown, Expire, Drained, Close,
         Signal, Limiting, MoveTo, process
<1> QED BY <1>3, <1>4, <1>5 DEF IInv

\* The steps of a request: the gauge and the pool follow its stage.
RequestStep(r) == Accept(r) \/ Advance(r) \/ Panic(r)

LEMMA RequestInv ==
    ASSUME IInv, LInv', NEW r \in Requests, RequestStep(r)
    PROVE  IInv'
<1> USE ServerAssumption
<1>1. process' = process
  BY DEF RequestStep, Accept, Advance, Panic, Lookup, Limit, Begin, Return, Acquire,
         PoolClosed, Release, Answer
<1>2. /\ Active \in SUBSET Requests /\ Querying \in SUBSET Requests
      /\ Cardinality(Active) \in Nat /\ Cardinality(Querying) \in Nat
      /\ stage[r] # "none" => Cardinality(Active) > 0
      /\ stage[r] = "querying" => Cardinality(Querying) > 0
  BY Counting DEF Active, Querying
<1>3. /\ inFlight = Cardinality(Active) + panics /\ acquired = Cardinality(Querying)
      /\ inFlight \in Nat /\ panics \in 0 .. MaxPanics /\ acquired \in 0 .. PoolSize
      /\ PoolSize \in Nat /\ MaxPanics \in Nat
  BY DEF IInv, TypeOK, GaugeDrift, ConnectionsReturned
<1> HIDE ServerAssumption
<1> DEFINE Counts ==
        /\ inFlight' = Cardinality(Active') + panics'
        /\ acquired' = Cardinality(Querying')
        /\ inFlight' \in Nat /\ panics' \in 0 .. MaxPanics /\ acquired' \in 0 .. PoolSize
        /\ stage' \in [Requests -> Stages]
<1>4. Counts /\ (Active' = {} \/ Active # {} \/ Connected)
  <2>0. TypeOK /\ stage \in [Requests -> Stages]
    BY DEF IInv, TypeOK
  <2>1. CASE Accept(r)
    <3>1. GoTo(r, "limited") /\ "limited" \in Stages
      BY <2>1 DEF Accept, Stages
    <3>2. /\ Cardinality(Active') = Cardinality(Active) + In("limited") - In(stage[r])
          /\ Cardinality(Querying') = Cardinality(Querying) + Queries("limited") - Queries(stage[r])
          /\ stage' \in [Requests -> Stages]
          /\ Active' # {} => Active # {} \/ stage[r] = "none"
      BY <2>0, <3>1, StageCounts
    <3> QED BY <1>2, <1>3, <2>1, <3>2 DEF Accept, In, Queries
  <2>2. CASE Lookup(r)
    BY <1>2, <1>3, <2>0, <2>2 DEF Lookup, requests, Active, Querying
  <2>3. CASE Limit(r)
    <3>0. PICK p \in {"handling", "returning"} : GoTo(r, p)
      BY <2>3 DEF Limit
    <3>1. GoTo(r, p) /\ p \in Stages
      BY <3>0 DEF Stages
    <3>2. /\ Cardinality(Active') = Cardinality(Active) + In(p) - In(stage[r])
          /\ Cardinality(Querying') = Cardinality(Querying) + Queries(p) - Queries(stage[r])
          /\ stage' \in [Requests -> Stages]
          /\ Active' # {} => Active # {} \/ stage[r] = "none"
      BY <2>0, <3>1, StageCounts
    <3> QED BY <1>2, <1>3, <3>0, <2>3, <3>2 DEF Limit, In, Queries
  <2>4. CASE Begin(r)
    <3>1. GoTo(r, "waiting") /\ "waiting" \in Stages
      BY <2>4 DEF Begin, Stages
    <3>2. /\ Cardinality(Active') = Cardinality(Active) + In("waiting") - In(stage[r])
          /\ Cardinality(Querying') = Cardinality(Querying) + Queries("waiting") - Queries(stage[r])
          /\ stage' \in [Requests -> Stages]
          /\ Active' # {} => Active # {} \/ stage[r] = "none"
      BY <2>0, <3>1, StageCounts
    <3> QED BY <1>2, <1>3, <2>4, <3>2 DEF Begin, In, Queries
  <2>5. CASE Return(r)
    <3>1. GoTo(r, "returning") /\ "returning" \in Stages
      BY <2>5 DEF Return, Stages
    <3>2. /\ Cardinality(Active') = Cardinality(Active) + In("returning") - In(stage[r])
          /\ Cardinality(Querying') = Cardinality(Querying) + Queries("returning") - Queries(stage[r])
          /\ stage' \in [Requests -> Stages]
          /\ Active' # {} => Active # {} \/ stage[r] = "none"
      BY <2>0, <3>1, StageCounts
    <3> QED BY <1>2, <1>3, <2>5, <3>2 DEF Return, In, Queries
  <2>6. CASE Acquire(r)
    <3>1. GoTo(r, "querying") /\ "querying" \in Stages
      BY <2>6 DEF Acquire, Stages
    <3>2. /\ Cardinality(Active') = Cardinality(Active) + In("querying") - In(stage[r])
          /\ Cardinality(Querying') = Cardinality(Querying) + Queries("querying") - Queries(stage[r])
          /\ stage' \in [Requests -> Stages]
          /\ Active' # {} => Active # {} \/ stage[r] = "none"
      BY <2>0, <3>1, StageCounts
    <3> QED BY <1>2, <1>3, <2>6, <3>2 DEF Acquire, In, Queries
  <2>7. CASE PoolClosed(r)
    <3>1. GoTo(r, "returning") /\ "returning" \in Stages
      BY <2>7 DEF PoolClosed, Stages
    <3>2. /\ Cardinality(Active') = Cardinality(Active) + In("returning") - In(stage[r])
          /\ Cardinality(Querying') = Cardinality(Querying) + Queries("returning") - Queries(stage[r])
          /\ stage' \in [Requests -> Stages]
          /\ Active' # {} => Active # {} \/ stage[r] = "none"
      BY <2>0, <3>1, StageCounts
    <3> QED BY <1>2, <1>3, <2>7, <3>2 DEF PoolClosed, In, Queries
  <2>8. CASE Release(r)
    <3>1. GoTo(r, "handling") /\ "handling" \in Stages
      BY <2>8 DEF Release, Stages
    <3>2. /\ Cardinality(Active') = Cardinality(Active) + In("handling") - In(stage[r])
          /\ Cardinality(Querying') = Cardinality(Querying) + Queries("handling") - Queries(stage[r])
          /\ stage' \in [Requests -> Stages]
          /\ Active' # {} => Active # {} \/ stage[r] = "none"
      BY <2>0, <3>1, StageCounts
    <3> QED BY <1>2, <1>3, <2>8, <3>2 DEF Release, In, Queries
  <2>9. CASE Answer(r)
    <3>1. GoTo(r, "none") /\ "none" \in Stages
      BY <2>9 DEF Answer, Stages
    <3>2. /\ Cardinality(Active') = Cardinality(Active) + In("none") - In(stage[r])
          /\ Cardinality(Querying') = Cardinality(Querying) + Queries("none") - Queries(stage[r])
          /\ stage' \in [Requests -> Stages]
          /\ Active' # {} => Active # {} \/ stage[r] = "none"
      BY <2>0, <3>1, StageCounts
    <3> QED BY <1>2, <1>3, <2>9, <3>2 DEF Answer, In, Queries
  <2>10. CASE Panic(r)
    <3>1. GoTo(r, "none") /\ "none" \in Stages
      BY <2>10 DEF Panic, Stages
    <3>2. /\ Cardinality(Active') = Cardinality(Active) + In("none") - In(stage[r])
          /\ Cardinality(Querying') = Cardinality(Querying) + Queries("none") - Queries(stage[r])
          /\ stage' \in [Requests -> Stages]
          /\ Active' # {} => Active # {} \/ stage[r] = "none"
      BY <2>0, <3>1, StageCounts
    <3> QED BY <1>2, <1>3, <2>10, <3>2 DEF Panic, In, Queries
  <2> QED BY <2>1, <2>2, <2>3, <2>4, <2>5, <2>6, <2>7, <2>8, <2>9, <2>10
          DEF RequestStep, Advance
<1>5. (txLeft \in [Requests -> 0 .. MaxTx])'
  BY ServerAssumption DEF IInv, TypeOK, RequestStep, Accept, Advance, Panic, Lookup, Limit,
     Begin, Return, Acquire, PoolClosed, Release, Answer, requests
<1>6. TypeOK'
  BY <1>1, <1>4, <1>5 DEF IInv, TypeOK, LInv, process
<1>7. (GaugeDrift /\ ConnectionsReturned)'
  BY <1>4 DEF GaugeDrift, ConnectionsReturned
<1>8. (DrainBeforeClose /\ ShutdownOrder)'
  BY <1>1, <1>4 DEF IInv, DrainBeforeClose, ShutdownOrder, Connected, process
<1> QED BY <1>6, <1>7, <1>8 DEF IInv

\* Every step of the server keeps its invariant.
LEMMA NextInv == IInv /\ [Next]_vars => IInv'
<1> SUFFICES ASSUME IInv, [Next]_vars PROVE IInv'
  OBVIOUS
<1>1. LInv'
  BY NextLimits, LNextInv DEF IInv, vars, lvars
<1>2. CASE Exit
  <2>1. Init'
    BY <1>2 DEF Exit, Init, Restart, LInit
  <2> QED BY <2>1, ExitInv
<1>3. CASE Next /\ ~Exit
  BY <1>1, <1>3, ProcessInv, RequestInv
     DEF Next, ProcessStep, RequestStep, StartPanics, Kill, Stopping, Closed
<1>4. CASE UNCHANGED vars
  BY <1>1, <1>4 DEF IInv, TypeOK, LInv, GaugeDrift, ConnectionsReturned, DrainBeforeClose,
     ShutdownOrder, vars, process, requests, Active, Querying
<1> QED BY <1>2, <1>3, <1>4

\* The invariant of the process: the counters agree with the requests, and the
\* shutdown keeps its order (main.go, app/start.go, app/shutdown.go, metrics.go).
THEOREM ServerInvariant == Spec => []IInv
<1>1. Init => IInv
  <2>1. ASSUME Init PROVE LInv
    BY <2>1, LInitInv DEF Init
  <2>2. ASSUME Init PROVE Cardinality(Active) = 0 /\ Cardinality(Querying) = 0
    <3>1. Active = {} /\ Querying = {} BY <2>2 DEF Init, Active, Querying
    <3> QED BY <3>1, FS_EmptySet
  <2>3. ASSUME Init PROVE TypeOK
    <3>1. /\ signalled \in BOOLEAN /\ inShutdown \in BOOLEAN
          /\ expired \in BOOLEAN /\ poolOpen \in BOOLEAN
      BY <2>3, Zenon DEF Init
    <3>2. 0 \in 0 .. PoolSize /\ 0 \in 0 .. MaxTx /\ 0 \in 0 .. MaxPanics
      BY ServerAssumption
    <3> QED BY <2>1, <2>3, <3>1, <3>2 DEF Init, TypeOK, LInv, Mains, Servers, Stages
  <2>4. ASSUME Init PROVE DrainBeforeClose /\ ShutdownOrder
    BY <2>4, Zenon DEF Init, DrainBeforeClose, ShutdownOrder
  <2>5. ASSUME Init PROVE GaugeDrift /\ ConnectionsReturned
    <3>1. inFlight = 0 /\ panics = 0 /\ acquired = 0
      BY <2>5 DEF Init
    <3> QED BY <2>2, <2>5, <3>1 DEF GaugeDrift, ConnectionsReturned
  <2> QED BY <2>1, <2>3, <2>4, <2>5 DEF IInv
<1> QED BY <1>1, NextInv, PTL DEF Spec

\* The state stays in its type, the counters in their bounds.
THEOREM ServerTypes == Spec => []TypeOK
BY ServerInvariant, PTL DEF IInv

\* The gauge of metrics.go exceeds the requests in flight by the panics alone.
THEOREM GaugeFollowsRequests == Spec => []GaugeDrift
BY ServerInvariant, PTL DEF IInv

\* No transaction leaks its connection (database/tenant.go, repository/tx.go).
THEOREM PoolFollowsTransactions == Spec => []ConnectionsReturned
BY ServerInvariant, PTL DEF IInv

\* Shutdown closes the pool under a running request only after its ten seconds
\* (app/shutdown.go).
THEOREM ShutdownDrains == Spec => []DrainBeforeClose
BY ServerInvariant, PTL DEF IInv

\* The limiter inside the process behaves as RateLimit says, restarts included.
LEMMA ServerLimits == Spec => LSpec
<1>1. Init => LInit
  BY DEF Init
<1>2. [Next]_vars => [LNext]_lvars
  BY NextLimits DEF vars, lvars
<1> QED BY <1>1, <1>2, PTL DEF Spec, LSpec

\* Two requests of a key in the server never spend from two buckets.
THEOREM ServerSharesBucket == Spec => []OneBucketPerKey
BY ServerLimits, RequestsShareBucket, PTL

\* The rate limit of the running server is an everlasting bucket per key, until the
\* process restarts (ratelimit.go).
THEOREM ServerImplementsBuckets == Spec => ImplementsBuckets
BY ServerLimits, LimiterImplementsBuckets, PTL
=============================================================================
