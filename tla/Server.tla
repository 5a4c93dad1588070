------------------------------- MODULE Server -------------------------------
(***************************************************************************)
(* One process of the server from start to exit: main and app.New / Start  *)
(* / Shutdown, the goroutine that serves, the database pool, and requests  *)
(* on their way through the middleware: Recovery, Metrics and a rate limit *)
(* (RateLimit), then a handler that uses connections of the pool.          *)
(***************************************************************************)
EXTENDS RateLimit, FiniteSets

CONSTANTS
    PoolSize,     \* connections of the pool
    MaxTx,        \* transactions of one request
    MaxPanics     \* bound on the panics of handlers in one process

ASSUME ServerAssumption ==
    /\ PoolSize \in Nat \ {0} /\ MaxTx \in Nat /\ MaxPanics \in Nat
    /\ IsFiniteSet(Requests)

VARIABLES
    main,         \* where main is: in app.New, before signal.Notify, in Shutdown...
    server,       \* App.HTTPServer and the goroutine that runs Start
    signalled,    \* the channel stop holds a signal
    inShutdown,   \* HTTPServer.Shutdown has been called
    expired,      \* the ten seconds of Shutdown's context are over
    poolOpen,
    acquired,     \* connections of the pool in use
    stage,        \* request -> where it is
    txLeft,       \* request -> transactions its handler may still begin
    inFlight,     \* the gauge http_requests_in_flight
    panics        \* handlers that panicked in this process

process == <<main, server, signalled, inShutdown, expired, poolOpen>>
requests == <<acquired, stage, txLeft, inFlight, panics>>
vars == <<process, requests, lvars>>

Mains == {"down", "new", "started", "waiting", "draining", "flushing", "closing"}
Servers == {"none", "assigned", "listening", "closed", "returned"}
Stages == {"none", "limited", "handling", "waiting", "querying", "returning"}

TypeOK ==
    /\ LTypeOK
    /\ main \in Mains
    /\ server \in Servers
    /\ signalled \in BOOLEAN /\ inShutdown \in BOOLEAN
    /\ expired \in BOOLEAN /\ poolOpen \in BOOLEAN
    /\ acquired \in 0 .. PoolSize
    /\ stage \in [Requests -> Stages]
    /\ txLeft \in [Requests -> 0 .. MaxTx]
    /\ inFlight \in Nat
    /\ panics \in 0 .. MaxPanics

Init ==
    /\ main = "down" /\ server = "none"
    /\ signalled = FALSE /\ inShutdown = FALSE /\ expired = FALSE /\ poolOpen = FALSE
    /\ stage = [r \in Requests |-> "none"]
    /\ txLeft = [r \in Requests |-> 0]
    /\ acquired = 0 /\ inFlight = 0 /\ panics = 0
    /\ LInit

Active == {r \in Requests : stage[r] # "none"}
Querying == {r \in Requests : stage[r] = "querying"}

-----------------------------------------------------------------------------
\* The process.

\* The process ends, and everything it held in memory with it.
Exit ==
    /\ main' = "down" /\ server' = "none"
    /\ signalled' = FALSE /\ inShutdown' = FALSE /\ expired' = FALSE /\ poolOpen' = FALSE
    /\ stage' = [r \in Requests |-> "none"]
    /\ txLeft' = [r \in Requests |-> 0]
    /\ acquired' = 0 /\ inFlight' = 0 /\ panics' = 0
    /\ Restart

MoveTo(place) ==
    /\ main' = place
    /\ UNCHANGED <<requests, lvars>>

Boot ==
    /\ main = "down"
    /\ MoveTo("new")
    /\ UNCHANGED <<server, signalled, inShutdown, expired, poolOpen>>

OpenPool == poolOpen' = TRUE

\* app.New: the pool is open and migrated, the goroutine with Start is started.
New ==
    /\ main = "new"
    /\ OpenPool
    /\ MoveTo("started")
    /\ UNCHANGED <<server, signalled, inShutdown, expired>>

\* An error of New is a panic, a handler that cannot be built a panic of Start.
StartPanics ==
    /\ main # "down" /\ server = "none"
    /\ Exit

\* Start: the field HTTPServer is written, then the server listens.
Assign ==
    /\ main \notin {"down", "new"}
    /\ server = "none"
    /\ server' = "assigned"
    /\ UNCHANGED <<main, signalled, inShutdown, expired, poolOpen, requests, lvars>>

ListenAnyway ==
    /\ server = "assigned"
    /\ server' \in {"listening", "returned"}
    /\ UNCHANGED <<main, signalled, inShutdown, expired, poolOpen, requests, lvars>>

\* ListenAndServe, which fails on an address in use and, with ErrServerClosed,
\* on a server that was shut down first; Start returns and main goes on waiting.
Listen ==
    /\ server = "assigned"
    /\ \/ server' = "listening" /\ ~inShutdown
       \/ server' = "returned"
    /\ UNCHANGED <<main, signalled, inShutdown, expired, poolOpen, requests, lvars>>

Notify ==
    /\ main = "started"
    /\ MoveTo("waiting")
    /\ UNCHANGED <<server, signalled, inShutdown, expired, poolOpen>>

\* SIGINT or SIGTERM: before signal.Notify it ends the process, after it the
\* channel of one signal holds it or drops it.
Signal ==
    \/ main \in {"new", "started"} /\ Exit
    \/ /\ main \notin {"down", "new", "started"}
       /\ signalled' = TRUE
       /\ UNCHANGED <<main, server, inShutdown, expired, poolOpen, requests, lvars>>

Kill == main # "down" /\ Exit

-----------------------------------------------------------------------------
\* Shutdown.

\* It calls HTTPServer.Shutdown, which closes the listener, unless the goroutine
\* has not written the field yet (a read that nothing orders after the write).
Shutdown ==
    /\ main = "waiting" /\ signalled
    /\ IF server = "none"
       THEN MoveTo("flushing") /\ UNCHANGED <<server, inShutdown>>
       ELSE /\ MoveTo("draining")
            /\ inShutdown' = TRUE
            /\ server' = IF server = "listening" THEN "closed" ELSE server
    /\ signalled' = FALSE
    /\ UNCHANGED <<expired, poolOpen>>

Expire ==
    /\ main \in {"draining", "flushing", "closing"}
    /\ ~expired
    /\ expired' = TRUE
    /\ UNCHANGED <<main, server, signalled, inShutdown, poolOpen, requests, lvars>>

\* HTTPServer.Shutdown returns when nothing is in flight, or with the context.
Drained ==
    /\ main = "draining"
    /\ Active = {} \/ expired
    /\ MoveTo("flushing")
    /\ UNCHANGED <<server, signalled, inShutdown, expired, poolOpen>>

\* The telemetry is shut down, and DB.Close begins: it closes the pool...
Close ==
    /\ main = "flushing"
    /\ poolOpen' = FALSE
    /\ MoveTo("closing")
    /\ UNCHANGED <<server, signalled, inShutdown, expired>>

\* ... and waits, without a limit, until every connection is given back.
Closed ==
    /\ main = "closing"
    /\ acquired = 0
    /\ Exit

-----------------------------------------------------------------------------
\* Requests.

GoTo(r, place) == stage' = [stage EXCEPT ![r] = place]

\* A connection is there to read a request from: once the listener is closed only
\* one accepted before, which HTTPServer.Shutdown waits for as well, with a limit.
Connected ==
    \/ server = "listening"
    \/ server = "closed" /\ (main = "draining" \/ expired)

\* A request is read, passes Recovery and is counted by Metrics.
Accept(r) ==
    /\ Connected
    /\ stage[r] = "none"
    /\ GoTo(r, "limited")
    /\ txLeft' = [txLeft EXCEPT ![r] = MaxTx]
    /\ inFlight' = inFlight + 1
    /\ UNCHANGED <<process, acquired, panics, lvars>>

\* The rate limit looks the limiter up.
Lookup(r) ==
    /\ stage[r] = "limited"
    /\ \E k \in Keys : Get(r, k)
    /\ UNCHANGED <<process, requests>>

LimitAborts(r) ==
    /\ stage[r] = "limited"
    /\ Allow(r)
    /\ GoTo(r, IF call'[r].verdict = "allowed" THEN "handling" ELSE "none")
    /\ UNCHANGED <<process, acquired, txLeft, inFlight, panics>>

\* It answers 429, or calls the handler.
Limit(r) ==
    /\ stage[r] = "limited"
    /\ Allow(r)
    /\ GoTo(r, IF call'[r].verdict = "allowed" THEN "handling" ELSE "returning")
    /\ UNCHANGED <<process, acquired, txLeft, inFlight, panics>>

\* The handler begins a transaction, one at a time, or returns.
Begin(r) ==
    /\ stage[r] = "handling" /\ txLeft[r] > 0
    /\ GoTo(r, "waiting")
    /\ txLeft' = [txLeft EXCEPT ![r] = @ - 1]
    /\ UNCHANGED <<process, acquired, inFlight, panics, lvars>>

Return(r) ==
    /\ stage[r] = "handling"
    /\ GoTo(r, "returning")
    /\ UNCHANGED <<process, acquired, txLeft, inFlight, panics, lvars>>

\* The transaction waits for a free connection; a closed pool is an error.
Acquire(r) ==
    /\ stage[r] = "waiting"
    /\ poolOpen /\ acquired < PoolSize
    /\ acquired' = acquired + 1
    /\ GoTo(r, "querying")
    /\ UNCHANGED <<process, txLeft, inFlight, panics, lvars>>

PoolClosed(r) ==
    /\ stage[r] = "waiting"
    /\ ~poolOpen
    /\ GoTo(r, "returning")
    /\ UNCHANGED <<process, acquired, txLeft, inFlight, panics, lvars>>

\* It commits or rolls back and gives the connection back.
Release(r) ==
    /\ stage[r] = "querying"
    /\ acquired' = acquired - 1
    /\ GoTo(r, "handling")
    /\ UNCHANGED <<process, txLeft, inFlight, panics, lvars>>

\* Metrics counts the answer and takes the request off the gauge.
Answer(r) ==
    /\ stage[r] = "returning"
    /\ GoTo(r, "none")
    /\ inFlight' = inFlight - 1
    /\ Leave(r)
    /\ UNCHANGED <<process, acquired, txLeft, panics>>

PanicWithoutRollback(r) ==
    /\ stage[r] \in {"handling", "querying"}
    /\ panics < MaxPanics
    /\ panics' = panics + 1
    /\ GoTo(r, "none")
    /\ Leave(r)
    /\ UNCHANGED <<process, acquired, txLeft, inFlight>>

\* A handler panics: the deferred rollback gives its connection back and Recovery,
\* outside of Metrics, answers 500; what Metrics does after the handler is skipped.
Panic(r) ==
    /\ stage[r] \in {"handling", "querying"}
    /\ panics < MaxPanics
    /\ panics' = panics + 1
    /\ acquired' = IF stage[r] = "querying" THEN acquired - 1 ELSE acquired
    /\ GoTo(r, "none")
    /\ Leave(r)
    /\ UNCHANGED <<process, txLeft, inFlight>>

-----------------------------------------------------------------------------

Limiting == (Tick \/ Cleanup) /\ UNCHANGED <<process, requests>>

Advance(r) ==
    \/ Lookup(r) \/ Limit(r) \/ Begin(r) \/ Return(r)
    \/ Acquire(r) \/ PoolClosed(r) \/ Release(r) \/ Answer(r)

Stopping == Shutdown \/ Expire \/ Drained \/ Close \/ Closed

Next ==
    \/ Boot \/ New \/ StartPanics \/ Assign \/ Listen \/ Notify \/ Signal \/ Kill
    \/ Stopping
    \/ Limiting
    \/ \E r \in Requests : Accept(r) \/ Advance(r) \/ Panic(r)

\* main runs, the database answers so that handlers return, and the pool serves
\* those who wait for a connection in their order.
Fairness ==
    /\ WF_vars(Stopping)
    /\ \A r \in Requests : WF_vars(Advance(r)) /\ SF_vars(Acquire(r))

Spec == Init /\ [][Next]_vars /\ Fairness

-----------------------------------------------------------------------------

\* Metrics adds a request to the gauge before the rate limit and the handler and
\* takes it off after them (metrics.go 47-52): every way through them returns it
\* but a panic, which Recovery catches outside, and the gauge stays one too high
\* for each panic until the process ends.
GaugeDrift == inFlight = Cardinality(Active) + panics

\* The pool's connections are in use exactly by the open transactions: commit,
\* rollback, a closed pool and a panic leak none (database/tenant.go 40-55).
ConnectionsReturned == acquired = Cardinality(Querying)

\* Shutdown closes the pool under a request that is still running only when the
\* ten seconds are over or the server's field had not been written when the signal
\* came (app/shutdown.go 17-36, app/start.go 98).
DrainBeforeClose ==
    main \in {"flushing", "closing"} /\ inShutdown /\ Active # {} => expired

\* Once main waits for a signal, a signal ends the process, whatever requests
\* hold and whatever the server's goroutine does (main.go 40, app/shutdown.go).
StopCompletes == (main = "waiting" /\ signalled) ~> (main = "down")

\* Every request leaves the server: none waits for ever for a limiter or for a
\* connection (ratelimit.go, database/tenant.go 40).
RequestsEnd == \A r \in Requests : (stage[r] # "none") ~> (stage[r] = "none")

\* What the proof needs besides: the listener is closed once it is shut down.
ShutdownOrder ==
    inShutdown => main \in {"draining", "flushing", "closing"} /\ server # "listening"

IInv ==
    /\ LInv
    /\ TypeOK
    /\ GaugeDrift
    /\ ConnectionsReturned
    /\ DrainBeforeClose
    /\ ShutdownOrder
=============================================================================
