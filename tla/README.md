# modular-monolith in TLA+

Specifications, model-checking configurations and machine-checked proofs of the
core of the multi-tenant SaaS backend in this repository: a Go HTTP server over
PostgreSQL, with a single sign-on provider (Zitadel) and a payment provider
(Dodo Payments).

The server keeps almost no state of its own. Its state is the database, its
processes are concurrent HTTP requests (and several instances of the server),
and a handler is a *sequence of separate transactions* without a lock that spans
them. So most models are of that shape: tables as sets and functions, a request
as a program counter with what its earlier calls returned, a transaction as one
step that commits, fails, or commits and loses its acknowledgement. The little
that a process does keep in memory (its limiters, its key cache, its pool, its way
from start to exit) has modules of its own, in which the goroutines interleave.

## Inventory

| part | source | state | operations | hard |
|---|---|---|---|---|
| onboarding | `internal/modules/onboarding` | `organizations`, `roles`, `users`, `user_roles` | `CompleteOnboarding` | check-then-act over three transactions; an organization without an owner |
| invitations | `internal/modules/invitations` | `invitations`, `users`, `user_roles` | `CreateInvitation`, `AcceptInvitation` | unlocked checks, membership and `MarkAccepted` in two transactions, expiry, stale cookie e-mail |
| identity | `internal/modules/identity` | `identities` | `FindOrCreateIdentity` | concurrent first sign-ins, unique e-mails, cookies nobody can revoke |
| users | `internal/modules/users`, `internal/repository/user_repository.go` | `users` | `RegisterUser`, `CreateMembership`, `CreateMembershipWithRole` | global unique constraints, audit after commit |
| organizations | `internal/modules/organizations`, `internal/service` | `organizations`, `roles` | `CreateOrganization`, `RegisterOrganization` | a public endpoint beside onboarding |
| request context | `internal/middleware`, `internal/modules/identityresolver` | none | session, membership, tenant | the caller is resolved once, before the handler |
| rbac | `internal/modules/rbac` | `roles`, `role_permissions`, `user_roles` | create, update, assign, `RequirePermission` | permission checked in another transaction, references across tenants, audit after commit |
| billing | `internal/modules/billing`, `internal/platform/payments/dodo` | `subscriptions` | webhook, `POST`/`PATCH /billing`, checkout | repeated, late, reordered events; read-then-upsert; ignored errors |
| entitlements, usage | `internal/modules/entitlements`, `usage` | `usage_counters` | `resolvePlan`, `CanUse`, `IncrementUsage` | check-then-act on a limit, 64-bit arithmetic |
| migrations | `internal/database/migrate.go` | the schema, `schema_migrations` | `Migrate` | two calls per file, several instances, restarts |
| sign-in | `internal/modules/authflow`, `internal/providers/identity/oauth.go` | cookies of the browser: state, nonce, code verifier, session | `Login`, `Callback`, `Logout` | several tabs over one set of cookies, redirects opened twice or elsewhere |
| token validation | `internal/providers/identity` | key cache, discovery cache | `key`, `refresh`, `ValidateToken` | a mutex held during a fetch, rotated keys, failing fetches |
| rate limiting, metrics | `internal/middleware` | limiter map, in-flight gauge | `get`, `Allow`, `cleanup`, `Metrics`, `Recovery` | a limiter dropped between lookup and use, panics |
| lifecycle | `cmd/server`, `internal/app` | the process, its listener, its pool | `New`, `Start`, `Shutdown` | signals against start-up, a listener that fails, closing the pool under requests |
| audit, config, health, router, telemetry, frontend | | append-only log, none | | no decision reads them |

Modules call each other in the process. What couples them is the shared tables:
onboarding, invitations, `POST /users` and `POST /organizations` all insert into
`organizations`, `users` and `user_roles`; billing's row decides what
entitlements answer; migrations make the tables they all stand on.

What makes each part correct:

- *provisioning* (onboarding, invitations, users, organizations, identity): no
  member without the role they came for, no populated organization without an
  owner, one admission per invitation, answers that are true of the tables;
- *migrations*: the schema grows in file order whoever races, a server never
  runs on part of it, and a restart recovers;
- *billing*: the row follows the newest event, and every event is answered;
- *rbac*: what a request does is permitted when it is done, roles and
  assignments stay inside a tenant, no tenant is locked out;
- *sign-in*: a browser gets a session only of a login that it began, and is
  refused only for a reason;
- *token validation*: no key is served long after it was withdrawn, none that is
  published is refused, and a failed fetch blocks nobody;
- *rate limiting*: a client has one bucket, whatever is dropped and looked up
  again;
- *lifecycle*: what is taken is given back, shutdown drains before it closes and
  ends.

## Modules

| module | models | kind |
|---|---|---|
| `Provisioning` | sign-in, onboarding, invitations, user registration, organizations | detailed specification |
| `Tenancy` | what provisioning promises, each operation in one step | abstract specification |
| `MCProvisioning` | input sets and symmetry for TLC | model-checking module |
| `MCInvitation` | the same, for three people and one invitation | model-checking module |
| `Provisioning_proofs` | theorems about `Provisioning` | proofs |
| `Provisioning_refinement` | that `Provisioning` implements `Tenancy`, and what `Rbac` takes for granted | proofs |
| `Migration` | `database.Migrate` run by several instances | detailed specification, with fairness |
| `Migration_proofs` | theorems about `Migration` | proofs |
| `TenantRoles` | the default roles of an organization and their permissions, for `Provisioning` and `Rbac` | shared definitions |
| `Rbac` | roles, assignments and the permission check of protected routes | detailed specification |
| `Access` | what roles promise: a decision and its effect in one step | abstract specification |
| `MCRbac` | input sets and symmetry for TLC | model-checking module |
| `Rbac_proofs` | theorems about `Rbac`, its refinement included | proofs |
| `Billing` | webhooks and owners' requests on the subscription of an organization | detailed specification, with fairness |
| `MCBilling` | symmetry sets for TLC | model-checking module |
| `Ledger` | what webhooks promise: to answer an event is to give its organization the status it brings | abstract specification |
| `Billing_proofs` | theorems about `Billing`, its refinement included | proofs |
| `RateLimit` | the limiter map, its cleanup and the requests between lookup and `Allow` | detailed specification |
| `Buckets` | what a rate limit promises: one everlasting bucket per key | abstract specification |
| `RateLimit_proofs` | theorems about `RateLimit`, its refinement included | proofs |
| `Server` | one process: start, signals, shutdown, the pool and requests in the middleware; extends `RateLimit` | composition, with fairness |
| `Server_proofs` | theorems about `Server` | proofs |
| `KeyCache` | `ValidateToken` and the cache of the provider's keys | detailed specification |
| `SignIn` | logins, callbacks and cookies of several browsers; extends `KeyCache` | composition |
| `Sessions` | what signing in promises: a login gives one session at most, to its browser | abstract specification |
| `MCSignIn` | symmetry sets for TLC | model-checking module |
| `SignIn_proofs` | theorems about `KeyCache` and `SignIn`, the refinement of `Sessions` included | proofs |

### Provisioning

State: `identities`, `orgs`, `roles`, `users`, `userRoles`, `invitations` are the
tables, as far as decisions look at them; `sessions` is what the cookies in
circulation say; `req` maps a slot to the request in it (`at`, the call it makes
next, and the caller, organization and token it carries). `users` has a field
`via` that is no column: which operation inserted the row.

| actions | code |
|---|---|
| `StartLogin`, `FindIdentity`, `CreateIdentity`, `UpdateIdentity` | `Callback`, `FindOrCreateIdentity` and its two writes |
| `StartOnboarding`, `HasMembership`, `RegisterOrganization`, `CreateOwner` | `CompleteOnboarding`, one action per transaction |
| `CreateInvitation`, `ExpireInvitation` | `POST /invitations`; seven days pass |
| `StartAccept`, `GetByToken`, `CreateMember`, `MarkAccepted` | `AcceptInvitation`, one action per transaction |
| `RegisterUser`, `AuditRegistered` | `POST /users` and its audit record, which is not best effort |
| `CreateOrganization` | `POST /organizations`, public |
| `Refuse`, `Fault`, `Respond`, `Crash` | early 4xx answers, a failed call, the answer written, the process stops |

An operation whose calls are one transaction after a read of the caller is one
action that starts and ends the request (`Serve`). A unique violation is answered
500 and not 409, because the repository tests for the error type of another
version of the driver (see the findings).

`MembersAreKnown` follows a person's e-mail from the provider's assertion through the
identity, the cookie and the invitation to the membership, while the e-mail may pass
to somebody else between any two of these.

### Tenancy and the refinement

`Tenancy` has people, organizations and tickets, and five one-step operations:
`Open`, `Found`, `Issue`, `Admit`, `Enter`. `ImplementsTenancy` instantiates it
with a mapping (`AbstractMember` reads the membership and the roles of a person
off `users` and `userRoles`; a ticket is spent when somebody came in by it, not
when `accepted_at` is set) and says that every step of the handlers, the crashes
and lost acknowledgements included, is one of those or changes nothing. That
is the point of the design, as the code has it: whatever is not atomic in
onboarding and accepting leaves nothing visible in between, because the
unique constraint of `users` is the one place where a race is decided.

`ImplementsRbac` joins the two halves of the system. `Rbac` takes organizations and
members from provisioning, each in one step (`RegisterOrganization`, `Join`), and
its properties rest on how they come: default roles together and with their
organization, the first member as owner, later members with one role of that
organization or none, nobody moved. The property instantiates `Rbac` without
requests (`OrgOf`, `RoleTable` and `AssignmentTable` read its tables off those of
`Provisioning`) and says that every step of the handlers is one of those two or
changes nothing `Rbac` looks at.

### Migration

State: `schema` (files whose SQL is committed), `recorded`
(`schema_migrations`), and per instance where it is, the versions it has read and
its loop index. `Boot`, `ReadApplied`, `Apply`/`ApplyFails`,
`Record`/`RecordFails` and `Serve` are the calls of `Migrate` and the end of
`app.New`; `Stop` is a crash or a failed call. `Idempotent` are the files whose
SQL succeeds a second time; in `migrations/` those are 001, 006, 007 and 009. The
scan of the versions may end early, since `rows.Err()` is not looked at.
`Stranded` is a file applied, not recorded and not `Idempotent` while no instance is
about to record it; `RecoversUnlessStranded` says that all comes right otherwise, and
`StrandedIsForever` that nothing does then.

### Rbac

State: `member` (the organization of each row of `users`), `roles` (a row of
`roles` with those of `role_permissions`; `asked`, what its creator named, is no
column), `userRoles`, and `req`: a slot is idle, or its caller passed the check
and the handler of a route runs next. The default role `n` of `o` is
`<<o, n>>`, a created role has a generated id.

| actions | code |
|---|---|
| `RegisterOrganization`, `Join` | what provisioning commits: an organization with its roles; a member with its role |
| `RequirePermission` | `ResolveMembershipMiddleware`, `TenantContext` and `RequirePermission`, one query each; memberships do not change between them |
| `CreateRole`, `AssignRoleToUser` | the handlers, with their one transaction |
| `WriteBilling` | the handlers behind `billing.write`, which write no table of this module |

An action whose transaction fails, is refused, or is rolled back leaves the
tables as they are and ends the request; so does a commit whose audit record or
answer is lost, with the tables changed. `RemoveRoleFromUser` and the handler
`BootstrapRBAC` are on no route and left out: that nothing withdraws a
permission is what `PermittedStillHolds` rests on, and a route that does would
break it.

`Access` has no ids, no rows and no check ahead of the handler: an organization has a
catalog of names with permissions, a member holds names, and somebody who `Define`s a
role or `Give`s one is `Empowered` in that very step, in its own organization and no
other. `ImplementsAccess` maps the tables to it (`CatalogOf` and `NamesHeld` read them
by name; a request is visible as who asks for what) and says that the code, which
decides in one transaction and acts in another, and joins four tables by ids that
carry no organization, cannot be told from it. It holds because nothing takes a
permission away; `RemoveRoleFromUser` on a route would break it.

### Billing

State: `log` (the events the provider has emitted), `acked` (those answered 200),
`rows` (`subscriptions`), `call` (webhook calls in flight); `overtaken` is a
history variable: organizations whose row was last written by an event older than
one already answered, or by a person. `Deliver`, `GetSubscription`,
`UpsertSubscriptionByProvider` and `CallFails` are a webhook call;
`CreateSubscription` and `UpdateSubscription` are `POST` and `PATCH`. The ids of
subscription and customer are one value (`payer`): the two unique indexes treat
them alike. `POST` on an organization that has a row and requests without a
status change nothing and are left out.

`Ledger` has no calls and no transactions: in one step an event is answered and its
organization, and no other, gets the status it brings (`Answer`), or the same happens
and the answer is lost (`LoseAnswer`); a person sets a status (`Edit`).
`ImplementsLedger` looks only at the status of a row. It is not a promise of order: a
late event is answered in the step that overwrites a newer one, in `Ledger` as in the
code, and what then remains is what `StatusFollowsEvents` says.

### RateLimit and Buckets

State: `visitors` (the map, key to `rate.Limiter`), `age` (ticks since `lastSeen`),
`tokens` of each limiter, and `call`, what a request has looked up and been told.
Time is in ticks, one for the refill of one token; all three limits of the server
refill their burst in a minute.

| actions | code |
|---|---|
| `Get` | `get`, the critical section: look up or insert, `lastSeen` |
| `Allow` | `limiter.Allow()`, after the unlock |
| `Leave` | the request is answered |
| `Cleanup` | one pass of `cleanup`, at any time and not every `cleanupInterval` |
| `Tick` | time: tokens refill, visitors age, a waiting request falls behind by at most `MaxLag` |

`Buckets` has no map: a key has a bucket of `Burst` tokens that is never dropped.
`ImplementsBuckets` reads the abstract bucket off the map (`Level`: a key without a
visitor counts as full) and says that the dropping of idle visitors cannot be
observed. What makes that true is a relation between constants which the code
keeps by its choice of numbers: a bucket refills in one minute and is dropped after
three without a request, so two are left for a request that is late for its
`Allow` (`Burst + MaxLag <= Stale`).

### Server

State: `main` and `server` are the two goroutines of a process (`server` is also the
field `App.HTTPServer`), `signalled` the channel of `signal.Notify`, `inShutdown`,
`expired` and `poolOpen` what `Shutdown` changes; `stage` and `txLeft` where a
request is and how many transactions it may still begin, `acquired` and `inFlight`
the pool and the gauge; and the variables of `RateLimit`, whose `Get` and `Allow`
are steps of a request here.

| actions | code |
|---|---|
| `Boot`, `New`, `Notify` | `main` up to `<-stop` |
| `StartPanics`, `Assign`, `Listen` | `Start`, in its goroutine: the field is written, then `ListenAndServe` serves or returns |
| `Signal`, `Kill` | a signal ends the process before `signal.Notify` and is held by the channel after it |
| `Shutdown`, `Expire`, `Drained`, `Close`, `Closed` | `App.Shutdown`: listener, in-flight requests or ten seconds, telemetry, pool |
| `Accept`, `Lookup`, `Limit` | `Recovery`, `Metrics` and the rate limit, in the order of `router.New` and the routes; a connection accepted before the listener closed may still bring a request (`Connected`) |
| `Begin`, `Acquire`, `PoolClosed`, `Release` | `WithTenantQuery`: `pool.Begin`, then commit or rollback |
| `Return`, `Answer`, `Panic` | the handler returns; `Metrics` after it; a panic, which `Recovery` answers and which skips `Metrics` |
| `Limiting` | the clock and the cleanup goroutine |

`Metrics` describes its gauge as "Number of HTTP requests currently being
processed." (`internal/middleware/metrics.go:26`). `GaugeDrift` states what the code
does: that number and the number of panics since the start, because the
decrement is not deferred and `Recovery` is outside. The read of `HTTPServer` in
`Shutdown` is a data race with the write in `Start`; the model lets it see the field
or not.

### KeyCache

State: the clock, `published` and `leftAt` (what the provider publishes, and since
when it does not), `keys` and `expiresAt` (the cache), `owner` (of its mutex), and
`check`, a lookup: where it is, the key it is about, the answer it has got, and
whether the key was unpublished at some moment of it (`out`, which the properties
are about and the code does not have).

| actions | code |
|---|---|
| `Look` | `ValidateToken` up to `key`: the token names its key |
| `Lock` | the mutex is taken and the cache looked at: a hit answers, all else fetches with the mutex held |
| `Respond`, `Store`, `FetchFails` | `refresh`: the provider's answer, the new cache, an error that leaves the cache |
| `Forget` | the verdict is used |
| `Publish`, `Withdraw`, `Tick`, `Restart` | the provider, time, the process |

A cache hit and the release of the mutex are one step, since nobody sees the
mutex in between.

### SignIn

State: `jar` (a browser's cookies: the login in progress, as the three cookies of
one `Login` say the same, and the session), `flow` (a login: where it is, the
browser that began it, who signed in, and whether the browser lost its cookies
meanwhile), `call` (a callback being handled, with the cookies it came with),
`identities`, and the variables of `KeyCache`.

| actions | code |
|---|---|
| `Login`, `Callback` | the handlers: new cookies; the comparison of the state |
| `Exchange`, `ExchangeFails` | `ExchangeCode`, which the provider accepts once and with the verifier of the login |
| `Validate`, `Validated` | `ValidateToken` by the actions of `KeyCache`, and the comparison of the nonce |
| `Identify` | `FindOrCreateIdentity`, which may fail after its insert |
| `Welcome`, `Refuse`, `Lose` | the answer with the session, an error, an answer that is lost |
| `Authorize`, `ExpireLogin`, `EndSession`, `RestartServer` | the provider's page, the age of the cookies, expiry or `Logout`, the process |

A redirect may be opened more than once and in any browser.

`Sessions` has no cookies and no callbacks: a login is begun by a browser, authorized
by somebody, exchanged, and over, and as it ends it gives at most one session, to the
browser that began it. `ImplementsSessions` reads the state of a login off the provider
and the callbacks (`Status`: exchanged, as long as a callback that has its subject is
running) and says that this is all a browser can get out of any number of redirects,
tabs, lost answers and restarts.

## Runs

| run | configuration | question | outcome |
|---|---|---|---|
| `provisioning` | `Provisioning.cfg` | do the tables and the answers stay consistent under races, faults and crashes, and do the handlers implement `Tenancy` and what `Rbac` builds on? | holds, 0.36 million states |
| `provisioning_invitation` | `ProvisioningInvitation.cfg` | does an invitation admit one person, whoever holds its e-mail when, and under that person's own e-mail; does the proofs' invariant hold? | holds, 1.4 million states |
| `provisioning_retry` | `ProvisioningRetry.cfg` | is a retried accept answered 409, as documented? | violated |
| `provisioning_second` | `ProvisioningSecond.cfg` | can an identity be a member of two organizations, as documented? | violated |
| `migration` | `Migration.cfg` | is the schema applied in order and completely; do instances recover, and when never? | holds, 0.15 million states |
| `migration_restart` | `MigrationRestart.cfg` | does a restart recover from any failure, as documented? | violated |
| `rbac` | `Rbac.cfg` | does what a check saw still hold when the handler runs; do assignments stay inside an organization; is none locked out; does the code implement `Access`? | holds, 0.18 million states |
| `billing` | `Billing.cfg` | does a settled row have the newest event's status; is an event answered when its row has its status (`Ledger`)? | holds, 1.0 million states |
| `billing_delivery` | `BillingDelivery.cfg` | is every event answered in the end? | holds, 0.19 million states |
| `billing_plan` | `BillingPlan.cfg` | does the plan follow the events, as "idempotent upsert" says? | violated |
| `server` | `Server.cfg` | are connections, the gauge and the buckets accounted for whatever panics or stops; do requests and shutdown end? | holds, 0.18 million states |
| `sign_in` | `SignIn.cfg` | is a session of a login its browser began, and one for a login (`Sessions`); are keys served and refused rightly? | holds, 1.0 million states |

What the properties say is in a comment above each; `PROJECT.json` names for each
a mutation of the code under which it fails.

### Bounds

- *Provisioning*: what arrives from outside comes from sets that a run chooses:
  `Accounts` (who the identity provider says signs in), `Registrants` (the bodies of
  `POST /users`), `Invitees` and `RoleArgs` (those of `POST /invitations`; one valid
  role and one that is not). The main run takes every pair of two subjects and two
  e-mails, two organizations, one token and two concurrent requests: every race
  of the code is between two requests over one row, and a third party appears as
  the rows left by earlier requests. Two people cannot compete for an invitation
  there, since its founder is one of them, so `provisioning_invitation` has three:
  the e-mail that is invited belongs to the second person and then to the third,
  as a company reassigns an address, while both hold cookies that claim it. How many
  requests follow one another, and how many faults and crashes, is not bounded.
  The sets declared symmetric are interchangeable in the run; the runs that use
  symmetry check invariants and action properties only.
- *Migration*: the sixteen files of `migrations/`, two instances, two faults (one
  per instance, or two on one); `CHECK_DEADLOCK FALSE` because a state in which
  all serve and no fault is left is an end. One fault is enough for the finding.
- *Rbac*: two organizations and three members, so that one organization has two
  and assigns to a member of the other; two created roles, two concurrent
  requests. Role names, permission sets and assigned ids
  come from sets: a name that is free and one of a default role; permissions that
  allow to go on assigning, one that does not exist, none; the first
  organization's admin role and a created one. Steps are not bounded.
- *Billing*: three events (an older, a newer and one in between), two organizations,
  two calls at a time, one failing call, any number of repeated deliveries and of
  owners' edits. Liveness is checked without symmetry on two events. Two plans
  only where the property tells them apart.
- *Server*: two requests of one client against a pool of one connection, so that one
  waits for the other, each with up to two transactions; two limiters, one to drop
  and one to make; a burst of two, one tick of lag, and `Stale` at the least value
  the assumption allows; one panic in a process; any number of processes, signals
  and kills. One key is enough for the run, since keys share no limiter; that they
  share none is `BucketsApart`, which the proof covers for any keys.
- *KeyCache and SignIn*: one usable key that comes and goes and one that the cache
  skips; a TTL of two and a fetch of at most one tick on a clock of four values
  (0 to 3): a cache runs out and is filled again, while a request waits. Two
  requests, browsers, logins and people: every race is of two callbacks, or of a
  callback and a login, over one browser's cookies.

### Fairness

- *Migration*: weak fairness of `Boot` for each instance (`restart: always` in
  `deployments/docker/docker-compose.yml:11`) and of the steps of a running
  `Migrate`, which the Go scheduler and PostgreSQL take. Nothing is assumed of
  faults.
- *Billing*: weak fairness of a running call; strong fairness of the delivery of
  each event not yet answered 200. The latter is the payment provider's retry
  policy, an assumption about it, strong because a free slot comes and goes.
- *Server*: weak fairness of `main` in its shutdown (`Stopping`: its steps run, and
  the context of ten seconds ends) and of each request in the server (`Advance`: the
  Go scheduler runs it, PostgreSQL answers, a handler returns); strong fairness of
  `Acquire`, since `pgxpool` serves those who wait for a connection in turn. Nothing
  is assumed of signals, of `Start` or of panics.
- *SignIn* states safety only, and its run uses symmetry. That nobody waits for ever
  for the mutex of the key cache has a safety half, which is checked and proved:
  whoever holds it is fetching (`LookupAt`), and a fetch ends within its timeout.
- *Provisioning* states safety only: a client that was answered 500 need not
  come back, so nothing must happen.

## What is proved

`tlapm` proves, for every value of the constants under the assumptions the modules
name (inputs within their types, sentinels outside their sets, natural bounds):

- `Provisioning_proofs`: `Spec => []IInv`, and from it `TypeOK`,
  `MembersHoldTheirRole`, `TenantsHaveOwners`, `OneMemberPerInvitation` and
  `AnswersAgree`; and, with it, `Spec => []MembersAreKnown`.
- `Provisioning_refinement`: `Spec => []RInv`, and from it the two refinements,
  `Spec => ImplementsTenancy` and `Spec => ImplementsRbac`.
- `Migration_proofs`: `Spec => []IInv`, and from it `TypeOK`, `AppliedInOrder`,
  `ServingIsMigrated` and the temporal `StrandedIsForever`.
- `Rbac_proofs`: `Spec => []IInv`, and from it `TypeOK`, `PermittedStillHolds`,
  `AssignmentsStayInTenant`, `RolesAreWhole` and `OwnersKeepControl`; the refinement
  `Spec => ImplementsAccess`; and that the check's query decides by the powers of
  `Access` (`CheckReadsPowers`).
- `Billing_proofs`: `Spec => []IInv`, and from it `TypeOK` and `StatusFollowsEvents`;
  `Spec => ImplementsLedger`, the refinement.
- `RateLimit_proofs`: `LSpec => []LInv`, and from it `OneBucketPerKey`; and
  `LSpec => ImplementsBuckets`, the refinement.
- `Server_proofs`: `Spec => []IInv`, and from it `TypeOK`, `GaugeDrift`,
  `ConnectionsReturned`, `DrainBeforeClose` and `OneBucketPerKey`; and
  `Spec => ImplementsBuckets`, by the theorem of `RateLimit_proofs`.
- `SignIn_proofs`: `KSpec => []KInv` and `Spec => []IInv`, and from them `TypeOK`,
  `ServedKeysRecent`, `KnownKeysAccepted`, `SessionOfItsLogin` and
  `MismatchExplained`; `Spec => []SInv`, and from it the refinement
  `Spec => ImplementsSessions`.

The argument for provisioning. The properties are not inductive: that `CreateOwner`
makes an owner needs that the request still carries an organization that exists
and that this organization has its four roles; that `MarkAccepted` closes an
invitation that admitted somebody needs that the request inserted the
membership. `InOrder` says what a request has established at each of its
calls, `TablesConsistent` says what the constraints and the transactions
keep between the tables (four roles per organization, no reference to an
organization that is not there, one membership per person and per e-mail).
`IInv` is both with the properties. The proof has a lemma for each way the
tables change (a founder, an invited member, a registered member, a new
organization, an invitation) and one for each action on top. `TenantsHaveOwners`
rests on the fact that everything but founding starts from a caller who is a member.

The argument for identities. `MembersAreKnown` is inductive beside `IInv`. Its tables
(`IdentitiesStand`) need what requests know of their callers (`CallerKnown`): a sign-in
carries what the provider asserted, and one about to update an identity has seen it,
which no step takes away; a request past its start carries what a cookie says. Cookies
and the subjects of identities only grow (`KnownGrow`), so other requests keep what they
know. An identity may lose its e-mail to another one: this is why the property is about
what was asserted and not about what `identities` says now.

The argument for the refinements. For what `Tenancy` and `Rbac` look at, a step of
the handlers is of one of six kinds (`Effects`): an organization opens, somebody
founds it, an invitation is issued, somebody comes in by one or is registered, or
nothing changes. Each kind then is one step of either specification. That a
founder is the first member is not in `IInv`: `FoundersApart` adds that a request
about to create the owner of an organization is the only one that carries it there,
and that nobody is in it, because it is the request that has created it
(`FoundersKept`) and everybody else comes in by a member. That an invitation is not
spent twice follows from the e-mails: whoever came in by it has the address it
was sent to, so the second insert meets the unique constraint.

The argument for migrations. `Grounded` says what an instance may rely on between
its calls: everything it read or passed is recorded, and the file it is about to
record is committed. An instance applies the least file that it has not read; all
smaller ones are recorded, so the schema stays a prefix, although another instance
may have gone further in the meantime.
A stranded file stays applied and not recorded (`StrandedStays`): its SQL fails for whoever
comes to it, so nobody gets to record it, and whoever serves has recorded all files.

The argument for roles. Rows are only added and members do not move (`Grows`), so
what somebody is entitled to it stays entitled to (`EntitledStays`): a check
outlives the gap before its handler. `DefaultsStand` is what `OwnersKeepControl`
needs to be inductive: the default roles stand as they were bootstrapped,
since a created role takes a fresh id, and the first member's row in
`user_roles` stays.

The argument for `Access`. Names stand for ids because an organization has a name once,
and its default roles as long as any role (`CatalogStands`). `EntitledIsPower` turns the
check into the abstract `Empowered`; `PermittedStillHolds` brings it to the handler's
step, so an insert is `Define` (`InsertIsDefine`) and an assignment within the organization
`Give`. `AssignRoleToUser` also accepts a member of another organization: that row of
`user_roles` is never counted, because the check joins on the caller's own organization,
and the step is `Pass` (`AssignIsGive`). Newcomers bring no rows of their own from before
(`OutsidersHoldNothing`).

The argument for billing. `StatusFollowsEvents` is inductive with the types: an
event is dropped only in a step in which the row has its status; a write of an
older event finds the newest answered, and counts as overtaking, or not
answered, and then the row is not settled. The refinement takes the step that decides
the answer for the step of `Ledger`: an event dropped in `GetSubscription` gives the
status that is there already, an upsert answered 200 is an `Answer`, one answered 500 a
`LoseAnswer`; a read whose error was ignored decides nothing.

The argument for the rate limit. `Refilled` carries the refinement: a visitor not
seen for `age` ticks has a full bucket, or at least `age - MaxLag` tokens, because
the only `Allow` that can come after its `lastSeen` is that of a request that is at
most `MaxLag` late (`PendingCall`). When it is dropped, `age` is over `Stale`, hence
its bucket is full, which is what the next lookup of that key starts with. Each
step then maps to a step of `Buckets` or to none: `Get` and `Cleanup` change no
level, `Allow` passes or turns away, `Tick` refills.

The argument for the server. Each step of the process is a step of the limiters or
leaves them alone, so the limiters' theorem holds inside it. The gauge and the
pool are counts of sets of requests (`Active`, `Querying`): a step adds one request to
such a set or takes one away, and the cardinality follows. `ShutdownOrder` is what
`DrainBeforeClose` needs to be inductive: once the listener is shut down, requests come
only over connections that `HTTPServer.Shutdown` is waiting for, so the set that `Drained`
found empty stays empty unless the ten seconds are over.

The argument for the key cache. `CachedKey` bounds the life of the cache by the
moment a cached key was withdrawn: the answer that brought it is no older than the
fetch (`LookupAt`), the fetch took at most `FetchTime`, and the cache lives `TTL`
from there. A hit is decided with the mutex held, on the clock of that moment, so
a wait before it adds nothing.

The argument for signing in. `CallAt` says what a callback past each check has
established: the cookies it came with are those of its login, which its browser
began; past the exchange, the login is spent and its subject is the caller's.
`CookiesAt` and `LoginAt` tie the cookies of a browser to the logins it began, until
they are lost, which `disturbed` records.

The argument for `Sessions`. Two callbacks of a login may run at once, and both pass the
comparison of the state; what makes one login one session is that the provider redeems
a code once, so at most one of them is past the exchange (`OneExchangePerLogin`, the
conjunct that `SInv` adds). The end of that callback is the end of the login, and
a restart ends several at once, which is why `Fail` takes a set.

Model-checked only: the liveness properties (`RecoversUnlessStranded`,
`EventsAreAnswered`, `StopCompletes`, `RequestsEnd`), which are out of the prover's
reach, and the four disagreements.

## Findings

- `provisioning_retry`: `user_repository.go:226` tests for the error type of
  pgx v4 (`github.com/jackc/pgconn`), the driver is pgx v5; the 409 that
  `docs/archive/PHASE17D_HARDENING.md:41` promises is a 500. The billing and rbac
  repositories do the same.
- `provisioning_second`: `users.zitadel_user_id` is unique over all tenants;
  `docs/ENGINEERING_RULES.md:123` says an identity has several memberships.
- `migration_restart`: a stop between the two calls of a file cannot be
  recovered from by a restart, against
  `docs/archive/PHASE18A_CONTAINER_HARDENING.md:70`.
- `billing_plan`: an event that changes the plan but not the status is dropped
  (`billing/service.go:216`), against `docs/ARCHITECTURE.md:275`.

## Not modelled

- Row-level security: the application connects as a role that bypasses it
  (`docs/FAILURE_INJECTION_REPORT.md`), so tenant isolation is what the queries say.
- The encoding of tokens, signatures and sealed cookies: a cookie is what it seals, a
  webhook that arrives is one the provider sent, a token carries who signed in and
  the key that signed it. A rejected one changes nothing.
- Usage counters and limits. `IncrementUsage`, `SetUsage`, `CanUse` and the middleware
  `RequireSubscription` have no caller in the server: the counters are read and never
  written, and no request is refused for a limit. A model of them would be about code
  that does not run.
- The discovery document of the provider: failing to get it is a sign-in that fails
  (`ExchangeFails`).
- Names and other profile fields, period ends, the text of answers.
- Audit records, except where a failed one changes the answer.
- Configuration, health, telemetry, metrics other than the in-flight gauge, the
  frontend: no state that the server decides on.

## Plan

Done: `Provisioning` with `Tenancy`, `Migration`, `Billing` with `Ledger`, `Rbac` with `Access`,
`RateLimit` with `Buckets`, `Server`, `KeyCache` and `SignIn` with `Sessions`, each with
the proof of its inductive invariant; the six refinements (`Tenancy`, `Rbac`'s
environment, `Access`, `Ledger`, `Buckets`, `Sessions`), proved. What is left, in this order:

1. the invariants of `Rbac` as theorems about `Provisioning`, through `ImplementsRbac`;
2. `Quota`, once the server writes usage counters and asks `CanUse`.
