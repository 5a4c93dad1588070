--------------------------- MODULE Provisioning ---------------------------
(***************************************************************************)
(* Tenant provisioning: how people become members of organizations.        *)
(*                                                                         *)
(* Sign-in (identity module), onboarding, invitations, user registration   *)
(* and the public organization endpoint share the tables identities,       *)
(* organizations, roles, users, user_roles and invitations.  No lock spans *)
(* two of their database calls: each handler is a sequence of separate     *)
(* transactions, and the UNIQUE constraints decide the races.              *)
(*                                                                         *)
(* A transaction is one step, as PostgreSQL commits it.  A call may fail   *)
(* before it commits (Fault) or commit and lose its acknowledgement        *)
(* (Acknowledge), and the process may stop between two calls (Crash).      *)
(***************************************************************************)
EXTENDS TenantRoles

CONSTANTS
    Subjects,    \* subjects of the identity provider (zitadel_user_id)
    Emails,      \* e-mail addresses in claims, invitations and requests
    Accounts,    \* [sub, email] that the identity provider may assert, over time
    Orgs,        \* organization ids: generated UUIDs and client-chosen ids
    Tokens,      \* invitation tokens that generateToken can return
    Requests,    \* slots for concurrent requests to the server
    Registrants, \* [sub, email] that requests to POST /users carry
    Invitees,    \* e-mails that requests to POST /invitations carry
    RoleArgs,    \* role names that requests to POST /invitations carry
    NoSubject, NoEmail, NoToken

ASSUME InputAssumption ==
    /\ Accounts \subseteq [sub: Subjects, email: Emails]
    /\ Registrants \subseteq [sub: Subjects, email: Emails]
    /\ Invitees \subseteq Emails

ASSUME SentinelAssumption ==
    /\ NoSubject \notin Subjects
    /\ NoEmail \notin Emails
    /\ NoOrg \notin Orgs
    /\ NoToken \notin Tokens
    /\ "onboarding" \notin Tokens /\ "register" \notin Tokens

VARIABLES
    identities,   \* rows [sub, email] of identities
    sessions,     \* [sub, email] sealed in the session cookies issued
    orgs,         \* organization_id of the rows of organizations
    roles,        \* rows [org, name] of roles
    users,        \* rows [sub, email, org, via] of users, the memberships
    userRoles,    \* rows [org, sub, name] of user_roles
    invitations,  \* token -> [org, email, role, status]
    req           \* slot -> the request it serves

vars == <<identities, sessions, orgs, roles, users, userRoles, invitations, req>>
tables == <<identities, orgs, roles, users, userRoles, invitations>>

-----------------------------------------------------------------------------
(* Data *)

\* The roles an invitation may name.
ValidRoles == {"owner", "admin", "member", "viewer"}

\* "via" is no column: it records which operation inserted the row, so that
\* the properties can tell founders, invited and registered members apart.
Via == Tokens \cup {"onboarding", "register"}

User == [sub: Subjects, email: Emails, org: Orgs, via: Via]

NoInvitation == [org |-> NoOrg, email |-> NoEmail, role |-> "none", status |-> "none"]

Invitation ==
    [org: Orgs, email: Emails, role: ValidRoles, status: {"pending", "expired", "accepted"}]

\* The labels of a request: the database call it makes next.
Steps == { "findIdentity", "createIdentity", "updateIdentity",
           "hasMembership", "registerOrganization", "createOwner",
           "getByToken", "createMember", "markAccepted", "auditRegistered" }

Answers == {"none", "ok", "conflict", "rejected", "error"}

IdleRequest ==
    [ at |-> "idle", op |-> "none", sub |-> NoSubject, email |-> NoEmail,
      org |-> NoOrg, token |-> NoToken, answer |-> "none" ]

Request ==
    [ at: Steps \cup {"idle", "done"},
      op: {"none", "login", "onboard", "accept", "invite", "register", "organization"},
      sub: Subjects \cup {NoSubject}, email: Emails \cup {NoEmail},
      org: Orgs \cup {NoOrg}, token: Tokens \cup {NoToken}, answer: Answers ]

\* The whole of the tables, the cookies and the requests in flight.
TypeOK ==
    /\ identities \subseteq [sub: Subjects, email: Emails]
    /\ sessions \subseteq [sub: Subjects, email: Emails]
    /\ orgs \subseteq Orgs
    /\ roles \subseteq [org: Orgs, name: DefaultNames]
    /\ users \subseteq User
    /\ userRoles \subseteq [org: Orgs, sub: Subjects, name: DefaultNames]
    /\ invitations \in [Tokens -> Invitation \cup {NoInvitation}]
    /\ req \in [Requests -> Request]

Init ==
    /\ identities = {}
    /\ sessions = {}
    /\ orgs = {}
    /\ roles = {}
    /\ users = {}
    /\ userRoles = {}
    /\ invitations = [t \in Tokens |-> NoInvitation]
    /\ req = [r \in Requests |-> IdleRequest]

-----------------------------------------------------------------------------
(* Requests *)

IsIdle(r) == req[r].at = "idle"
InFlight(r) == req[r].at \in Steps

\* The handler has its caller, and the token in the path, and goes to its first call.
Begin(r, step, op, s, e, t) ==
    req' = [req EXCEPT ![r] =
              [ at |-> step, op |-> op, sub |-> s, email |-> e,
                org |-> NoOrg, token |-> t, answer |-> "none" ]]

Continue(r, step) == req' = [req EXCEPT ![r].at = step]

\* The handler goes on with the organization it has created or been invited to.
ContinueWith(r, step, o) == req' = [req EXCEPT ![r] = [@ EXCEPT !.at = step, !.org = o]]

Reply(r, answer) == req' = [req EXCEPT ![r] = [@ EXCEPT !.at = "done", !.answer = answer]]

\* A request that ends in the step that starts it.
Serve(r, op, answer) ==
    req' = [req EXCEPT ![r] = [IdleRequest EXCEPT !.at = "done", !.op = op, !.answer = answer]]

\* After a commit: the handler goes on, or the acknowledgement is lost, the
\* call returns an error and the handler answers 500 over a committed change.
Acknowledge(r, step) == Continue(r, step) \/ Reply(r, "error")
AcknowledgeLast(r) == Reply(r, "ok") \/ Reply(r, "error")

\* 400, 401, 404 before any table is read: no session, bad body, empty field.
Refuse(r) ==
    /\ IsIdle(r)
    /\ \E op \in {"onboard", "accept", "invite", "register", "organization"} :
          Serve(r, op, "rejected")
    /\ UNCHANGED <<tables, sessions>>

\* A query, a transaction or the audit insert of RegisterUser fails and is
\* rolled back; every handler answers 500 and stops where it is.
Fault(r) ==
    /\ InFlight(r)
    /\ Reply(r, "error")
    /\ UNCHANGED <<tables, sessions>>

\* The response has been written; the slot serves the next request.
Respond(r) ==
    /\ req[r].at = "done"
    /\ req' = [req EXCEPT ![r] = IdleRequest]
    /\ UNCHANGED <<tables, sessions>>

\* The process stops: the tables and the cookies survive, the requests do not.
Crash ==
    /\ \E r \in Requests : InFlight(r)
    /\ req' = [r \in Requests |-> IF InFlight(r) THEN IdleRequest ELSE req[r]]
    /\ UNCHANGED <<tables, sessions>>

-----------------------------------------------------------------------------
(* Sign-in: the callback finds or creates the identity, then seals a cookie *)

\* ExchangeCode and ValidateToken have given a subject and its e-mail claim.
StartLogin(r) ==
    /\ IsIdle(r)
    /\ \E a \in Accounts : Begin(r, "findIdentity", "login", a.sub, a.email, NoToken)
    /\ UNCHANGED <<tables, sessions>>

Claims(r) == [sub |-> req[r].sub, email |-> req[r].email]

IssueSession(r) == sessions' = sessions \cup {Claims(r)}

\* FindOrCreateIdentity: the row is read here and written in a later call.
\* Names are not modelled: an unchanged e-mail may still lead to an UPDATE.
FindIdentity(r) ==
    /\ req[r].at = "findIdentity"
    /\ \/ /\ \A i \in identities : i.sub # req[r].sub
          /\ Continue(r, "createIdentity")
          /\ UNCHANGED sessions
       \/ /\ \E i \in identities : i.sub = req[r].sub
          /\ Continue(r, "updateIdentity")
          /\ UNCHANGED sessions
       \/ /\ Claims(r) \in identities
          /\ Reply(r, "ok")
          /\ IssueSession(r)
    /\ UNCHANGED tables

\* INSERT INTO identities, UNIQUE (zitadel_user_id) and UNIQUE (email).
CreateIdentity(r) ==
    /\ req[r].at = "createIdentity"
    /\ \/ /\ \A i \in identities : i.sub # req[r].sub /\ i.email # req[r].email
          /\ identities' = identities \cup {Claims(r)}
          /\ \/ Reply(r, "ok") /\ IssueSession(r)
             \/ Reply(r, "error") /\ UNCHANGED sessions
       \/ /\ \E i \in identities : i.sub = req[r].sub \/ i.email = req[r].email
          /\ Reply(r, "error")
          /\ UNCHANGED <<identities, sessions>>
    /\ UNCHANGED <<orgs, roles, users, userRoles, invitations>>

\* UPDATE identities SET email WHERE zitadel_user_id, UNIQUE (email).
\* The e-mail copied into users when the membership was created stays.
UpdateIdentity(r) ==
    /\ req[r].at = "updateIdentity"
    /\ LET others == {i \in identities : i.sub # req[r].sub} IN
       \/ /\ \A i \in others : i.email # req[r].email
          /\ identities' = others \cup {Claims(r)}
          /\ \/ Reply(r, "ok") /\ IssueSession(r)
             \/ Reply(r, "error") /\ UNCHANGED sessions
       \/ /\ \E i \in others : i.email = req[r].email
          /\ Reply(r, "error")
          /\ UNCHANGED <<identities, sessions>>
    /\ UNCHANGED <<orgs, roles, users, userRoles, invitations>>

-----------------------------------------------------------------------------
(* Organizations and memberships: the shared repository *)

\* RegisterOrganization: the organization and its four roles in one transaction.
BootstrapWithoutOwner(o) ==
    roles' = roles \cup {[org |-> o, name |-> n] : n \in DefaultNames \ {"owner"}}

BootstrapDefaultRoles(o) == roles' = roles \cup {[org |-> o, name |-> n] : n \in DefaultNames}

UpsertOrganization(o) ==
    /\ orgs' = orgs \cup {o}
    /\ BootstrapDefaultRoles(o)

InsertOrganization(o) ==
    /\ o \notin orgs
    /\ orgs' = orgs \cup {o}
    /\ BootstrapDefaultRoles(o)

\* INSERT INTO users: zitadel_user_id and email are UNIQUE over all tenants, and
\* identity_id, looked up in identities, is NOT NULL.
InsertablePerTenant(u) ==
    /\ \A v \in users : v.org = u.org => v.sub # u.sub
    /\ \E i \in identities : i.sub = u.sub

InsertableUnknown(u) == \A v \in users : v.sub # u.sub /\ v.email # u.email

Insertable(u) ==
    /\ \A v \in users : v.sub # u.sub /\ v.email # u.email
    /\ \E i \in identities : i.sub = u.sub

\* CreateMembershipWithRole: the membership and its role in one transaction.
\* The role is selected by name: no row if the organization has no such role.
InsertMemberRoleLater(u, name) ==
    /\ Insertable(u)
    /\ users' = users \cup {u}
    /\ name \in DefaultNames
    /\ UNCHANGED userRoles

InsertMember(u, name) ==
    /\ Insertable(u)
    /\ users' = users \cup {u}
    /\ userRoles' = userRoles \cup
          {[org |-> role.org, sub |-> u.sub, name |-> role.name] :
              role \in {x \in roles : x.org = u.org /\ x.name = name}}

\* The INSERT fails. The repository looks for *pgconn.PgError of the pgx v4
\* module, pgx v5 returns its own type: ErrUserAlreadyExists never comes back and
\* the handlers' 409 branch is not reached.
UserConflictAnswer == "error"

RefuseMember(r, u) ==
    /\ ~Insertable(u)
    /\ Reply(r, UserConflictAnswer)
    /\ UNCHANGED <<users, userRoles>>

Membership(s) == {u \in users : u.sub = s}

\* The row of users that onboarding or accepting inserts for its caller.
Admitted(r, via) ==
    [sub |-> req[r].sub, email |-> req[r].email, org |-> req[r].org, via |-> via]

-----------------------------------------------------------------------------
(* Onboarding: an organization for somebody who has no membership *)

StartOnboarding(r) ==
    /\ IsIdle(r)
    /\ \E c \in sessions : Begin(r, "hasMembership", "onboard", c.sub, c.email, NoToken)
    /\ UNCHANGED <<tables, sessions>>

\* SELECT COUNT(*) FROM users WHERE identity_id: read here, acted on two
\* transactions later.
HasMembership(r) ==
    /\ req[r].at = "hasMembership"
    /\ \/ Membership(req[r].sub) # {} /\ Reply(r, "conflict")
       \/ Membership(req[r].sub) = {} /\ Continue(r, "registerOrganization")
    /\ UNCHANGED <<tables, sessions>>

\* A fresh UUID names the organization.
RegisterOrganization(r) ==
    /\ req[r].at = "registerOrganization"
    /\ \E o \in Orgs :
          /\ InsertOrganization(o)
          /\ \/ ContinueWith(r, "createOwner", o)
             \/ Reply(r, "error")
    /\ UNCHANGED <<identities, sessions, users, userRoles, invitations>>

\* The founder's membership, from the e-mail sealed in the cookie; the audit
\* record that follows is best effort.
CreateOwner(r) ==
    /\ req[r].at = "createOwner"
    /\ \/ InsertMember(Admitted(r, "onboarding"), "owner") /\ AcknowledgeLast(r)
       \/ RefuseMember(r, Admitted(r, "onboarding"))
    /\ UNCHANGED <<identities, sessions, orgs, roles, invitations>>

-----------------------------------------------------------------------------
(* Invitations *)

\* POST /invitations by a member, of any role: the middleware chain finds the
\* caller's organization, the service checks the role name and inserts. A caller
\* without one is answered 500, like everybody whose INSERT fails.
CreateInvitation(r) ==
    /\ IsIdle(r)
    /\ \E c \in sessions, e \in Invitees, name \in RoleArgs :
          \/ Serve(r, "invite", "error") /\ UNCHANGED invitations
          \/ /\ Membership(c.sub) # {} /\ name \notin ValidRoles
             /\ Serve(r, "invite", "rejected")
             /\ UNCHANGED invitations
          \/ /\ name \in ValidRoles
             /\ \E u \in Membership(c.sub), t \in Tokens :
                   /\ invitations[t] = NoInvitation
                   /\ invitations' = [invitations EXCEPT ![t] =
                         [org |-> u.org, email |-> e, role |-> name, status |-> "pending"]]
             /\ Serve(r, "invite", "ok") \/ Serve(r, "invite", "error")
    /\ UNCHANGED <<identities, sessions, orgs, roles, users, userRoles>>

\* Seven days pass. Once accepted, expires_at is never looked at again.
ExpireInvitation(t) ==
    /\ invitations[t].status = "pending"
    /\ invitations' = [invitations EXCEPT ![t].status = "expired"]
    /\ UNCHANGED <<identities, sessions, orgs, roles, users, userRoles, req>>

StartAccept(r) ==
    /\ IsIdle(r)
    /\ \E c \in sessions, t \in Tokens :
          Begin(r, "getByToken", "accept", c.sub, c.email, t)
    /\ UNCHANGED <<tables, sessions>>

\* The invitation was sent to the e-mail in the caller's cookie.
AddressedToAnyone(inv, r) == inv.email \in Emails

Addressed(inv, r) == inv.email = req[r].email

\* The checks of AcceptInvitation, on a row nobody locks: found, not accepted,
\* not expired, addressed to this e-mail.
GetByToken(r) ==
    LET inv == invitations[req[r].token] IN
    /\ req[r].at = "getByToken"
    /\ \/ inv = NoInvitation /\ Reply(r, "rejected")
       \/ inv.status = "accepted" /\ Reply(r, "conflict")
       \/ inv.status = "expired" /\ Reply(r, "rejected")
       \/ inv.status = "pending" /\ ~Addressed(inv, r) /\ Reply(r, "rejected")
       \/ /\ inv.status = "pending" /\ Addressed(inv, r)
          /\ ContinueWith(r, "createMember", inv.org)
    /\ UNCHANGED <<tables, sessions>>

CreateMember(r) ==
    /\ req[r].at = "createMember"
    /\ LET u == Admitted(r, req[r].token) IN
       \/ /\ InsertMember(u, invitations[req[r].token].role)
          /\ Acknowledge(r, "markAccepted")
       \/ RefuseMember(r, u)
    /\ UNCHANGED <<identities, sessions, orgs, roles, invitations>>

\* UPDATE invitations SET accepted_at WHERE token: a transaction of its own.
MarkAcceptedBestEffort(r) ==
    /\ req[r].at = "markAccepted"
    /\ Reply(r, "ok")
    /\ UNCHANGED <<tables, sessions>>

MarkAccepted(r) ==
    /\ req[r].at = "markAccepted"
    /\ invitations' = [invitations EXCEPT ![req[r].token].status = "accepted"]
    /\ AcknowledgeLast(r)
    /\ UNCHANGED <<identities, sessions, orgs, roles, users, userRoles>>

-----------------------------------------------------------------------------
(* The other two ways in *)

\* POST /users by a member: a membership, without a role, for any identity. A
\* caller who is no member is answered 500, like everybody whose INSERT fails.
RegisterUser(r) ==
    /\ IsIdle(r)
    /\ \E c \in sessions, p \in Registrants :
          \/ Serve(r, "register", "error") /\ UNCHANGED users
          \/ \E m \in Membership(c.sub) :
                LET u == [sub |-> p.sub, email |-> p.email, org |-> m.org, via |-> "register"] IN
                \/ /\ Insertable(u)
                   /\ users' = users \cup {u}
                   /\ \/ Begin(r, "auditRegistered", "register", NoSubject, NoEmail, NoToken)
                      \/ Serve(r, "register", "error")
                \/ /\ ~Insertable(u)
                   /\ Serve(r, "register", UserConflictAnswer)
                   /\ UNCHANGED users
    /\ UNCHANGED <<identities, sessions, orgs, roles, userRoles, invitations>>

\* The audit record of RegisterUser is not best effort: if it fails (Fault) the
\* client is told 500 although the membership exists.
AuditRegistered(r) ==
    /\ req[r].at = "auditRegistered"
    /\ Reply(r, "ok")
    /\ UNCHANGED <<tables, sessions>>

\* POST /organizations, public: the client chooses the id; nobody is a member.
CreateOrganization(r) ==
    /\ IsIdle(r)
    /\ \E o \in Orgs :
          \/ InsertOrganization(o)
             /\ (Serve(r, "organization", "ok") \/ Serve(r, "organization", "error"))
          \/ /\ o \in orgs
             /\ Serve(r, "organization", "conflict")
             /\ UNCHANGED <<orgs, roles>>
          \/ Serve(r, "organization", "error") /\ UNCHANGED <<orgs, roles>>
    /\ UNCHANGED <<identities, sessions, users, userRoles, invitations>>

-----------------------------------------------------------------------------
Handle(r) ==
    \/ StartLogin(r) \/ FindIdentity(r) \/ CreateIdentity(r) \/ UpdateIdentity(r)
    \/ StartOnboarding(r) \/ HasMembership(r) \/ RegisterOrganization(r) \/ CreateOwner(r)
    \/ CreateInvitation(r) \/ StartAccept(r) \/ GetByToken(r) \/ CreateMember(r)
    \/ MarkAccepted(r)
    \/ RegisterUser(r) \/ AuditRegistered(r) \/ CreateOrganization(r)
    \/ Refuse(r) \/ Fault(r) \/ Respond(r)

Next ==
    \/ \E r \in Requests : Handle(r)
    \/ \E t \in Tokens : ExpireInvitation(t)
    \/ Crash

Spec == Init /\ [][Next]_vars

-----------------------------------------------------------------------------
(* Properties *)

Holds(u, name) == [org |-> u.org, sub |-> u.sub, name |-> name] \in userRoles

\* Whoever came in by onboarding owns the organization, and whoever came in by
\* an invitation holds the role it names, in the organization that issued it,
\* under the e-mail it was sent to: at no point between the transactions of
\* CompleteOnboarding and AcceptInvitation is there a member without the role.
MembersHoldTheirRole ==
    \A u \in users :
        /\ u.via = "onboarding" => Holds(u, "owner")
        /\ u.via \in Tokens =>
              LET inv == invitations[u.via] IN
              u.org = inv.org /\ u.email = inv.email /\ Holds(u, inv.role)

\* An organization that has a member or an open invitation has an owner: one
\* whose onboarding stopped between its two transactions stays without effect,
\* whatever other requests do to it.
TenantsHaveOwners ==
    \A o \in Orgs :
        (\E u \in users : u.org = o) \/ (\E t \in Tokens : invitations[t].org = o)
            => \E u \in users : u.org = o /\ Holds(u, "owner")

\* However many people present a token at once, and whatever e-mail their
\* cookies still carry, it admits one; and it is marked accepted only if it did.
OneMemberPerInvitation ==
    /\ \A u, v \in users : u.via = v.via /\ u.via \in Tokens => u = v
    /\ \A t \in Tokens :
          invitations[t].status = "accepted" => \E u \in users : u.via = t

AnswerAgrees(r) ==
    req[r].at = "done" =>
        /\ req[r].op = "onboard" /\ req[r].answer = "ok" => Admitted(r, "onboarding") \in users
        /\ req[r].op = "onboard" /\ req[r].answer = "conflict" => Membership(req[r].sub) # {}
        /\ req[r].op = "accept" /\ req[r].answer = "ok" => Admitted(r, req[r].token) \in users
        /\ req[r].op = "accept" /\ req[r].answer \in {"ok", "conflict"} =>
              invitations[req[r].token].status = "accepted"

\* What a response says is so in the tables, even after the races and the
\* lost acknowledgements: 201 and 200 name a membership that exists, a 409 of
\* onboarding somebody who has one, a 409 of accept an invitation accepted.
AnswersAgree == \A r \in Requests : AnswerAgrees(r)

\* Between its calls a request carries what the earlier ones established: its
\* caller, the organization it created, the invitation it checked, the membership
\* it inserted.
InOrder(r) ==
    LET q == req[r] IN
    /\ q.at \in {"findIdentity", "createIdentity", "updateIdentity"} => q.op = "login"
    /\ q.at \in {"hasMembership", "registerOrganization", "createOwner"} => q.op = "onboard"
    /\ q.at \in {"getByToken", "createMember", "markAccepted"} =>
          q.op = "accept" /\ q.token \in Tokens
    /\ q.at \in Steps \ {"auditRegistered"} => q.sub \in Subjects /\ q.email \in Emails
    /\ q.at = "auditRegistered" => q.op = "register"
    /\ q.at = "createOwner" => q.org \in orgs
    /\ q.at \in {"createMember", "markAccepted"} =>
          LET inv == invitations[q.token] IN
          inv.status # "none" /\ inv.org = q.org /\ inv.email = q.email
    /\ q.at = "markAccepted" => Admitted(r, q.token) \in users
    /\ q.op = "accept" /\ q.answer \in {"ok", "conflict"} => q.token \in Tokens

\* Every organization has the four roles, nothing refers to an organization that
\* does not exist, and a person and an e-mail have one membership.
TablesConsistent ==
    /\ \A o \in orgs, n \in DefaultNames : [org |-> o, name |-> n] \in roles
    /\ \A u \in users : u.org \in orgs
    /\ \A t \in Tokens : invitations[t].status # "none" => invitations[t].org \in orgs
    /\ \A u, v \in users : u.sub = v.sub \/ u.email = v.email => u = v

\* The invariant that every step keeps, whatever state it starts from.
IInv ==
    /\ TypeOK
    /\ TablesConsistent
    /\ MembersHoldTheirRole
    /\ TenantsHaveOwners
    /\ OneMemberPerInvitation
    /\ \A r \in Requests : InOrder(r) /\ AnswerAgrees(r)

\* An identity is one person's, under one e-mail at a time; every session and every
\* member has one, and who came in by onboarding or an invitation did so under an
\* e-mail the provider asserted of that very person, not one the identity got later.
IdentitiesStand ==
    /\ \A i, j \in identities : i.sub = j.sub \/ i.email = j.email => i = j
    /\ sessions \subseteq Accounts
    /\ \A x \in sessions \cup users : \E i \in identities : i.sub = x.sub
    /\ \A u \in users : u.via # "register" => [sub |-> u.sub, email |-> u.email] \in sessions

\* A request acts for a person and an e-mail that were asserted together, and once
\* it is past the sign-in, sealed together.
CallerKnown(r) ==
    /\ req[r].at \in {"findIdentity", "createIdentity", "updateIdentity"} => Claims(r) \in Accounts
    /\ req[r].at = "updateIdentity" => \E i \in identities : i.sub = req[r].sub
    /\ req[r].at \in { "hasMembership", "registerOrganization", "createOwner",
                       "getByToken", "createMember", "markAccepted" } => Claims(r) \in sessions

\* People and e-mails that move on between the calls of sign-ins, onboardings and
\* invitations bring nobody in under an identity or an e-mail of somebody else.
MembersAreKnown == IdentitiesStand /\ \A r \in Requests : CallerKnown(r)

\* The memberships as Tenancy sees them.
AbstractMember ==
    [s \in Subjects |->
        [org   |-> IF Membership(s) = {} THEN NoOrg ELSE (CHOOSE u \in Membership(s) : TRUE).org,
         roles |-> {x.name : x \in {y \in userRoles : y.sub = s}}]]

AbstractTicket ==
    [t \in Tokens |-> [org |-> invitations[t].org, role |-> invitations[t].role]]

AbstractSpent == {t \in Tokens : \E u \in users : u.via = t}

Abstract == INSTANCE Tenancy WITH
    RoleNames <- DefaultNames,
    tenants <- orgs,
    member <- AbstractMember,
    ticket <- AbstractTicket,
    spent <- AbstractSpent

\* Every step of the handlers is one step of Tenancy, or none: membership is for
\* good and in one organization, one founder, one admission per invitation.
ImplementsTenancy == Abstract!TSpec

\* The memberships, roles and assignments as Rbac sees them.
OrgOf == [s \in Subjects |-> AbstractMember[s].org]

RoleTable ==
    [i \in Orgs \X DefaultNames |->
        IF [org |-> i[1], name |-> i[2]] \in roles THEN DefaultRole(i[1], i[2]) ELSE NoRole]

AssignmentTable == {[org |-> x.org, user |-> x.sub, role |-> <<x.org, x.name>>] : x \in userRoles}

NoRequests == [r \in {} |-> NoOrg]

Authorization == INSTANCE Rbac WITH
    Users <- Subjects, Ids <- {}, RoleNames <- {}, Asked <- {}, Grants <- {},
    JoinRoles <- ValidRoles, Requests <- {}, NoUser <- NoSubject,
    member <- OrgOf, roles <- RoleTable, userRoles <- AssignmentTable, req <- NoRequests

\* What Rbac takes for granted of organizations and members: default roles come
\* whole and with their organization, the first member of one with the role of its
\* owner, later ones with a role of that organization or none, and nobody moves.
ImplementsRbac == Authorization!Spec

-----------------------------------------------------------------------------
(* What the documentation says, and the code does not do *)

\* "Retry hits ErrUserAlreadyExists, mapped to 409": somebody the invitation
\* already made a member, whose first request stopped before MarkAccepted,
\* accepts it again and is answered 409.
RetriedAcceptIsConflict ==
    [][\A r \in Requests :
          CreateMember(r) /\ (\E u \in users : u.via = req[r].token /\ u.sub = req[r].sub)
              => req'[r].answer = "conflict"]_vars

\* "An identity maps to memberships in multiple organizations": a member of one
\* organization who accepts an invitation of another, under an e-mail nobody else
\* has, becomes a member of both.
SecondMembership ==
    [][\A r \in Requests :
          ( /\ CreateMember(r)
            /\ Membership(req[r].sub) # {}
            /\ \A u \in Membership(req[r].sub) : u.org # req[r].org
            /\ \A u \in users : u.email = req[r].email => u.sub = req[r].sub )
          => users' # users]_vars
=============================================================================
