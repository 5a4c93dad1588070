------------------------ MODULE Provisioning_proofs ------------------------
(***************************************************************************)
(* The invariants of Provisioning, for any number of people, e-mails,      *)
(* organizations, invitations and concurrent requests.                     *)
(*                                                                         *)
(* Every invariant follows from IInv.  A step either leaves the tables     *)
(* that matter alone or lets them grow: rows of users, user_roles, roles   *)
(* and organizations are never taken away and an invitation, once issued,  *)
(* keeps all but its status.  What other requests have established         *)
(* therefore stays, and each action is left to account for its own         *)
(* request and its own insert.                                             *)
(***************************************************************************)
EXTENDS Provisioning, TLAPS

\* The tables after a step hold what they held before it.
Grow ==
    /\ users \subseteq users'
    /\ orgs \subseteq orgs'
    /\ \A t \in Tokens : invitations[t].status # "none" =>
          /\ invitations'[t].status # "none"
          /\ invitations'[t].org = invitations[t].org
          /\ invitations'[t].email = invitations[t].email
          /\ invitations[t].status = "accepted" => invitations'[t].status = "accepted"

\* The tables that the invariants relate to one another.
tenantTables == <<orgs, roles, users, userRoles, invitations>>

\* The conjuncts of IInv about the tables.
TableInv ==
    /\ TablesConsistent
    /\ MembersHoldTheirRole
    /\ TenantsHaveOwners
    /\ OneMemberPerInvitation

TypedTables ==
    /\ identities \subseteq [sub: Subjects, email: Emails]
    /\ sessions \subseteq [sub: Subjects, email: Emails]
    /\ orgs \subseteq Orgs
    /\ roles \subseteq [org: Orgs, name: DefaultNames]
    /\ users \subseteq User
    /\ userRoles \subseteq [org: Orgs, sub: Subjects, name: DefaultNames]
    /\ invitations \in [Tokens -> Invitation \cup {NoInvitation}]

\* What a step must show of the tables.
TablesKept == Grow /\ TableInv' /\ TypedTables'

\* Request r turns into q and no other request changes.
Becomes(r, q) ==
    /\ req' \in [Requests -> Request]
    /\ req'[r] = q
    /\ \A p \in Requests \ {r} : req'[p] = req[p]

-----------------------------------------------------------------------------
(* Initially and when nothing happens *)

\* The empty tables and idle requests with which the server first starts.
LEMMA InitInv == Init => IInv
  <1> SUFFICES ASSUME Init PROVE IInv
    OBVIOUS
  <1>1. TypeOK
    BY SMT DEF Init, TypeOK, IdleRequest, Request, NoInvitation, Answers
  <1>2. TablesConsistent /\ MembersHoldTheirRole /\ OneMemberPerInvitation
    BY DEF Init, TablesConsistent, MembersHoldTheirRole, OneMemberPerInvitation, NoInvitation
  <1>3. TenantsHaveOwners
    BY SentinelAssumption DEF Init, TenantsHaveOwners, NoInvitation
  <1>4. \A r \in Requests : InOrder(r) /\ AnswerAgrees(r)
    BY DEF Init, IdleRequest, InOrder, AnswerAgrees, Steps
  <1> QED
    BY <1>1, <1>2, <1>3, <1>4 DEF IInv

\* A step that changes no table of the tenants keeps what is said of them.
LEMMA TableFrame ==
    ASSUME TableInv, UNCHANGED tenantTables
    PROVE  TableInv'
  BY DEF TableInv, tenantTables, TablesConsistent, MembersHoldTheirRole, TenantsHaveOwners,
         OneMemberPerInvitation, Holds

\* Tables that do not change grow.
LEMMA UnchangedGrow ==
    ASSUME UNCHANGED tenantTables
    PROVE  Grow
  BY DEF tenantTables, Grow

\* What a request has established survives the steps of the others.
LEMMA RequestFrame ==
    ASSUME TypeOK, Grow, NEW q \in Requests, req'[q] = req[q], InOrder(q), AnswerAgrees(q)
    PROVE  InOrder(q)' /\ AnswerAgrees(q)'
  <1>1. req[q] \in Request
    BY DEF TypeOK
  <1>2. InOrder(q)'
    BY <1>1 DEF InOrder, Grow, Admitted, Steps, Request
  <1>3. AnswerAgrees(q)'
    <2> SUFFICES ASSUME req[q].at = "done"
                 PROVE  AnswerAgrees(q)'
      BY DEF AnswerAgrees
    <2>1. /\ Admitted(q, "onboarding")' = Admitted(q, "onboarding")
          /\ Admitted(q, req[q].token)' = Admitted(q, req[q].token)
      BY DEF Admitted
    <2>2. Membership(req[q].sub) \subseteq Membership(req[q].sub)'
      BY DEF Membership, Grow
    <2>3. req[q].op = "accept" /\ req[q].answer \in {"ok", "conflict"} =>
             invitations'[req[q].token].status = "accepted"
      BY DEF InOrder, AnswerAgrees, Grow
    <2> QED
      BY <2>1, <2>2, <2>3 DEF AnswerAgrees, Grow
  <1> QED
    BY <1>2, <1>3

\* A step that leaves the tenants' tables alone keeps the tables.
LEMMA QuietTables ==
    ASSUME IInv, UNCHANGED tenantTables,
           identities' \subseteq [sub: Subjects, email: Emails],
           sessions' \subseteq [sub: Subjects, email: Emails]
    PROVE  TablesKept
  <1>1. TableInv /\ TypedTables
    BY DEF IInv, TableInv, TypedTables, TypeOK
  <1>2. TableInv' /\ Grow
    BY <1>1, TableFrame, UnchangedGrow
  <1>3. TypedTables'
    BY <1>1 DEF TypedTables, tenantTables, User
  <1> QED
    BY <1>2, <1>3 DEF TablesKept

\* A step that changes no table and no cookie.
LEMMA Untouched ==
    ASSUME IInv, UNCHANGED <<tables, sessions>>
    PROVE  TablesKept
  <1>1. UNCHANGED tenantTables
    BY DEF tables, tenantTables
  <1>2. identities' = identities /\ sessions' = sessions
    BY DEF tables
  <1> QED
    BY <1>1, <1>2, QuietTables DEF IInv, TypeOK

-----------------------------------------------------------------------------
(* Requests *)

\* It is enough to look at the request that takes the step.
LEMMA Conclude ==
    ASSUME IInv, NEW r \in Requests, NEW q, Becomes(r, q), TablesKept,
           InOrder(r)', AnswerAgrees(r)'
    PROVE  IInv'
  <1>1. ASSUME NEW p \in Requests \ {r}
        PROVE  InOrder(p)' /\ AnswerAgrees(p)'
    BY <1>1, RequestFrame DEF IInv, Becomes, TablesKept
  <1>2. \A p \in Requests : InOrder(p)' /\ AnswerAgrees(p)'
    BY <1>1
  <1>3. TypeOK'
    BY DEF TypeOK, TablesKept, TypedTables, Becomes
  <1> QED
    BY <1>2, <1>3 DEF IInv, TablesKept, TableInv

\* Continue, Reply and Serve change one request, into a request.
LEMMA ContinueBecomes ==
    ASSUME TypeOK, NEW r \in Requests, NEW step \in Steps, Continue(r, step)
    PROVE  Becomes(r, [req[r] EXCEPT !.at = step])
  BY DEF TypeOK, Continue, Becomes, Request

LEMMA ContinueWithBecomes ==
    ASSUME TypeOK, NEW r \in Requests, NEW step \in Steps, NEW o \in Orgs, ContinueWith(r, step, o)
    PROVE  Becomes(r, [req[r] EXCEPT !.at = step, !.org = o])
  <1>1. req[r] \in Request
    BY DEF TypeOK
  <1>2. [req[r] EXCEPT !.at = step, !.org = o] \in Request
    BY <1>1 DEF Request
  <1> QED
    BY <1>2 DEF TypeOK, ContinueWith, Becomes

LEMMA ReplyBecomes ==
    ASSUME TypeOK, NEW r \in Requests, NEW answer \in Answers, Reply(r, answer)
    PROVE  Becomes(r, [req[r] EXCEPT !.at = "done", !.answer = answer])
  <1>1. req[r] \in Request
    BY DEF TypeOK
  <1>2. [req[r] EXCEPT !.at = "done", !.answer = answer] \in Request
    BY <1>1 DEF Request
  <1> QED
    BY <1>2 DEF TypeOK, Reply, Becomes

LEMMA ServeBecomes ==
    ASSUME TypeOK, NEW r \in Requests, NEW answer \in Answers,
           NEW op \in {"onboard", "accept", "invite", "register", "organization"},
           Serve(r, op, answer)
    PROVE  Becomes(r, [IdleRequest EXCEPT !.at = "done", !.op = op, !.answer = answer])
  <1>1. IdleRequest \in Request
    BY DEF IdleRequest, Request, Answers
  <1>2. [IdleRequest EXCEPT !.at = "done", !.op = op, !.answer = answer] \in Request
    BY <1>1 DEF Request
  <1> QED
    BY <1>2 DEF TypeOK, Serve, Becomes

\* A reply that promises nothing about the tables.
LEMMA Replied ==
    ASSUME IInv, TablesKept, NEW r \in Requests, NEW answer \in Answers, Reply(r, answer),
           req[r].op \notin {"onboard", "accept"} \/ answer \in {"error", "rejected"}
    PROVE  IInv'
  <1>1. Becomes(r, [req[r] EXCEPT !.at = "done", !.answer = answer])
    BY ReplyBecomes DEF IInv
  <1>2. req[r] \in Request
    BY DEF IInv, TypeOK
  <1>3. req'[r].at = "done" /\ req'[r].op = req[r].op /\ req'[r].answer = answer
    BY <1>1, <1>2 DEF Becomes, Request
  <1>4. InOrder(r)' /\ AnswerAgrees(r)'
    BY <1>3 DEF InOrder, AnswerAgrees, Steps
  <1> QED
    BY <1>1, <1>4, Conclude

LEMMA Served ==
    ASSUME IInv, TablesKept, NEW r \in Requests, NEW answer \in Answers,
           NEW op \in {"onboard", "accept", "invite", "register", "organization"},
           Serve(r, op, answer),
           op \notin {"onboard", "accept"} \/ answer \in {"error", "rejected"}
    PROVE  IInv'
  <1>1. Becomes(r, [IdleRequest EXCEPT !.at = "done", !.op = op, !.answer = answer])
    BY ServeBecomes DEF IInv
  <1>2. req'[r].at = "done" /\ req'[r].op = op /\ req'[r].answer = answer
    BY <1>1 DEF Becomes, IdleRequest
  <1>3. InOrder(r)' /\ AnswerAgrees(r)'
    BY <1>2 DEF InOrder, AnswerAgrees, Steps
  <1> QED
    BY <1>1, <1>3, Conclude

-----------------------------------------------------------------------------
(* Inserts *)

\* RegisterOrganization and the public endpoint: a new organization with its roles.
LEMMA OrganizationTables ==
    ASSUME IInv, NEW o \in Orgs, InsertOrganization(o),
           UNCHANGED <<identities, sessions, users, userRoles, invitations>>
    PROVE  TablesKept
  <1> USE DEF InsertOrganization, BootstrapDefaultRoles
  <1>1. Grow
    BY DEF Grow
  <1>2. TypedTables'
    BY DEF IInv, TypeOK, TypedTables, User
  <1>3. TablesConsistent'
    BY DEF IInv, TablesConsistent
  <1>4. MembersHoldTheirRole' /\ TenantsHaveOwners' /\ OneMemberPerInvitation'
    BY DEF IInv, MembersHoldTheirRole, TenantsHaveOwners, OneMemberPerInvitation, Holds
  <1> QED
    BY <1>1, <1>2, <1>3, <1>4 DEF TablesKept, TableInv

\* A row of users in an organization that exists, for a person and an e-mail that
\* have none: types and keys.
LEMMA UserTables ==
    ASSUME IInv, NEW u \in User, Insertable(u), u.org \in orgs, users' = users \cup {u},
           userRoles' \subseteq [org: Orgs, sub: Subjects, name: DefaultNames],
           UNCHANGED <<identities, sessions, orgs, roles, invitations>>
    PROVE  Grow /\ TypedTables' /\ TablesConsistent'
  <1>1. Grow
    BY DEF Grow
  <1>2. TypedTables'
    BY DEF IInv, TypeOK, TypedTables, User
  <1>3. TablesConsistent'
    BY DEF IInv, TablesConsistent, Insertable
  <1> QED
    BY <1>1, <1>2, <1>3

\* The role inserted with a membership is the one asked for: the organization
\* has it, so the SELECT by name finds it.
LEMMA RoleHeld ==
    ASSUME IInv, NEW u \in User, NEW name \in DefaultNames, u.org \in orgs, InsertMember(u, name)
    PROVE  /\ Holds(u, name)'
           /\ userRoles \subseteq userRoles'
           /\ userRoles' \subseteq [org: Orgs, sub: Subjects, name: DefaultNames]
  <1>1. [org |-> u.org, name |-> name] \in roles
    BY DEF IInv, TablesConsistent
  <1>2. PICK role \in roles : role.org = u.org /\ role.name = name
    BY <1>1
  <1>3. Holds(u, name)'
    BY <1>2 DEF InsertMember, Holds
  <1>4. userRoles \subseteq userRoles'
    BY DEF InsertMember
  <1>5. userRoles' \subseteq [org: Orgs, sub: Subjects, name: DefaultNames]
    BY DEF InsertMember, IInv, TypeOK, User
  <1> QED
    BY <1>3, <1>4, <1>5

\* The founder, who becomes owner.
LEMMA OwnerTables ==
    ASSUME IInv, NEW u \in User, u.via = "onboarding", u.org \in orgs, InsertMember(u, "owner"),
           UNCHANGED <<identities, sessions, orgs, roles, invitations>>
    PROVE  TablesKept
  <1>1. /\ Holds(u, "owner")' /\ userRoles \subseteq userRoles'
        /\ userRoles' \subseteq [org: Orgs, sub: Subjects, name: DefaultNames]
    BY RoleHeld DEF DefaultNames
  <1>2. Insertable(u) /\ users' = users \cup {u}
    BY DEF InsertMember
  <1>3. Grow /\ TypedTables' /\ TablesConsistent'
    BY <1>1, <1>2, UserTables
  <1>4. MembersHoldTheirRole'
    BY <1>1, <1>2, SentinelAssumption DEF IInv, MembersHoldTheirRole, Holds
  <1>5. TenantsHaveOwners'
    BY <1>1, <1>2 DEF IInv, TenantsHaveOwners, Holds
  <1>6. OneMemberPerInvitation'
    BY <1>2, SentinelAssumption DEF IInv, OneMemberPerInvitation
  <1> QED
    BY <1>3, <1>4, <1>5, <1>6 DEF TablesKept, TableInv

\* The invited member. Nobody else came in by the same token: the e-mail of that
\* member would be the e-mail of the invitation too.
LEMMA InvitedTables ==
    ASSUME IInv, NEW t \in Tokens, NEW u \in User, u.via = t,
           invitations[t].status # "none",
           invitations[t].org = u.org, invitations[t].email = u.email,
           InsertMember(u, invitations[t].role),
           UNCHANGED <<identities, sessions, orgs, roles, invitations>>
    PROVE  TablesKept
  <1>1. invitations[t].role \in DefaultNames /\ u.org \in orgs
    BY DEF IInv, TypeOK, TablesConsistent, Invitation, NoInvitation, ValidRoles, DefaultNames
  <1>2. /\ Holds(u, invitations[t].role)' /\ userRoles \subseteq userRoles'
        /\ userRoles' \subseteq [org: Orgs, sub: Subjects, name: DefaultNames]
    BY <1>1, RoleHeld
  <1>3. Insertable(u) /\ users' = users \cup {u}
    BY DEF InsertMember
  <1>4. Grow /\ TypedTables' /\ TablesConsistent'
    BY <1>1, <1>2, <1>3, UserTables
  <1>5. MembersHoldTheirRole'
    BY <1>2, <1>3, SentinelAssumption DEF IInv, MembersHoldTheirRole, Holds
  <1>6. TenantsHaveOwners'
    BY <1>2, <1>3 DEF IInv, TenantsHaveOwners, Holds
  <1>7. OneMemberPerInvitation'
    <2>1. \A v \in users : v.via = t => v.email = u.email
      BY DEF IInv, MembersHoldTheirRole
    <2>2. \A v \in users : v.via # t
      BY <2>1, <1>3 DEF Insertable
    <2> QED
      BY <2>2, <1>3 DEF IInv, OneMemberPerInvitation
  <1> QED
    BY <1>4, <1>5, <1>6, <1>7 DEF TablesKept, TableInv

\* A member registered by another member of the organization.
LEMMA RegisteredTables ==
    ASSUME IInv, NEW u \in User, u.via = "register", NEW m \in users, m.org = u.org,
           Insertable(u), users' = users \cup {u},
           UNCHANGED <<identities, sessions, orgs, roles, userRoles, invitations>>
    PROVE  TablesKept
  <1>1. u.org \in orgs
    BY DEF IInv, TablesConsistent
  <1>2. Grow /\ TypedTables' /\ TablesConsistent'
    BY <1>1, UserTables DEF IInv, TypeOK
  <1>3. MembersHoldTheirRole'
    BY SentinelAssumption DEF IInv, MembersHoldTheirRole, Holds
  <1>4. TenantsHaveOwners'
    BY DEF IInv, TenantsHaveOwners, Holds, TypeOK, User
  <1>5. OneMemberPerInvitation'
    BY SentinelAssumption DEF IInv, OneMemberPerInvitation
  <1> QED
    BY <1>2, <1>3, <1>4, <1>5 DEF TablesKept, TableInv

-----------------------------------------------------------------------------
(* The actions *)

\* A request that starts with a caller: StartLogin, StartOnboarding, StartAccept.
LEMMA Begun ==
    ASSUME IInv, UNCHANGED <<tables, sessions>>, NEW r \in Requests,
           NEW s \in Subjects, NEW e \in Emails, NEW t \in Tokens \cup {NoToken},
           NEW step \in Steps, NEW op \in {"login", "onboard", "accept"},
           \/ op = "login" /\ step = "findIdentity"
           \/ op = "onboard" /\ step = "hasMembership"
           \/ op = "accept" /\ step = "getByToken" /\ t \in Tokens,
           Begin(r, step, op, s, e, t)
    PROVE  IInv'
  <1> DEFINE q == [ at |-> step, op |-> op, sub |-> s, email |-> e,
                    org |-> NoOrg, token |-> t, answer |-> "none" ]
  <1>1. q \in Request
    BY DEF Request, Answers
  <1>2. Becomes(r, q)
    BY <1>1 DEF Begin, Becomes, IInv, TypeOK
  <1>3. InOrder(r)' /\ AnswerAgrees(r)'
    BY <1>2 DEF Becomes, InOrder, AnswerAgrees, Steps
  <1> QED
    BY <1>2, <1>3, Untouched, Conclude

LEMMA StartInv ==
    ASSUME IInv, NEW r \in Requests, StartLogin(r) \/ StartOnboarding(r) \/ StartAccept(r)
    PROVE  IInv'
  <1>1. UNCHANGED <<tables, sessions>>
    BY DEF StartLogin, StartOnboarding, StartAccept
  <1>2. \A c \in sessions : c.sub \in Subjects /\ c.email \in Emails
    BY DEF IInv, TypeOK
  <1>3. CASE StartLogin(r)
    BY <1>1, <1>3, Begun, InputAssumption DEF StartLogin, Steps
  <1>4. CASE StartOnboarding(r)
    BY <1>1, <1>2, <1>4, Begun DEF StartOnboarding, Steps
  <1>5. CASE StartAccept(r)
    BY <1>1, <1>2, <1>5, Begun DEF StartAccept, Steps
  <1> QED
    BY <1>3, <1>4, <1>5

\* A request that reads and goes on, with what the reads of InOrder require.
LEMMA Continued ==
    ASSUME IInv, TablesKept, NEW r \in Requests, NEW step \in Steps, Continue(r, step), InOrder(r)'
    PROVE  IInv'
  <1>1. Becomes(r, [req[r] EXCEPT !.at = step])
    BY ContinueBecomes DEF IInv
  <1>2. req[r] \in Request
    BY DEF IInv, TypeOK
  <1>3. req'[r].at = step
    BY <1>1, <1>2 DEF Becomes, Request
  <1>4. AnswerAgrees(r)'
    BY <1>3 DEF AnswerAgrees, Steps
  <1> QED
    BY <1>1, <1>4, Conclude

\* The fields that Continue leaves alone.
LEMMA ContinueFields ==
    ASSUME IInv, NEW r \in Requests, NEW step \in Steps, Continue(r, step)
    PROVE  /\ req'[r].at = step /\ req'[r].op = req[r].op /\ req'[r].sub = req[r].sub
           /\ req'[r].email = req[r].email /\ req'[r].org = req[r].org
           /\ req'[r].token = req[r].token /\ req'[r].answer = req[r].answer
  <1>1. req[r] \in Request
    BY DEF IInv, TypeOK
  <1>2. req'[r] = [req[r] EXCEPT !.at = step]
    BY ContinueBecomes DEF IInv, Becomes
  <1> QED
    BY <1>1, <1>2 DEF Request

LEMMA FindIdentityInv ==
    ASSUME IInv, NEW r \in Requests, FindIdentity(r)
    PROVE  IInv'
  <1>1. InOrder(r) /\ req[r] \in Request
    BY DEF IInv, TypeOK
  <1>2. req[r].op = "login" /\ req[r].sub \in Subjects /\ req[r].email \in Emails
    BY <1>1 DEF FindIdentity, InOrder, Steps
  <1>3. TablesKept
    <2>1. UNCHANGED tenantTables /\ identities' = identities
      BY DEF FindIdentity, tables, tenantTables
    <2>2. sessions' \subseteq [sub: Subjects, email: Emails]
      BY <1>2 DEF FindIdentity, IssueSession, Claims, IInv, TypeOK
    <2> QED
      BY <2>1, <2>2, QuietTables DEF IInv, TypeOK
  <1>4. CASE Reply(r, "ok")
    BY <1>2, <1>3, <1>4, Replied DEF Answers
  <1>5. ASSUME NEW step \in {"createIdentity", "updateIdentity"}, Continue(r, step)
        PROVE  IInv'
    <2>1. step \in Steps
      BY DEF Steps
    <2>2. InOrder(r)'
      BY <1>2, <1>5, <2>1, ContinueFields DEF InOrder
    <2> QED
      BY <1>3, <1>5, <2>1, <2>2, Continued
  <1> QED
    BY <1>4, <1>5 DEF FindIdentity

\* CreateIdentity and UpdateIdentity: identities and cookies change, no tenant does.
LEMMA WriteIdentityInv ==
    ASSUME IInv, NEW r \in Requests, CreateIdentity(r) \/ UpdateIdentity(r)
    PROVE  IInv'
  <1>1. InOrder(r)
    BY DEF IInv
  <1>2. req[r].op = "login" /\ req[r].sub \in Subjects /\ req[r].email \in Emails
    BY <1>1 DEF CreateIdentity, UpdateIdentity, InOrder, Steps
  <1>3. UNCHANGED tenantTables
    BY DEF CreateIdentity, UpdateIdentity, tenantTables
  <1>4. identities' \subseteq [sub: Subjects, email: Emails]
    BY <1>2 DEF CreateIdentity, UpdateIdentity, Claims, IInv, TypeOK
  <1>5. sessions' \subseteq [sub: Subjects, email: Emails]
    BY <1>2 DEF CreateIdentity, UpdateIdentity, IssueSession, Claims, IInv, TypeOK
  <1>6. Reply(r, "ok") \/ Reply(r, "error")
    BY DEF CreateIdentity, UpdateIdentity
  <1> QED
    BY <1>2, <1>3, <1>4, <1>5, <1>6, QuietTables, Replied DEF Answers

LEMMA HasMembershipInv ==
    ASSUME IInv, NEW r \in Requests, HasMembership(r)
    PROVE  IInv'
  <1>1. InOrder(r) /\ req[r] \in Request /\ TablesKept
    BY Untouched DEF IInv, TypeOK, HasMembership
  <1>2. req[r].op = "onboard" /\ req[r].sub \in Subjects /\ req[r].email \in Emails
    BY <1>1 DEF HasMembership, InOrder, Steps
  <1>3. CASE Continue(r, "registerOrganization")
    <2>1. InOrder(r)'
      BY <1>2, <1>3, ContinueFields DEF InOrder, Steps
    <2> QED
      BY <1>1, <1>3, <2>1, Continued DEF Steps
  <1>4. CASE Membership(req[r].sub) # {} /\ Reply(r, "conflict")
    <2>1. Becomes(r, [req[r] EXCEPT !.at = "done", !.answer = "conflict"])
      BY <1>4, ReplyBecomes DEF IInv, Answers
    <2>2. /\ req'[r].at = "done" /\ req'[r].op = "onboard" /\ req'[r].answer = "conflict"
          /\ req'[r].sub = req[r].sub
      BY <1>1, <1>2, <2>1 DEF Becomes, Request
    <2>3. Membership(req[r].sub)' # {}
      BY <1>4, <2>2 DEF HasMembership, Membership, tables
    <2>4. InOrder(r)' /\ AnswerAgrees(r)'
      BY <2>2, <2>3 DEF InOrder, AnswerAgrees, Steps, Membership
    <2> QED
      BY <1>1, <2>1, <2>4, Conclude
  <1> QED
    BY <1>3, <1>4 DEF HasMembership

LEMMA RegisterOrganizationInv ==
    ASSUME IInv, NEW r \in Requests, RegisterOrganization(r)
    PROVE  IInv'
  <1>1. PICK o \in Orgs :
           /\ InsertOrganization(o)
           /\ ContinueWith(r, "createOwner", o) \/ Reply(r, "error")
    BY DEF RegisterOrganization
  <1>2. TablesKept
    BY <1>1, OrganizationTables DEF RegisterOrganization
  <1>3. CASE Reply(r, "error")
    BY <1>2, <1>3, Replied DEF Answers
  <1>4. CASE ContinueWith(r, "createOwner", o)
    <2>1. Becomes(r, [req[r] EXCEPT !.at = "createOwner", !.org = o])
      BY <1>4, ContinueWithBecomes DEF IInv, Steps
    <2>2. req[r] \in Request /\ InOrder(r)
      BY DEF IInv, TypeOK
    <2>3. /\ req'[r].at = "createOwner" /\ req'[r].op = req[r].op /\ req'[r].org = o
          /\ req'[r].sub = req[r].sub /\ req'[r].email = req[r].email
      BY <2>1, <2>2 DEF Becomes, Request
    <2>4. InOrder(r)' /\ AnswerAgrees(r)'
      BY <1>1, <2>2, <2>3
      DEF RegisterOrganization, InOrder, AnswerAgrees, Steps, InsertOrganization
    <2> QED
      BY <1>2, <2>1, <2>4, Conclude
  <1> QED
    BY <1>1, <1>3, <1>4

LEMMA CreateOwnerInv ==
    ASSUME IInv, NEW r \in Requests, CreateOwner(r)
    PROVE  IInv'
  <1> DEFINE u == Admitted(r, "onboarding")
  <1>1. InOrder(r) /\ req[r] \in Request
    BY DEF IInv, TypeOK
  <1>2. /\ req[r].op = "onboard" /\ req[r].sub \in Subjects /\ req[r].email \in Emails
        /\ req[r].org \in orgs
    BY <1>1 DEF CreateOwner, InOrder, Steps
  <1>3. u \in User
    BY <1>2 DEF Admitted, User, Via, IInv, TypeOK
  <1>4. CASE RefuseMember(r, u)
    <2>1. TablesKept
      BY <1>4, Untouched DEF CreateOwner, RefuseMember, tables
    <2> QED
      BY <1>4, <2>1, Replied DEF RefuseMember, UserConflictAnswer, Answers
  <1>5. CASE InsertMember(u, "owner") /\ AcknowledgeLast(r)
    <2>1. u.via = "onboarding" /\ u.org \in orgs
      BY <1>2 DEF Admitted
    <2>2. TablesKept
      BY <1>3, <1>5, <2>1, OwnerTables DEF CreateOwner
    <2>3. CASE Reply(r, "error")
      BY <2>2, <2>3, Replied DEF Answers
    <2>4. CASE Reply(r, "ok")
      <3>1. Becomes(r, [req[r] EXCEPT !.at = "done", !.answer = "ok"])
        BY <2>4, ReplyBecomes DEF IInv, Answers
      <3>2. /\ req'[r].at = "done" /\ req'[r].op = "onboard" /\ req'[r].answer = "ok"
            /\ Admitted(r, "onboarding")' = u
        BY <1>1, <1>2, <3>1 DEF Becomes, Request, Admitted
      <3>3. u \in users'
        BY <1>5 DEF InsertMember
      <3>4. InOrder(r)' /\ AnswerAgrees(r)'
        BY <3>2, <3>3 DEF InOrder, AnswerAgrees, Steps
      <3> QED
        BY <2>2, <3>1, <3>4, Conclude
    <2> QED
      BY <1>5, <2>3, <2>4 DEF AcknowledgeLast
  <1> QED
    BY <1>4, <1>5 DEF CreateOwner

\* An invitation is issued by a member, whose organization has an owner.
LEMMA CreateInvitationInv ==
    ASSUME IInv, NEW r \in Requests, CreateInvitation(r)
    PROVE  IInv'
  <1>1. PICK answer \in {"ok", "error", "rejected"} : Serve(r, "invite", answer)
    BY DEF CreateInvitation
  <1>2. TablesKept
    <2>1. CASE UNCHANGED invitations
      BY <2>1, Untouched DEF CreateInvitation, tables
    <2>2. ASSUME NEW u \in users, NEW t \in Tokens, NEW e \in Emails, NEW name \in ValidRoles,
                 invitations[t] = NoInvitation,
                 invitations' = [invitations EXCEPT ![t] =
                    [org |-> u.org, email |-> e, role |-> name, status |-> "pending"]]
          PROVE  TablesKept
      <3>1. UNCHANGED <<identities, sessions, orgs, roles, users, userRoles>>
        BY DEF CreateInvitation
      <3>2. u.org \in Orgs /\ u.org \in orgs
        BY DEF IInv, TypeOK, TablesConsistent, User
      <3>3. TypedTables'
        BY <2>2, <3>1, <3>2 DEF IInv, TypeOK, TypedTables, User, Invitation
      <3>4. invitations \in [Tokens -> Invitation \cup {NoInvitation}]
        BY DEF IInv, TypeOK
      <3>5. Grow
        BY <2>2, <3>1, <3>4 DEF Grow, NoInvitation
      <3>6. \A v \in users : v.via # t
        BY <2>2, SentinelAssumption DEF IInv, MembersHoldTheirRole, TypeOK, User, NoInvitation
      <3>7. TablesConsistent'
        BY <2>2, <3>1, <3>2, <3>4 DEF IInv, TablesConsistent
      <3>8. MembersHoldTheirRole'
        BY <2>2, <3>1, <3>4, <3>6 DEF IInv, MembersHoldTheirRole, Holds
      <3>9. TenantsHaveOwners'
        <4>1. \E v \in users : v.org = u.org /\ Holds(v, "owner")
          BY <3>2 DEF IInv, TenantsHaveOwners
        <4>2. \A s \in Tokens : invitations'[s].org = IF s = t THEN u.org ELSE invitations[s].org
          BY <2>2, <3>4
        <4> QED
          BY <3>1, <4>1, <4>2 DEF IInv, TenantsHaveOwners, Holds
      <3>10. OneMemberPerInvitation'
        BY <2>2, <3>1, <3>4 DEF IInv, OneMemberPerInvitation
      <3> QED
        BY <3>3, <3>5, <3>7, <3>8, <3>9, <3>10 DEF TablesKept, TableInv
    <2> QED
      BY <2>1, <2>2, InputAssumption DEF CreateInvitation, Membership
  <1> QED
    BY <1>1, <1>2, Served DEF Answers

\* A row of invitations that changes its status only, never to one that promises
\* a member nobody is.
LEMMA StatusTables ==
    ASSUME IInv, NEW t \in Tokens, NEW status \in {"expired", "accepted"},
           invitations[t].status # "none",
           status = "expired" => invitations[t].status = "pending",
           status = "accepted" => \E u \in users : u.via = t,
           invitations' = [invitations EXCEPT ![t].status = status],
           UNCHANGED <<identities, sessions, orgs, roles, users, userRoles>>
    PROVE  TablesKept
  <1>1. invitations \in [Tokens -> Invitation \cup {NoInvitation}]
    BY DEF IInv, TypeOK
  <1>2. invitations[t] \in Invitation
    BY <1>1 DEF NoInvitation
  <1>3. [invitations[t] EXCEPT !.status = status] \in Invitation
    BY <1>2 DEF Invitation
  <1>4. TypedTables'
    BY <1>1, <1>3 DEF IInv, TypeOK, TypedTables, User
  <1>5. \A s \in Tokens :
           /\ invitations'[s].org = invitations[s].org
           /\ invitations'[s].email = invitations[s].email
           /\ invitations'[s].role = invitations[s].role
           /\ invitations'[s].status = IF s = t THEN status ELSE invitations[s].status
    BY <1>1, <1>2 DEF Invitation, NoInvitation
  <1>6. Grow
    BY <1>5 DEF Grow
  <1>7. TablesConsistent'
    BY <1>5 DEF IInv, TablesConsistent
  <1>8. MembersHoldTheirRole'
    <2> SUFFICES ASSUME NEW u \in users
                 PROVE  /\ u.via = "onboarding" => Holds(u, "owner")
                        /\ u.via \in Tokens =>
                              /\ u.org = invitations'[u.via].org
                              /\ u.email = invitations'[u.via].email
                              /\ Holds(u, invitations'[u.via].role)
      BY DEF MembersHoldTheirRole, Holds
    <2> QED
      BY <1>5 DEF IInv, MembersHoldTheirRole
  <1>9. TenantsHaveOwners'
    BY <1>5 DEF IInv, TenantsHaveOwners, Holds
  <1>10. OneMemberPerInvitation'
    BY <1>5 DEF IInv, OneMemberPerInvitation
  <1> QED
    BY <1>4, <1>6, <1>7, <1>8, <1>9, <1>10 DEF TablesKept, TableInv

LEMMA ExpireInvitationInv ==
    ASSUME IInv, NEW t \in Tokens, ExpireInvitation(t)
    PROVE  IInv'
  <1>1. TablesKept
    BY StatusTables DEF ExpireInvitation
  <1>2. ASSUME NEW r \in Requests
        PROVE  InOrder(r)' /\ AnswerAgrees(r)'
    BY <1>1, RequestFrame DEF IInv, ExpireInvitation, TablesKept
  <1>3. TypeOK'
    BY <1>1 DEF ExpireInvitation, TablesKept, TypedTables, TypeOK, IInv
  <1> QED
    BY <1>1, <1>2, <1>3 DEF IInv, TablesKept, TableInv

LEMMA GetByTokenInv ==
    ASSUME IInv, NEW r \in Requests, GetByToken(r)
    PROVE  IInv'
  <1> DEFINE inv == invitations[req[r].token]
  <1>1. InOrder(r) /\ req[r] \in Request /\ TablesKept
    BY Untouched DEF IInv, TypeOK, GetByToken
  <1>2. /\ req[r].op = "accept" /\ req[r].token \in Tokens
        /\ req[r].sub \in Subjects /\ req[r].email \in Emails
    BY <1>1 DEF GetByToken, InOrder, Steps
  <1>3. UNCHANGED invitations
    BY DEF GetByToken, tables
  <1>4. CASE Reply(r, "rejected")
    BY <1>1, <1>4, Replied DEF Answers
  <1>5. CASE inv.status = "accepted" /\ Reply(r, "conflict")
    <2>1. Becomes(r, [req[r] EXCEPT !.at = "done", !.answer = "conflict"])
      BY <1>5, ReplyBecomes DEF IInv, Answers
    <2>2. /\ req'[r].at = "done" /\ req'[r].op = "accept" /\ req'[r].answer = "conflict"
          /\ req'[r].token = req[r].token
      BY <1>1, <1>2, <2>1 DEF Becomes, Request
    <2>3. InOrder(r)' /\ AnswerAgrees(r)'
      BY <1>2, <1>3, <1>5, <2>2 DEF InOrder, AnswerAgrees, Steps
    <2> QED
      BY <1>1, <2>1, <2>3, Conclude
  <1>6. CASE /\ inv.status = "pending" /\ inv.email = req[r].email
             /\ ContinueWith(r, "createMember", inv.org)
    <2>1. inv.org \in Orgs
      BY <1>2, <1>6 DEF IInv, TypeOK, Invitation, NoInvitation
    <2>2. Becomes(r, [req[r] EXCEPT !.at = "createMember", !.org = inv.org])
      BY <1>6, <2>1, ContinueWithBecomes DEF IInv, Steps
    <2>3. /\ req'[r].at = "createMember" /\ req'[r].op = "accept" /\ req'[r].org = inv.org
          /\ req'[r].sub = req[r].sub /\ req'[r].email = req[r].email
          /\ req'[r].token = req[r].token
      BY <1>1, <1>2, <2>2 DEF Becomes, Request
    <2>4. InOrder(r)' /\ AnswerAgrees(r)'
      BY <1>2, <1>3, <1>6, <2>3 DEF InOrder, AnswerAgrees, Steps
    <2> QED
      BY <1>1, <2>2, <2>4, Conclude
  <1> QED
    BY <1>4, <1>5, <1>6 DEF GetByToken, Addressed

LEMMA CreateMemberInv ==
    ASSUME IInv, NEW r \in Requests, CreateMember(r)
    PROVE  IInv'
  <1> DEFINE t == req[r].token
             u == Admitted(r, t)
  <1>1. InOrder(r) /\ req[r] \in Request
    BY DEF IInv, TypeOK
  <1>2. /\ req[r].op = "accept" /\ t \in Tokens
        /\ req[r].sub \in Subjects /\ req[r].email \in Emails
        /\ invitations[t].status # "none"
        /\ invitations[t].org = req[r].org /\ invitations[t].email = req[r].email
    BY <1>1 DEF CreateMember, InOrder, Steps
  <1>3. u \in User /\ u.via = t /\ u.org = req[r].org /\ u.email = req[r].email
    BY <1>2 DEF Admitted, User, Via, IInv, TypeOK, Invitation, NoInvitation
  <1>4. CASE RefuseMember(r, u)
    <2>1. TablesKept
      BY <1>4, Untouched DEF CreateMember, RefuseMember, tables
    <2> QED
      BY <1>4, <2>1, Replied DEF RefuseMember, UserConflictAnswer, Answers
  <1>5. CASE InsertMember(u, invitations[t].role) /\ Acknowledge(r, "markAccepted")
    <2>1. TablesKept
      BY <1>2, <1>3, <1>5, InvitedTables DEF CreateMember
    <2>2. CASE Reply(r, "error")
      BY <2>1, <2>2, Replied DEF Answers
    <2>3. CASE Continue(r, "markAccepted")
      <3>1. /\ req'[r].at = "markAccepted" /\ req'[r].op = "accept" /\ req'[r].token = t
            /\ req'[r].sub = req[r].sub /\ req'[r].email = req[r].email
            /\ req'[r].org = req[r].org
        BY <1>2, <2>3, ContinueFields DEF Steps
      <3>2. u \in users' /\ UNCHANGED invitations
        BY <1>5 DEF InsertMember, CreateMember
      <3>3. Admitted(r, t)' = u
        BY <3>1 DEF Admitted
      <3>4. InOrder(r)'
        BY <1>2, <3>1, <3>2, <3>3 DEF InOrder, Steps
      <3> QED
        BY <2>1, <2>3, <3>4, Continued DEF Steps
    <2> QED
      BY <1>5, <2>2, <2>3 DEF Acknowledge
  <1> QED
    BY <1>4, <1>5 DEF CreateMember

LEMMA MarkAcceptedInv ==
    ASSUME IInv, NEW r \in Requests, MarkAccepted(r)
    PROVE  IInv'
  <1> DEFINE t == req[r].token
  <1>1. InOrder(r) /\ req[r] \in Request
    BY DEF IInv, TypeOK
  <1>2. req[r].op = "accept" /\ t \in Tokens /\ invitations[t].status # "none"
        /\ Admitted(r, t) \in users
    BY <1>1 DEF MarkAccepted, InOrder, Steps
  <1>3. Admitted(r, t).via = t
    BY DEF Admitted
  <1>4. TablesKept
    BY <1>2, <1>3, StatusTables DEF MarkAccepted
  <1>5. CASE Reply(r, "error")
    BY <1>4, <1>5, Replied DEF Answers
  <1>6. CASE Reply(r, "ok")
    <2>1. Becomes(r, [req[r] EXCEPT !.at = "done", !.answer = "ok"])
      BY <1>6, ReplyBecomes DEF IInv, Answers
    <2>2. /\ req'[r].at = "done" /\ req'[r].op = "accept" /\ req'[r].answer = "ok"
          /\ req'[r].token = t /\ Admitted(r, t)' = Admitted(r, t)
      BY <1>1, <1>2, <2>1 DEF Becomes, Request, Admitted
    <2>3. users' = users /\ invitations'[t].status = "accepted"
      BY <1>2 DEF MarkAccepted, IInv, TypeOK, Invitation, NoInvitation
    <2>4. InOrder(r)' /\ AnswerAgrees(r)'
      BY <1>2, <2>2, <2>3 DEF InOrder, AnswerAgrees, Steps
    <2> QED
      BY <1>4, <2>1, <2>4, Conclude
  <1> QED
    BY <1>5, <1>6 DEF MarkAccepted, AcknowledgeLast

LEMMA RegisterUserInv ==
    ASSUME IInv, NEW r \in Requests, RegisterUser(r)
    PROVE  IInv'
  <1>1. TablesKept
    <2>1. CASE UNCHANGED users
      BY <2>1, Untouched DEF RegisterUser, tables
    <2>2. ASSUME NEW s \in Subjects, NEW e \in Emails, NEW m \in users,
                 Insertable([sub |-> s, email |-> e, org |-> m.org, via |-> "register"]),
                 users' = users \cup {[sub |-> s, email |-> e, org |-> m.org, via |-> "register"]}
          PROVE  TablesKept
      <3> DEFINE u == [sub |-> s, email |-> e, org |-> m.org, via |-> "register"]
      <3>1. u \in User
        BY DEF User, Via, IInv, TypeOK
      <3> QED
        BY <2>2, <3>1, RegisteredTables DEF RegisterUser
    <2> QED
      BY <2>1, <2>2, InputAssumption DEF RegisterUser, Membership
  <1>2. CASE Serve(r, "register", "error")
    BY <1>1, <1>2, Served DEF Answers
  <1>3. CASE Begin(r, "auditRegistered", "register", NoSubject, NoEmail, NoToken)
    <2> DEFINE q == [ at |-> "auditRegistered", op |-> "register", sub |-> NoSubject,
                      email |-> NoEmail, org |-> NoOrg, token |-> NoToken, answer |-> "none" ]
    <2>1. q \in Request
      BY DEF Request, Answers, Steps
    <2>2. Becomes(r, q)
      BY <1>3, <2>1 DEF Begin, Becomes, IInv, TypeOK
    <2>3. InOrder(r)' /\ AnswerAgrees(r)'
      BY <2>2 DEF Becomes, InOrder, AnswerAgrees, Steps
    <2> QED
      BY <1>1, <2>2, <2>3, Conclude
  <1> QED
    BY <1>2, <1>3 DEF RegisterUser, UserConflictAnswer

LEMMA CreateOrganizationInv ==
    ASSUME IInv, NEW r \in Requests, CreateOrganization(r)
    PROVE  IInv'
  <1>1. TablesKept
    BY Untouched, OrganizationTables DEF CreateOrganization, tables
  <1>2. PICK answer \in {"ok", "error", "conflict"} : Serve(r, "organization", answer)
    BY DEF CreateOrganization
  <1> QED
    BY <1>1, <1>2, Served DEF Answers

\* The steps that only answer, free a slot or stop the process.
LEMMA EndInv ==
    ASSUME IInv, NEW r \in Requests,
           AuditRegistered(r) \/ Refuse(r) \/ Fault(r) \/ Respond(r)
    PROVE  IInv'
  <1>1. TablesKept
    BY Untouched DEF AuditRegistered, Refuse, Fault, Respond
  <1>2. CASE AuditRegistered(r)
    <2>1. req[r].op = "register"
      BY <1>2 DEF AuditRegistered, IInv, InOrder
    <2> QED
      BY <1>1, <1>2, <2>1, Replied DEF AuditRegistered, Answers
  <1>3. CASE Refuse(r)
    BY <1>1, <1>3, Served DEF Refuse, Answers
  <1>4. CASE Fault(r)
    BY <1>1, <1>4, Replied DEF Fault, Answers
  <1>5. CASE Respond(r)
    <2>1. Becomes(r, IdleRequest)
      BY <1>5 DEF Respond, Becomes, IInv, TypeOK, IdleRequest, Request, Answers
    <2>2. InOrder(r)' /\ AnswerAgrees(r)'
      BY <2>1 DEF Becomes, IdleRequest, InOrder, AnswerAgrees, Steps
    <2> QED
      BY <1>1, <2>1, <2>2, Conclude
  <1> QED
    BY <1>2, <1>3, <1>4, <1>5

LEMMA CrashInv == IInv /\ Crash => IInv'
  <1> SUFFICES ASSUME IInv, Crash PROVE IInv'
    OBVIOUS
  <1>1. TablesKept
    BY Untouched DEF Crash
  <1>2. IdleRequest \in Request
    BY DEF IdleRequest, Request, Answers
  <1>3. TypeOK'
    BY <1>1, <1>2 DEF Crash, TablesKept, TypedTables, TypeOK, IInv
  <1>4. ASSUME NEW r \in Requests
        PROVE  InOrder(r)' /\ AnswerAgrees(r)'
    <2>1. CASE req'[r] = req[r]
      BY <1>1, <2>1, RequestFrame DEF IInv, TablesKept
    <2>2. CASE req'[r] = IdleRequest
      BY <2>2 DEF IdleRequest, InOrder, AnswerAgrees, Steps
    <2> QED
      BY <2>1, <2>2 DEF Crash
  <1> QED
    BY <1>1, <1>3, <1>4 DEF IInv, TablesKept, TableInv

-----------------------------------------------------------------------------
(* The theorems *)

\* Nothing that handlers, faults, races or crashes do breaks the invariant.
LEMMA StepInv == IInv /\ [Next]_vars => IInv'
  <1> SUFFICES ASSUME IInv, [Next]_vars PROVE IInv'
    OBVIOUS
  <1>1. ASSUME NEW r \in Requests, Handle(r)
        PROVE  IInv'
    BY <1>1, StartInv, FindIdentityInv, WriteIdentityInv, HasMembershipInv,
       RegisterOrganizationInv, CreateOwnerInv, CreateInvitationInv, GetByTokenInv,
       CreateMemberInv, MarkAcceptedInv, RegisterUserInv, CreateOrganizationInv, EndInv
    DEF Handle
  <1>2. ASSUME NEW t \in Tokens, ExpireInvitation(t)
        PROVE  IInv'
    BY <1>2, ExpireInvitationInv
  <1>3. CASE Crash
    BY <1>3, CrashInv
  <1>4. CASE UNCHANGED vars
    <2>1. TablesKept
      BY <1>4, Untouched DEF vars, tables
    <2>2. TypeOK'
      BY <1>4, <2>1 DEF vars, TablesKept, TypedTables, TypeOK, IInv
    <2>3. ASSUME NEW r \in Requests
          PROVE  InOrder(r)' /\ AnswerAgrees(r)'
      BY <1>4, <2>1, RequestFrame DEF vars, IInv, TablesKept
    <2> QED
      BY <2>1, <2>2, <2>3 DEF IInv, TablesKept, TableInv
  <1> QED
    BY <1>1, <1>2, <1>3, <1>4 DEF Next

\* In every reachable state the tables are consistent and each request in flight
\* carries what its earlier calls established.
THEOREM Invariance == Spec => []IInv
  <1> QED
    BY InitInv, StepInv, PTL DEF Spec

\* Tables, cookies and requests hold values of their types.
THEOREM TypeCorrectness == Spec => []TypeOK
  <1>1. IInv => TypeOK
    BY DEF IInv
  <1> QED
    BY <1>1, Invariance, PTL

\* CompleteOnboarding and AcceptInvitation never leave a member without the role,
\* and an invitation admits to the organization and the e-mail it names.
THEOREM RolesAreHeld == Spec => []MembersHoldTheirRole
  <1>1. IInv => MembersHoldTheirRole
    BY DEF IInv
  <1> QED
    BY <1>1, Invariance, PTL

\* An onboarding that stopped halfway leaves an organization nobody can enter.
THEOREM OwnersExist == Spec => []TenantsHaveOwners
  <1>1. IInv => TenantsHaveOwners
    BY DEF IInv
  <1> QED
    BY <1>1, Invariance, PTL

\* However many requests race for a token, it admits one person.
THEOREM InvitationsAdmitOne == Spec => []OneMemberPerInvitation
  <1>1. IInv => OneMemberPerInvitation
    BY DEF IInv
  <1> QED
    BY <1>1, Invariance, PTL

\* The answers of onboarding and accepting are true of the tables.
THEOREM AnswersAreTrue == Spec => []AnswersAgree
  <1>1. IInv => AnswersAgree
    BY DEF IInv, AnswersAgree
  <1> QED
    BY <1>1, Invariance, PTL

-----------------------------------------------------------------------------
(* Whose identity and whose e-mail a membership is under *)

\* Cookies are never taken back, and an identity may get another e-mail but not end.
KnownGrow ==
    /\ sessions \subseteq sessions'
    /\ \A i \in identities : \E j \in identities' : j.sub = i.sub

\* What a request knows of its caller survives the steps of the others.
LEMMA CallerFrame ==
    ASSUME KnownGrow, NEW p \in Requests, req'[p] = req[p], CallerKnown(p)
    PROVE  CallerKnown(p)'
  BY DEF KnownGrow, CallerKnown, Claims

\* It is enough to look at the request that takes the step, and at the tables.
LEMMA ConcludeKnown ==
    ASSUME MembersAreKnown, NEW r \in Requests, NEW q, Becomes(r, q),
           KnownGrow, IdentitiesStand', CallerKnown(r)'
    PROVE  MembersAreKnown'
  <1>1. ASSUME NEW p \in Requests \ {r}
        PROVE  CallerKnown(p)'
    BY <1>1, CallerFrame DEF MembersAreKnown, Becomes
  <1> QED
    BY <1>1 DEF MembersAreKnown

\* A request that has ended, or only has its audit record left, knows nobody.
LEMMA EndsKnown ==
    ASSUME MembersAreKnown, NEW r \in Requests, NEW q, Becomes(r, q),
           q.at \in {"idle", "done", "auditRegistered"}, KnownGrow, IdentitiesStand'
    PROVE  MembersAreKnown'
  <1>1. CallerKnown(r)'
    BY DEF Becomes, CallerKnown
  <1> QED
    BY <1>1, ConcludeKnown

LEMMA RepliesKnown ==
    ASSUME TypeOK, MembersAreKnown, NEW r \in Requests, NEW answer \in Answers,
           Reply(r, answer), KnownGrow, IdentitiesStand'
    PROVE  MembersAreKnown'
  <1> DEFINE q == [req[r] EXCEPT !.at = "done", !.answer = answer]
  <1>1. Becomes(r, q)
    BY ReplyBecomes
  <1>2. q.at = "done"
    BY DEF TypeOK, Request
  <1> QED
    BY <1>1, <1>2, EndsKnown

LEMMA ServesKnown ==
    ASSUME TypeOK, MembersAreKnown, NEW r \in Requests, NEW answer \in Answers,
           NEW op \in {"onboard", "accept", "invite", "register", "organization"},
           Serve(r, op, answer), KnownGrow, IdentitiesStand'
    PROVE  MembersAreKnown'
  <1> DEFINE q == [IdleRequest EXCEPT !.at = "done", !.op = op, !.answer = answer]
  <1>1. Becomes(r, q)
    BY ServeBecomes
  <1>2. q.at = "done"
    BY DEF IdleRequest
  <1> QED
    BY <1>1, <1>2, EndsKnown

\* A request goes on for the caller it has.
LEMMA GoesOnKnown ==
    ASSUME TypeOK, MembersAreKnown, NEW r \in Requests, NEW step \in Steps,
           \/ Continue(r, step)
           \/ \E o \in Orgs : ContinueWith(r, step, o),
           step = "createIdentity" => Claims(r) \in Accounts,
           step = "updateIdentity" =>
              Claims(r) \in Accounts /\ \E i \in identities : i.sub = req[r].sub,
           step \notin {"findIdentity", "createIdentity", "updateIdentity"} => Claims(r) \in sessions,
           step # "findIdentity", KnownGrow, IdentitiesStand'
    PROVE  MembersAreKnown'
  <1>1. PICK q : /\ Becomes(r, q)
                 /\ q.at = step /\ q.sub = req[r].sub /\ q.email = req[r].email
    <2>1. req[r] \in Request
      BY DEF TypeOK
    <2>2. CASE Continue(r, step)
      <3> DEFINE c == [req[r] EXCEPT !.at = step]
      <3>1. Becomes(r, c)
        BY <2>2, ContinueBecomes
      <3>2. c.at = step /\ c.sub = req[r].sub /\ c.email = req[r].email
        BY <2>1 DEF Request
      <3> QED
        BY <3>1, <3>2
    <2>3. CASE \E o \in Orgs : ContinueWith(r, step, o)
      <3>1. PICK o \in Orgs : ContinueWith(r, step, o)
        BY <2>3
      <3> DEFINE c == [req[r] EXCEPT !.at = step, !.org = o]
      <3>2. Becomes(r, c)
        BY <3>1, ContinueWithBecomes
      <3>3. c.at = step /\ c.sub = req[r].sub /\ c.email = req[r].email
        BY <2>1 DEF Request
      <3> QED
        BY <3>2, <3>3
    <2> QED
      BY <2>2, <2>3
  <1>2. req'[r].at = step /\ Claims(r)' = Claims(r) /\ req'[r].sub = req[r].sub
    BY <1>1 DEF Becomes, Claims
  <1>3. CallerKnown(r)'
    BY <1>2 DEF CallerKnown, KnownGrow
  <1> QED
    BY <1>1, <1>3, ConcludeKnown

\* A step that writes no identity, no cookie and no membership.
LEMMA QuietKnown ==
    ASSUME MembersAreKnown, UNCHANGED <<identities, sessions, users>>
    PROVE  KnownGrow /\ IdentitiesStand'
  BY DEF MembersAreKnown, IdentitiesStand, KnownGrow

\* The callback has a subject and an e-mail from the provider, the others a cookie.
LEMMA StartKnown ==
    ASSUME TypeOK, MembersAreKnown, NEW r \in Requests,
           StartLogin(r) \/ StartOnboarding(r) \/ StartAccept(r)
    PROVE  MembersAreKnown'
  <1>1. KnownGrow /\ IdentitiesStand'
    BY QuietKnown DEF StartLogin, StartOnboarding, StartAccept, tables
  <1>2. sessions' = sessions
    BY DEF StartLogin, StartOnboarding, StartAccept
  <1>3. ASSUME NEW step \in Steps, NEW op \in {"login", "onboard", "accept"},
               NEW c \in [sub: Subjects, email: Emails], NEW t \in Tokens \cup {NoToken},
               Begin(r, step, op, c.sub, c.email, t),
               \/ step = "findIdentity" /\ c \in Accounts
               \/ step \in {"hasMembership", "getByToken"} /\ c \in sessions
        PROVE  MembersAreKnown'
    <2> DEFINE q == [ at |-> step, op |-> op, sub |-> c.sub, email |-> c.email,
                      org |-> NoOrg, token |-> t, answer |-> "none" ]
    <2>1. q \in Request
      BY <1>3 DEF Request, Answers
    <2>2. Becomes(r, q)
      BY <1>3, <2>1 DEF Begin, Becomes, TypeOK
    <2>3. req'[r].at = step /\ Claims(r)' = c
      BY <1>3, <2>2 DEF Becomes, Claims
    <2>4. CallerKnown(r)'
      BY <1>2, <1>3, <2>3 DEF CallerKnown
    <2> QED
      BY <1>1, <2>2, <2>4, ConcludeKnown
  <1>4. \A c \in Accounts \cup sessions : c \in [sub: Subjects, email: Emails]
    BY InputAssumption DEF TypeOK
  <1>5. CASE StartLogin(r)
    BY <1>3, <1>4, <1>5 DEF StartLogin, Steps
  <1>6. CASE StartOnboarding(r)
    BY <1>3, <1>4, <1>6 DEF StartOnboarding, Steps
  <1>7. CASE StartAccept(r)
    BY <1>3, <1>4, <1>7 DEF StartAccept, Steps
  <1> QED
    BY <1>5, <1>6, <1>7

\* A cookie is sealed with an identity behind it.
LEMMA SealedKnown ==
    ASSUME TypeOK, MembersAreKnown, NEW r \in Requests, CallerKnown(r),
           req[r].at \in {"findIdentity", "createIdentity", "updateIdentity"},
           \A i, j \in identities' : i.sub = j.sub \/ i.email = j.email => i = j,
           \A i \in identities : \E j \in identities' : j.sub = i.sub,
           users' = users,
           (IssueSession(r) /\ Claims(r) \in identities') \/ sessions' = sessions
    PROVE  KnownGrow /\ IdentitiesStand'
  <1>1. Claims(r) \in Accounts
    BY DEF CallerKnown
  <1>2. KnownGrow
    BY DEF KnownGrow, IssueSession
  <1>3. sessions' \subseteq Accounts
    BY <1>1 DEF IssueSession, MembersAreKnown, IdentitiesStand
  <1>4. \A x \in sessions' \cup users' : \E i \in identities' : i.sub = x.sub
    BY DEF IssueSession, MembersAreKnown, IdentitiesStand
  <1>5. \A u \in users' : u.via # "register" => [sub |-> u.sub, email |-> u.email] \in sessions'
    BY <1>2 DEF KnownGrow, MembersAreKnown, IdentitiesStand
  <1> QED
    BY <1>2, <1>3, <1>4, <1>5 DEF IdentitiesStand

LEMMA SignInKnown ==
    ASSUME TypeOK, MembersAreKnown, NEW r \in Requests,
           FindIdentity(r) \/ CreateIdentity(r) \/ UpdateIdentity(r)
    PROVE  MembersAreKnown'
  <1>1. CallerKnown(r) /\ IdentitiesStand
    BY DEF MembersAreKnown
  <1>2. req[r].at \in {"findIdentity", "createIdentity", "updateIdentity"} /\ Claims(r) \in Accounts
    BY <1>1 DEF FindIdentity, CreateIdentity, UpdateIdentity, CallerKnown
  <1>3. users' = users
    BY DEF FindIdentity, CreateIdentity, UpdateIdentity, tables
  <1>4. /\ \A i, j \in identities' : i.sub = j.sub \/ i.email = j.email => i = j
        /\ \A i \in identities : \E j \in identities' : j.sub = i.sub
        /\ (IssueSession(r) /\ Claims(r) \in identities') \/ sessions' = sessions
    <2>1. CASE FindIdentity(r)
      BY <1>1, <2>1 DEF FindIdentity, IdentitiesStand, tables
    <2>2. CASE CreateIdentity(r)
      <3>1. (IssueSession(r) /\ Claims(r) \in identities') \/ sessions' = sessions
        BY <2>2 DEF CreateIdentity
      <3>2. CASE identities' = identities
        BY <1>1, <3>1, <3>2 DEF IdentitiesStand
      <3>3. CASE /\ \A i \in identities : i.sub # req[r].sub /\ i.email # req[r].email
                 /\ identities' = identities \cup {Claims(r)}
        BY <1>1, <3>1, <3>3 DEF IdentitiesStand, Claims
      <3> QED
        BY <2>2, <3>2, <3>3 DEF CreateIdentity
    <2>3. CASE UpdateIdentity(r)
      <3> DEFINE others == {i \in identities : i.sub # req[r].sub}
      <3>1. (IssueSession(r) /\ Claims(r) \in identities') \/ sessions' = sessions
        BY <2>3 DEF UpdateIdentity
      <3>2. CASE identities' = identities
        BY <1>1, <3>1, <3>2 DEF IdentitiesStand
      <3>3. CASE /\ \A i \in others : i.email # req[r].email
                 /\ identities' = others \cup {Claims(r)}
        <4>1. \A i, j \in identities : i.sub = j.sub \/ i.email = j.email => i = j
          BY <1>1 DEF IdentitiesStand
        <4>2. \A i \in others : i.sub # req[r].sub /\ i.email # req[r].email /\ i \in identities
          BY <3>3
        <4>3. Claims(r).sub = req[r].sub /\ Claims(r).email = req[r].email
          BY DEF Claims
        <4>4. \A i, j \in identities' : i.sub = j.sub \/ i.email = j.email => i = j
          BY <3>3, <4>1, <4>2, <4>3
        <4>5. \A i \in identities : \E j \in identities' : j.sub = i.sub
          BY <3>3, <4>3
        <4> QED
          BY <3>1, <4>4, <4>5
      <3> QED
        BY <2>3, <3>2, <3>3 DEF UpdateIdentity
    <2> QED
      BY <2>1, <2>2, <2>3
  <1>5. KnownGrow /\ IdentitiesStand'
    BY <1>1, <1>2, <1>3, <1>4, SealedKnown
  <1>6. ASSUME NEW answer \in {"ok", "error"}, Reply(r, answer)
        PROVE  MembersAreKnown'
    BY <1>5, <1>6, RepliesKnown DEF Answers
  <1>7. CASE FindIdentity(r) /\ Continue(r, "createIdentity")
    BY <1>2, <1>5, <1>7, GoesOnKnown DEF Steps
  <1>8. CASE /\ FindIdentity(r) /\ Continue(r, "updateIdentity")
             /\ \E i \in identities : i.sub = req[r].sub
    BY <1>2, <1>5, <1>8, GoesOnKnown DEF Steps
  <1> QED
    BY <1>6, <1>7, <1>8 DEF FindIdentity, CreateIdentity, UpdateIdentity

\* A membership comes in under an identity, and under the e-mail of a cookie unless
\* a member registered it.
LEMMA InsertKnown ==
    ASSUME MembersAreKnown, UNCHANGED <<identities, sessions>>, NEW u, Insertable(u),
           users' = users \cup {u},
           u.via # "register" => [sub |-> u.sub, email |-> u.email] \in sessions
    PROVE  KnownGrow /\ IdentitiesStand'
  BY DEF MembersAreKnown, IdentitiesStand, KnownGrow, Insertable

\* The caller of onboarding or of an invitation, who has a cookie, becomes a member.
LEMMA AdmittedKnown ==
    ASSUME TypeOK, MembersAreKnown, NEW r \in Requests, CreateOwner(r) \/ CreateMember(r)
    PROVE  MembersAreKnown'
  <1>1. CallerKnown(r)
    BY DEF MembersAreKnown
  <1>2. Claims(r) \in sessions
    BY <1>1 DEF CreateOwner, CreateMember, CallerKnown
  <1>3. UNCHANGED <<identities, sessions>>
    BY DEF CreateOwner, CreateMember
  <1>4. \A via : [sub |-> Admitted(r, via).sub, email |-> Admitted(r, via).email] \in sessions
    BY <1>2 DEF Admitted, Claims
  <1>5. KnownGrow /\ IdentitiesStand'
    <2>1. CASE users' = users
      BY <1>3, <2>1, QuietKnown
    <2>2. ASSUME NEW via, NEW name, InsertMember(Admitted(r, via), name)
          PROVE  KnownGrow /\ IdentitiesStand'
      BY <1>3, <1>4, <2>2, InsertKnown DEF InsertMember
    <2> QED
      BY <2>1, <2>2 DEF CreateOwner, CreateMember, RefuseMember
  <1>6. ASSUME NEW answer \in Answers, Reply(r, answer)
        PROVE  MembersAreKnown'
    BY <1>5, <1>6, RepliesKnown
  <1>7. CASE Continue(r, "markAccepted")
    BY <1>2, <1>5, <1>7, GoesOnKnown DEF Steps
  <1> QED
    BY <1>6, <1>7 DEF CreateOwner, CreateMember, RefuseMember, Acknowledge, AcknowledgeLast,
                      UserConflictAnswer, Answers

\* The other calls of onboarding and accepting, for a caller with a cookie.
LEMMA CallsKnown ==
    ASSUME IInv, MembersAreKnown, NEW r \in Requests,
           HasMembership(r) \/ RegisterOrganization(r) \/ GetByToken(r) \/ MarkAccepted(r)
    PROVE  MembersAreKnown'
  <1>1. CallerKnown(r) /\ InOrder(r) /\ TypeOK
    BY DEF MembersAreKnown, IInv
  <1>2. Claims(r) \in sessions
    BY <1>1 DEF HasMembership, RegisterOrganization, GetByToken, MarkAccepted, CallerKnown
  <1>3. KnownGrow /\ IdentitiesStand'
    BY QuietKnown DEF HasMembership, RegisterOrganization, GetByToken, MarkAccepted, tables
  <1>4. ASSUME NEW answer \in Answers, Reply(r, answer)
        PROVE  MembersAreKnown'
    BY <1>1, <1>3, <1>4, RepliesKnown
  <1>5. CASE Continue(r, "registerOrganization")
    BY <1>1, <1>2, <1>3, <1>5, GoesOnKnown DEF Steps
  <1>6. ASSUME NEW o \in Orgs, NEW step \in {"createOwner", "createMember"},
               ContinueWith(r, step, o)
        PROVE  MembersAreKnown'
    BY <1>1, <1>2, <1>3, <1>6, GoesOnKnown DEF Steps
  <1>7. GetByToken(r) => LET inv == invitations[req[r].token] IN
                         inv = NoInvitation \/ inv.org \in Orgs
    <2>1. GetByToken(r) => req[r].token \in Tokens
      BY <1>1 DEF GetByToken, InOrder
    <2> QED
      BY <1>1, <2>1 DEF TypeOK, Invitation
  <1>8. CASE GetByToken(r)
    BY <1>4, <1>6, <1>7, <1>8 DEF GetByToken, Answers, NoInvitation
  <1> QED
    BY <1>4, <1>5, <1>6, <1>8
    DEF HasMembership, RegisterOrganization, MarkAccepted, AcknowledgeLast, Answers

\* Requests that end in the step that starts them, or end there.
LEMMA ServedKnown ==
    ASSUME TypeOK, MembersAreKnown, NEW r \in Requests,
           \/ CreateInvitation(r) \/ RegisterUser(r) \/ AuditRegistered(r)
           \/ CreateOrganization(r) \/ Refuse(r) \/ Fault(r) \/ Respond(r)
    PROVE  MembersAreKnown'
  <1>1. UNCHANGED <<identities, sessions>>
    BY DEF CreateInvitation, RegisterUser, AuditRegistered, CreateOrganization, Refuse, Fault,
           Respond, tables
  <1>2. KnownGrow /\ IdentitiesStand'
    <2>1. CASE users' = users
      BY <1>1, <2>1, QuietKnown
    <2>2. CASE RegisterUser(r)
      <3> SUFFICES ASSUME NEW s \in Subjects, NEW e \in Emails, NEW o \in Orgs,
                          Insertable([sub |-> s, email |-> e, org |-> o, via |-> "register"]),
                          users' = users \cup {[sub |-> s, email |-> e, org |-> o, via |-> "register"]}
                   PROVE  KnownGrow /\ IdentitiesStand'
        <4>1. \A p \in Registrants : p.sub \in Subjects /\ p.email \in Emails
          BY InputAssumption
        <4>2. \A m \in users : m.org \in Orgs
          BY DEF TypeOK, User
        <4> QED
          BY <2>1, <2>2, <4>1, <4>2 DEF RegisterUser, Membership
      <3> QED
        BY <1>1, InsertKnown
    <2> QED
      BY <2>1, <2>2 DEF CreateInvitation, AuditRegistered, CreateOrganization, Refuse, Fault,
                        Respond, tables
  <1>3. ASSUME NEW answer \in Answers, Reply(r, answer)
        PROVE  MembersAreKnown'
    BY <1>2, <1>3, RepliesKnown
  <1>4. ASSUME NEW answer \in Answers,
               NEW op \in {"onboard", "accept", "invite", "register", "organization"},
               Serve(r, op, answer)
        PROVE  MembersAreKnown'
    BY <1>2, <1>4, ServesKnown
  <1>5. CASE Begin(r, "auditRegistered", "register", NoSubject, NoEmail, NoToken)
    <2> DEFINE q == [ at |-> "auditRegistered", op |-> "register", sub |-> NoSubject,
                      email |-> NoEmail, org |-> NoOrg, token |-> NoToken, answer |-> "none" ]
    <2>1. q \in Request
      BY DEF Request, Answers, Steps
    <2>2. Becomes(r, q)
      BY <1>5, <2>1 DEF Begin, Becomes, TypeOK
    <2> QED
      BY <1>2, <2>2, EndsKnown
  <1>6. CASE Respond(r)
    <2>1. Becomes(r, IdleRequest) /\ IdleRequest.at = "idle"
      BY <1>6 DEF Respond, Becomes, TypeOK, IdleRequest, Request, Answers
    <2> QED
      BY <1>2, <2>1, EndsKnown
  <1>7. CASE RegisterUser(r)
    BY <1>4, <1>5, <1>7 DEF RegisterUser, Answers, UserConflictAnswer
  <1> QED
    BY <1>3, <1>4, <1>6, <1>7
    DEF CreateInvitation, AuditRegistered, CreateOrganization, Refuse, Fault, Answers

\* No step brings in somebody unknown, or under an e-mail of somebody else.
LEMMA StepKnown == IInv /\ MembersAreKnown /\ [Next]_vars => MembersAreKnown'
  <1> SUFFICES ASSUME IInv, MembersAreKnown, [Next]_vars PROVE MembersAreKnown'
    OBVIOUS
  <1>1. TypeOK
    BY DEF IInv
  <1>2. ASSUME NEW r \in Requests, Handle(r)
        PROVE  MembersAreKnown'
    BY <1>1, <1>2, StartKnown, SignInKnown, AdmittedKnown, CallsKnown, ServedKnown DEF Handle
  <1>3. ASSUME UNCHANGED <<identities, sessions, users>>,
               \A r \in Requests : req'[r] = req[r] \/ req'[r] = IdleRequest
        PROVE  MembersAreKnown'
    <2>1. KnownGrow /\ IdentitiesStand'
      BY <1>3, QuietKnown
    <2>2. ASSUME NEW r \in Requests
          PROVE  CallerKnown(r)'
      <3>1. CASE req'[r] = req[r]
        BY <2>1, <3>1, CallerFrame DEF MembersAreKnown
      <3>2. CASE req'[r] = IdleRequest
        BY <3>2 DEF IdleRequest, CallerKnown
      <3> QED
        BY <1>3, <3>1, <3>2
    <2> QED
      BY <2>1, <2>2 DEF MembersAreKnown
  <1>4. ASSUME NEW t \in Tokens, ExpireInvitation(t)
        PROVE  MembersAreKnown'
    BY <1>3, <1>4 DEF ExpireInvitation
  <1>5. CASE Crash
    BY <1>3, <1>5 DEF Crash, tables
  <1>6. CASE UNCHANGED vars
    BY <1>3, <1>6 DEF vars
  <1> QED
    BY <1>2, <1>4, <1>5, <1>6 DEF Next

\* Whatever the provider asserts while sign-ins, onboardings and invitations are
\* between two calls, identities stay apart, every cookie and member has one, and
\* who was onboarded or invited came in under an e-mail asserted of that person.
THEOREM StrangersStayOut == Spec => []MembersAreKnown
  <1>1. Init => MembersAreKnown
    BY DEF Init, MembersAreKnown, IdentitiesStand, CallerKnown, IdleRequest
  <1>2. IInv /\ MembersAreKnown /\ [Next]_vars => MembersAreKnown'
    BY StepKnown
  <1> QED
    BY <1>1, <1>2, Invariance, PTL DEF Spec

=============================================================================
