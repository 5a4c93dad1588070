---------------------- MODULE Provisioning_refinement ----------------------
(***************************************************************************)
(* Provisioning implements Tenancy, and what Rbac takes for granted of it. *)
(*                                                                         *)
(* For what the two specifications look at, a step of the handlers is of   *)
(* one of six kinds: an organization opens, somebody founds it, an         *)
(* invitation is issued, somebody comes in by it or is registered, or      *)
(* nothing changes.  Effects sorts the actions into these kinds; the rest  *)
(* maps a kind to the step that it is in Tenancy and in Rbac.              *)
(*                                                                         *)
(* A founder is the first member of an organization because only the       *)
(* request that created it carries it to createOwner; RInv adds that to    *)
(* IInv.                                                                   *)
(***************************************************************************)
EXTENDS Provisioning_proofs

\* Who is about to found an organization is alone in it.
FoundersApart ==
    \A r \in Requests : req[r].at = "createOwner" =>
        /\ \A u \in users : u.org # req[r].org
        /\ \A q \in Requests : req[q].at = "createOwner" /\ req[q].org = req[r].org => q = r

\* Whoever holds a role has a membership.
AssigneesAreMembers == \A x \in userRoles : \E u \in users : u.sub = x.sub

\* Roles are of organizations that exist.
RolesHaveOrgs == \A x \in roles : x.org \in orgs

RInv == IInv /\ FoundersApart /\ AssigneesAreMembers /\ RolesHaveOrgs

-----------------------------------------------------------------------------
(* The kinds of steps *)

\* An invitation goes on admitting to the same organization and role.
TicketsKept ==
    \A t \in Tokens :
        invitations'[t].org = invitations[t].org /\ invitations'[t].role = invitations[t].role

Quietly == TicketsKept /\ UNCHANGED <<orgs, roles, users, userRoles>>

Opens(o) == InsertOrganization(o) /\ UNCHANGED <<users, userRoles, invitations>>

Founds(r, u) ==
    /\ req[r].at = "createOwner" /\ req[r].org = u.org /\ req'[r].at # "createOwner"
    /\ u.org \in orgs /\ u.via = "onboarding"
    /\ InsertMember(u, "owner")
    /\ UNCHANGED <<orgs, roles, invitations>>

Issues(t, m, e, name) ==
    /\ invitations[t] = NoInvitation
    /\ invitations' = [invitations EXCEPT ![t] =
          [org |-> m.org, email |-> e, role |-> name, status |-> "pending"]]
    /\ UNCHANGED <<orgs, roles, users, userRoles>>

Admits(t, u) ==
    /\ invitations[t].status # "none"
    /\ u.via = t /\ u.org = invitations[t].org /\ u.email = invitations[t].email
    /\ InsertMember(u, invitations[t].role)
    /\ UNCHANGED <<orgs, roles, invitations>>

Registers(m, u) ==
    /\ u.via = "register" /\ u.org = m.org
    /\ Insertable(u) /\ users' = users \cup {u}
    /\ UNCHANGED <<orgs, roles, userRoles, invitations>>

Effect ==
    \/ Quietly
    \/ \E o \in Orgs : Opens(o)
    \/ \E r \in Requests, u \in User : Founds(r, u)
    \/ \E t \in Tokens, m \in users, e \in Emails, name \in ValidRoles : Issues(t, m, e, name)
    \/ \E t \in Tokens, u \in User : Admits(t, u)
    \/ \E m \in users, u \in User : Registers(m, u)

\* The request that founds an organization is the one that has created it.
FounderKept(r) ==
    req'[r].at = "createOwner" =>
        \/ req[r].at = "createOwner" /\ req'[r].org = req[r].org
        \/ /\ req'[r].org \in Orgs /\ Opens(req'[r].org)
           /\ \A q \in Requests \ {r} : req'[q] = req[q]

\* Where a request of IInv carries its caller.
LEMMA CallerTyped ==
    ASSUME IInv, NEW r \in Requests, req[r].at \in {"createOwner", "createMember"}
    PROVE  /\ req[r] \in Request /\ req[r].sub \in Subjects /\ req[r].email \in Emails
           /\ InOrder(r)
<1>1. InOrder(r) /\ req[r] \in Request
  BY DEF IInv, TypeOK
<1>2. req[r].at \in Steps \ {"auditRegistered"}
  BY DEF Steps
<1> QED
  BY <1>1, <1>2 DEF InOrder

LEMMA CreateOwnerEffect ==
    ASSUME IInv, NEW r \in Requests, CreateOwner(r)
    PROVE  Effect /\ req'[r].at # "createOwner"
<1> DEFINE u == Admitted(r, "onboarding")
<1>1. /\ req[r] \in Request /\ req[r].sub \in Subjects /\ req[r].email \in Emails
      /\ InOrder(r) /\ req[r].at = "createOwner"
  BY CallerTyped DEF CreateOwner
<1>2. req[r].org \in orgs /\ orgs \subseteq Orgs
  BY <1>1 DEF InOrder, IInv, TypeOK
<1>3. u \in User /\ u.org = req[r].org /\ u.via = "onboarding"
  BY <1>1, <1>2 DEF Admitted, User, Via
<1>4. req'[r].at = "done"
  <2>1. ASSUME NEW answer \in Answers, Reply(r, answer) PROVE req'[r].at = "done"
    <3>1. Becomes(r, [req[r] EXCEPT !.at = "done", !.answer = answer])
      BY <2>1, ReplyBecomes DEF IInv
    <3> QED BY <1>1, <3>1 DEF Becomes, Request
  <2> QED BY <2>1 DEF CreateOwner, AcknowledgeLast, RefuseMember, UserConflictAnswer, Answers
<1>5. CASE InsertMember(u, "owner")
  BY <1>1, <1>2, <1>3, <1>4, <1>5 DEF CreateOwner, Founds, Effect
<1>6. CASE UNCHANGED <<users, userRoles>>
  BY <1>4, <1>6 DEF CreateOwner, Quietly, TicketsKept, Effect
<1> QED
  BY <1>5, <1>6 DEF CreateOwner, RefuseMember

LEMMA CreateMemberEffect ==
    ASSUME IInv, NEW r \in Requests, CreateMember(r)
    PROVE  Effect
<1> DEFINE t == req[r].token
           u == Admitted(r, t)
<1>1. /\ req[r] \in Request /\ req[r].sub \in Subjects /\ req[r].email \in Emails
      /\ InOrder(r) /\ req[r].at = "createMember"
  BY CallerTyped DEF CreateMember
<1>2. /\ t \in Tokens /\ invitations[t].status # "none"
      /\ invitations[t].org = req[r].org /\ invitations[t].email = req[r].email
  BY <1>1 DEF InOrder
<1>3. req[r].org \in Orgs
  BY <1>2 DEF IInv, TypeOK, Invitation, NoInvitation
<1>4. u \in User /\ u.org = req[r].org /\ u.email = req[r].email /\ u.via = t
  BY <1>1, <1>2, <1>3 DEF Admitted, User, Via
<1>5. CASE InsertMember(u, invitations[t].role)
  BY <1>2, <1>4, <1>5 DEF CreateMember, Admits, Effect
<1>6. CASE UNCHANGED <<users, userRoles>>
  BY <1>6 DEF CreateMember, Quietly, TicketsKept, Effect
<1> QED
  BY <1>5, <1>6 DEF CreateMember, RefuseMember

LEMMA CreateInvitationEffect ==
    ASSUME IInv, NEW r \in Requests, CreateInvitation(r)
    PROVE  Effect
<1>1. CASE UNCHANGED invitations
  BY <1>1 DEF CreateInvitation, Quietly, TicketsKept, Effect
<1>2. ASSUME NEW c \in sessions, NEW e \in Invitees, NEW name \in ValidRoles,
             NEW m \in Membership(c.sub), NEW t \in Tokens, invitations[t] = NoInvitation,
             invitations' = [invitations EXCEPT ![t] =
                 [org |-> m.org, email |-> e, role |-> name, status |-> "pending"]]
      PROVE  Effect
  <2>1. m \in users /\ e \in Emails
    BY InputAssumption DEF Membership
  <2>2. Issues(t, m, e, name)
    BY <1>2 DEF CreateInvitation, Issues
  <2> QED
    BY <2>1, <2>2 DEF Effect
<1> QED
  BY <1>1, <1>2 DEF CreateInvitation

LEMMA RegisterUserEffect ==
    ASSUME IInv, NEW r \in Requests, RegisterUser(r)
    PROVE  Effect
<1>1. CASE UNCHANGED users
  BY <1>1 DEF RegisterUser, Quietly, TicketsKept, Effect
<1>2. ASSUME NEW c \in sessions, NEW p \in Registrants, NEW m \in Membership(c.sub),
             Insertable([sub |-> p.sub, email |-> p.email, org |-> m.org, via |-> "register"]),
             users' = users \cup {[sub |-> p.sub, email |-> p.email, org |-> m.org, via |-> "register"]}
      PROVE  Effect
  <2> DEFINE u == [sub |-> p.sub, email |-> p.email, org |-> m.org, via |-> "register"]
  <2>1. m \in users /\ m.org \in Orgs /\ p.sub \in Subjects /\ p.email \in Emails
    BY InputAssumption DEF Membership, IInv, TypeOK, User
  <2>2. u \in User
    BY <2>1 DEF User, Via
  <2>3. Registers(m, u)
    BY <1>2 DEF RegisterUser, Registers
  <2> QED
    BY <2>1, <2>2, <2>3 DEF Effect
<1> QED
  BY <1>1, <1>2 DEF RegisterUser

LEMMA OrganizationEffect ==
    ASSUME IInv, NEW r \in Requests, RegisterOrganization(r) \/ CreateOrganization(r)
    PROVE  Effect
<1>1. PICK o \in Orgs : InsertOrganization(o) \/ UNCHANGED <<orgs, roles>>
  BY DEF RegisterOrganization, CreateOrganization
<1>2. UNCHANGED <<users, userRoles, invitations>>
  BY DEF RegisterOrganization, CreateOrganization
<1> QED
  BY <1>1, <1>2 DEF Effect, Opens, Quietly, TicketsKept

\* Accepting and expiring change the status of an invitation and nothing else.
LEMMA StatusEffect ==
    ASSUME IInv, (\E r \in Requests : MarkAccepted(r)) \/ (\E t \in Tokens : ExpireInvitation(t))
    PROVE  Effect
<1>1. PICK t, status :
          /\ invitations' = [invitations EXCEPT ![t].status = status]
          /\ UNCHANGED <<orgs, roles, users, userRoles>>
  BY DEF MarkAccepted, ExpireInvitation
<1>2. \A j \in Tokens : invitations[j] \in Invitation \cup {NoInvitation}
  BY DEF IInv, TypeOK
<1>3. invitations \in [Tokens -> Invitation \cup {NoInvitation}]
  BY DEF IInv, TypeOK
<1>4. TicketsKept
  BY <1>1, <1>2, <1>3 DEF TicketsKept, Invitation, NoInvitation
<1> QED
  BY <1>1, <1>4 DEF Effect, Quietly

\* What a step does to organizations, members and invitations.
LEMMA Effects ==
    ASSUME IInv, [Next]_vars
    PROVE  Effect
<1>1. CASE UNCHANGED <<orgs, roles, users, userRoles, invitations>>
  BY <1>1 DEF Effect, Quietly, TicketsKept
<1>2. CASE UNCHANGED vars
  BY <1>1, <1>2 DEF vars
<1>3. CASE Crash
  BY <1>1, <1>3 DEF Crash, tables
<1>4. ASSUME NEW t \in Tokens, ExpireInvitation(t) PROVE Effect
  BY <1>4, StatusEffect
<1>5. ASSUME NEW r \in Requests, Handle(r) PROVE Effect
  <2>1. CASE StartLogin(r) \/ FindIdentity(r) \/ StartOnboarding(r) \/ HasMembership(r)
             \/ StartAccept(r) \/ GetByToken(r) \/ AuditRegistered(r)
             \/ Refuse(r) \/ Fault(r) \/ Respond(r)
    BY <1>1, <2>1 DEF StartLogin, FindIdentity, StartOnboarding, HasMembership, StartAccept,
       GetByToken, AuditRegistered, Refuse, Fault, Respond, tables
  <2>2. CASE CreateIdentity(r) \/ UpdateIdentity(r)
    BY <1>1, <2>2 DEF CreateIdentity, UpdateIdentity
  <2> QED
    BY <1>5, <2>1, <2>2, OrganizationEffect, CreateOwnerEffect, CreateInvitationEffect,
       CreateMemberEffect, StatusEffect, RegisterUserEffect DEF Handle
<1> QED
  BY <1>2, <1>3, <1>4, <1>5 DEF Next

-----------------------------------------------------------------------------
(* Founders are alone *)

\* No step but the creation of an organization leads to createOwner.
LEMMA FoundersKept ==
    ASSUME IInv, [Next]_vars, NEW r \in Requests
    PROVE  FounderKept(r)
<1> SUFFICES ASSUME req'[r].at = "createOwner" PROVE FounderKept(r)
  BY DEF FounderKept
<1> USE DEF FounderKept
<1>1. req \in [Requests -> Request]
  BY DEF IInv, TypeOK
<1>2. CASE req'[r] = req[r]
  BY <1>2
<1>3. ASSUME NEW q \in Requests, RegisterOrganization(q) PROVE FounderKept(r)
  <2>1. CASE q # r
    BY <1>1, <1>2, <1>3, <2>1 DEF RegisterOrganization, ContinueWith, Reply
  <2>2. CASE q = r
    <3>1. PICK o \in Orgs : InsertOrganization(o) /\ (ContinueWith(r, "createOwner", o) \/ Reply(r, "error"))
      BY <1>3, <2>2 DEF RegisterOrganization
    <3>2. ~Reply(r, "error")
      BY <1>1 DEF Reply, Request
    <3>3. req'[r].org = o /\ \A p \in Requests \ {r} : req'[p] = req[p]
      BY <1>1, <3>1, <3>2 DEF ContinueWith, Request
    <3> QED
      BY <1>3, <2>2, <3>1, <3>3 DEF RegisterOrganization, Opens
  <2> QED
    BY <2>1, <2>2
<1>4. ASSUME NEW q \in Requests, Handle(q), ~RegisterOrganization(q) PROVE FounderKept(r)
  <2>1. CASE q # r
    <3>1. req'[r] = req[r]
      BY <1>1, <1>4, <2>1 DEF Handle, StartLogin, FindIdentity, CreateIdentity, UpdateIdentity,
         StartOnboarding, HasMembership, CreateOwner, CreateInvitation, StartAccept, GetByToken,
         CreateMember, MarkAccepted, RegisterUser, AuditRegistered, CreateOrganization, Refuse,
         Fault, Respond, Begin, Continue, ContinueWith, Reply, Serve, Acknowledge, AcknowledgeLast,
         RefuseMember
    <3> QED
      BY <1>2, <3>1
  <2>2. CASE q = r
    <3>1. req[r] \in Request
      BY <1>1
    <3>2. /\ \A step, op, c, e, t : Begin(r, step, op, c, e, t) => req'[r].at = step
          /\ \A op, answer : Serve(r, op, answer) => req'[r].at = "done"
          /\ \A answer : Reply(r, answer) => req'[r].at = "done"
      <4>1. \A step, op, c, e, t : Begin(r, step, op, c, e, t) => req'[r].at = step
        BY <1>1 DEF Begin
      <4>2. \A op, answer : Serve(r, op, answer) => req'[r].at = "done"
        BY <1>1 DEF Serve, IdleRequest
      <4>3. \A answer : Reply(r, answer) => req'[r].at = "done"
        BY <1>1, <3>1 DEF Reply, Request
      <4> QED
        BY <4>1, <4>2, <4>3
    <3>3. /\ \A step : Continue(r, step) => req'[r].at = step
          /\ \A step, o : ContinueWith(r, step, o) => req'[r].at = step
      BY <1>1, <3>1 DEF Continue, ContinueWith, Request
    <3> SUFFICES req'[r].at # "createOwner"
      OBVIOUS
    <3>4. CASE StartLogin(r) \/ StartOnboarding(r) \/ StartAccept(r) \/ Respond(r)
      BY <1>1, <3>2, <3>4 DEF StartLogin, StartOnboarding, StartAccept, Respond, IdleRequest
    <3>5. CASE CreateInvitation(r) \/ RegisterUser(r) \/ CreateOrganization(r) \/ Refuse(r)
      BY <3>2, <3>5 DEF CreateInvitation, RegisterUser, CreateOrganization, Refuse
    <3>6. CASE \/ FindIdentity(r) \/ CreateIdentity(r) \/ UpdateIdentity(r)
               \/ HasMembership(r) \/ GetByToken(r) \/ CreateMember(r)
      BY <3>2, <3>3, <3>6 DEF FindIdentity, CreateIdentity, UpdateIdentity, HasMembership, GetByToken,
         CreateMember, Acknowledge, RefuseMember
    <3>7. CASE CreateOwner(r) \/ MarkAccepted(r) \/ AuditRegistered(r) \/ Fault(r)
      BY <3>2, <3>7 DEF CreateOwner, MarkAccepted, AuditRegistered, Fault, AcknowledgeLast, RefuseMember
    <3> QED
      BY <1>4, <2>2, <3>4, <3>5, <3>6, <3>7 DEF Handle
  <2> QED
    BY <2>1, <2>2
<1>5. CASE Crash
  BY <1>1, <1>2, <1>5 DEF Crash, IdleRequest
<1>6. CASE UNCHANGED req
  BY <1>2, <1>6
<1> QED
  BY <1>3, <1>4, <1>5, <1>6 DEF Next, ExpireInvitation, vars

\* A row of users is inserted with the role it names and no other.
LEMMA InsertedRole ==
    ASSUME IInv, NEW u \in User, NEW name \in DefaultNames, u.org \in orgs, InsertMember(u, name)
    PROVE  userRoles' = userRoles \cup {[org |-> u.org, sub |-> u.sub, name |-> name]}
<1>1. [org |-> u.org, name |-> name] \in roles
  BY DEF IInv, TablesConsistent
<1>2. \A x \in roles : x.org = u.org /\ x.name = name => x = [org |-> u.org, name |-> name]
  BY DEF IInv, TypeOK
<1>3. {x \in roles : x.org = u.org /\ x.name = name} = {[org |-> u.org, name |-> name]}
  BY <1>1, <1>2
<1> QED
  BY <1>3 DEF InsertMember

\* The role that an invitation names is one that its organization has.
LEMMA InvitedRole ==
    ASSUME IInv, NEW t \in Tokens, invitations[t].status # "none"
    PROVE  /\ invitations[t].role \in ValidRoles /\ ValidRoles = DefaultNames
           /\ invitations[t].org \in orgs
BY DEF IInv, TypeOK, Invitation, NoInvitation, ValidRoles, DefaultNames, TablesConsistent

LEMMA AssigneesKept ==
    ASSUME RInv, Effect
    PROVE  AssigneesAreMembers'
<1>1. CASE UNCHANGED <<users, userRoles>>
  BY <1>1 DEF RInv, AssigneesAreMembers
<1>2. ASSUME NEW u \in User, NEW name \in DefaultNames, u.org \in orgs, InsertMember(u, name)
      PROVE  AssigneesAreMembers'
  BY <1>2, InsertedRole DEF RInv, AssigneesAreMembers, InsertMember
<1>3. ASSUME NEW r \in Requests, NEW u \in User, Founds(r, u) PROVE AssigneesAreMembers'
  BY <1>2, <1>3 DEF Founds, DefaultNames
<1>4. ASSUME NEW t \in Tokens, NEW u \in User, Admits(t, u) PROVE AssigneesAreMembers'
  BY <1>2, <1>4, InvitedRole DEF Admits, RInv
<1>5. ASSUME NEW m \in users, NEW u \in User, Registers(m, u) PROVE AssigneesAreMembers'
  BY <1>5 DEF Registers, RInv, AssigneesAreMembers
<1> QED
  BY <1>1, <1>3, <1>4, <1>5 DEF Effect, Quietly, Opens, Issues

\* Nobody comes into the organization of a founder before its founder.
LEMMA OnlyFounderComes ==
    ASSUME RInv, Effect, NEW r \in Requests, req[r].at = "createOwner",
           NEW u \in users', u.org = req[r].org
    PROVE  req'[r].at # "createOwner"
<1>1. u \notin users
  BY DEF RInv, FoundersApart
<1>2. ASSUME NEW q \in Requests, NEW v \in User, Founds(q, v) PROVE req'[r].at # "createOwner"
  BY <1>1, <1>2 DEF Founds, InsertMember, RInv, FoundersApart
<1>3. ASSUME NEW t \in Tokens, NEW v \in User, Admits(t, v) PROVE FALSE
  <2>1. v = u /\ invitations[t].org = req[r].org
    BY <1>1, <1>3 DEF Admits, InsertMember
  <2>2. \E w \in users : w.org = req[r].org
    BY <2>1 DEF RInv, IInv, TenantsHaveOwners, User
  <2> QED
    BY <2>2 DEF RInv, FoundersApart
<1>4. ASSUME NEW m \in users, NEW v \in User, Registers(m, v) PROVE FALSE
  BY <1>1, <1>4 DEF Registers, RInv, FoundersApart
<1> QED
  BY <1>1, <1>2, <1>3, <1>4 DEF Effect, Quietly, Opens, Issues

\* An organization that has just been created has no member and no other founder.
LEMMA FoundersStayApart ==
    ASSUME RInv, [Next]_vars
    PROVE  FoundersApart'
<1>0. Effect
  BY Effects DEF RInv
<1>1. \A r \in Requests : FounderKept(r)
  BY FoundersKept DEF RInv
<1>2. \A r \in Requests : req[r].at = "createOwner" => req[r].org \in orgs
  BY DEF RInv, IInv, InOrder
<1>3. ASSUME NEW r \in Requests, req'[r].at = "createOwner", NEW u \in users'
      PROVE  u.org # req'[r].org
  <2>1. CASE req[r].at = "createOwner" /\ req'[r].org = req[r].org
    BY <1>0, <1>3, <2>1, OnlyFounderComes
  <2>2. CASE Opens(req'[r].org)
    BY <2>2 DEF Opens, InsertOrganization, RInv, IInv, TablesConsistent
  <2> QED
    BY <1>1, <1>3, <2>1, <2>2 DEF FounderKept
<1>4. ASSUME NEW r \in Requests, req'[r].at = "createOwner",
             NEW q \in Requests, req'[q].at = "createOwner", req'[q].org = req'[r].org
      PROVE  q = r
  BY <1>1, <1>2, <1>4 DEF FounderKept, Opens, InsertOrganization, RInv, FoundersApart
<1> QED
  BY <1>3, <1>4 DEF FoundersApart

LEMMA RStep == RInv /\ [Next]_vars => RInv'
<1> SUFFICES ASSUME RInv, [Next]_vars PROVE RInv'
  OBVIOUS
<1>1. IInv' /\ Effect
  BY StepInv, Effects DEF RInv
<1>2. RolesHaveOrgs'
  BY <1>1 DEF Effect, Quietly, Opens, Founds, Issues, Admits, Registers, InsertOrganization,
     BootstrapDefaultRoles, RInv, RolesHaveOrgs
<1> QED
  BY <1>1, <1>2, AssigneesKept, FoundersStayApart DEF RInv

\* Founders stay alone in their organization until they are its owner, although
\* CompleteOnboarding creates the two in separate transactions (onboarding/service.go).
THEOREM FoundersAreFirst == Spec => []RInv
<1>1. Init => RInv
  BY InitInv DEF Init, RInv, FoundersApart, AssigneesAreMembers, RolesHaveOrgs, IdleRequest
<1> QED
  BY <1>1, RStep, PTL DEF Spec

-----------------------------------------------------------------------------
(* Members, as Tenancy and Rbac see them *)

\* A person's membership is the one row of users that names the person.
LEMMA MemberOf ==
    ASSUME IInv, NEW u \in users
    PROVE  u.sub \in Subjects /\ AbstractMember[u.sub].org = u.org
<1>1. u.sub \in Subjects
  BY DEF IInv, TypeOK, User
<1>2. Membership(u.sub) = {u}
  BY DEF IInv, TablesConsistent, Membership
<1> QED
  BY <1>1, <1>2 DEF AbstractMember

LEMMA OutsiderIs ==
    ASSUME NEW s \in Subjects, \A u \in users : u.sub # s
    PROVE  AbstractMember[s].org = NoOrg
BY DEF AbstractMember, Membership

\* An organization is populated if and only if a row of users names it.
LEMMA PopulatedBy ==
    ASSUME IInv, NEW s \in Subjects, NEW o \in Orgs, AbstractMember[s].org = o
    PROVE  \E u \in users : u.sub = s /\ u.org = o
BY MemberOf, OutsiderIs, SentinelAssumption

\* What an insert of a row of users, with its roles, does to the members.
LEMMA Joined ==
    ASSUME RInv, NEW u \in User, Insertable(u), users' = users \cup {u}, NEW N,
           userRoles' = userRoles \cup {[org |-> u.org, sub |-> u.sub, name |-> n] : n \in N}
    PROVE  /\ u.sub \in Subjects
           /\ AbstractMember[u.sub] = [org |-> NoOrg, roles |-> {}]
           /\ AbstractMember' = [AbstractMember EXCEPT ![u.sub] = [org |-> u.org, roles |-> N]]
<1>1. u.sub \in Subjects /\ (\A v \in users : v.sub # u.sub) /\ (\A x \in userRoles : x.sub # u.sub)
  BY DEF Insertable, RInv, AssigneesAreMembers, User
<1>2. Membership(u.sub) = {} /\ {x.name : x \in {y \in userRoles : y.sub = u.sub}} = {}
  BY <1>1 DEF Membership
<1>3. AbstractMember[u.sub] = [org |-> NoOrg, roles |-> {}]
  BY <1>1, <1>2 DEF AbstractMember
<1>4. Membership(u.sub)' = {u}
  BY <1>1 DEF Membership
<1> DEFINE Rows == {[org |-> u.org, sub |-> u.sub, name |-> n] : n \in N}
<1>5. {x.name : x \in {y \in userRoles' : y.sub = u.sub}} = N
  <2>1. {y \in userRoles' : y.sub = u.sub} = Rows
    BY <1>1
  <2>2. ASSUME NEW n \in N PROVE n \in {x.name : x \in Rows}
    <3>1. [org |-> u.org, sub |-> u.sub, name |-> n] \in Rows
      OBVIOUS
    <3> QED
      BY <3>1
  <2>3. \A x \in Rows : x.name \in N
    OBVIOUS
  <2> QED
    BY <2>1, <2>2, <2>3
<1>6. AbstractMember'[u.sub] = [org |-> u.org, roles |-> N]
  BY <1>1, <1>4, <1>5 DEF AbstractMember
<1>7. ASSUME NEW s \in Subjects, s # u.sub PROVE AbstractMember'[s] = AbstractMember[s]
  <2>1. Membership(s)' = Membership(s)
    BY <1>7 DEF Membership
  <2>2. {y \in userRoles' : y.sub = s} = {y \in userRoles : y.sub = s}
    BY <1>7
  <2> QED
    BY <2>1, <2>2 DEF AbstractMember
<1>8. AbstractMember' = [s \in Subjects |-> AbstractMember'[s]]
  BY DEF AbstractMember
<1>9. AbstractMember = [s \in Subjects |-> AbstractMember[s]]
  BY DEF AbstractMember
<1> QED
  BY <1>1, <1>3, <1>6, <1>7, <1>8, <1>9

LEMMA MembersKept ==
    ASSUME UNCHANGED <<users, userRoles>>
    PROVE  AbstractMember' = AbstractMember
BY DEF AbstractMember, Membership

-----------------------------------------------------------------------------
(* Each kind is a step of Tenancy *)

LEMMA TicketKept ==
    ASSUME TicketsKept
    PROVE  AbstractTicket' = AbstractTicket
BY Zenon DEF AbstractTicket, TicketsKept

LEMMA UnchangedTickets ==
    ASSUME UNCHANGED invitations
    PROVE  AbstractTicket' = AbstractTicket
BY DEF AbstractTicket

LEMMA SpentKept ==
    ASSUME NEW u, users' = users \cup {u}, u.via \notin Tokens
    PROVE  AbstractSpent' = AbstractSpent
BY DEF AbstractSpent

LEMMA QuietlyStutters ==
    ASSUME Quietly
    PROVE  UNCHANGED Abstract!tvars
<1>1. AbstractSpent' = AbstractSpent
  BY DEF Quietly, AbstractSpent
<1> QED
  BY <1>1, TicketKept, MembersKept DEF Quietly, Abstract!tvars

LEMMA OpensTenant ==
    ASSUME NEW o \in Orgs, Opens(o)
    PROVE  Abstract!Open(o)
<1>1. AbstractSpent' = AbstractSpent
  BY DEF Opens, AbstractSpent
<1> QED
  BY <1>1, UnchangedTickets, MembersKept DEF Opens, InsertOrganization, Abstract!Open

\* The founder finds the organization empty (FoundersApart).
LEMMA FoundsTenant ==
    ASSUME RInv, NEW r \in Requests, NEW u \in User, Founds(r, u)
    PROVE  Abstract!Found(u.sub, u.org)
<1>1. u.org \in Orgs /\ u.org \in orgs /\ UNCHANGED <<orgs, invitations>>
  BY DEF Founds, User
<1>2. ~Abstract!Populated(u.org)
  BY <1>1, PopulatedBy DEF Abstract!Populated, Founds, RInv, FoundersApart
<1>3. userRoles' = userRoles \cup {[org |-> u.org, sub |-> u.sub, name |-> n] : n \in {"owner"}}
  BY <1>1, InsertedRole DEF Founds, RInv, DefaultNames
<1>4. /\ AbstractMember[u.sub] = [org |-> NoOrg, roles |-> {}]
      /\ AbstractMember' = [AbstractMember EXCEPT ![u.sub] = [org |-> u.org, roles |-> {"owner"}]]
  BY <1>3, Joined DEF Founds, InsertMember
<1>5. AbstractSpent' = AbstractSpent
  BY SpentKept, SentinelAssumption DEF Founds, InsertMember
<1> QED
  BY <1>1, <1>2, <1>4, <1>5, UnchangedTickets DEF Abstract!Found, Abstract!Outsider

LEMMA IssuesTicket ==
    ASSUME RInv, NEW t \in Tokens, NEW m \in users, NEW e \in Emails, NEW name \in ValidRoles,
           Issues(t, m, e, name)
    PROVE  Abstract!Issue(t, m.org, name)
<1>1. Abstract!Populated(m.org)
  BY MemberOf DEF Abstract!Populated, RInv
<1>2. AbstractTicket[t] = Abstract!Unissued
  BY DEF Issues, AbstractTicket, NoInvitation, Abstract!Unissued
<1>3. AbstractTicket' = [AbstractTicket EXCEPT ![t] = [org |-> m.org, role |-> name]]
  <2>1. ASSUME NEW j \in Tokens
        PROVE  [org |-> invitations'[j].org, role |-> invitations'[j].role] =
               IF j = t THEN [org |-> m.org, role |-> name]
               ELSE [org |-> invitations[j].org, role |-> invitations[j].role]
    BY DEF Issues, RInv, IInv, TypeOK
  <2> QED
    BY <2>1 DEF AbstractTicket
<1>4. AbstractSpent' = AbstractSpent
  BY DEF Issues, AbstractSpent
<1> QED
  BY <1>1, <1>2, <1>3, <1>4, MembersKept DEF Issues, Abstract!Issue

\* An invitation somebody has come in by cannot be used again: its e-mail is taken.
LEMMA AdmitsHolder ==
    ASSUME RInv, NEW t \in Tokens, NEW u \in User, Admits(t, u)
    PROVE  Abstract!Admit(u.sub, t)
<1>1. /\ invitations[t].role \in DefaultNames /\ invitations[t].org \in orgs
      /\ u.org = invitations[t].org /\ u.via = t /\ u.org \in Orgs
  BY InvitedRole DEF Admits, RInv, User
<1>2. AbstractTicket[t] = [org |-> u.org, role |-> invitations[t].role]
  BY <1>1 DEF AbstractTicket
<1>3. t \notin AbstractSpent
  BY DEF AbstractSpent, Admits, InsertMember, Insertable, RInv, IInv, MembersHoldTheirRole
<1>4. userRoles' = userRoles \cup
          {[org |-> u.org, sub |-> u.sub, name |-> n] : n \in {invitations[t].role}}
  BY <1>1, InsertedRole DEF Admits, RInv
<1>5. /\ AbstractMember[u.sub] = [org |-> NoOrg, roles |-> {}]
      /\ AbstractMember' =
             [AbstractMember EXCEPT ![u.sub] = [org |-> u.org, roles |-> {invitations[t].role}]]
  BY <1>4, Joined DEF Admits, InsertMember
<1>6. AbstractSpent' = AbstractSpent \cup {t}
  BY <1>1 DEF AbstractSpent, Admits, InsertMember
<1>7. AbstractTicket[t] # Abstract!Unissued
  BY <1>1, <1>2, SentinelAssumption DEF Abstract!Unissued
<1> QED
  BY <1>2, <1>3, <1>5, <1>6, <1>7, UnchangedTickets DEF Admits, Abstract!Admit, Abstract!Outsider

LEMMA RegistersMember ==
    ASSUME RInv, NEW m \in users, NEW u \in User, Registers(m, u)
    PROVE  Abstract!Enter(u.sub, u.org)
<1>1. Abstract!Populated(u.org)
  BY MemberOf DEF Abstract!Populated, RInv, Registers
<1>2. userRoles' = userRoles \cup {[org |-> u.org, sub |-> u.sub, name |-> n] : n \in {}}
  BY DEF Registers
<1>3. /\ AbstractMember[u.sub] = [org |-> NoOrg, roles |-> {}]
      /\ AbstractMember' = [AbstractMember EXCEPT ![u.sub] = [org |-> u.org, roles |-> {}]]
  BY <1>2, Joined DEF Registers
<1>4. AbstractSpent' = AbstractSpent
  BY SpentKept, SentinelAssumption DEF Registers
<1> QED
  BY <1>1, <1>3, <1>4, UnchangedTickets DEF Registers, Abstract!Enter, Abstract!Outsider

\* The handlers implement Tenancy: membership is for good and in one organization,
\* an organization is founded once, an invitation admits once (onboarding/service.go
\* CompleteOnboarding, invitations/service.go AcceptInvitation).
THEOREM ProvisioningImplementsTenancy == Spec => ImplementsTenancy
<1>1. Init => Abstract!TInit
  <2> SUFFICES ASSUME Init PROVE Abstract!TInit
    OBVIOUS
  <2>1. AbstractMember = [s \in Subjects |-> Abstract!Outsider]
    <3>1. ASSUME NEW s \in Subjects
          PROVE  /\ Membership(s) = {}
                 /\ {x.name : x \in {y \in userRoles : y.sub = s}} = {}
      BY DEF Init, Membership
    <3> QED
      BY <3>1 DEF AbstractMember, Abstract!Outsider
  <2>2. AbstractTicket = [t \in Tokens |-> Abstract!Unissued]
    BY DEF Init, NoInvitation, AbstractTicket, Abstract!Unissued
  <2> QED
    BY <2>1, <2>2 DEF Init, AbstractSpent, Abstract!TInit
<1>2. RInv /\ [Next]_vars => [Abstract!TNext]_(Abstract!tvars)
  <2> SUFFICES ASSUME RInv, [Next]_vars PROVE [Abstract!TNext]_(Abstract!tvars)
    OBVIOUS
  <2>1. \A u \in User : u.org \in Orgs /\ u.sub \in Subjects
    BY DEF User
  <2>2. users \subseteq User /\ ValidRoles = DefaultNames
    BY DEF RInv, IInv, TypeOK, ValidRoles, DefaultNames
  <2>3. ASSUME NEW o \in Orgs, Opens(o) PROVE Abstract!TNext
    BY <2>3, OpensTenant DEF Abstract!TNext
  <2>4. ASSUME NEW r \in Requests, NEW u \in User, Founds(r, u) PROVE Abstract!TNext
    BY <2>1, <2>4, FoundsTenant DEF Abstract!TNext
  <2>5. ASSUME NEW t \in Tokens, NEW m \in users, NEW e \in Emails, NEW name \in ValidRoles,
               Issues(t, m, e, name)
        PROVE  Abstract!TNext
    BY <2>1, <2>2, <2>5, IssuesTicket DEF Abstract!TNext
  <2>6. ASSUME NEW t \in Tokens, NEW u \in User, Admits(t, u) PROVE Abstract!TNext
    BY <2>1, <2>6, AdmitsHolder DEF Abstract!TNext
  <2>7. ASSUME NEW m \in users, NEW u \in User, Registers(m, u) PROVE Abstract!TNext
    BY <2>1, <2>7, RegistersMember DEF Abstract!TNext
  <2>8. Effect
    BY Effects DEF RInv
  <2> QED
    BY <2>3, <2>4, <2>5, <2>6, <2>7, <2>8, QuietlyStutters DEF Effect
<1> QED
  BY <1>1, <1>2, FoundersAreFirst, PTL DEF Spec, ImplementsTenancy, Abstract!TSpec

-----------------------------------------------------------------------------
(* Each kind is a step of what Rbac takes for granted *)

\* The definitions of TenantRoles, reached through the instance.
LEMMA SameRoles ==
    /\ Authorization!DefaultNames = DefaultNames
    /\ Authorization!RoleIds = Orgs \X DefaultNames
    /\ Authorization!NoRole = NoRole
    /\ \A o, n : Authorization!DefaultRole(o, n) = DefaultRole(o, n)
<1>1. Authorization!DefaultNames = DefaultNames /\ Authorization!NoRole = NoRole
  BY DEF Authorization!DefaultNames, DefaultNames, Authorization!NoRole, NoRole
<1>2. \A n : Authorization!DefaultPermissions(n) = DefaultPermissions(n)
  BY DEF Authorization!DefaultPermissions, DefaultPermissions, Authorization!Permissions, Permissions
<1>3. \A o, n : Authorization!DefaultRole(o, n) = DefaultRole(o, n)
  BY <1>2 DEF Authorization!DefaultRole, DefaultRole
<1> QED
  BY <1>1, <1>3 DEF Authorization!RoleIds

LEMMA RoleOf ==
    ASSUME NEW o \in Orgs, NEW n \in DefaultNames
    PROVE  /\ RoleTable[<<o, n>>] =
                 IF [org |-> o, name |-> n] \in roles THEN DefaultRole(o, n) ELSE NoRole
           /\ DefaultRole(o, n) # NoRole
<1>1. <<o, n>> \in Orgs \X DefaultNames /\ <<o, n>>[1] = o /\ <<o, n>>[2] = n
  OBVIOUS
<1>2. DefaultRole(o, n) # NoRole
  BY SentinelAssumption DEF DefaultRole, NoRole
<1> QED
  BY <1>1, <1>2 DEF RoleTable

LEMMA QuietlyAuthorized ==
    ASSUME UNCHANGED <<roles, users, userRoles>>
    PROVE  UNCHANGED Authorization!vars
<1>1. OrgOf' = OrgOf
  BY MembersKept DEF OrgOf
<1>2. RoleTable' = RoleTable /\ AssignmentTable' = AssignmentTable /\ NoRequests' = NoRequests
  BY DEF RoleTable, AssignmentTable, NoRequests
<1> QED
  BY <1>1, <1>2 DEF Authorization!vars

LEMMA OpensRoles ==
    ASSUME RInv, NEW o \in Orgs, Opens(o)
    PROVE  Authorization!RegisterOrganization(o)
<1>1. /\ o \notin orgs /\ UNCHANGED <<users, userRoles>>
      /\ roles' = roles \cup {[org |-> o, name |-> n] : n \in DefaultNames}
  BY DEF Opens, InsertOrganization, BootstrapDefaultRoles
<1>2. RoleTable[<<o, "owner">>] = NoRole
  BY <1>1, RoleOf DEF RInv, RolesHaveOrgs, DefaultNames
<1>3. ASSUME NEW i \in Orgs \X DefaultNames
      PROVE  (IF [org |-> i[1], name |-> i[2]] \in roles THEN DefaultRole(i[1], i[2]) ELSE NoRole)' =
             IF i \in {o} \X DefaultNames THEN DefaultRole(o, i[2]) ELSE RoleTable[i]
  <2>1. PICK p \in Orgs, n \in DefaultNames : i = <<p, n>>
    OBVIOUS
  <2>2. i[1] = p /\ i[2] = n
    BY <2>1
  <2>3. CASE p = o
    BY <1>1, <2>1, <2>2, <2>3
  <2>4. CASE p # o
    <3>1. [org |-> p, name |-> n] \in roles' <=> [org |-> p, name |-> n] \in roles
      BY <1>1, <2>4
    <3>2. i \notin {o} \X DefaultNames
      BY <2>1, <2>4
    <3> QED
      BY <2>1, <2>2, <3>1, <3>2, RoleOf
  <2> QED
    BY <2>3, <2>4
<1>4. RoleTable' =
         [i \in Orgs \X DefaultNames |->
             IF i \in {o} \X DefaultNames THEN DefaultRole(o, i[2]) ELSE RoleTable[i]]
  BY <1>3, Zenon DEF RoleTable
<1>5. OrgOf' = OrgOf /\ AssignmentTable' = AssignmentTable /\ NoRequests' = NoRequests
  BY <1>1, MembersKept DEF OrgOf, AssignmentTable, NoRequests
<1> QED
  BY <1>2, <1>4, <1>5, SameRoles DEF Authorization!RegisterOrganization

\* A row of users comes with roles that Rbac lets a new member have.
LEMMA JoinsOrganization ==
    ASSUME RInv, NEW u \in User, u.org \in orgs, Insertable(u), users' = users \cup {u}, NEW N,
           userRoles' = userRoles \cup {[org |-> u.org, sub |-> u.sub, name |-> n] : n \in N},
           {[org |-> u.org, role |-> <<u.org, n>>] : n \in N} \in Authorization!JoinsWith(u.org),
           UNCHANGED roles
    PROVE  Authorization!Join(u.sub, u.org)
<1> DEFINE held == {[org |-> u.org, role |-> <<u.org, n>>] : n \in N}
<1>1. /\ u.sub \in Subjects
      /\ AbstractMember[u.sub] = [org |-> NoOrg, roles |-> {}]
      /\ AbstractMember' = [AbstractMember EXCEPT ![u.sub] = [org |-> u.org, roles |-> N]]
  BY Joined
<1>2. OrgOf[u.sub] = NoOrg
  BY <1>1 DEF OrgOf
<1>3. OrgOf' = [OrgOf EXCEPT ![u.sub] = u.org]
  <2>1. ASSUME NEW s \in Subjects
        PROVE  AbstractMember'[s].org = IF s = u.sub THEN u.org ELSE AbstractMember[s].org
    BY <1>1 DEF AbstractMember
  <2> QED
    BY <2>1 DEF OrgOf
<1>4. RoleTable[<<u.org, "owner">>] # Authorization!NoRole
  <2>1. u.org \in Orgs /\ "owner" \in DefaultNames
    BY DEF User, DefaultNames
  <2> QED
    BY <2>1, RoleOf, SameRoles DEF RInv, IInv, TablesConsistent
<1>5. AssignmentTable' =
         AssignmentTable \cup {[org |-> h.org, user |-> u.sub, role |-> h.role] : h \in held}
  <2> DEFINE rows == {[org |-> u.org, sub |-> u.sub, name |-> n] : n \in N}
             given == {[org |-> h.org, user |-> u.sub, role |-> h.role] : h \in held}
             inserted == {[org |-> x.org, user |-> x.sub, role |-> <<x.org, x.name>>] : x \in rows}
  <2>1. ASSUME NEW n \in N
        PROVE  /\ [org |-> u.org, user |-> u.sub, role |-> <<u.org, n>>] \in given
               /\ [org |-> u.org, user |-> u.sub, role |-> <<u.org, n>>] \in inserted
    <3>1. ASSUME NEW h \in held, h = [org |-> u.org, role |-> <<u.org, n>>]
          PROVE  [org |-> u.org, user |-> u.sub, role |-> <<u.org, n>>] \in given
      <4>1. h.org = u.org /\ h.role = <<u.org, n>>
        BY <3>1
      <4>2. [org |-> h.org, user |-> u.sub, role |-> h.role] \in given
        OBVIOUS
      <4> QED
        BY <4>1, <4>2, Zenon
    <3>2. ASSUME NEW x \in rows, x = [org |-> u.org, sub |-> u.sub, name |-> n]
          PROVE  [org |-> u.org, user |-> u.sub, role |-> <<u.org, n>>] \in inserted
      <4>1. x.org = u.org /\ x.sub = u.sub /\ x.name = n
        BY <3>2
      <4>2. [org |-> x.org, user |-> x.sub, role |-> <<x.org, x.name>>] \in inserted
        OBVIOUS
      <4> QED
        BY <4>1, <4>2, Zenon
    <3> QED
      BY <3>1, <3>2
  <2>2. \A z \in given : \E n \in N : z = [org |-> u.org, user |-> u.sub, role |-> <<u.org, n>>]
    OBVIOUS
  <2>3. \A z \in inserted : \E n \in N : z = [org |-> u.org, user |-> u.sub, role |-> <<u.org, n>>]
    OBVIOUS
  <2>4. given = inserted
    BY <2>1, <2>2, <2>3
  <2>5. AssignmentTable' = AssignmentTable \cup inserted
    BY DEF AssignmentTable
  <2> QED
    BY <2>4, <2>5
<1>6. RoleTable' = RoleTable /\ NoRequests' = NoRequests
  BY DEF RoleTable, NoRequests
<1> QED
  BY <1>2, <1>3, <1>4, <1>5, <1>6 DEF Authorization!Join

LEMMA FoundsWithOwner ==
    ASSUME RInv, NEW r \in Requests, NEW u \in User, Founds(r, u)
    PROVE  Authorization!Join(u.sub, u.org)
<1>1. u.org \in Orgs /\ u.org \in orgs /\ UNCHANGED <<orgs, roles>>
  BY DEF Founds, User
<1>2. \A s \in Subjects : OrgOf[s] # u.org
  BY <1>1, PopulatedBy DEF OrgOf, Founds, RInv, FoundersApart
<1>3. userRoles' = userRoles \cup {[org |-> u.org, sub |-> u.sub, name |-> n] : n \in {"owner"}}
  BY <1>1, InsertedRole DEF Founds, RInv, DefaultNames
<1>4. {[org |-> u.org, role |-> <<u.org, n>>] : n \in {"owner"}} \in Authorization!JoinsWith(u.org)
  BY <1>2 DEF Authorization!JoinsWith
<1> QED
  BY <1>1, <1>3, <1>4, JoinsOrganization DEF Founds, InsertMember

\* An organization that has a member has one in OrgOf.
LEMMA JoinsPopulated ==
    ASSUME RInv, NEW m \in users, NEW N, N = {} \/ \E n \in ValidRoles : N = {n}
    PROVE  {[org |-> m.org, role |-> <<m.org, n>>] : n \in N} \in Authorization!JoinsWith(m.org)
<1>1. \E s \in Subjects : OrgOf[s] = m.org
  BY MemberOf DEF OrgOf, RInv
<1>2. CASE N = {}
  BY <1>1, <1>2 DEF Authorization!JoinsWith
<1>3. ASSUME NEW n \in ValidRoles, N = {n}
      PROVE  {[org |-> m.org, role |-> <<m.org, k>>] : k \in N} \in Authorization!JoinsWith(m.org)
  <2>1. {[org |-> m.org, role |-> <<m.org, k>>] : k \in N} = {[org |-> m.org, role |-> <<m.org, n>>]}
    BY <1>3
  <2> QED
    BY <1>1, <2>1 DEF Authorization!JoinsWith
<1> QED
  BY <1>2, <1>3

LEMMA AdmitsWithRole ==
    ASSUME RInv, NEW t \in Tokens, NEW u \in User, Admits(t, u)
    PROVE  Authorization!Join(u.sub, u.org)
<1> DEFINE name == invitations[t].role
<1>1. name \in ValidRoles /\ name \in DefaultNames /\ u.org \in orgs /\ u.org \in Orgs
  BY InvitedRole DEF Admits, RInv, User
<1>2. PICK m \in users : m.org = u.org
  BY <1>1 DEF Admits, RInv, IInv, TenantsHaveOwners
<1>3. userRoles' = userRoles \cup {[org |-> u.org, sub |-> u.sub, name |-> n] : n \in {name}}
  BY <1>1, InsertedRole DEF Admits, RInv
<1>4. {[org |-> u.org, role |-> <<u.org, n>>] : n \in {name}} \in Authorization!JoinsWith(u.org)
  <2>1. \E n \in ValidRoles : {name} = {n}
    BY <1>1
  <2>2. {[org |-> m.org, role |-> <<m.org, n>>] : n \in {name}} \in Authorization!JoinsWith(m.org)
    BY <2>1, JoinsPopulated
  <2> QED
    BY <1>2, <2>2
<1>5. UNCHANGED roles /\ Insertable(u) /\ users' = users \cup {u}
  BY DEF Admits, InsertMember
<1> QED
  BY <1>1, <1>3, <1>4, <1>5, JoinsOrganization

LEMMA RegistersWithoutRole ==
    ASSUME RInv, NEW m \in users, NEW u \in User, Registers(m, u)
    PROVE  Authorization!Join(u.sub, u.org)
<1>1. u.org \in orgs /\ UNCHANGED roles /\ Insertable(u) /\ users' = users \cup {u}
  BY DEF Registers, RInv, IInv, TablesConsistent
<1>2. userRoles' = userRoles \cup {[org |-> u.org, sub |-> u.sub, name |-> n] : n \in {}}
  BY DEF Registers
<1>3. {[org |-> u.org, role |-> <<u.org, n>>] : n \in {}} \in Authorization!JoinsWith(u.org)
  BY JoinsPopulated DEF Registers
<1> QED
  BY <1>1, <1>2, <1>3, JoinsOrganization

\* The handlers give Rbac the organizations and members it takes for granted
\* (organization_repository.go CreateOrganizationTx, rbac/repository.go
\* BootstrapDefaultRolesTx, user_repository.go CreateMembershipWithRole).
THEOREM ProvisioningImplementsRbac == Spec => ImplementsRbac
<1>1. Init => Authorization!Init
  <2> SUFFICES ASSUME Init PROVE Authorization!Init
    OBVIOUS
  <2>1. OrgOf = [s \in Subjects |-> NoOrg]
    BY OutsiderIs DEF Init, OrgOf
  <2>2. RoleTable = [i \in Orgs \X DefaultNames |-> NoRole]
    BY DEF Init, RoleTable
  <2>3. AssignmentTable = {} /\ NoRequests = [r \in {} |-> Authorization!IdleRequest]
    BY DEF Init, AssignmentTable, NoRequests
  <2> QED
    BY <2>1, <2>2, <2>3, SameRoles DEF Authorization!Init
<1>2. RInv /\ [Next]_vars => [Authorization!Next]_(Authorization!vars)
  <2> SUFFICES ASSUME RInv, [Next]_vars PROVE [Authorization!Next]_(Authorization!vars)
    OBVIOUS
  <2>1. \A u \in User : u.org \in Orgs /\ u.sub \in Subjects
    BY DEF User
  <2>2. ASSUME NEW o \in Orgs, Opens(o) PROVE Authorization!Next
    BY <2>2, OpensRoles DEF Authorization!Next
  <2>3. ASSUME NEW u \in User, Authorization!Join(u.sub, u.org) PROVE Authorization!Next
    BY <2>1, <2>3 DEF Authorization!Next
  <2>4. CASE \/ \E r \in Requests, u \in User : Founds(r, u)
             \/ \E t \in Tokens, u \in User : Admits(t, u)
             \/ \E m \in users, u \in User : Registers(m, u)
    BY <2>3, <2>4, FoundsWithOwner, AdmitsWithRole, RegistersWithoutRole
  <2>5. CASE \/ Quietly
             \/ \E t \in Tokens, m \in users, e \in Emails, name \in ValidRoles : Issues(t, m, e, name)
    BY <2>5, QuietlyAuthorized DEF Quietly, Issues
  <2>6. Effect
    BY Effects DEF RInv
  <2> QED
    BY <2>2, <2>4, <2>5, <2>6 DEF Effect
<1> QED
  BY <1>1, <1>2, FoundersAreFirst, PTL DEF Spec, ImplementsRbac, Authorization!Spec
=============================================================================
