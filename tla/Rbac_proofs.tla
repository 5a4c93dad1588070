---------------------------- MODULE Rbac_proofs ----------------------------
(***************************************************************************)
(* For any organizations, members, roles and concurrent requests: a        *)
(* handler runs for a caller who is entitled, assignments stay inside      *)
(* their organization, and no organization is locked out of itself.        *)
(***************************************************************************)
EXTENDS Rbac, TLAPS

-----------------------------------------------------------------------------
\* The default role "n" of o has an id.
LEMMA DefaultIds ==
    ASSUME NEW o \in Orgs, NEW n \in DefaultNames
    PROVE  /\ <<o, n>> \in RoleIds
           /\ <<o, n>> \notin Ids
BY DistinctAssumption DEF RoleIds

LEMMA DefaultTypes ==
    ASSUME NEW o \in Orgs, NEW n \in DefaultNames
    PROVE  /\ DefaultRole(o, n) \in Role
           /\ DefaultRole(o, n) # NoRole
           /\ DefaultRole(o, n).org = o
           /\ DefaultRole(o, n).perms = DefaultRole(o, n).asked
<1>1. DefaultPermissions(n) \in SUBSET Permissions
  BY DEF DefaultNames, DefaultPermissions, Permissions
<1> QED
  BY <1>1, DistinctAssumption DEF DefaultRole, Role, NoRole

\* A checked caller is a member of the organization its request is about.
LEMMA CallerIsMember ==
    ASSUME IInv, NEW r \in Requests, req[r].at \in Routes
    PROVE  /\ req[r].user \in Users /\ req[r].org \in Orgs
           /\ member[req[r].user] = req[r].org
           /\ Entitled(req[r].org, req[r].user, Required[req[r].at])
<1>1. req[r] \in [at: Routes, user: Users, org: Orgs]
  BY DEF IInv, TypeOK, IdleRequest, Routes
<1> QED
  BY <1>1 DEF IInv, PermittedStillHolds, Entitled

\* Rows are only added, and members do not move.
Grows ==
    /\ \A u \in Users : member[u] # NoOrg => member'[u] = member[u]
    /\ \A i \in RoleIds : roles[i] # NoRole => roles'[i] = roles[i]
    /\ userRoles \subseteq userRoles'

\* What somebody is entitled to, it stays entitled to.
LEMMA EntitledStays ==
    ASSUME IInv, Grows, NEW o \in Orgs, NEW u \in Users, NEW p, Entitled(o, u, p)
    PROVE  Entitled(o, u, p)'
<1>1. member'[u] = o
  BY DistinctAssumption DEF Entitled, Grows
<1>2. PICK i \in RoleIds : /\ [org |-> o, user |-> u, role |-> i] \in userRoles
                           /\ roles[i].org = o /\ p \in roles[i].perms
  BY DEF Entitled
<1>3. roles'[i] = roles[i]
  BY <1>2, DistinctAssumption DEF Grows, NoRole
<1> QED
  BY <1>1, <1>2, <1>3 DEF Entitled, Grows

\* What the check reads is what Entitled says.
LEMMA CheckedIsEntitled ==
    ASSUME TypeOK, NEW o, NEW u \in Users, NEW p, HasPermission(o, u, p)
    PROVE  Entitled(o, u, p)
<1>1. PICK x \in userRoles : /\ member[u] = o /\ x.user = u /\ x.org = member[u]
                             /\ roles[x.role].org = x.org /\ p \in roles[x.role].perms
  BY DEF HasPermission
<1>2. x \in [org: Orgs, user: Users, role: RoleIds]
  BY DEF TypeOK
<1>3. x = [org |-> o, user |-> u, role |-> x.role] /\ x.role \in RoleIds
  BY <1>1, <1>2
<1> QED
  BY <1>1, <1>3 DEF Entitled

\* Requests that were checked stay entitled if the tables only grow and the
\* slots that change are freed.
LEMMA CheckedStay ==
    ASSUME IInv, Grows,
           \A r \in Requests : req'[r] = req[r] \/ req'[r] = IdleRequest
    PROVE  PermittedStillHolds'
<1> SUFFICES ASSUME NEW r \in Requests, req'[r].at \in Routes
             PROVE  Entitled(req[r].org, req[r].user, Required[req[r].at])'
  BY DEF PermittedStillHolds
<1>1. req'[r] = req[r] /\ req[r].at \in Routes
  BY DEF IdleRequest, Routes
<1>2. PICK o \in Orgs, u \in Users, route \in Routes :
         req[r] = [at |-> route, user |-> u, org |-> o]
  BY <1>1 DEF IInv, TypeOK, IdleRequest, Routes
<1>3. Entitled(o, u, Required[route])
  BY <1>1, <1>2 DEF IInv, PermittedStillHolds
<1>4. Entitled(o, u, Required[route])'
  BY <1>3, EntitledStays
<1> QED
  BY <1>1, <1>2, <1>4

\* A request that ends frees its slot.
LEMMA FinishFrees ==
    ASSUME TypeOK, NEW r \in Requests, Finish(r)
    PROVE  /\ req' \in [Requests -> {IdleRequest} \cup [at: Routes, user: Users, org: Orgs]]
           /\ \A s \in Requests : req'[s] = req[s] \/ req'[s] = IdleRequest
BY DEF TypeOK, Finish

-----------------------------------------------------------------------------
\* An organization and its default roles are new together.
LEMMA RegisterOrganizationKeeps ==
    ASSUME IInv, NEW o \in Orgs, RegisterOrganization(o)
    PROVE  IInv'
<1>1. \A n \in DefaultNames : roles[<<o, n>>] = NoRole
  BY DEF IInv, DefaultsStand, RegisterOrganization
<1>2. \A i \in RoleIds : roles'[i] = IF i \in {o} \X DefaultNames THEN DefaultRole(o, i[2]) ELSE roles[i]
  BY DEF RegisterOrganization
<1>3. \A i \in RoleIds : roles'[i] = roles[i] \/ (roles[i] = NoRole /\ \E n \in DefaultNames : i = <<o, n>> /\ roles'[i] = DefaultRole(o, n))
  <2> SUFFICES ASSUME NEW i \in RoleIds, i \in {o} \X DefaultNames
               PROVE  roles[i] = NoRole /\ \E n \in DefaultNames : i = <<o, n>> /\ roles'[i] = DefaultRole(o, n)
    BY <1>2
  <2>1. PICK n \in DefaultNames : i = <<o, n>>
    OBVIOUS
  <2> QED
    BY <1>1, <1>2, <2>1
<1>4. Grows
  BY <1>3 DEF RegisterOrganization, Grows
<1>5. TypeOK'
  <2>1. roles' \in [RoleIds -> Role \cup {NoRole}]
    <3> SUFFICES ASSUME NEW i \in RoleIds PROVE roles'[i] \in Role \cup {NoRole}
      BY DEF RegisterOrganization
    <3> QED
      BY <1>3, DefaultTypes DEF IInv, TypeOK
  <2> QED
    BY <2>1 DEF IInv, TypeOK, RegisterOrganization
<1>6. AssignmentsStayInTenant'
  <2> SUFFICES ASSUME NEW x \in userRoles
               PROVE  member[x.user] # NoOrg /\ roles'[x.role].org = x.org
    BY DEF AssignmentsStayInTenant, RegisterOrganization
  <2>1. x.role \in RoleIds /\ x.org \in Orgs /\ member[x.user] # NoOrg /\ roles[x.role].org = x.org
    BY DEF IInv, TypeOK, AssignmentsStayInTenant
  <2> QED
    BY <1>3, <2>1, DistinctAssumption DEF NoRole
<1>7. PermittedStillHolds'
  BY <1>4, CheckedStay DEF RegisterOrganization
<1>8. RolesAreWhole'
  BY <1>3, DefaultTypes DEF IInv, RolesAreWhole
<1>9. DefaultsStand'
  <2> SUFFICES ASSUME NEW q \in Orgs
               PROVE  /\ \A n \in DefaultNames :
                            roles'[<<q, n>>] = IF roles'[<<q, "owner">>] = NoRole THEN NoRole ELSE DefaultRole(q, n)
                      /\ (\E v \in Users : member[v] = q) => roles'[<<q, "owner">>] # NoRole
    BY DEF IInv, DefaultsStand, RegisterOrganization
  <2>1. "owner" \in DefaultNames
    BY DEF DefaultNames
  <2>2. CASE q = o
    <3>1. \A n \in DefaultNames : roles'[<<o, n>>] = DefaultRole(o, n)
      <4> SUFFICES ASSUME NEW n \in DefaultNames PROVE roles'[<<o, n>>] = DefaultRole(o, n)
        OBVIOUS
      <4>1. <<o, n>> \in RoleIds /\ <<o, n>> \in {o} \X DefaultNames /\ <<o, n>>[2] = n
        BY DefaultIds
      <4> QED
        BY <1>2, <4>1
    <3> QED
      BY <2>1, <2>2, <3>1, DefaultTypes
  <2>3. CASE q # o
    <3>1. \A n \in DefaultNames : roles'[<<q, n>>] = roles[<<q, n>>]
      <4> SUFFICES ASSUME NEW n \in DefaultNames PROVE roles'[<<q, n>>] = roles[<<q, n>>]
        OBVIOUS
      <4>1. <<q, n>> \in RoleIds /\ <<q, n>> \notin {o} \X DefaultNames
        BY <2>3, DefaultIds
      <4> QED
        BY <1>2, <4>1
    <3> QED
      BY <2>1, <3>1 DEF IInv, DefaultsStand
  <2> QED
    BY <2>2, <2>3
<1>10. CatalogStands'
  <2>1. \A i \in RoleIds : roles[i] # NoRole => roles[i].org # o
    BY DEF IInv, CatalogStands, RegisterOrganization
  <2>2. \A n \in DefaultNames :
           /\ roles'[<<o, n>>] = DefaultRole(o, n) /\ roles'[<<o, n>>] # NoRole
           /\ roles'[<<o, n>>].org = o /\ roles'[<<o, n>>].name = n
    <3> SUFFICES ASSUME NEW n \in DefaultNames PROVE roles'[<<o, n>>] = DefaultRole(o, n)
      BY DefaultTypes DEF DefaultRole
    <3>1. <<o, n>> \in RoleIds /\ <<o, n>> \in {o} \X DefaultNames /\ <<o, n>>[2] = n
      BY DefaultIds
    <3> QED
      BY <1>2, <3>1
  <2> SUFFICES ASSUME NEW i \in RoleIds, roles'[i] # NoRole
               PROVE  /\ roles'[<<roles'[i].org, "owner">>] # NoRole
                      /\ \A j \in RoleIds :
                            roles'[j].org = roles'[i].org /\ roles'[j].name = roles'[i].name => j = i
    BY DEF CatalogStands
  <2>3. \A j \in RoleIds : roles'[j].org = o => \E n \in DefaultNames : j = <<o, n>>
    BY <1>3, <2>1, DistinctAssumption DEF NoRole
  <2>4. CASE roles'[i].org = o
    BY <2>2, <2>3, <2>4 DEF DefaultNames
  <2>5. CASE roles'[i].org # o
    <3>1. roles'[i] = roles[i] /\ roles[i] # NoRole
      BY <1>3, <2>2, <2>5
    <3>2. roles[i].org \in Orgs
      BY <3>1 DEF IInv, TypeOK, Role
    <3>3. roles'[<<roles[i].org, "owner">>] = roles[<<roles[i].org, "owner">>]
      BY <1>3, <2>5, <3>1, <3>2, DefaultIds DEF DefaultNames
    <3>4. ASSUME NEW j \in RoleIds, roles'[j].org = roles'[i].org, roles'[j].name = roles'[i].name
          PROVE  j = i
      <4>1. roles'[j] = roles[j]
        BY <1>3, <2>2, <2>5, <3>4
      <4> QED
        BY <3>1, <3>4, <4>1 DEF IInv, CatalogStands
    <3> QED
      BY <3>1, <3>3, <3>4 DEF IInv, CatalogStands
  <2> QED
    BY <2>4, <2>5
<1> QED
  BY <1>5, <1>6, <1>7, <1>8, <1>9, <1>10 DEF IInv

\* A new member brings its role, and the first one is the owner.
LEMMA JoinKeeps ==
    ASSUME IInv, NEW u \in Users, NEW o \in Orgs, Join(u, o)
    PROVE  IInv'
<1>1. PICK held \in JoinsWith(o) :
         userRoles' = userRoles \cup {[org |-> h.org, user |-> u, role |-> h.role] : h \in held}
  BY DEF Join
<1>2. \A x \in userRoles' : x \in userRoles \/
         \E n \in DefaultNames : x = [org |-> o, user |-> u, role |-> <<o, n>>]
  <2>1. \A h \in held : \E n \in DefaultNames : h = [org |-> o, role |-> <<o, n>>]
    <3>1. CASE held \in {{[org |-> o, role |-> <<o, n>>]} : n \in JoinRoles} \cup {{}}
      BY <3>1, InputAssumption
    <3>2. CASE held = {[org |-> o, role |-> <<o, "owner">>]}
      BY <3>2 DEF DefaultNames
    <3> QED
      BY <1>1, <3>1, <3>2 DEF JoinsWith
  <2>2. ASSUME NEW x \in userRoles', x \notin userRoles
        PROVE  \E n \in DefaultNames : x = [org |-> o, user |-> u, role |-> <<o, n>>]
    <3>1. PICK h \in held : x = [org |-> h.org, user |-> u, role |-> h.role]
      BY <1>1, <2>2
    <3>2. PICK n \in DefaultNames : h = [org |-> o, role |-> <<o, n>>]
      BY <2>1
    <3> QED
      BY <3>1, <3>2
  <2> QED
    BY <2>2
<1>3. \A n \in DefaultNames : <<o, n>> \in RoleIds /\ roles[<<o, n>>] = DefaultRole(o, n) /\ roles[<<o, n>>].org = o
  BY DefaultIds, DefaultTypes DEF IInv, DefaultsStand, Join
<1>4. /\ \A v \in Users : member'[v] = IF v = u THEN o ELSE member[v]
      /\ member[u] = NoOrg /\ userRoles \subseteq userRoles'
  BY <1>1 DEF Join, IInv, TypeOK
<1>5. Grows
  BY <1>4 DEF Join, Grows
<1>6. TypeOK'
  <2>1. \A x \in userRoles' : x \in [org: Orgs, user: Users, role: RoleIds]
    BY <1>2, <1>3 DEF IInv, TypeOK
  <2> QED
    BY <2>1 DEF IInv, TypeOK, Join
<1>7. AssignmentsStayInTenant'
  <2> SUFFICES ASSUME NEW x \in userRoles'
               PROVE  member'[x.user] # NoOrg /\ roles[x.role].org = x.org
    BY DEF AssignmentsStayInTenant, Join
  <2>1. CASE x \in userRoles
    <3>1. x.user \in Users /\ member[x.user] # NoOrg /\ roles[x.role].org = x.org
      BY <2>1 DEF IInv, TypeOK, AssignmentsStayInTenant
    <3> QED
      BY <1>4, <3>1
  <2>2. CASE x \notin userRoles
    BY <1>2, <1>3, <1>4, <2>2, DistinctAssumption
  <2> QED
    BY <2>1, <2>2
<1>8. PermittedStillHolds'
  BY <1>5, CheckedStay DEF Join
<1>9. RolesAreWhole'
  BY DEF IInv, RolesAreWhole, Join
<1>10. DefaultsStand'
  <2> SUFFICES ASSUME NEW q \in Orgs, NEW v \in Users, member'[v] = q
               PROVE  /\ roles[<<q, "owner">>] # NoRole
                      /\ \E w \in Users : member'[w] = q /\ [org |-> q, user |-> w, role |-> <<q, "owner">>] \in userRoles'
    BY DEF IInv, DefaultsStand, Join
  <2>1. CASE \E w \in Users : member[w] = q
    <3>1. roles[<<q, "owner">>] # NoRole
      BY <2>1 DEF IInv, DefaultsStand
    <3>2. PICK w \in Users : member[w] = q /\ [org |-> q, user |-> w, role |-> <<q, "owner">>] \in userRoles
      BY <2>1 DEF IInv, DefaultsStand
    <3>3. member'[w] = q
      BY <1>4, <3>2, DistinctAssumption
    <3> QED
      BY <1>4, <3>1, <3>2, <3>3
  <2>2. CASE ~\E w \in Users : member[w] = q
    <3>1. v = u /\ q = o
      BY <1>4, <2>2
    <3>2. held = {[org |-> o, role |-> <<o, "owner">>]}
      BY <1>1, <2>2, <3>1 DEF JoinsWith
    <3>3. [org |-> o, user |-> u, role |-> <<o, "owner">>] \in userRoles'
      BY <1>1, <3>2
    <3> QED
      BY <1>4, <3>1, <3>3 DEF Join
  <2> QED
    BY <2>1, <2>2
<1>11. CatalogStands'
  BY DEF IInv, CatalogStands, Join
<1> QED
  BY <1>6, <1>7, <1>8, <1>9, <1>10, <1>11 DEF IInv

-----------------------------------------------------------------------------
\* The check reads what the handler relies on.
LEMMA RequirePermissionKeeps ==
    ASSUME IInv, NEW r \in Requests, NEW u \in Users, NEW route \in Routes,
           RequirePermission(r, u, route)
    PROVE  IInv'
<1>1. member[u] \in Orgs
  BY DEF IInv, TypeOK, RequirePermission, InTenant
<1>2. /\ \A s \in Requests : req'[s] = IF s = r THEN [at |-> route, user |-> u, org |-> member[u]] ELSE req[s]
      /\ UNCHANGED <<member, roles, userRoles>>
  BY DEF IInv, TypeOK, RequirePermission, InTenant
<1>3. TypeOK'
  BY <1>1 DEF IInv, TypeOK, RequirePermission
<1>4. Entitled(member[u], u, Required[route])
  BY CheckedIsEntitled DEF IInv, RequirePermission
<1>5. PermittedStillHolds'
  <2> SUFFICES ASSUME NEW s \in Requests, req'[s].at \in Routes
               PROVE  Entitled(req[s].org, req[s].user, Required[req[s].at])'
    BY DEF PermittedStillHolds
  <2>1. CASE s = r
    BY <1>2, <1>4, <2>1 DEF Entitled
  <2>2. CASE s # r
    BY <1>2, <2>2 DEF IInv, PermittedStillHolds, Entitled
  <2> QED
    BY <2>1, <2>2
<1>6. AssignmentsStayInTenant' /\ RolesAreWhole' /\ DefaultsStand' /\ CatalogStands'
  BY <1>2 DEF IInv, AssignmentsStayInTenant, RolesAreWhole, DefaultsStand, CatalogStands
<1> QED
  BY <1>3, <1>5, <1>6 DEF IInv

\* A created role takes an id that no assignment names yet.
LEMMA CreateRoleKeeps ==
    ASSUME IInv, NEW r \in Requests, CreateRole(r)
    PROVE  IInv'
<1>1. req[r].org \in Orgs
  BY DEF IInv, TypeOK, CreateRole, IdleRequest
<1>2. CASE UNCHANGED roles
  <2>1. Grows
    BY <1>2 DEF Grows, CreateRole
  <2>2. TypeOK'
    BY <1>2, FinishFrees DEF IInv, TypeOK, CreateRole
  <2>3. PermittedStillHolds'
    BY <2>1, CheckedStay, FinishFrees DEF IInv, CreateRole
  <2>4. AssignmentsStayInTenant' /\ RolesAreWhole' /\ DefaultsStand' /\ CatalogStands'
    BY <1>2 DEF IInv, CreateRole, AssignmentsStayInTenant, RolesAreWhole, DefaultsStand, CatalogStands
  <2> QED
    BY <2>2, <2>3, <2>4 DEF IInv
<1>3. ASSUME NEW n \in RoleNames, NEW asked \in Asked, InsertRole(req[r].org, n, asked)
      PROVE  IInv'
  <2> DEFINE row == [org |-> req[r].org, name |-> n, perms |-> asked, asked |-> asked]
  <2>1. PICK i \in Ids : roles[i] = NoRole /\ roles' = [roles EXCEPT ![i] = row]
    BY <1>3 DEF InsertRole, NewRole, AllKnown
  <2>2. row \in Role
    BY <1>1, <1>3 DEF Role, InsertRole, AllKnown, KnownPermissions
  <2>3. i \in RoleIds /\ \A j \in RoleIds : roles'[j] = IF j = i THEN row ELSE roles[j]
    BY <2>1 DEF IInv, TypeOK, RoleIds
  <2>4. Grows
    BY <2>1, <2>3 DEF Grows, CreateRole
  <2>5. TypeOK'
    BY <2>1, <2>2, FinishFrees DEF IInv, TypeOK, CreateRole
  <2>6. PermittedStillHolds'
    BY <2>4, CheckedStay, FinishFrees DEF IInv, CreateRole
  <2>7. AssignmentsStayInTenant'
    <3> SUFFICES ASSUME NEW x \in userRoles
                 PROVE  member[x.user] # NoOrg /\ roles'[x.role].org = x.org
      BY DEF AssignmentsStayInTenant, CreateRole
    <3>1. x.role \in RoleIds /\ x.org \in Orgs /\ member[x.user] # NoOrg /\ roles[x.role].org = x.org
      BY DEF IInv, TypeOK, AssignmentsStayInTenant
    <3> QED
      BY <2>1, <2>3, <3>1, DistinctAssumption DEF NoRole
  <2>8. RolesAreWhole'
    BY <2>3 DEF IInv, RolesAreWhole
  <2>9. DefaultsStand'
    <3>1. \A q \in Orgs, m \in DefaultNames : roles'[<<q, m>>] = roles[<<q, m>>]
      BY <2>1, <2>3, DefaultIds
    <3>2. "owner" \in DefaultNames
      BY DEF DefaultNames
    <3>3. UNCHANGED <<member, userRoles>>
      BY DEF CreateRole
    <3> SUFFICES ASSUME NEW q \in Orgs
                 PROVE  /\ \A m \in DefaultNames :
                              roles'[<<q, m>>] = IF roles'[<<q, "owner">>] = NoRole THEN NoRole ELSE DefaultRole(q, m)
                        /\ (\E v \in Users : member[v] = q) =>
                              /\ roles'[<<q, "owner">>] # NoRole
                              /\ \E u \in Users : member[u] = q /\ [org |-> q, user |-> u, role |-> <<q, "owner">>] \in userRoles
      BY <3>3 DEF DefaultsStand
    <3>4. roles'[<<q, "owner">>] = roles[<<q, "owner">>]
      BY <3>1, <3>2
    <3> QED
      BY <3>1, <3>4 DEF IInv, DefaultsStand
  <2>10. CatalogStands'
    <3>1. roles[<<req[r].org, "owner">>] # NoRole
      BY CallerIsMember DEF IInv, DefaultsStand, CreateRole, Routes
    <3>2. \A q \in Orgs : roles'[<<q, "owner">>] = roles[<<q, "owner">>]
      BY <2>1, <2>3, DefaultIds DEF DefaultNames
    <3>3. \A j \in RoleIds : j # i => roles'[j] = roles[j]
      BY <2>3
    <3>4. \A j \in RoleIds : roles[j] # NoRole => ~(roles[j].org = req[r].org /\ roles[j].name = n)
      BY <1>3 DEF InsertRole, NameTaken
    <3>5. \A j \in RoleIds : roles[j].org \in Orgs => roles[j] # NoRole
      BY DistinctAssumption DEF NoRole
    <3> SUFFICES ASSUME NEW k \in RoleIds, roles'[k] # NoRole
                 PROVE  /\ roles'[<<roles'[k].org, "owner">>] # NoRole
                        /\ \A j \in RoleIds :
                              roles'[j].org = roles'[k].org /\ roles'[j].name = roles'[k].name => j = k
      BY DEF CatalogStands
    <3>6. CASE k = i
      <4>1. roles'[k].org = req[r].org /\ roles'[k].name = n
        BY <2>3, <3>6
      <4> QED
        BY <1>1, <3>1, <3>2, <3>3, <3>4, <3>5, <3>6, <4>1
    <3>7. CASE k # i
      <4>1. roles'[k] = roles[k] /\ roles[k] # NoRole /\ roles[k].org \in Orgs
        BY <3>3, <3>7 DEF IInv, TypeOK, Role
      <4>2. roles'[i].org = req[r].org /\ roles'[i].name = n
        BY <2>3
      <4> QED
        BY <3>2, <3>3, <3>4, <4>1, <4>2 DEF IInv, CatalogStands
    <3> QED
      BY <3>6, <3>7
  <2> QED
    BY <2>5, <2>6, <2>7, <2>8, <2>9, <2>10 DEF IInv
<1> QED
  BY <1>2, <1>3 DEF CreateRole

\* An assignment is of a role of the caller's organization to a member.
LEMMA AssignRoleKeeps ==
    ASSUME IInv, NEW r \in Requests, AssignRoleToUser(r)
    PROVE  IInv'
<1>1. req[r].org \in Orgs
  BY DEF IInv, TypeOK, AssignRoleToUser, IdleRequest
<1>2. \A x \in userRoles' :
         \/ x \in userRoles
         \/ \E u \in Users, i \in RoleIds :
               Assignable(req[r].org, u, i) /\ x = [org |-> req[r].org, user |-> u, role |-> i]
  BY InputAssumption DEF AssignRoleToUser, InsertUserRole
<1>3. Grows
  BY DEF AssignRoleToUser, InsertUserRole, Grows
<1>4. TypeOK'
  <2>1. \A x \in userRoles' : x \in [org: Orgs, user: Users, role: RoleIds]
    BY <1>1, <1>2 DEF IInv, TypeOK
  <2> QED
    BY <2>1, FinishFrees DEF IInv, TypeOK, AssignRoleToUser
<1>5. AssignmentsStayInTenant'
  BY <1>2 DEF IInv, AssignmentsStayInTenant, Assignable, AssignRoleToUser
<1>6. PermittedStillHolds'
  BY <1>3, CheckedStay, FinishFrees DEF IInv, AssignRoleToUser
<1>7. RolesAreWhole' /\ DefaultsStand' /\ CatalogStands'
  BY <1>3 DEF IInv, RolesAreWhole, DefaultsStand, CatalogStands, AssignRoleToUser, Grows
<1> QED
  BY <1>4, <1>5, <1>6, <1>7 DEF IInv

LEMMA WriteBillingKeeps ==
    ASSUME IInv, NEW r \in Requests, WriteBilling(r)
    PROVE  IInv'
<1>1. Grows
  BY DEF WriteBilling, Grows
<1>2. TypeOK' /\ PermittedStillHolds'
  BY <1>1, CheckedStay, FinishFrees DEF IInv, TypeOK, WriteBilling
<1>3. AssignmentsStayInTenant' /\ RolesAreWhole' /\ DefaultsStand' /\ CatalogStands'
  BY DEF IInv, WriteBilling, AssignmentsStayInTenant, RolesAreWhole, DefaultsStand, CatalogStands
<1> QED
  BY <1>2, <1>3 DEF IInv

-----------------------------------------------------------------------------
LEMMA Initially == Init => IInv
<1> SUFFICES ASSUME Init PROVE IInv
  OBVIOUS
<1>1. TypeOK /\ AssignmentsStayInTenant /\ PermittedStillHolds
  BY DEF Init, TypeOK, AssignmentsStayInTenant, PermittedStillHolds, IdleRequest, Routes
<1>2. RolesAreWhole
  BY DEF Init, RolesAreWhole, NoRole
<1>3. DefaultsStand /\ CatalogStands
  BY DefaultIds, DistinctAssumption DEF Init, DefaultsStand, CatalogStands, DefaultNames
<1> QED
  BY <1>1, <1>2, <1>3 DEF IInv

\* Each step of the routes and of provisioning keeps the invariant.
LEMMA Steps == IInv /\ [Next]_vars => IInv'
<1> SUFFICES ASSUME IInv, [Next]_vars PROVE IInv'
  OBVIOUS
<1>1. CASE \E o \in Orgs : RegisterOrganization(o)
  BY <1>1, RegisterOrganizationKeeps
<1>2. CASE \E u \in Users, o \in Orgs : Join(u, o)
  BY <1>2, JoinKeeps
<1>3. CASE \E r \in Requests, u \in Users, route \in Routes : RequirePermission(r, u, route)
  BY <1>3, RequirePermissionKeeps
<1>4. CASE \E r \in Requests : CreateRole(r)
  BY <1>4, CreateRoleKeeps
<1>5. CASE \E r \in Requests : AssignRoleToUser(r)
  BY <1>5, AssignRoleKeeps
<1>6. CASE \E r \in Requests : WriteBilling(r)
  BY <1>6, WriteBillingKeeps
<1>7. CASE UNCHANGED vars
  BY <1>7 DEF vars, IInv, TypeOK, AssignmentsStayInTenant, PermittedStillHolds, Entitled,
              RolesAreWhole, DefaultsStand, CatalogStands
<1> QED
  BY <1>1, <1>2, <1>3, <1>4, <1>5, <1>6, <1>7 DEF Next

\* The inductive invariant of roles and permissions (RequirePermission and the
\* rbac handlers) holds in every reachable state.
THEOREM Invariance == Spec => []IInv
BY Initially, Steps, PTL DEF Spec

\* The tables of roles and assignments keep the types of their columns, whatever
\* the routes and provisioning do at once.
THEOREM RbacTypes == Spec => []TypeOK
<1>1. IInv => TypeOK
  BY DEF IInv
<1> QED
  BY <1>1, Invariance, PTL

\* A handler behind RequirePermission runs only for a caller who is entitled,
\* at that moment, within its own organization.
THEOREM CheckOutlivesGap == Spec => []PermittedStillHolds
<1>1. IInv => PermittedStillHolds
  BY DEF IInv
<1> QED
  BY <1>1, Invariance, PTL

\* Every row of user_roles is of a member and of a role of its organization.
THEOREM TenantIsolation == Spec => []AssignmentsStayInTenant
<1>1. IInv => AssignmentsStayInTenant
  BY DEF IInv
<1> QED
  BY <1>1, Invariance, PTL

\* CreateRole never leaves a role with some of the permissions its creator named.
THEOREM CreatedRolesAreWhole == Spec => []RolesAreWhole
<1>1. IInv => RolesAreWhole
  BY DEF IInv
<1> QED
  BY <1>1, Invariance, PTL

\* An organization with members always has one with every permission.
THEOREM NoLockOut == Spec => []OwnersKeepControl
<1>1. ASSUME IInv PROVE OwnersKeepControl
  <2> SUFFICES ASSUME NEW o \in Orgs, \E v \in Users : member[v] = o
               PROVE  \E u \in Users : \A p \in Permissions : Entitled(o, u, p)
    BY DEF OwnersKeepControl
  <2>1. PICK u \in Users : member[u] = o /\ [org |-> o, user |-> u, role |-> <<o, "owner">>] \in userRoles
    BY <1>1 DEF IInv, DefaultsStand
  <2>2. "owner" \in DefaultNames /\ DefaultPermissions("owner") = Permissions
    BY DEF DefaultNames, DefaultPermissions
  <2>3. roles[<<o, "owner">>] = DefaultRole(o, "owner") /\ <<o, "owner">> \in RoleIds
    BY <1>1, <2>2, DefaultIds DEF IInv, DefaultsStand
  <2>4. roles[<<o, "owner">>].org = o /\ roles[<<o, "owner">>].perms = Permissions
    BY <2>2, <2>3 DEF DefaultRole
  <2> QED
    BY <2>1, <2>3, <2>4 DEF Entitled
<1> QED
  BY <1>1, Invariance, PTL

-----------------------------------------------------------------------------
(* The implementation of Access *)

\* The abstract specification has the same default roles.
LEMMA SameRoles ==
    /\ Atomic!DefaultNames = DefaultNames
    /\ Atomic!Permissions = Permissions
    /\ \A n : Atomic!DefaultPermissions(n) = DefaultPermissions(n)
BY DEF Atomic!DefaultNames, DefaultNames, Atomic!Permissions, Permissions,
       Atomic!DefaultPermissions, DefaultPermissions

\* A row that counts is of a role of the user's organization.
LEMMA HeldRole ==
    ASSUME IInv, NEW u \in Users, NEW x \in HeldBy(u)
    PROVE  /\ x.role \in RoleIds /\ x.org \in Orgs /\ x.user = u
           /\ x = [org |-> member[u], user |-> u, role |-> x.role]
           /\ member[u] \in Orgs
           /\ roles[x.role].org = member[u] /\ roles[x.role] # NoRole
<1>1. x \in [org: Orgs, user: Users, role: RoleIds] /\ x.org = member[u] /\ x.user = u
  BY DEF IInv, TypeOK, HeldBy
<1>2. roles[x.role].org = member[u]
  BY <1>1 DEF IInv, AssignmentsStayInTenant, HeldBy
<1> QED
  BY <1>1, <1>2, DistinctAssumption DEF NoRole

\* Roles that are added take no name from anybody.
LEMMA HoldsKept ==
    ASSUME IInv, Grows, UNCHANGED <<member, userRoles>>
    PROVE  AbstractHolds' = AbstractHolds
<1>1. ASSUME NEW u \in Users PROVE NamesHeld(u)' = NamesHeld(u)
  <2>1. HeldBy(u)' = HeldBy(u)
    BY DEF HeldBy
  <2>2. \A x \in HeldBy(u) : roles'[x.role] = roles[x.role]
    BY HeldRole DEF Grows
  <2> QED
    BY <2>1, <2>2 DEF NamesHeld
<1> QED
  BY <1>1, Zenon DEF AbstractHolds

LEMMA CatalogKept ==
    ASSUME UNCHANGED roles
    PROVE  AbstractCatalog' = AbstractCatalog
BY DEF AbstractCatalog, CatalogOf, RolesOf

\* The requests of the abstract specification stand still or are answered with these.
LEMMA AsksKept ==
    ASSUME UNCHANGED req
    PROVE  AbstractAsks' = AbstractAsks
BY DEF AbstractAsks, AskOf

LEMMA FinishAnswers ==
    ASSUME IInv, NEW r \in Requests, Finish(r)
    PROVE  Atomic!Answer(r)
<1>1. \A s \in Requests : req'[s] = IF s = r THEN IdleRequest ELSE req[s]
  BY DEF IInv, TypeOK, Finish
<1>2. \A s \in Requests : AskOf(s)' = IF s = r THEN Atomic!Nobody ELSE AskOf(s)
  BY <1>1 DEF AskOf, Atomic!Nobody, IdleRequest
<1> QED
  BY <1>2 DEF Atomic!Answer, AbstractAsks

\* What a member is entitled to is a power it has.
LEMMA EntitledIsPower ==
    ASSUME IInv, NEW o \in Orgs, NEW u \in Users, NEW p, Entitled(o, u, p)
    PROVE  p \in Atomic!Powers(u)
<1>1. PICK i \in RoleIds : /\ [org |-> o, user |-> u, role |-> i] \in userRoles
                           /\ roles[i].org = o /\ p \in roles[i].perms
  BY DEF Entitled
<1>2. member[u] = o
  BY DEF Entitled
<1>3. roles[i].name \in NamesHeld(u)
  <2>1. [org |-> o, user |-> u, role |-> i] \in HeldBy(u)
    BY <1>1, <1>2 DEF HeldBy
  <2> QED
    BY <2>1 DEF NamesHeld
<1>4. [name |-> roles[i].name, perms |-> roles[i].perms] \in CatalogOf(o)
  BY <1>1 DEF CatalogOf, RolesOf
<1>5. AbstractHolds[u] = NamesHeld(u) /\ AbstractCatalog[member[u]] = CatalogOf(o)
  BY <1>2 DEF AbstractHolds, AbstractCatalog
<1> QED
  BY <1>1, <1>3, <1>4, <1>5 DEF Atomic!Powers

\* The caller of a handler is empowered in the state the handler runs in.
LEMMA CallerEmpowered ==
    ASSUME IInv, NEW r \in Requests, req[r].at \in {"createRole", "assignRole"}
    PROVE  /\ req[r].user \in Users /\ req[r].org \in Orgs
           /\ member[req[r].user] = req[r].org
           /\ Atomic!Empowered(req[r].user)
<1>1. req[r].at \in Routes /\ Required[req[r].at] = "settings.write"
  BY DEF Routes, Required
<1>2. /\ req[r].user \in Users /\ req[r].org \in Orgs
      /\ member[req[r].user] = req[r].org
      /\ Entitled(req[r].org, req[r].user, "settings.write")
  BY <1>1, CallerIsMember
<1>3. "settings.write" \in Atomic!Powers(req[r].user)
  BY <1>2, EntitledIsPower
<1> QED
  BY <1>2, <1>3, DistinctAssumption DEF Atomic!Empowered

\* The default roles of a new organization are the whole of its catalog.
LEMMA RegistersIsEstablish ==
    ASSUME IInv, NEW o \in Orgs, RegisterOrganization(o)
    PROVE  Atomic!Establish(o)
<1>1. \A i \in RoleIds : roles[i].org # o
  BY DistinctAssumption DEF IInv, CatalogStands, RegisterOrganization, NoRole
<1>2. AbstractCatalog[o] = {}
  BY <1>1 DEF AbstractCatalog, CatalogOf, RolesOf
<1>3. \A i \in RoleIds : roles'[i] = IF i \in {o} \X DefaultNames THEN DefaultRole(o, i[2]) ELSE roles[i]
  BY DEF RegisterOrganization
<1>4. \A n \in DefaultNames : <<o, n>> \in RoleIds /\ roles'[<<o, n>>] = DefaultRole(o, n)
  <2> SUFFICES ASSUME NEW n \in DefaultNames
               PROVE  <<o, n>> \in RoleIds /\ roles'[<<o, n>>] = DefaultRole(o, n)
    OBVIOUS
  <2>1. <<o, n>> \in RoleIds /\ <<o, n>> \in {o} \X DefaultNames /\ <<o, n>>[2] = n
    BY DefaultIds
  <2> QED
    BY <1>3, <2>1
<1>5. \A i \in RoleIds :
         \/ roles'[i] = roles[i]
         \/ \E n \in DefaultNames : i = <<o, n>> /\ roles'[i] = DefaultRole(o, n)
  <2> SUFFICES ASSUME NEW i \in RoleIds, i \in {o} \X DefaultNames
               PROVE  \E n \in DefaultNames : i = <<o, n>> /\ roles'[i] = DefaultRole(o, n)
    BY <1>3
  <2>1. PICK n \in DefaultNames : i = <<o, n>>
    OBVIOUS
  <2> QED
    BY <1>4, <2>1
<1>6. CatalogOf(o)' = {Atomic!Entry(n, Atomic!DefaultPermissions(n)) : n \in Atomic!DefaultNames}
  <2>1. ASSUME NEW e \in CatalogOf(o)'
        PROVE  \E n \in DefaultNames : e = Atomic!Entry(n, DefaultPermissions(n))
    <3>1. PICK i \in RoleIds : roles'[i].org = o /\ e = [name |-> roles'[i].name, perms |-> roles'[i].perms]
      BY <2>1 DEF CatalogOf, RolesOf
    <3>2. PICK n \in DefaultNames : roles'[i] = DefaultRole(o, n)
      BY <1>1, <1>5, <3>1
    <3> QED
      BY <3>1, <3>2 DEF DefaultRole, Atomic!Entry
  <2>2. ASSUME NEW n \in DefaultNames
        PROVE  Atomic!Entry(n, DefaultPermissions(n)) \in CatalogOf(o)'
    <3>1. <<o, n>> \in RolesOf(o)' /\ roles'[<<o, n>>] = DefaultRole(o, n)
      BY <1>4 DEF RolesOf, DefaultRole
    <3>2. [name |-> roles'[<<o, n>>].name, perms |-> roles'[<<o, n>>].perms] \in CatalogOf(o)'
      BY <3>1 DEF CatalogOf
    <3> QED
      BY <3>1, <3>2 DEF DefaultRole, Atomic!Entry
  <2> QED
    BY <2>1, <2>2, SameRoles
<1>7. ASSUME NEW q \in Orgs, q # o PROVE CatalogOf(q)' = CatalogOf(q)
  <2>1. \A i \in RoleIds : roles'[i].org = q \/ roles[i].org = q => roles'[i] = roles[i]
    BY <1>1, <1>3, <1>5, <1>7, DistinctAssumption
    DEF DefaultRole, IInv, CatalogStands, RegisterOrganization, DefaultsStand, NoRole
  <2>2. RolesOf(q)' = RolesOf(q)
    BY <2>1 DEF RolesOf
  <2>3. \A i \in RolesOf(q) : roles'[i] = roles[i]
    BY <2>1 DEF RolesOf
  <2> QED
    BY <2>2, <2>3 DEF CatalogOf
<1>8. AbstractCatalog' =
         [AbstractCatalog EXCEPT ![o] = {Atomic!Entry(n, Atomic!DefaultPermissions(n)) : n \in Atomic!DefaultNames}]
  BY <1>6, <1>7 DEF AbstractCatalog
<1>9. Grows
  <2>1. \A n \in DefaultNames : roles[<<o, n>>] = NoRole
    BY DEF IInv, DefaultsStand, RegisterOrganization
  <2> QED
    BY <1>5, <2>1 DEF Grows, RegisterOrganization
<1>10. AbstractHolds' = AbstractHolds
  BY <1>9, HoldsKept DEF RegisterOrganization
<1> QED
  BY <1>2, <1>8, <1>10, AsksKept DEF Atomic!Establish, RegisterOrganization

\* Somebody who is no member has no assignment.
LEMMA OutsidersHoldNothing ==
    ASSUME IInv, NEW u \in Users, member[u] = NoOrg
    PROVE  \A x \in userRoles : x.user # u
BY DEF IInv, AssignmentsStayInTenant

LEMMA JoinIsEnter ==
    ASSUME IInv, NEW u \in Users, NEW o \in Orgs, Join(u, o)
    PROVE  \E names \in SUBSET DefaultNames : Atomic!Enter(u, o, names)
<1>1. PICK held \in JoinsWith(o) :
         userRoles' = userRoles \cup {[org |-> h.org, user |-> u, role |-> h.role] : h \in held}
  BY DEF Join
<1>2. PICK names \in SUBSET DefaultNames :
         /\ held = {[org |-> o, role |-> <<o, n>>] : n \in names}
         /\ IF \E v \in Users : member[v] = o
            THEN names = {} \/ \E n \in JoinRoles : names = {n}
            ELSE names = {"owner"}
  <2>1. CASE \E v \in Users : member[v] = o
    <3>1. CASE held = {}
      BY <2>1, <3>1
    <3>2. CASE held # {}
      <4>1. PICK n \in JoinRoles : held = {[org |-> o, role |-> <<o, n>>]}
        BY <1>1, <2>1, <3>2 DEF JoinsWith
      <4>2. {n} \in SUBSET DefaultNames /\ held = {[org |-> o, role |-> <<o, m>>] : m \in {n}}
        BY <4>1, InputAssumption
      <4> QED
        BY <2>1, <4>2
    <3> QED
      BY <3>1, <3>2
  <2>2. CASE ~\E v \in Users : member[v] = o
    <3>1. held = {[org |-> o, role |-> <<o, m>>] : m \in {"owner"}} /\ {"owner"} \in SUBSET DefaultNames
      BY <1>1, <2>2 DEF JoinsWith, DefaultNames
    <3> QED
      BY <2>2, <3>1
  <2> QED
    BY <2>1, <2>2
<1>3. \A n \in DefaultNames :
         <<o, n>> \in RoleIds /\ roles[<<o, n>>] = DefaultRole(o, n) /\ roles[<<o, n>>].name = n
  BY DefaultIds DEF IInv, DefaultsStand, Join, DefaultRole
<1>4. /\ member[u] = NoOrg /\ UNCHANGED roles
      /\ \A v \in Users : member'[v] = IF v = u THEN o ELSE member[v]
  BY DEF Join, IInv, TypeOK
<1>5. userRoles' = userRoles \cup {[org |-> o, user |-> u, role |-> <<o, n>>] : n \in names}
  <2>1. ASSUME NEW h \in held
        PROVE  [org |-> h.org, user |-> u, role |-> h.role] \in {[org |-> o, user |-> u, role |-> <<o, n>>] : n \in names}
    BY <1>2, <2>1
  <2>2. ASSUME NEW n \in names
        PROVE  [org |-> o, user |-> u, role |-> <<o, n>>] \in {[org |-> h.org, user |-> u, role |-> h.role] : h \in held}
    <3>1. [org |-> o, role |-> <<o, n>>] \in held
      BY <1>2
    <3> QED
      BY <3>1
  <2> QED
    BY <1>1, <2>1, <2>2
<1>6. NamesHeld(u)' = names
  <2>1. HeldBy(u)' = {[org |-> o, user |-> u, role |-> <<o, n>>] : n \in names}
    BY <1>4, <1>5, OutsidersHoldNothing DEF HeldBy
  <2>2. \A n \in names : roles[<<o, n>>].name = n
    BY <1>3
  <2>3. ASSUME NEW m \in NamesHeld(u)' PROVE m \in names
    BY <1>4, <2>1, <2>2 DEF NamesHeld
  <2>4. ASSUME NEW m \in names PROVE m \in NamesHeld(u)'
    <3>1. [org |-> o, user |-> u, role |-> <<o, m>>] \in HeldBy(u)'
      BY <2>1
    <3>2. roles'[[org |-> o, user |-> u, role |-> <<o, m>>].role].name \in NamesHeld(u)'
      BY <3>1 DEF NamesHeld
    <3> QED
      BY <1>4, <2>2, <3>2
  <2> QED
    BY <2>3, <2>4
<1>7. ASSUME NEW v \in Users, v # u PROVE NamesHeld(v)' = NamesHeld(v)
  <2>1. HeldBy(v)' = HeldBy(v)
    BY <1>4, <1>5, <1>7 DEF HeldBy
  <2> QED
    BY <1>4, <2>1 DEF NamesHeld
<1>8. AbstractHolds' = [AbstractHolds EXCEPT ![u] = names]
  BY <1>6, <1>7 DEF AbstractHolds
<1>9. AbstractCatalog[o] # {}
  <2>1. <<o, "owner">> \in RolesOf(o)
    BY <1>3 DEF RolesOf, DefaultRole, DefaultNames
  <2> QED
    BY <2>1 DEF AbstractCatalog, CatalogOf
<1>10. AbstractCatalog' = AbstractCatalog
  BY <1>4, CatalogKept
<1>11. member' = [member EXCEPT ![u] = o]
  BY DEF Join
<1>12. AbstractAsks' = AbstractAsks
  BY AsksKept DEF Join
<1> QED
  BY <1>2, <1>4, <1>8, <1>9, <1>10, <1>11, <1>12 DEF Atomic!Enter

\* A role that is created is defined by its caller, whole.
LEMMA InsertIsDefine ==
    ASSUME IInv, NEW r \in Requests, CreateRole(r), NEW o \in Orgs, o = req[r].org,
           NEW n \in RoleNames, NEW asked \in Asked, InsertRole(o, n, asked)
    PROVE  Atomic!Define(r, n, asked)
<1> DEFINE row == [org |-> o, name |-> n, perms |-> asked, asked |-> asked]
<1>1. /\ req[r].user \in Users /\ member[req[r].user] = o
      /\ Atomic!Empowered(req[r].user)
  BY CallerEmpowered DEF CreateRole
<1>2. asked \subseteq Permissions
  BY DEF InsertRole, AllKnown, KnownPermissions
<1>3. PICK i \in Ids : roles[i] = NoRole /\ roles' = [roles EXCEPT ![i] = row]
  BY DEF InsertRole, NewRole, AllKnown
<1>4. i \in RoleIds /\ \A j \in RoleIds : roles'[j] = IF j = i THEN row ELSE roles[j]
  BY <1>3 DEF IInv, TypeOK, RoleIds
<1>5. \A q \in Orgs : i \notin RolesOf(q)
  BY <1>3, DistinctAssumption DEF RolesOf, NoRole
<1>6. \A e \in AbstractCatalog[o] : e.name # n
  <2> SUFFICES ASSUME NEW e \in CatalogOf(o) PROVE e.name # n
    BY DEF AbstractCatalog
  <2>1. PICK j \in RoleIds : roles[j].org = o /\ e.name = roles[j].name
    BY DEF CatalogOf, RolesOf
  <2>2. roles[j] # NoRole
    BY <2>1, DistinctAssumption DEF NoRole
  <2> QED
    BY <2>1, <2>2 DEF InsertRole, NameTaken
<1>7. CatalogOf(o)' = CatalogOf(o) \cup {Atomic!Entry(n, asked)}
  <2>1. RolesOf(o)' = RolesOf(o) \cup {i}
    BY <1>4, <1>5 DEF RolesOf
  <2>2. \A j \in RolesOf(o) : roles'[j] = roles[j]
    BY <1>4, <1>5 DEF RolesOf
  <2>3. [name |-> roles'[i].name, perms |-> roles'[i].perms] = Atomic!Entry(n, asked)
    BY <1>4 DEF Atomic!Entry
  <2>4. CatalogOf(o)' = {[name |-> roles'[j].name, perms |-> roles'[j].perms] : j \in RolesOf(o) \cup {i}}
    BY <2>1 DEF CatalogOf
  <2>5. CatalogOf(o) = {[name |-> roles'[j].name, perms |-> roles'[j].perms] : j \in RolesOf(o)}
    BY <2>2 DEF CatalogOf
  <2> QED
    BY <2>3, <2>4, <2>5
<1>8. ASSUME NEW q \in Orgs, q # o PROVE CatalogOf(q)' = CatalogOf(q)
  <2>1. RolesOf(q)' = RolesOf(q)
    BY <1>4, <1>5, <1>8 DEF RolesOf
  <2>2. \A j \in RolesOf(q) : roles'[j] = roles[j]
    BY <1>4, <1>5 DEF RolesOf
  <2> QED
    BY <2>1, <2>2 DEF CatalogOf
<1>9. AbstractCatalog' = [AbstractCatalog EXCEPT ![o] = @ \cup {Atomic!Entry(n, asked)}]
  BY <1>7, <1>8 DEF AbstractCatalog
<1>10. Grows
  BY <1>3, <1>4 DEF Grows, CreateRole
<1>11. AbstractHolds' = AbstractHolds
  BY <1>10, HoldsKept DEF CreateRole
<1>12. AbstractAsks[r].user = req[r].user /\ AbstractAsks[r].route = "createRole"
  BY DEF AbstractAsks, AskOf, CreateRole
<1>13. Atomic!Answer(r)
  BY FinishAnswers DEF CreateRole
<1> QED
  BY <1>1, <1>2, <1>6, <1>9, <1>11, <1>12, <1>13, SameRoles DEF Atomic!Define, CreateRole

\* An assignment within the organization is given by its caller; one to a user
\* of another organization changes no power.
LEMMA AssignIsGive ==
    ASSUME IInv, NEW r \in Requests, AssignRoleToUser(r), NEW o \in Orgs, o = req[r].org,
           NEW v \in Users, NEW i \in RoleIds, InsertUserRole(o, v, i)
    PROVE  \/ \E n \in RoleNames \cup DefaultNames : Atomic!Give(r, v, n)
           \/ Atomic!Pass(r)
<1>1. /\ req[r].user \in Users /\ member[req[r].user] = o
      /\ Atomic!Empowered(req[r].user)
  BY CallerEmpowered DEF AssignRoleToUser
<1>2. /\ roles[i].org = o /\ roles[i] # NoRole /\ UNCHANGED <<member, roles>>
      /\ userRoles' = userRoles \cup {[org |-> o, user |-> v, role |-> i]}
  BY DEF InsertUserRole, Assignable, AssignRoleToUser
<1>3. AbstractCatalog' = AbstractCatalog
  BY <1>2, CatalogKept
<1>4. ASSUME NEW w \in Users, w # v \/ member[v] # o PROVE NamesHeld(w)' = NamesHeld(w)
  <2>1. HeldBy(w)' = HeldBy(w)
    BY <1>2, <1>4 DEF HeldBy
  <2> QED
    BY <1>2, <2>1 DEF NamesHeld
<1>5. /\ AbstractAsks[r].user = req[r].user /\ AbstractAsks[r].route = "assignRole"
      /\ Atomic!Answer(r)
  BY FinishAnswers DEF AbstractAsks, AskOf, AssignRoleToUser
<1>6. CASE member[v] = o
  <2> DEFINE n == roles[i].name
  <2>1. n \in RoleNames \cup DefaultNames
    BY <1>2 DEF IInv, TypeOK, Role
  <2>2. \E e \in AbstractCatalog[o] : e.name = n
    <3>1. [name |-> roles[i].name, perms |-> roles[i].perms] \in CatalogOf(o)
      BY <1>2 DEF CatalogOf, RolesOf
    <3> QED
      BY <3>1 DEF AbstractCatalog
  <2>3. NamesHeld(v)' = NamesHeld(v) \cup {n}
    <3>1. HeldBy(v)' = HeldBy(v) \cup {[org |-> o, user |-> v, role |-> i]}
      BY <1>2, <1>6 DEF HeldBy
    <3>2. \A m : m \in NamesHeld(v)' <=> \E x \in HeldBy(v)' : m = roles[x.role].name
      BY <1>2 DEF NamesHeld
    <3>3. \A m : m \in NamesHeld(v) <=> \E x \in HeldBy(v) : m = roles[x.role].name
      BY DEF NamesHeld
    <3>4. [org |-> o, user |-> v, role |-> i].role = i
      OBVIOUS
    <3> QED
      BY <3>1, <3>2, <3>3, <3>4
  <2>4. AbstractHolds' = [AbstractHolds EXCEPT ![v] = @ \cup {n}]
    BY <1>4, <2>3 DEF AbstractHolds
  <2>5. Atomic!Give(r, v, n)
    BY <1>1, <1>2, <1>3, <1>5, <1>6, <2>2, <2>4 DEF Atomic!Give
  <2> QED
    BY <2>1, <2>5
<1>7. CASE member[v] # o
  <2>1. AbstractHolds' = AbstractHolds
    BY <1>4, <1>7 DEF AbstractHolds
  <2> QED
    BY <1>2, <1>3, <1>5, <2>1 DEF Atomic!Pass
<1> QED
  BY <1>6, <1>7

\* Whatever changes no table changes nothing that is abstract but the requests.
LEMMA TablesKept ==
    ASSUME UNCHANGED <<member, roles, userRoles>>
    PROVE  UNCHANGED <<member, AbstractCatalog, AbstractHolds>>
<1>1. AbstractHolds' = AbstractHolds
  BY DEF AbstractHolds, NamesHeld, HeldBy
<1> QED
  BY <1>1, CatalogKept

LEMMA PermissionIsAsk ==
    ASSUME IInv, NEW r \in Requests, NEW u \in Users, NEW route \in Routes,
           RequirePermission(r, u, route)
    PROVE  Atomic!Ask(r, u, route)
<1>1. /\ req[r] = IdleRequest /\ member[u] # NoOrg /\ UNCHANGED <<member, roles, userRoles>>
      /\ \A s \in Requests : req'[s] = IF s = r THEN [at |-> route, user |-> u, org |-> member[u]] ELSE req[s]
  BY DEF IInv, TypeOK, RequirePermission, InTenant
<1>2. AbstractAsks' = [AbstractAsks EXCEPT ![r] = [user |-> u, route |-> route]]
  <2>1. \A s \in Requests : AskOf(s)' = IF s = r THEN [user |-> u, route |-> route] ELSE AskOf(s)
    BY <1>1 DEF AskOf
  <2> QED
    BY <2>1 DEF AbstractAsks
<1>3. AbstractAsks[r] = Atomic!Nobody
  BY <1>1 DEF AbstractAsks, AskOf, IdleRequest, Atomic!Nobody
<1> QED
  BY <1>1, <1>2, <1>3, TablesKept DEF Atomic!Ask

\* A request to the rbac routes, its check and its handler in transactions of
\* their own, is a request that an abstract organization checks as it serves it.
THEOREM AccessIsAtomic == Spec => ImplementsAccess
<1>1. Init => Atomic!AInit
  <2> SUFFICES ASSUME Init PROVE Atomic!AInit
    OBVIOUS
  <2>1. \A o \in Orgs : CatalogOf(o) = {}
    BY DistinctAssumption DEF Init, CatalogOf, RolesOf, NoRole
  <2>2. \A u \in Users : NamesHeld(u) = {}
    BY DEF Init, NamesHeld, HeldBy
  <2>3. AbstractAsks = [r \in Requests |-> Atomic!Nobody]
    BY DEF Init, AbstractAsks, AskOf, IdleRequest, Atomic!Nobody
  <2> QED
    BY <2>1, <2>2, <2>3 DEF Init, Atomic!AInit, AbstractCatalog, AbstractHolds
<1>2. IInv /\ [Next]_vars => [Atomic!ANext]_(Atomic!avars)
  <2> SUFFICES ASSUME IInv, [Next]_vars PROVE Atomic!ANext \/ UNCHANGED Atomic!avars
    OBVIOUS
  <2>1. CASE \E o \in Orgs : RegisterOrganization(o)
    BY <2>1, RegistersIsEstablish DEF Atomic!ANext
  <2>2. CASE \E u \in Users, o \in Orgs : Join(u, o)
    BY <2>2, JoinIsEnter, SameRoles DEF Atomic!ANext
  <2>3. CASE \E r \in Requests, u \in Users, route \in Routes : RequirePermission(r, u, route)
    BY <2>3, PermissionIsAsk DEF Atomic!ANext
  <2>4. ASSUME NEW r \in Requests, CreateRole(r) PROVE Atomic!ANext
    <3>1. PICK o \in Orgs : o = req[r].org
      BY <2>4, CallerEmpowered DEF CreateRole
    <3>2. CASE \E n \in RoleNames, asked \in Asked : InsertRole(o, n, asked)
      BY <2>4, <3>1, <3>2, InsertIsDefine DEF Atomic!ANext
    <3>3. CASE UNCHANGED roles
      BY <2>4, <3>3, TablesKept, FinishAnswers DEF CreateRole, Atomic!ANext, Atomic!Pass
    <3> QED
      BY <2>4, <3>1, <3>2, <3>3 DEF CreateRole
  <2>5. ASSUME NEW r \in Requests, AssignRoleToUser(r) PROVE Atomic!ANext
    <3>1. PICK o \in Orgs : o = req[r].org
      BY <2>5, CallerEmpowered DEF AssignRoleToUser
    <3>2. CASE \E v \in Users, i \in Grants : InsertUserRole(o, v, i)
      <4>1. PICK v \in Users, i \in RoleIds : InsertUserRole(o, v, i)
        BY <3>2, InputAssumption
      <4> QED
        BY <2>5, <3>1, <4>1, AssignIsGive, SameRoles DEF Atomic!ANext
    <3>3. CASE UNCHANGED userRoles
      BY <2>5, <3>3, TablesKept, FinishAnswers DEF AssignRoleToUser, Atomic!ANext, Atomic!Pass
    <3> QED
      BY <2>5, <3>1, <3>2, <3>3 DEF AssignRoleToUser
  <2>6. CASE \E r \in Requests : WriteBilling(r)
    BY <2>6, TablesKept, FinishAnswers DEF WriteBilling, Atomic!ANext, Atomic!Pass
  <2>7. CASE UNCHANGED vars
    BY <2>7, TablesKept, AsksKept DEF vars, Atomic!avars
  <2> QED
    BY <2>1, <2>2, <2>3, <2>4, <2>5, <2>6, <2>7 DEF Next
<1> QED
  BY <1>1, <1>2, Invariance, PTL DEF Spec, ImplementsAccess, Atomic!ASpec

\* The joins by ids find what the names say, since names are unique.
LEMMA CheckedIsPower ==
    ASSUME IInv, NEW u \in Users, NEW p, InTenant(u)
    PROVE  HasPermission(member[u], u, p) <=> p \in Atomic!Powers(u)
<1>1. member[u] \in Orgs
  BY DEF IInv, TypeOK, InTenant
<1>2. ASSUME HasPermission(member[u], u, p) PROVE p \in Atomic!Powers(u)
  BY <1>1, <1>2, CheckedIsEntitled, EntitledIsPower DEF IInv
<1>3. ASSUME p \in Atomic!Powers(u) PROVE HasPermission(member[u], u, p)
  <2>1. PICK e \in CatalogOf(member[u]) : e.name \in NamesHeld(u) /\ p \in e.perms
    BY <1>1, <1>3 DEF Atomic!Powers, AbstractCatalog, AbstractHolds
  <2>2. PICK i \in RoleIds :
           roles[i].org = member[u] /\ roles[i].name = e.name /\ roles[i].perms = e.perms
    BY <2>1 DEF CatalogOf, RolesOf
  <2>3. PICK x \in HeldBy(u) : roles[x.role].name = e.name
    BY <2>1 DEF NamesHeld
  <2>4. x.role \in RoleIds /\ roles[x.role].org = member[u] /\ roles[x.role] # NoRole
    BY HeldRole
  <2>5. x.role = i
    BY <2>2, <2>3, <2>4 DEF IInv, CatalogStands
  <2> QED
    BY <2>1, <2>2, <2>3, <2>4, <2>5 DEF HasPermission, HeldBy
<1> QED
  BY <1>2, <1>3

\* What UserHasPermission answers for a caller is what the abstract organization
\* empowers it to, although one joins rows by ids and the other goes by names.
THEOREM CheckReadsPowers ==
    Spec => [](\A u \in Users, p \in Permissions :
                  InTenant(u) => (HasPermission(member[u], u, p) <=> p \in Atomic!Powers(u)))
<1>1. IInv => \A u \in Users, p \in Permissions :
                 InTenant(u) => (HasPermission(member[u], u, p) <=> p \in Atomic!Powers(u))
  BY CheckedIsPower
<1> QED
  BY <1>1, Invariance, PTL
=============================================================================
