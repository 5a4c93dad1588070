-------------------------------- MODULE Rbac --------------------------------
(***************************************************************************)
(* Roles and permissions of the members of organizations.                  *)
(*                                                                         *)
(* A protected route resolves the caller and checks one permission in      *)
(* transactions of their own (ResolveMembershipMiddleware,                 *)
(* RequirePermission); its handler runs later and does not check again.    *)
(* The handlers that create and assign roles change what later checks see. *)
(*                                                                         *)
(* Organizations and members arrive from provisioning, whose module        *)
(* (Provisioning) models how and implements this one; here each arrives in *)
(* one step.  What follows a commit (the audit record, the answer) changes *)
(* no table of this module and ends the request.                           *)
(***************************************************************************)
EXTENDS TenantRoles

CONSTANTS
    Orgs,        \* organizations
    Users,       \* memberships (users.id); each is of one organization
    Ids,         \* role ids generated for created roles
    RoleNames,   \* names that requests to POST /roles carry
    Asked,       \* sets of permission names that requests to POST /roles carry
    Grants,      \* role ids that requests to POST /users/{id}/roles carry
    JoinRoles,   \* roles that invitations name
    Requests,    \* slots for concurrent requests to protected routes
    NoUser

\* The role "n" of organization o stands for the id it was given.
RoleIds == (Orgs \X DefaultNames) \cup Ids

ASSUME InputAssumption ==
    /\ Grants \subseteq RoleIds
    /\ JoinRoles \subseteq DefaultNames

ASSUME DistinctAssumption ==
    /\ Ids \cap (Orgs \X DefaultNames) = {}
    /\ NoOrg \notin Orgs
    /\ NoUser \notin Users

VARIABLES
    member,      \* user -> the organization of its row in users
    roles,       \* role id -> its row in roles with those of role_permissions
    userRoles,   \* rows [org, user, role] of user_roles
    req          \* slot -> the request it serves

vars == <<member, roles, userRoles, req>>

-----------------------------------------------------------------------------
\* "asked" is no column: the permissions the creator of the role named.
Role == [org: Orgs, name: RoleNames \cup DefaultNames,
         perms: SUBSET Permissions, asked: SUBSET Permissions]

\* What a slot does: it is idle, or its caller passed the check and the
\* handler of this route runs next.
Routes == {"createRole", "assignRole", "writeBilling"}

\* The permission that the route requires.
Required ==
    [ createRole |-> "settings.write", assignRole |-> "settings.write",
      writeBilling |-> "billing.write" ]

IdleRequest == [at |-> "idle", user |-> NoUser, org |-> NoOrg]

\* The tables and the requests have the types of their columns; a role has no
\* permission but the seeded ones.
TypeOK ==
    /\ member \in [Users -> Orgs \cup {NoOrg}]
    /\ roles \in [RoleIds -> Role \cup {NoRole}]
    /\ userRoles \subseteq [org: Orgs, user: Users, role: RoleIds]
    /\ req \in [Requests -> {IdleRequest} \cup [at: Routes, user: Users, org: Orgs]]

Init ==
    /\ member = [u \in Users |-> NoOrg]
    /\ roles = [i \in RoleIds |-> NoRole]
    /\ userRoles = {}
    /\ req = [r \in Requests |-> IdleRequest]

-----------------------------------------------------------------------------
(* Organizations and members, as provisioning commits them *)

\* An organization is inserted with its default roles in one transaction.
RegisterOrganization(o) ==
    /\ roles[<<o, "owner">>] = NoRole
    /\ roles' = [i \in RoleIds |->
                    IF i \in {o} \X DefaultNames THEN DefaultRole(o, i[2]) ELSE roles[i]]
    /\ UNCHANGED <<member, userRoles, req>>

\* The first member is the owner; the others come by an invitation, or are
\* registered (POST /users) without a role.
JoinsWith(o) ==
    IF \E v \in Users : member[v] = o
    THEN { {[org |-> o, role |-> <<o, n>>]} : n \in JoinRoles } \cup {{}}
    ELSE { {[org |-> o, role |-> <<o, "owner">>]} }

Join(u, o) ==
    /\ member[u] = NoOrg
    /\ roles[<<o, "owner">>] # NoRole
    /\ member' = [member EXCEPT ![u] = o]
    /\ \E held \in JoinsWith(o) :
          userRoles' = userRoles \cup {[org |-> h.org, user |-> u, role |-> h.role] : h \in held}
    /\ UNCHANGED <<roles, req>>

-----------------------------------------------------------------------------
(* The check of a protected route *)

\* Mutation: user_roles is joined on the user alone.
HasPermissionOfAnyTenant(o, u, p) ==
    \E x \in userRoles :
        /\ member[u] = o
        /\ x.user = u
        /\ roles[x.role].org = x.org /\ p \in roles[x.role].perms

\* UserHasPermission: the joins of users, user_roles and role_permissions.
HasPermission(o, u, p) ==
    \E x \in userRoles :
        /\ member[u] = o
        /\ x.user = u /\ x.org = member[u]
        /\ roles[x.role].org = x.org /\ p \in roles[x.role].perms

\* TenantContext passes a caller whose membership was found.
InTenant(u) == member[u] # NoOrg

\* The caller is resolved and permitted; what the request carries on is read
\* here and never again.  Anybody else is answered 401, 403 or 500.
RequirePermission(r, u, route) ==
    /\ req[r] = IdleRequest
    /\ InTenant(u)
    /\ HasPermission(member[u], u, Required[route])
    /\ req' = [req EXCEPT ![r] = [at |-> route, user |-> u, org |-> member[u]]]
    /\ UNCHANGED <<member, roles, userRoles>>

\* The request ends: it is answered, or its process stops.
Finish(r) == req' = [req EXCEPT ![r] = IdleRequest]

-----------------------------------------------------------------------------
(* Handlers *)

\* The rows of permissions that the names in a request select.
KnownPermissions(asked) == asked \cap Permissions

\* Mutation: the number of inserted rows is not compared.
AnyKnown(asked) == TRUE

\* As many rows inserted as names given, or the transaction is rolled back.
AllKnown(asked) == KnownPermissions(asked) = asked

NameTaken(o, n) == \E i \in RoleIds : roles[i] # NoRole /\ roles[i].org = o /\ roles[i].name = n

\* The row insertRole inserts, with the permissions assignRolePermissions adds to it.
NewRole(o, n, asked) ==
    [org |-> o, name |-> n, perms |-> KnownPermissions(asked), asked |-> asked]

\* Mutation: ON CONFLICT DO UPDATE, with the permissions of the new request.
UpsertRole(o, n, asked) ==
    /\ AllKnown(asked)
    /\ \E i \in RoleIds :
          /\ \/ ~NameTaken(o, n) /\ i \in Ids /\ roles[i] = NoRole
             \/ roles[i].org = o /\ roles[i].name = n
          /\ roles' = [roles EXCEPT ![i] = NewRole(o, n, asked)]

\* insertRole and assignRolePermissions, one transaction.
InsertRole(o, n, asked) ==
    /\ ~NameTaken(o, n)
    /\ AllKnown(asked)
    /\ \E i \in Ids :
          /\ roles[i] = NoRole
          /\ roles' = [roles EXCEPT ![i] = NewRole(o, n, asked)]

\* POST /roles.  An empty name, a name that is taken (a unique violation that
\* mapConstraintError does not recognize), an unknown permission and a failed
\* call change nothing.
CreateRole(r) ==
    /\ req[r].at = "createRole"
    /\ \/ \E n \in RoleNames, asked \in Asked : InsertRole(req[r].org, n, asked)
       \/ UNCHANGED roles
    /\ Finish(r)
    /\ UNCHANGED <<member, userRoles>>

\* Mutation: the foreign key is on the id of the role alone.
AssignableAcross(o, u, i) == member[u] # NoOrg /\ roles[i] # NoRole

\* The foreign keys of user_roles: the user may be of any organization, the
\* role must be of the organization of the row.
Assignable(o, u, i) ==
    /\ member[u] # NoOrg
    /\ roles[i] # NoRole /\ roles[i].org = o

InsertUserRole(o, u, i) ==
    /\ Assignable(o, u, i)
    /\ userRoles' = userRoles \cup {[org |-> o, user |-> u, role |-> i]}

\* POST /users/{id}/roles.  A row that is there, a key that refers to nothing
\* and a failed call change nothing.
AssignRoleToUser(r) ==
    /\ req[r].at = "assignRole"
    /\ \/ \E u \in Users, i \in Grants : InsertUserRole(req[r].org, u, i)
       \/ UNCHANGED userRoles
    /\ Finish(r)
    /\ UNCHANGED <<member, roles>>

\* The billing routes write other tables (module Billing).
WriteBilling(r) ==
    /\ req[r].at = "writeBilling"
    /\ Finish(r)
    /\ UNCHANGED <<member, roles, userRoles>>

-----------------------------------------------------------------------------
Next ==
    \/ \E o \in Orgs : RegisterOrganization(o)
    \/ \E u \in Users, o \in Orgs : Join(u, o)
    \/ \E r \in Requests :
          \/ \E u \in Users, route \in Routes : RequirePermission(r, u, route)
          \/ CreateRole(r)
          \/ AssignRoleToUser(r)
          \/ WriteBilling(r)

Spec == Init /\ [][Next]_vars

-----------------------------------------------------------------------------
(* Properties *)

\* An assignment is of somebody who is a member somewhere, and of a role of
\* the organization it is recorded in, although AssignRoleToUser looks at
\* neither and callers of several organizations assign at once.
AssignmentsStayInTenant ==
    \A x \in userRoles : member[x.user] # NoOrg /\ roles[x.role].org = x.org

\* Member u of o is given p by a role of o that is assigned to it within o.
Entitled(o, u, p) ==
    /\ member[u] = o
    /\ \E i \in RoleIds :
          /\ [org |-> o, user |-> u, role |-> i] \in userRoles
          /\ roles[i].org = o /\ p \in roles[i].perms

\* The check and the handler are two transactions, and yet a handler only runs
\* for a caller who is entitled at that moment, by the caller's own
\* organization: no operation on the routes withdraws what a check has seen,
\* and what other organizations assign to the caller does not count.
PermittedStillHolds ==
    \A r \in Requests :
        req[r].at \in Routes => Entitled(req[r].org, req[r].user, Required[req[r].at])

\* No sequence of role changes locks an organization out of itself: one of its
\* members keeps every permission.
OwnersKeepControl ==
    \A o \in Orgs :
        (\E v \in Users : member[v] = o) =>
            \E u \in Users : \A p \in Permissions : Entitled(o, u, p)

\* A role that is there has each permission that its creator named and no
\* other, although the role is inserted before the names are looked up.
RolesAreWhole ==
    \A i \in RoleIds : roles[i].perms = roles[i].asked

-----------------------------------------------------------------------------
(* The abstract specification *)

RolesOf(o) == {i \in RoleIds : roles[i].org = o}

CatalogOf(o) == {[name |-> roles[i].name, perms |-> roles[i].perms] : i \in RolesOf(o)}

\* What an organization assigned to users of others counts nowhere.
HeldBy(u) == {x \in userRoles : x.user = u /\ x.org = member[u]}

NamesHeld(u) == {roles[x.role].name : x \in HeldBy(u)}

AbstractCatalog == [o \in Orgs |-> CatalogOf(o)]
AbstractHolds == [u \in Users |-> NamesHeld(u)]

AskOf(r) == [user |-> req[r].user, route |-> req[r].at]
AbstractAsks == [r \in Requests |-> AskOf(r)]

Atomic == INSTANCE Access
          WITH catalog <- AbstractCatalog, holds <- AbstractHolds, asks <- AbstractAsks

\* A request and its handler, two transactions with any number of others between,
\* are what they would be if the handler checked its caller as it runs, in the
\* caller's organization; rows across organizations change nothing for anybody.
ImplementsAccess == Atomic!ASpec

-----------------------------------------------------------------------------
(* The inductive invariant *)

\* Default roles come together (BootstrapDefaultRolesTx), are never changed, and keep a member as owner.
DefaultsStand ==
    \A o \in Orgs :
        /\ \A n \in DefaultNames :
              roles[<<o, n>>] = IF roles[<<o, "owner">>] = NoRole THEN NoRole ELSE DefaultRole(o, n)
        /\ (\E v \in Users : member[v] = o) =>
              /\ roles[<<o, "owner">>] # NoRole
              /\ \E u \in Users :
                    member[u] = o /\ [org |-> o, user |-> u, role |-> <<o, "owner">>] \in userRoles

\* A role is of an organization that has its default roles, and the only one
\* of its name there (the unique constraint of roles).
CatalogStands ==
    \A i \in RoleIds :
        roles[i] # NoRole =>
            /\ roles[<<roles[i].org, "owner">>] # NoRole
            /\ \A j \in RoleIds :
                  roles[j].org = roles[i].org /\ roles[j].name = roles[i].name => j = i

\* What roles, assignments and checked requests keep of each other, step by step.
IInv ==
    /\ TypeOK
    /\ AssignmentsStayInTenant
    /\ PermittedStillHolds
    /\ RolesAreWhole
    /\ DefaultsStand
    /\ CatalogStands

=============================================================================
