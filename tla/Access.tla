------------------------------- MODULE Access -------------------------------
(***************************************************************************)
(* What the roles of an organization promise, as if the check of a request *)
(* were part of what it does: any member may ask; as a role is defined or  *)
(* given, who asked for it is empowered to by its own organization, the    *)
(* only one the step concerns.  A role is known by its name, of which an   *)
(* organization has one, and keeps the permissions it was defined with;    *)
(* nobody loses a role.  Rbac implements it.                               *)
(***************************************************************************)
EXTENDS TenantRoles

CONSTANTS
    Orgs, Users,
    RoleNames,   \* names that roles are defined by
    Asked,       \* sets of permission names that roles are defined with
    JoinRoles,   \* default roles that newcomers are given
    Routes,      \* what can be asked for
    Requests, NoUser

VARIABLES
    member,      \* user -> organization
    catalog,     \* organization -> its roles, each a name and permissions
    holds,       \* user -> the names of its roles in its organization
    asks         \* slot -> who asks, and for what

avars == <<member, catalog, holds, asks>>

Nobody == [user |-> NoUser, route |-> "idle"]

Entry(n, perms) == [name |-> n, perms |-> perms]

\* What u may do, in its own organization.
Powers(u) == UNION {e.perms : e \in {d \in catalog[member[u]] : d.name \in holds[u]}}

Empowered(u) == member[u] # NoOrg /\ "settings.write" \in Powers(u)

AInit ==
    /\ member = [u \in Users |-> NoOrg]
    /\ catalog = [o \in Orgs |-> {}]
    /\ holds = [u \in Users |-> {}]
    /\ asks = [r \in Requests |-> Nobody]

\* An organization comes into being with its default roles.
Establish(o) ==
    /\ catalog[o] = {}
    /\ catalog' = [catalog EXCEPT ![o] = {Entry(n, DefaultPermissions(n)) : n \in DefaultNames}]
    /\ UNCHANGED <<member, holds, asks>>

\* The first member of an organization is its owner; others come with one of
\* the roles for newcomers or without a role.
Enter(u, o, names) ==
    /\ member[u] = NoOrg
    /\ catalog[o] # {}
    /\ IF \E v \in Users : member[v] = o
       THEN names = {} \/ \E n \in JoinRoles : names = {n}
       ELSE names = {"owner"}
    /\ member' = [member EXCEPT ![u] = o]
    /\ holds' = [holds EXCEPT ![u] = names]
    /\ UNCHANGED <<catalog, asks>>

\* A member asks for something; nobody looks yet whether it may.
Ask(r, u, route) ==
    /\ asks[r] = Nobody
    /\ member[u] # NoOrg
    /\ asks' = [asks EXCEPT ![r] = [user |-> u, route |-> route]]
    /\ UNCHANGED <<member, catalog, holds>>

Answer(r) == asks' = [asks EXCEPT ![r] = Nobody]

\* Who asks adds a role, under a new name, to its organization.
Define(r, n, perms) ==
    LET u == asks[r].user IN
    /\ asks[r].route = "createRole"
    /\ Empowered(u)
    /\ perms \subseteq Permissions
    /\ \A e \in catalog[member[u]] : e.name # n
    /\ catalog' = [catalog EXCEPT ![member[u]] = @ \cup {Entry(n, perms)}]
    /\ Answer(r)
    /\ UNCHANGED <<member, holds>>

\* Who asks gives a role of its organization to a member of its organization.
Give(r, v, n) ==
    LET u == asks[r].user IN
    /\ asks[r].route = "assignRole"
    /\ Empowered(u)
    /\ member[v] = member[u]
    /\ \E e \in catalog[member[u]] : e.name = n
    /\ holds' = [holds EXCEPT ![v] = @ \cup {n}]
    /\ Answer(r)
    /\ UNCHANGED <<member, catalog>>

\* A request is answered, and that is all.
Pass(r) == Answer(r) /\ UNCHANGED <<member, catalog, holds>>

ANext ==
    \/ \E o \in Orgs : Establish(o)
    \/ \E u \in Users, o \in Orgs, names \in SUBSET DefaultNames : Enter(u, o, names)
    \/ \E r \in Requests :
          \/ \E u \in Users, route \in Routes : Ask(r, u, route)
          \/ \E n \in RoleNames, perms \in Asked : Define(r, n, perms)
          \/ \E v \in Users, n \in RoleNames \cup DefaultNames : Give(r, v, n)
          \/ Pass(r)

ASpec == AInit /\ [][ANext]_avars
=============================================================================
