---------------------------- MODULE TenantRoles ----------------------------
(***************************************************************************)
(* The roles that every organization is given when it is created           *)
(* (BootstrapDefaultRolesTx), with the permissions the migrations seed.    *)
(***************************************************************************)
CONSTANT NoOrg

Permissions == { "users.read", "users.write", "billing.read", "billing.write",
                 "audit.read", "settings.read", "settings.write" }

DefaultNames == {"owner", "admin", "member", "viewer"}

DefaultPermissions(n) ==
    CASE n = "owner"  -> Permissions
      [] n = "admin"  -> Permissions \ {"billing.write"}
      [] n = "member" -> {"users.read", "settings.read"}
      [] n = "viewer" -> {"users.read", "billing.read", "audit.read", "settings.read"}

\* "asked" is no column: the permissions the creator of the role named.
DefaultRole(o, n) ==
    [org |-> o, name |-> n, perms |-> DefaultPermissions(n), asked |-> DefaultPermissions(n)]

NoRole == [org |-> NoOrg, name |-> "none", perms |-> {}, asked |-> {}]
=============================================================================
