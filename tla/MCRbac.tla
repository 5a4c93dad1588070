------------------------------- MODULE MCRbac -------------------------------
(* Rbac with two organizations, of which the first assigns its admin role. *)
EXTENDS Rbac, TLC

CONSTANTS o1, o2, i1, i2

TwoOrgs == {o1, o2}
TwoIds == {i1, i2}

\* A created role, and a default role that allows to assign roles in turn.
GrantedIds == {<<o1, "admin">>, i1}

\* Permissions that exist, one that does not, and none at all.
AskedSets == { {"settings.write"}, {"users.read", "users.delete"}, {} }

Symmetry == Permutations(Users) \cup Permutations(Requests)
=============================================================================
