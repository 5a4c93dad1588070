SPECIFICATION Spec
CONSTANTS
    o1 = o1
    o2 = o2
    i1 = i1
    i2 = i2
    Orgs <- TwoOrgs
    Ids <- TwoIds
    Grants <- GrantedIds
    Asked <- AskedSets
    Users = {u1, u2, u3}
    RoleNames = {"support", "owner"}
    JoinRoles = {"viewer", "admin"}
    Requests = {r1, r2}
    NoOrg = NoOrg
    NoUser = NoUser
SYMMETRY Symmetry
INVARIANTS
    AssignmentsStayInTenant
    PermittedStillHolds
    OwnersKeepControl
    IInv
PROPERTY
    ImplementsAccess
