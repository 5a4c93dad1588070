SPECIFICATION Spec
CONSTANTS
    Subjects = {s1, s2}
    Emails = {e1, e2}
    Accounts <- AllPairs
    Registrants <- AllPairs
    Invitees = {e1, e2}
    Orgs = {o1, o2}
    Tokens = {t1}
    Requests = {r1, r2}
    RoleArgs = {"member", "guest"}
    NoSubject = NoSubject
    NoEmail = NoEmail
    NoOrg = NoOrg
    NoToken = NoToken
SYMMETRY Symmetry
INVARIANTS
    MembersHoldTheirRole
    TenantsHaveOwners
    AnswersAgree
PROPERTIES
    ImplementsTenancy
    ImplementsRbac
