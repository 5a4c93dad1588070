SPECIFICATION Spec
CONSTANTS
    s1 = s1
    s2 = s2
    s3 = s3
    e1 = e1
    e2 = e2
    e3 = e3
    Subjects <- People
    Emails <- Addresses
    Accounts <- MovedAccounts
    Registrants <- ThirdPerson
    Invitees <- MovedEmail
    Orgs = {o1, o2}
    Tokens = {t1}
    Requests = {r1, r2}
    RoleArgs = {"member"}
    NoSubject = NoSubject
    NoEmail = NoEmail
    NoOrg = NoOrg
    NoToken = NoToken
SYMMETRY Symmetry
INVARIANTS
    OneMemberPerInvitation
    MembersAreKnown
    IInv
