\* One command at a time, two client processes, two server starts.
CONSTANTS
    None = None
    a1 = a1
    o1 = o1
    r1 = r1
    Clients = {c1, c2}
    Users = {u1}
    Ttl = 1
    Skew = 0
    MaxMints = 3
    MaxTime = 1
    MaxFaults = 1
    Admins = {adm1}
    Labels = {l1, l2}
    Issues <- MCIssues
    Orgs = {o1}
    Repos = {r1}
    Actors = {a1, a2}
    JwtModes = {TRUE, FALSE}
    MaxSecrets = 2
    MaxStarts = 2
    MaxTokenOps = 2
    MaxOps = 4
SPECIFICATION Spec
CONSTRAINT Bounded
SYMMETRY Symmetry
INVARIANTS
    StoredTokenUsable
    RevokedStaysOut
    IssuedSurvive
    AcceptedWithinIssue
    AuditWithinIssue
PROPERTIES
    RemovedMemberStaysOut
CHECK_DEADLOCK FALSE
