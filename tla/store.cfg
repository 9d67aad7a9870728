\* Two handlers, one crash or I/O error, no repo_org.json at the start.
CONSTANTS
    None = None
    NL = NL
    Absent = Absent
    Unloaded = Unloaded
    h1 = h1
    h2 = h2
    r1 = r1
    r2 = r2
    orgA = orgA
    orgB = orgB
    userA = userA
    userB = userB
    i1 = i1
    i2 = i2
    i3 = i3
    Handlers = {h1, h2}
    Repos = {r1, r2}
    Orgs = {orgA, orgB}
    Users = {userA, userB}
    Ids = {i1, i2, i3}
    Events <- MCEvents
    Requests <- MixedRequests
    Members <- MCMembers
    StartsWithFile = FALSE
    MaxFaults = 1
SPECIFICATION FairSpec
INVARIANTS
    TypeOK
    AckedDurable
    BindingsJustified
    UserAppendsToBoundRepo
PROPERTIES
    EveryRequestAnswered
    FirstBindingWins
