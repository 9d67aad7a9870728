\* Two clients on two machines, either remote, one fault.
CONSTANTS
    Absent = Absent
    c1 = c1
    c2 = c2
    m1 = m1
    m2 = m2
    r1 = r1
    r2 = r2
    s1 = s1
    s2 = s2
    Machines = {m1, m2}
    Clients = {c1, c2}
    MachineOf <- MCMachineOf
    Repo <- MCRepo
    Sessions = {s1, s2}
    OwnerOf <- MCOwnerOf
    RepoOf <- MCRepoOf
    Backends = {"server", "supabase"}
    AllRepos = TRUE
    GlobalPull = FALSE
    PageSize = 1
    Parts = 1
    MaxTime = 2
    MaxFaults = 1
SPECIFICATION FairSpec
INVARIANTS
    TypeOK
    PagesAreGapless
    DedupedAgainstLocal
    MetadataNotBehind
PROPERTIES
    KeepsPromise
    EveryEventArrives
