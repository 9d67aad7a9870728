SPECIFICATION Spec
CONSTANTS
    None = None
    s1 = s1
    s2 = s2
    a1 = a1
    Processes = {p1, p2}
    Pool <- MCPool
    MaxLoads = 3
    MaxCrashes = 1
CHECK_DEADLOCK FALSE
INVARIANTS
    LoadSeesStored
    ViewsMatchIndex
PROPERTY
    QueryCacheKept
