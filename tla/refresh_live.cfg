\* Refreshes of two builds that never overlap, agents writing at any time, a
\* limit as small as each source.
CONSTANTS
    None = None
    p1 = p1
    p2 = p2
    rA = rA
    rB = rB
    old = old
    new = new
    s1 = s1
    s2 = s2
    Procs = {p1, p2}
    Repo <- MCRepo
    Parser <- MCParser
    Sessions = {s1, s2}
    Sources = {1, 2}
    SourceOf <- TwoSources
    Listable = {s1}
    Limit = 1
    Overlap = FALSE
    WritesDuringScan = TRUE
    MaxTime = 3
    MaxFaults = 0
SPECIFICATION FairSpec
INVARIANTS
    ChunksMatchRow
PROPERTIES
    EveryWriteIndexed
