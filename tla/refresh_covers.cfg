\* Overlapping refreshes with faults; agents write only between refreshes.
CONSTANTS
    None = None
    p1 = p1
    p2 = p2
    rA = rA
    rB = rB
    old = old
    new = new
    s1 = s1
    s2 = s2
    Procs = {p1, p2}
    Repo <- MCRepo
    Parser <- OneParser
    Sessions = {s1, s2}
    Sources = {1}
    SourceOf <- OneSource
    Listable = {s1}
    Limit = 2
    Overlap = TRUE
    WritesDuringScan = FALSE
    MaxTime = 3
    MaxFaults = 1
SPECIFICATION Spec
INVARIANTS
    WatermarkCovers
