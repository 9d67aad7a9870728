SPECIFICATION Spec
CONSTANTS
    None = None
    o1 = o1
    o2 = o2
    p1 = p1
    m1 = m1
    s1 = s1
    s2 = s2
    a1 = a1
    a2 = a2
    t1 = t1
    t2 = t2
    File <- Lib
    Capturers <- MCCapturers
    Pool <- MCPool
    Paths <- MCPaths
    Artifacts <- MCArtifacts
    Linked <- MCLinked
    MaxLines = 2
    MaxCommits = 2
    MaxCaptures = 2
    MaxRecorded = 5
    MaxMixed = 0
CHECK_DEADLOCK FALSE
INVARIANTS
    GraphSound
    SqliteAgrees
    OrderMovesOnlyPaths
    TimelineSound
    BlameSound
PROPERTY
    CommitBlameSurvivesDrift
