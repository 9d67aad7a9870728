\* Two sessions, one file, at most three records; MaxWork weighs all that happens.
\* Agents and clients may stop.
CHECK_DEADLOCK FALSE
SPECIFICATION Spec
CONSTANTS
    None = None
    Sessions = {1, 2}
    SourceOf <- MCSourceOf
    RepoOf <- MCRepoOf
    LogPath <- MCLogPath
    ShortLines <- MCShortLines
    Records <- MCRecords
    PlanFiles <- MCPlanFiles
    Requests <- MCRequests
    RepoAt <- MCRepoAt
    DefaultRepo <- MCRepo
    MaxRecords = 3
    MaxWork = 6
INVARIANTS
    CallsKeptOnce
    IndexSound
    OneAnswer
PROPERTIES
    StoredNeverShrinks
    AnswerHonest
