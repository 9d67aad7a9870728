\* Installs, uninstalls and edits by the user, for every kind of target.
CONSTANTS
    Targets = {"claude", "codex", "windsurf"}
    Builds = {b1, b2}
    MaxCommands = 3
    MaxEdits = 2
    NL = NL
    End = End
    Torn = Torn
    Nothing = Nothing
    Idle = Idle
SPECIFICATION Spec
SYMMETRY Symmetry
INVARIANT ReportsTrue
INVARIANT InstallIsExact
PROPERTY UserContentKept
CHECK_DEADLOCK FALSE
