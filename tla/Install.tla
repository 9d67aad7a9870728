------------------------------ MODULE Install ------------------------------
(***************************************************************************)
(* `brick agent install | uninstall | status` (cli agent.rs, claude_hook,  *)
(* native_hook, mcp_config, skill): commands of two builds of brick edit   *)
(* the files that an agent and its user share, while the user edits them   *)
(* too.  A command reads a file, works out the new contents and replaces   *)
(* the file by a temporary one, for each of the target's files in turn; it *)
(* may fail or be killed anywhere in between.                              *)
(*                                                                         *)
(* What a file holds is abstracted to the parts that belong to the user,   *)
(* <<"user", n>>, and to brick, <<"brick", v>>, v being the build:         *)
(*   memory   markdown, as a sequence of tokens (words, newlines, markers) *)
(*   hooks    a list of entries, each a set of commands; Windsurf has one  *)
(*            list for each event, of single commands: `pre` is the event   *)
(*            brick hooks (pre_read_code), `post` stands for any other       *)
(*   servers  the MCP servers by name (Codex keeps both in config.toml)    *)
(*   skill    who wrote SKILL.md                                           *)
(***************************************************************************)
EXTENDS Integers, Sequences, FiniteSetsExt

CONSTANTS
    Targets,        \* the agents a machine may have, of AllTargets
    Builds,         \* builds of brick that are run
    MaxCommands,    \* bound: commands run
    MaxEdits,       \* bound: edits by the user
    NL, End,        \* a newline and the end marker of brick's block
    Torn,           \* a file that fs::write has emptied and not filled
    Nothing, Idle   \* no contents, no command

VARIABLES
    target,         \* the agent the commands are for
    file,           \* contents of each file
    cmd,            \* the command that runs, or Idle
    said,           \* what the last finished step reported, until the next change
    commands, edits

vars == <<target, file, cmd, said, commands, edits>>

AllTargets == {"claude", "codex", "windsurf", "gemini", "cursor", "orgii", "vscode"}

Files == {"memory", "settings", "config", "windsurf", "mcp", "skill"}

User(n) == <<"user", n>>
Brick(v) == <<"brick", v>>
IsBrick(x) == x # NL /\ x # End /\ x[1] = "brick"

Owned == {User(n) : n \in 1 .. MaxEdits} \cup {Brick(v) : v \in Builds}
HookLists ==
    {h \in [form : {"none", "list", "other"}, entries : Seq(SUBSET Owned)] :
        h.form = "none" => h.entries = <<>>}
CommandLists == {h \in HookLists : \A i \in DOMAIN h.entries : \E c \in Owned : h.entries[i] = {c}}
ServerTables == [form : {"none", "table", "other"}, names : SUBSET Owned]

\* What a file may hold.
Contents(f) ==
    CASE f = "memory" -> Seq(Owned \cup {NL, End})
      [] f = "settings" -> HookLists
      [] f = "windsurf" -> [pre : CommandLists, post : CommandLists]
      [] f = "config" -> [hooks : HookLists, servers : ServerTables]
      [] f = "mcp" -> ServerTables
      [] f = "skill" -> Owned \cup {Nothing}

ASSUME InstallAssumption ==
    /\ Targets \subseteq AllTargets
    /\ MaxCommands \in Nat /\ MaxEdits \in Nat
    /\ NL # End /\ {NL, End, Nothing} \cap Owned = {}
    /\ \A f \in Files : Torn \notin Contents(f)

NoHooks == [form |-> "none", entries |-> <<>>]
NoServers == [form |-> "none", names |-> {}]

\* What a step makes of a file: its new contents and the reported action.
To(new, says) == [new |-> new, says |-> says]

-----------------------------------------------------------------------------
(* The managed block of a memory file: start marker Brick(v), then End. *)

IsBlank(text) == \A i \in DOMAIN text : text[i] = NL

TrimEnd(text) ==
    IF IsBlank(text) THEN <<>>
    ELSE SubSeq(text, 1, Max({i \in DOMAIN text : text[i] # NL}))

\* The first start marker and the first end marker after it; <<>> when one of the two is missing.
FindBlock(text) ==
    LET starts == {i \in DOMAIN text : IsBrick(text[i])}
        ends == {i \in DOMAIN text : text[i] = End /\ i > Min(starts)}
    IN  IF starts = {} \/ ends = {} THEN <<>> ELSE <<Min(starts), Min(ends)>>

\* Mutant: the text before the block keeps its blank lines.
AppendUntrimmed(text, block) ==
    (IF IsBlank(text) THEN <<>> ELSE text \o <<NL, NL>>) \o block \o <<NL>>

AppendBlock(text, block) ==
    (IF IsBlank(text) THEN <<>> ELSE TrimEnd(text) \o <<NL, NL>>) \o block \o <<NL>>

MemoryInstall(text, v, force) ==
    LET span == FindBlock(text)
        block == <<Brick(v), End>>
    IN  IF span = <<>> THEN To(AppendBlock(text, block), "installed")
        ELSE IF ~force /\ SubSeq(text, span[1], span[2]) = block THEN To(text, "unchanged")
        ELSE To(SubSeq(text, 1, span[1] - 1) \o block \o SubSeq(text, span[2] + 1, Len(text)),
                "updated")

MemoryUninstall(text) ==
    LET span == FindBlock(text)
        blankBefore == span[1] > 2 /\ text[span[1] - 1] = NL /\ text[span[1] - 2] = NL
        newlineAfter == span[2] < Len(text) /\ text[span[2] + 1] = NL
        left == SubSeq(text, 1, span[1] - (IF blankBefore THEN 2 ELSE 1))
                    \o SubSeq(text, span[2] + (IF newlineAfter THEN 2 ELSE 1), Len(text))
    IN  IF span = <<>> THEN To(text, "absent")
        ELSE To(IF IsBlank(left) THEN <<>> ELSE left, "removed")

MemoryStatus(text, v) ==
    LET span == FindBlock(text)
    IN  To(text, IF span = <<>> THEN "absent"
                 ELSE IF SubSeq(text, span[1], span[2]) = <<Brick(v), End>> THEN "present"
                 ELSE "stale")

-----------------------------------------------------------------------------
(* Hook entries.  Form "other" is a value that is not the list brick expects. *)

HasBrick(entry) == \E c \in entry : IsBrick(c)
BrickEntries(h) == {i \in DOMAIN h.entries : HasBrick(h.entries[i])}
ForeignEntries(h) == DOMAIN h.entries \ BrickEntries(h)
HookList(entries) == [form |-> "list", entries |-> entries]

\* The elements of s at the places in S, in their order.
Only(s, S) ==
    [k \in 1 .. Cardinality(S) |-> s[CHOOSE i \in S : Cardinality({j \in S : j <= i}) = k]]

\* Mutant: brick's entry is added without looking for an older one.
PushEntry(entries, v, force) ==
    IF {Brick(v)} \in {entries[i] : i \in DOMAIN entries} THEN To(entries, "unchanged")
    ELSE To(Append(entries, {Brick(v)}), "installed")

\* Claude's settings.json: the first entry with the marker is replaced whole.
UpsertEntry(entries, v, force) ==
    LET brick == {i \in DOMAIN entries : HasBrick(entries[i])}
        first == Min(brick)
    IN  IF brick = {} THEN To(Append(entries, {Brick(v)}), "installed")
        ELSE IF ~force /\ entries[first] = {Brick(v)} THEN To(entries, "unchanged")
        ELSE To([entries EXCEPT ![first] = {Brick(v)}], "updated")

SettingsInstall(h, v, force) ==
    LET change == UpsertEntry(h.entries, v, force)
    IN  IF h.form = "other" THEN To(h, "error")
        ELSE To(IF change.says = "unchanged" THEN h ELSE HookList(change.new), change.says)

\* Containers left empty are dropped.
PruneEmpty(entries) == IF entries = <<>> THEN NoHooks ELSE HookList(entries)

\* Every entry with the marker goes, in Claude's file and in Codex's.
SettingsUninstall(h) ==
    IF h.form # "list" \/ BrickEntries(h) = {} THEN To(h, "absent")
    ELSE To(PruneEmpty(Only(h.entries, ForeignEntries(h))), "removed")
CodexUninstall(h) == SettingsUninstall(h)

SettingsStatus(h) == To(h, IF h.form = "list" /\ BrickEntries(h) # {} THEN "present" ELSE "absent")

NativeMatches(h, v) == \E i \in DOMAIN h.entries : Brick(v) \in h.entries[i]

\* Codex and Windsurf: the event's entries with the marker are dropped and a new one added.
NativeInstall(h, v, force, otherIs) ==
    LET existed == h.form = "list" /\ BrickEntries(h) # {}
    IN  IF existed /\ ~force /\ NativeMatches(h, v) THEN To(h, "unchanged")
        ELSE IF h.form = "other" /\ otherIs = "error" THEN To(h, "error")
        ELSE To(HookList(Append(IF h.form = "list" THEN Only(h.entries, ForeignEntries(h)) ELSE <<>>,
                                {Brick(v)})),
                IF existed THEN "updated" ELSE "installed")

\* A `hooks` or `hooks.PreToolUse` of another shape is replaced by an empty one.
CodexInstall(h, v, force) == NativeInstall(h, v, force, "replaced")

\* Windsurf: an entry with the marker counts under whatever event it stands, but an
\* install drops those of pre_read_code only.
ListBricks(h) == IF h.form = "list" THEN BrickEntries(h) ELSE {}
WindsurfInstall(x, v, force) ==
    LET change == NativeInstall(x.pre, v, force, "error")
    IN  To([x EXCEPT !.pre = change.new],
           IF change.says = "installed" /\ ListBricks(x.post) # {} THEN "updated" ELSE change.says)

\* From all lists the entries go, and with them every list that is empty then, the
\* user's empty ones too.
LeftIn(h) == IF h.form = "list" THEN PruneEmpty(Only(h.entries, ForeignEntries(h))) ELSE h
WindsurfUninstall(x) ==
    IF ListBricks(x.pre) = {} /\ ListBricks(x.post) = {} THEN To(x, "absent")
    ELSE To([pre |-> LeftIn(x.pre), post |-> LeftIn(x.post)], "removed")

NativeStatus(h, v) ==
    To(h, IF h.form # "list" \/ BrickEntries(h) = {} THEN "absent"
          ELSE IF NativeMatches(h, v) THEN "present" ELSE "updated")
WindsurfStatus(x, v) ==
    LET here == NativeStatus(x.pre, v)
    IN  To(x, IF here.says = "absent" /\ ListBricks(x.post) # {} THEN "updated" ELSE here.says)

-----------------------------------------------------------------------------
(* MCP servers, in JSON and in Codex's TOML. *)

BrickServers(s) == {n \in s.names : IsBrick(n)}
WithServer(s, v) == [form |-> "table", names |-> (s.names \ BrickServers(s)) \cup {Brick(v)}]

JsonInstall(s, v, force) ==
    IF s.form = "other" THEN To(s, "error")
    ELSE IF ~force /\ BrickServers(s) = {Brick(v)} THEN To(s, "unchanged")
    ELSE To(WithServer(s, v), IF BrickServers(s) = {} THEN "installed" ELSE "updated")

JsonUninstall(s) ==
    IF s.form # "table" \/ BrickServers(s) = {} THEN To(s, "absent")
    ELSE To([s EXCEPT !.names = @ \ BrickServers(s)], "removed")

\* `mcp_servers` that is not a table, an inline table included, is replaced by a new one.
TomlInstall(s, v, force) ==
    IF s.form = "other" THEN To(WithServer(NoServers, v), "installed")
    ELSE JsonInstall(s, v, force)

TomlUninstall(s) ==
    LET done == JsonUninstall(s)
    IN  IF done.says = "removed" /\ done.new.names = {} THEN To(NoServers, "removed") ELSE done

ServersStatus(s, v) ==
    To(s, IF s.form # "table" \/ BrickServers(s) = {} THEN "absent"
          ELSE IF BrickServers(s) = {Brick(v)} THEN "present" ELSE "updated")

-----------------------------------------------------------------------------
(* The skill file.  A file without brick's marker counts as present. *)

Classify(s, v) == IF IsBrick(s) /\ s # Brick(v) THEN "stale" ELSE "present"

SkillInstall(s, v, force) ==
    IF s = Nothing THEN To(Brick(v), "installed")
    ELSE IF Classify(s, v) = "present" /\ ~force THEN To(s, "unchanged")
    ELSE To(Brick(v), "updated")

SkillUninstall(s) == IF s = Nothing THEN To(s, "absent") ELSE To(Nothing, "removed")

SkillStatus(s, v) == To(s, IF s = Nothing THEN "absent" ELSE Classify(s, v))

-----------------------------------------------------------------------------
(* Commands. *)

\* The steps of a command for a target, --global: memory file, hooks, MCP config, skill.
StepsOf(t) ==
    CASE t = "claude" -> <<"memory", "settings", "mcp", "skill">>
      [] t = "codex" -> <<"memory", "codex_hooks", "codex_mcp", "skill">>
      [] t = "windsurf" -> <<"windsurf", "mcp", "skill">>
      [] t = "gemini" -> <<"memory", "mcp", "skill">>
      [] t \in {"cursor", "orgii"} -> <<"mcp", "skill">>
      [] t = "vscode" -> <<"mcp">>

FileOf(step) == IF step \in {"codex_hooks", "codex_mcp"} THEN "config" ELSE step

\* The part of its file that a step works on, and the file with that part changed.
Part(step, x) == CASE step = "codex_hooks" -> x.hooks [] step = "codex_mcp" -> x.servers [] OTHER -> x
WithPart(step, x, part) ==
    CASE step = "codex_hooks" -> [x EXCEPT !.hooks = part]
      [] step = "codex_mcp" -> [x EXCEPT !.servers = part]
      [] OTHER -> part

InstallStep(step, x, v, force) ==
    CASE step = "memory" -> MemoryInstall(x, v, force)
      [] step = "settings" -> SettingsInstall(x, v, force)
      [] step = "codex_hooks" -> CodexInstall(x, v, force)
      [] step = "windsurf" -> WindsurfInstall(x, v, force)
      [] step = "mcp" -> JsonInstall(x, v, force)
      [] step = "codex_mcp" -> TomlInstall(x, v, force)
      [] step = "skill" -> SkillInstall(x, v, force)

UninstallStep(step, x) ==
    CASE step = "memory" -> MemoryUninstall(x)
      [] step = "settings" -> SettingsUninstall(x)
      [] step = "codex_hooks" -> CodexUninstall(x)
      [] step = "windsurf" -> WindsurfUninstall(x)
      [] step = "mcp" -> JsonUninstall(x)
      [] step = "codex_mcp" -> TomlUninstall(x)
      [] step = "skill" -> SkillUninstall(x)

StatusStep(step, x, v) ==
    CASE step = "memory" -> MemoryStatus(x, v)
      [] step = "settings" -> SettingsStatus(x)
      [] step = "codex_hooks" -> NativeStatus(x, v)
      [] step = "windsurf" -> WindsurfStatus(x, v)
      [] step \in {"mcp", "codex_mcp"} -> ServersStatus(x, v)
      [] step = "skill" -> SkillStatus(x, v)

Outcome(c, step, x) ==
    CASE c.op = "install" -> InstallStep(step, x, c.build, c.force)
      [] c.op = "uninstall" -> UninstallStep(step, x)
      [] c.op = "status" -> StatusStep(step, x, c.build)

Init ==
    /\ target \in Targets
    /\ file = [f \in Files |->
                CASE f = "memory" -> <<>> [] f = "skill" -> Nothing [] f = "mcp" -> NoServers
                  [] f = "config" -> [hooks |-> NoHooks, servers |-> NoServers]
                  [] f = "windsurf" -> [pre |-> NoHooks, post |-> NoHooks]
                  [] OTHER -> NoHooks]
    /\ cmd = Idle /\ said = Nothing
    /\ commands = 0 /\ edits = 0

Start(op, v, force) ==
    /\ cmd = Idle /\ commands < MaxCommands
    /\ commands' = commands + 1
    /\ cmd' = [op |-> op, build |-> v, force |-> force, todo |-> StepsOf(target),
               pc |-> "read", seen |-> Nothing, new |-> Nothing, tmp |-> Nothing, says |-> ""]
    /\ said' = Nothing
    /\ UNCHANGED <<target, file, edits>>

Running(pc) == cmd # Idle /\ cmd.pc = pc
Current == Head(cmd.todo)
CurrentFile == FileOf(Current)

\* On to the next file, and to the end of the command after the last.
Proceed == cmd' = IF Len(cmd.todo) = 1 THEN Idle
                  ELSE [cmd EXCEPT !.todo = Tail(@), !.pc = "read", !.seen = Nothing,
                                   !.new = Nothing, !.tmp = Nothing, !.says = ""]

Report(says) ==
    /\ said' = [step |-> Current, says |-> says, op |-> cmd.op, build |-> cmd.build]
    /\ Proceed

\* The file is read and the new contents worked out; most reports need no write.
Read ==
    /\ Running("read")
    /\ LET seen == file[CurrentFile]
           step == Outcome(cmd, Current, Part(Current, seen))
       IN  IF step.says \in {"installed", "removed"} \/ (step.says = "updated" /\ cmd.op = "install")
           THEN /\ cmd' = [cmd EXCEPT !.pc = "write", !.seen = seen,
                                      !.new = WithPart(Current, seen, step.new),
                                      !.says = step.says]
                /\ UNCHANGED said
           ELSE Report(step.says)
    /\ UNCHANGED <<target, file, commands, edits>>

\* Mutant: the file is written in place.
StageInPlace ==
    /\ Running("write") /\ ~(Current = "skill" /\ cmd.new = Nothing)
    /\ cmd' = [cmd EXCEPT !.pc = "fill", !.tmp = Torn]
    /\ file' = [file EXCEPT ![CurrentFile] = Torn]
    /\ UNCHANGED <<target, said, commands, edits>>

\* fs::write first empties the temporary file, so that what an earlier command left in
\* it does not matter and cmd.tmp is the command's own.
Stage ==
    /\ Running("write") /\ ~(Current = "skill" /\ cmd.new = Nothing)
    /\ cmd' = [cmd EXCEPT !.pc = "fill", !.tmp = Torn]
    /\ UNCHANGED <<target, file, said, commands, edits>>

Fill ==
    /\ Running("fill")
    /\ cmd' = [cmd EXCEPT !.pc = "commit", !.tmp = cmd.new]
    /\ UNCHANGED <<target, file, said, commands, edits>>

Commit ==
    /\ Running("commit")
    /\ file' = [file EXCEPT ![CurrentFile] = cmd.tmp]
    /\ Report(cmd.says)
    /\ UNCHANGED <<target, commands, edits>>

\* A skill is removed, not rewritten.
Remove ==
    /\ Running("write") /\ Current = "skill" /\ cmd.new = Nothing
    /\ file' = [file EXCEPT ![CurrentFile] = Nothing]
    /\ Report(cmd.says)
    /\ UNCHANGED <<target, commands, edits>>

\* An I/O error: fatal in a memory file, reported and passed over in any other.
Fail ==
    /\ cmd # Idle
    /\ IF Current = "memory" THEN cmd' = Idle ELSE Proceed
    /\ UNCHANGED <<target, file, said, commands, edits>>

Crash ==
    /\ cmd # Idle /\ cmd' = Idle
    /\ UNCHANGED <<target, file, said, commands, edits>>

-----------------------------------------------------------------------------
(* The user.  Edit number n brings in User(n). *)

MemoryEdits(text, me) ==
    {<<me, NL>> \o text, text \o <<me, NL>>}
      \cup {SubSeq(text, 1, i - 1) \o SubSeq(text, i + 1, Len(text)) :
                i \in {j \in DOMAIN text : text[j] = End}}      \* the end marker is deleted

ListEdits(h, me) ==
    IF h.form = "other" THEN {}
    ELSE {HookList(<<{me}>> \o h.entries), HookList(Append(h.entries, {me}))}
           \cup (IF h.entries = <<>> THEN {[form |-> "other", entries |-> <<{me}>>]} ELSE {})
HookEdits(h, me) ==
    ListEdits(h, me)
      \cup {HookList([h.entries EXCEPT ![i] = @ \cup {me}]) :
                i \in IF h.form = "other" THEN {} ELSE BrickEntries(h)}
\* Brick's entry is moved to another event; an event is given an empty list.
EventEdits(x) ==
    {[pre |-> HookList(Only(x.pre.entries, DOMAIN x.pre.entries \ {i})),
      post |-> HookList(Append(x.post.entries, x.pre.entries[i]))] :
        i \in IF x.post.form = "other" THEN {} ELSE ListBricks(x.pre)}
      \cup (IF x.post.form = "none" THEN {[x EXCEPT !.post = HookList(<<>>)]} ELSE {})

ServerEdits(s, me) ==
    IF s.form = "other" THEN {}
    ELSE {[form |-> "table", names |-> s.names \cup {me}]}
           \cup (IF s.names = {} THEN {[form |-> "other", names |-> {me}]} ELSE {})

EditsOf(f, x, me) ==
    CASE f = "memory" -> MemoryEdits(x, me)
      [] f = "settings" -> HookEdits(x, me)
      [] f = "windsurf" -> {[x EXCEPT !.pre = h] : h \in ListEdits(x.pre, me)}
                              \cup {[x EXCEPT !.post = h] : h \in ListEdits(x.post, me)}
                              \cup EventEdits(x)
      [] f = "mcp" -> ServerEdits(x, me)
      [] f = "config" -> {[x EXCEPT !.hooks = h] : h \in HookEdits(x.hooks, me)}
                            \cup {[x EXCEPT !.servers = s] : s \in ServerEdits(x.servers, me)}
      [] f = "skill" -> {me}

Edit(f) ==
    /\ edits < MaxEdits /\ edits' = edits + 1
    /\ f \in {FileOf(StepsOf(target)[i]) : i \in DOMAIN StepsOf(target)}
    /\ \E x \in EditsOf(f, file[f], User(edits + 1)) : file' = [file EXCEPT ![f] = x]
    /\ said' = Nothing
    /\ UNCHANGED <<target, cmd, commands>>

Next ==
    \/ \E v \in Builds, force \in BOOLEAN : Start("install", v, force)
    \/ Start("uninstall", Nothing, FALSE)
    \/ \E v \in Builds : Start("status", v, FALSE)
    \/ Read \/ Stage \/ Fill \/ Commit \/ Remove \/ Fail \/ Crash
    \/ \E f \in Files : Edit(f)

Spec == Init /\ [][Next]_vars

-----------------------------------------------------------------------------
(* Properties. *)

\* The elements of x at the places in S are those of y at the places in T, one
\* by one and in the same order.
SameInOrder(x, S, y, T) ==
    \E f \in Bijection(S, T) :
        \A i \in S : y[f[i]] = x[i] /\ \A j \in S : i < j => f[i] < f[j]

\* The user's words, commands, servers and skill.
Words(text) == {i \in DOMAIN text : text[i] \notin {NL, End} /\ ~IsBrick(text[i])}
UsersOf(entry) == {c \in entry : ~IsBrick(c)}
UserCommands(h) == [i \in DOMAIN h.entries |-> UsersOf(h.entries[i])]
UserEntries(h) == {i \in DOMAIN h.entries : UsersOf(h.entries[i]) # {}}
UserServers(s) == {n \in s.names : ~IsBrick(n)}
UserSkill(s) == {s} \cap {User(n) : n \in 1 .. MaxEdits}

SameWords(x, y) == SameInOrder(x, Words(x), y, Words(y))
SameCommands(x, y) == SameInOrder(UserCommands(x), UserEntries(x), UserCommands(y), UserEntries(y))
SameServers(x, y) == UserServers(x) = UserServers(y)

\* Contents x and y of file f have the same of the user's.
SameForUser(f, x, y) ==
    \/ x = y
    \/ /\ Torn \notin {x, y}
       /\ CASE f = "memory" -> SameWords(x, y)
            [] f = "settings" -> SameCommands(x, y)
            [] f = "windsurf" -> SameCommands(x.pre, y.pre) /\ SameCommands(x.post, y.post)
            [] f = "config" -> SameCommands(x.hooks, y.hooks) /\ SameServers(x.servers, y.servers)
            [] f = "mcp" -> SameServers(x, y)
            [] f = "skill" -> UserSkill(x) = UserSkill(y)

\* The user has a command in an entry of brick's.
Mixed(h) == BrickEntries(h) \cap UserEntries(h) # {}

\* The memory file has a start marker without its end.
Stray(text) == \E i \in DOMAIN text : IsBrick(text[i]) /\ ~(i < Len(text) /\ text[i + 1] = End)

\* Where brick takes what is the user's for its own: text between a start marker
\* whose end the user deleted and the next block, a command the user added to brick's
\* hook entry, hooks or servers that config.toml holds in another form, and a skill
\* of that name when it is removed or forced.
Exposed(f, x) ==
    CASE f = "memory" -> Stray(x)
      [] f = "settings" -> Mixed(x)
      [] f = "config" -> Mixed(x.hooks) \/ x.hooks.form = "other" \/ x.servers.form = "other"
      [] f = "skill" -> cmd.force \/ cmd.op = "uninstall"
      [] OTHER -> FALSE

\* A command, wherever it fails or is killed, changes nothing that is the user's in any
\* file, except in the places Exposed names and when the user saved the file after the
\* command had read it ("Edits are confined to the managed region", agent.rs).
UserContentKept ==
    [][edits' = edits =>
        \A f \in Files :
            \/ SameForUser(f, file[f], file'[f])
            \/ /\ f = CurrentFile
               /\ Exposed(f, file[f]) \/ (cmd.pc # "read" /\ cmd.seen # file[f])]_vars

\* What of brick a list of entries or a part of a file holds, each with its place.
BrickCommands(h) ==
    UNION {{<<i, c>> : c \in {d \in h.entries[i] : IsBrick(d)}} : i \in BrickEntries(h)}
BrickParts(step, x) ==
    CASE step = "memory" -> {<<i, x[i]>> : i \in {j \in DOMAIN x : IsBrick(x[j])}}
      [] step \in {"settings", "codex_hooks"} -> BrickCommands(x)
      [] step = "windsurf" -> BrickCommands(x.pre)
                                \cup {<<-p[1], p[2]>> : p \in BrickCommands(x.post)}
      [] step \in {"mcp", "codex_mcp"} -> {<<0, n>> : n \in BrickServers(x)}
      [] step = "skill" -> IF x = Nothing \/ ~IsBrick(x) THEN {} ELSE {<<0, x>>}

\* Those an install answers for: not what the user moved to another event.
PartsHere(step, x) == IF step = "windsurf" THEN BrickCommands(x.pre) ELSE BrickParts(step, x)

\* What a step reports is so: after an install the file holds brick's part once and in
\* the build's own form, after an uninstall nothing of it anywhere, and a status tells
\* which (Claude's does not tell builds apart, and Windsurf's calls an entry that was
\* moved to another event outdated).  A start marker that lost its end is not a
\* block, and a skill that is the user's own passes for present.
ReportsTrue ==
    said # Nothing =>
        LET x == Part(said.step, file[FileOf(said.step)])
            parts == BrickParts(said.step, x)
            here == PartsHere(said.step, x)
            builds == {p[2] : p \in here}
        IN  \/ said.step = "memory" /\ Stray(x)
            \/ said.step = "skill" /\ x # Nothing /\ ~IsBrick(x)
            \/ said.says = "error" /\ "other" = IF said.step = "windsurf" THEN x.pre.form ELSE x.form
            \/ /\ said.op = "install"
               /\ Cardinality(here) = 1 /\ builds = {Brick(said.build)}
            \/ said.says \in {"removed", "absent"} /\ parts = {}
            \/ /\ said.op = "status" /\ parts # {} /\ Cardinality(here) <= 1
               /\ \/ said.says = "present" /\ builds = {Brick(said.build)}
                  \/ said.says \in {"stale", "updated"} /\ builds # {Brick(said.build)}
                  \/ said.says = "present" /\ said.step = "settings"

\* y is the part x again, up to the blank lines at the end of a memory file and to
\* empty containers.
SameList(h, k) == k.entries = h.entries /\ (k.form = "other" <=> h.form = "other")
GivenBack(step, x, y) ==
    CASE step = "memory" -> y = IF IsBlank(x) THEN <<>> ELSE TrimEnd(x) \o <<NL>>
      [] step \in {"settings", "codex_hooks"} -> SameList(x, y)
      [] step = "windsurf" -> SameList(x.pre, y.pre) /\ SameList(x.post, y.post)
      [] step \in {"mcp", "codex_mcp"} -> y.names = x.names /\ (y.form = "other" <=> x.form = "other")
      [] step = "skill" -> y = x

\* What is not: a skill of the user's own, which an install leaves alone and an
\* uninstall deletes (skill.rs:203-209), and hooks or servers that config.toml holds in
\* another form, which an install replaces (native_hook.rs:180-186, mcp_config.rs:229-258).
Lost(step, x) ==
    \/ step = "skill" /\ x # Nothing
    \/ step \in {"codex_hooks", "codex_mcp"} /\ x.form = "other"

\* "install is idempotent and uninstall is exact" (claude_hook.rs; "removal is the
\* inverse of append", agent.rs): whatever the files have come to hold, a second install
\* finds nothing to do; and where brick had nothing, installing and uninstalling gives
\* the part back, except in the cases Lost names, and in each of those it does not.
InstallIsExact ==
    \A i \in DOMAIN StepsOf(target), v \in Builds :
        LET step == StepsOf(target)[i]
            x == Part(step, file[FileOf(step)])
            once == InstallStep(step, x, v, FALSE)
            back == UninstallStep(step, once.new).new
        IN  \/ once.says = "error"
            \/ step = "memory" /\ Stray(x)
            \/ /\ InstallStep(step, once.new, v, FALSE).says = "unchanged"
               /\ BrickParts(step, x) = {} => (GivenBack(step, x, back) <=> ~Lost(step, x))

=============================================================================
