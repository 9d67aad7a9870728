----------------------------- MODULE Transcript -----------------------------
(***************************************************************************)
(* What brick reads out of the transcripts that coding agents keep         *)
(* (crates/core/src/sources/claude_code.rs, codex_app.rs, jsonl.rs,        *)
(* shell_edits.rs, traits.rs, activity.rs): the chunks of a session, the   *)
(* files it touched, the message that says why.                            *)
(*                                                                         *)
(* A record of a transcript is [at, role, items]; a Codex record has one   *)
(* item.  A line of text is [mark, of]: `mark` is "+" or "-" in a diff,    *)
(* "*" in the header of a patch that names the file `of`, "" elsewhere.  A *)
(* path is the sequence of its components.  A message is [blank, refs]:    *)
(* the entities it names, in order, each with the cue of the words around  *)
(* it.  A shell command is [patch, segments]: the lines of a patch it      *)
(* embeds, and its simple commands as sequences of words [w, path], where  *)
(* `path` is None unless the word looks like a path.                       *)
(***************************************************************************)
EXTENDS TraceIndex

-----------------------------------------------------------------------------
(* Files a shell command is taken to write. *)

PushPath(word) == {word.path} \ {None}
IsFlag(word) == word.w \in {"-a", "-i", "-e"}

\* The word after > or >>, unless that redirect is itself such a word.
ScanRedirects(seg) ==
    LET op[i \in DOMAIN seg] == seg[i].w \in {">", ">>"} /\ (i = 1 \/ ~op[i - 1])
    IN UNION {PushPath(seg[i]) : i \in {j \in DOMAIN seg : j > 1 /\ op[j - 1]}}

ScanCommands(seg) ==
    LET args == {i \in DOMAIN seg : i > 1 /\ ~IsFlag(seg[i])}
        inPlace == \E i \in DOMAIN seg : seg[i].w = "-i"
        last == {i \in args : \A j \in args : j <= i}
        of == CASE seg = <<>> -> {}
                [] seg[1].w \in {"tee", "touch"} -> args
                [] seg[1].w \in {"cp", "mv", "install"} -> last
                [] seg[1].w \in {"sed", "perl"} /\ inPlace -> last \cap {Len(seg)}
                [] OTHER -> {}
    IN UNION {PushPath(seg[i]) : i \in of}

PatchTargets(patch) == {patch[i].of : i \in {j \in DOMAIN patch : patch[j].mark = "*"}}

\* A command that embeds a patch is not read as shell words.
ShellEditTargets(cmd) ==
    IF cmd.patch # <<>> THEN PatchTargets(cmd.patch)
    ELSE UNION {ScanRedirects(cmd.segments[i]) \cup ScanCommands(cmd.segments[i]) :
                   i \in DOMAIN cmd.segments}

-----------------------------------------------------------------------------
(* Chunks.  `path` is the file the arguments name, `top` the text the       *)
(* arguments hold under one of the names of an edit (new_string, content,   *)
(* patch, ..), `nested` the strings elsewhere in the arguments.            *)

BlankItem == [kind |-> "other", text |-> None, call |-> None, tool |-> None, path |-> None,
              old |-> <<>>, new |-> <<>>, cmd |-> [patch |-> <<>>, segments |-> <<>>],
              out |-> <<>>]

Chunk(kind, function, n, at) ==
    [id |-> <<kind, n, None>>, kind |-> kind, function |-> function, at |-> at,
     text |-> None, path |-> None, top |-> None, nested |-> <<>>, out |-> <<>>]
TextChunk(kind, function, n, at, text) ==
    [Chunk(kind, function, n, at) EXCEPT !.text = text]

\* Claude Code puts the whole input of an edit under "payload", so that none
\* of it is at the top; Codex keeps the patch at the top and names no file.
NormalizeClaudeToolCall(c) ==
    CASE c.tool = "Bash" -> [fn |-> "run_command_line", path |-> None, top |-> None, nested |-> <<>>]
      [] c.tool \in {"Edit", "MultiEdit", "Write"} ->
           [fn |-> "edit_file_by_replace", path |-> c.path, top |-> None, nested |-> <<c.old, c.new>>]
      [] OTHER -> [fn |-> c.tool, path |-> c.path, top |-> None, nested |-> <<>>]
NormalizeCodexToolCall(c) ==
    CASE c.tool = "shell" -> [fn |-> "run_command_line", path |-> None, top |-> None, nested |-> <<>>]
      [] c.tool = "apply_patch" ->
           [fn |-> "edit_file_by_replace", path |-> None, top |-> c.new, nested |-> <<>>]
      [] OTHER -> [fn |-> c.tool, path |-> None, top |-> None, nested |-> <<>>]

\* A tool chunk has the time of the call, not of its result.
ToolCallChunk(source, n, c, out) ==
    LET a == IF source = "claude_code" THEN NormalizeClaudeToolCall(c) ELSE NormalizeCodexToolCall(c)
    IN [Chunk("tool_call", a.fn, n, c.at) EXCEPT
          !.id = <<"tool_call", n, c.call>>, !.path = a.path, !.top = a.top,
          !.nested = a.nested, !.out = out]

Push(st, chunk) == [st EXCEPT !.chunks = Append(@, chunk)]
Waiting(c, at) ==
    [call |-> c.call, tool |-> c.tool, path |-> c.path, old |-> c.old, new |-> c.new, at |-> at]
Pending(st, c, at) ==
    [st EXCEPT !.pending = {p \in @ : p.call # c.call} \cup {Waiting(c, at)}]
CompleteAny(source, st, r) ==
    IF st.pending = {} THEN st
    ELSE LET p == CHOOSE p \in st.pending : TRUE
         IN [Push(st, ToolCallChunk(source, Len(st.chunks), p, r.out)) EXCEPT !.pending = @ \ {p}]

\* A result nobody waits for is dropped.
Complete(source, st, r) ==
    IF ~\E p \in st.pending : p.call = r.call THEN st
    ELSE LET p == CHOOSE p \in st.pending : p.call = r.call
         IN [Push(st, ToolCallChunk(source, Len(st.chunks), p, r.out)) EXCEPT !.pending = @ \ {p}]

AssistantItem(st, i, at) ==
    CASE i.kind = "text" -> Push(st, TextChunk("assistant", "assistant", Len(st.chunks), at, i.text))
      [] i.kind = "thinking" -> Push(st, TextChunk("thinking", "thinking", Len(st.chunks), at, i.text))
      [] i.kind = "call" -> Pending(st, i, at)
      [] OTHER -> st
UserText(st, i, at) == Push(st, TextChunk("raw", "user_message", Len(st.chunks), at, i.text))

\* The items of an assistant's record, one after another.
ReadItems(st, items, at) ==
    LET after[n \in 0..Len(items)] ==
            IF n = 0 THEN st ELSE AssistantItem(after[n - 1], items[n], at)
    IN after[Len(items)]

\* Of several tool results in a record, the first; 0 when there is none.
ClaudeToolResult(items) == SelectInSeq(items, LAMBDA i : i.kind = "result")
\* Text of a user counts only without a tool result.
ClaudeRecord(st, r) ==
    IF r.role = "user"
    THEN LET first == ClaudeToolResult(r.items)
         IN IF first # 0 THEN Complete("claude_code", st, r.items[first])
            ELSE UserText(st, r.items[1], r.at)
    ELSE ReadItems(st, r.items, r.at)

CodexRecord(st, r) ==
    LET i == r.items[1]
    IN IF i.kind = "result" THEN Complete("codex_app", st, i)
       ELSE IF r.role = "user" /\ i.kind = "text" THEN UserText(st, i, r.at)
       ELSE AssistantItem(st, i, r.at)

\* The records of a transcript, one after another.
NothingRead == [chunks |-> <<>>, pending |-> {}]
ReadRecord(source, st, r) ==
    IF source = "claude_code" THEN ClaudeRecord(st, r) ELSE CodexRecord(st, r)
ReadTranscript(source, records) ==
    LET after[n \in 0..Len(records)] ==
            IF n = 0 THEN NothingRead ELSE ReadRecord(source, after[n - 1], records[n])
    IN after[Len(records)]

\* Calls without a result come last, in the order of a hash map: any.
FormatChunks(source, records) ==
    LET st == ReadTranscript(source, records)
        n == Cardinality(st.pending)
        orders == {f \in [1..n -> st.pending] : \A a, b \in 1..n : a # b => f[a] # f[b]}
    IN {st.chunks \o [k \in 1..n |-> ToolCallChunk(source, Len(st.chunks) + k - 1, f[k], <<>>)] :
          f \in orders}

\* What listing a source reads: the files touched and the newest time.
ItemTouches(source, i) ==
    CASE i.kind # "call" -> {}
      [] source = "claude_code" /\ i.tool \in {"Edit", "MultiEdit", "Write"} -> {i.path} \ {None}
      [] source = "codex_app" /\ i.tool = "apply_patch" -> PatchTargets(i.new)
      [] source = "claude_code" /\ i.tool = "Bash" -> ShellEditTargets(i.cmd)
      [] source = "codex_app" /\ i.tool \in {"shell", "exec_command", "local_shell"} ->
            ShellEditTargets(i.cmd)
      [] OTHER -> {}
UpdatedAt(records) ==
    IF records = <<>> THEN 0
    ELSE CHOOSE t \in {records[k].at : k \in DOMAIN records} : \A k \in DOMAIN records : records[k].at <= t
ExtractMetadata(source, records) ==
    [touched |-> UNION {UNION {ItemTouches(source, i) : i \in ToSet(records[k].items)} :
                           k \in DOMAIN records},
     updated |-> UpdatedAt(records)]

-----------------------------------------------------------------------------
(* Why: the message a change is explained with. *)

IsAssistantText(c) == c.kind = "assistant" /\ ~c.text.blank
IsUser(c) == c.function = "user_message"

SelectAnyLastMessage(chunks, at) ==
    LET n == SelectLastInSeq(chunks, IsAssistantText)
    IN IF n = 0 THEN None ELSE chunks[n]
\* The last non-blank assistant message, no later than `at`, of the turn that
\* `at` falls in; without one, the last that is no later than `at`.
SelectTurnFinalMessage(chunks, at) ==
    LET start == SelectLastInSeq(chunks, LAMBDA c : IsUser(c) /\ c.at <= at)
        next == SelectInSeq(SubSeq(chunks, start + 1, Len(chunks)), IsUser)
        turn == SubSeq(chunks, start, IF next = 0 THEN Len(chunks) ELSE start + next - 1)
        Fits(c) == IsAssistantText(c) /\ c.at <= at
        inTurn == IF start = 0 THEN 0 ELSE SelectLastInSeq(turn, Fits)
        any == SelectLastInSeq(chunks, Fits)
    IN IF inTurn # 0 THEN turn[inTurn] ELSE IF any # 0 THEN chunks[any] ELSE None

RelationFromCue(cue) ==
    IF cue \in {"supersedes", "triggered_by"} THEN cue ELSE "derived_from"
\* Each entity once, with the relation of its first mention.
ExtractCauseRefs(text) ==
    LET firsts == {i \in DOMAIN text.refs : \A j \in 1..(i - 1) : text.refs[j][1] # text.refs[i][1]}
    IN [k \in 1..Cardinality(firsts) |->
          LET i == CHOOSE i \in firsts : Cardinality({j \in firsts : j < i}) = k - 1
          IN [target |-> text.refs[i][1], relation |-> RelationFromCue(text.refs[i][2])]]
=============================================================================
