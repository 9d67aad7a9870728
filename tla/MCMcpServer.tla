---------------------------- MODULE MCMcpServer ----------------------------
(***************************************************************************)
(* A Claude Code and a Codex session that edit one file of one repo.       *)
(***************************************************************************)
EXTENDS McpServer

MCRepo == <<"/", "repo">>
MCFile == <<"f">>
MCAbsFile == MCRepo \o MCFile
MCSourceOf == 1 :> "claude_code" @@ 2 :> "codex_app"
MCRepoOf == 1 :> MCRepo @@ 2 :> MCRepo
MCLogPath == 1 :> <<"/", "logs", "claude">> @@ 2 :> <<"/", "logs", "codex">>
MCShortLines == {<<"}">>}
MCRepoAt == MCAbsFile :> MCRepo @@ <<"/", "tmp", "x">> :> None

L(mark, of) == [mark |-> mark, of |-> of]
Msg(refs) == [blank |-> FALSE, refs |-> refs]
Text(refs) == [BlankItem EXCEPT !.kind = "text", !.text = Msg(refs)]
Result(c, out) == [BlankItem EXCEPT !.kind = "result", !.call = c, !.out = out]
Call(tool, c) == [BlankItem EXCEPT !.kind = "call", !.tool = tool, !.call = c]
Edit(c, old, new) == [Call("Edit", c) EXCEPT !.path = MCAbsFile, !.old = old, !.new = new]
Rec(role, items) == [role |-> role, items |-> items]

Claude == {
    Rec("user", <<Text(<<>>)>>),
    Rec("assistant", <<Text(<<<<"m1", "supersedes">>, <<"m2", "other">>>>),
                       Edit("c1", <<>>, <<L("", <<"line1">>)>>)>>),
    Rec("assistant", <<Text(<<>>), Edit("c2", <<>>, <<L("", <<"line2">>), L("", <<"}">>)>>),
                       [Call("Bash", "c3") EXCEPT !.cmd =
                          [patch |-> <<>>,
                           segments |-> <<<<[w |-> "echo", path |-> None], [w |-> ">", path |-> None],
                                            [w |-> "f", path |-> MCFile]>>>>]]>>),
    Rec("user", <<Result("c3", <<L("", <<"line2">>)>>)>>),
    Rec("user", <<Result("c2", <<L("+", <<"line2">>)>>), Text(<<>>)>>)}
Codex == {
    Rec("assistant", <<[Call("apply_patch", "d1") EXCEPT !.new =
                          <<L("*", MCFile), L("+", <<"line1">>), L("-", <<"line2">>)>>]>>),
    Rec("assistant", <<Text(<<>>)>>),
    Rec("assistant", <<Result("d1", <<L("", <<"done..">>)>>)>>)}
MCRecords == 1 :> Claude @@ 2 :> Codex

MCPlanFiles == {<<"e1", "e2">>, <<"e1", "e1">>}

Line(path, text) == [kind |-> "line", path |-> path, text |-> text, id |-> None]
File(path) == [kind |-> "file", path |-> path, text |-> <<>>, id |-> None]
Id(id) == [kind |-> "id", path |-> <<>>, text |-> <<>>, id |-> id]
Q(id) == [BlankRequest EXCEPT !.id = id]
P(id, tool) == [Q(id) EXCEPT !.surface = "planning", !.tool = tool]
MCRequests == {
    [Q(1) EXCEPT !.anchor = Line(MCFile, <<<<"line1">>>>)],
    [Q(2) EXCEPT !.anchor = Line(MCAbsFile, <<<<"line2">>, <<"line1">>>>), !.depth = 9],
    [Q(3) EXCEPT !.anchor = File(MCFile), !.depth = 1],
    [Q(4) EXCEPT !.anchor = Id("m2")],
    [Q(5) EXCEPT !.anchor = File(<<"/", "tmp", "x">>)],
    [Q(6) EXCEPT !.tool = "log_file"],
    [Q(None) EXCEPT !.method = "garbage"],
    [Q(None) EXCEPT !.method = "initialized"],
    [P(7, "mission_list") EXCEPT !.method = "other"],
    [P(9, "record_artifact") EXCEPT !.given = {"title"}, !.entity = "a1", !.mission = "m2"],
    [P(10, "mission") EXCEPT !.action = "update", !.given = {"action", "mission"}, !.entity = "m2"],
    [P(11, "manage_mission") EXCEPT !.action = "create", !.given = {"action", "project", "title"},
                                    !.entity = "m2"],
    [P(12, "show_mission") EXCEPT !.given = {"mission"}, !.entity = "m2"]}
=============================================================================
