----------------------------- MODULE McpServer -----------------------------
(***************************************************************************)
(* The memory an agent asks (crates/cli/src/mcp.rs, history.rs over        *)
(* Metadata and Transcript): sessions append to their transcripts, a       *)
(* refresh stores what it parses, and the MCP server answers requests, one *)
(* line each.                                                              *)
(*                                                                         *)
(* The server's coding surface answers explain; its planning surface, a    *)
(* process of its own, records missions and artifacts.  The refresh that   *)
(* explain starts first is like any other here: best-effort, throttled, it *)
(* may fail or not run at all.  There is one at a time; races of several   *)
(* are the subject of SourceRefresh.                                       *)
(***************************************************************************)
EXTENDS Metadata

CONSTANTS
    Records,    \* records a session may append, by session: [role, items]
    PlanFiles,  \* what the plan store of Cursor may hold: sequences of edges
    Requests,   \* what clients may send: Blank EXCEPT what matters
    RepoAt,     \* root of the repo an absolute path is in, or None
    DefaultRepo,\* repo of the server's working directory, or None
    MaxRecords, \* bound: records appended
    MaxWork     \* bound on what happens: a record or a refresh counts 1, a
                \* request 3, anything else 2

Surfaces == {"coding", "planning"}

\* What agents write: a call has an id of its own; with Claude Code, calls are
\* the assistant's and results come in records of the user; a Codex record has
\* one item.
CallIds(r) == {r.items[j].call : j \in {n \in DOMAIN r.items : r.items[n].kind = "call"}}
ASSUME RecordsAssumption ==
    \A s \in Sessions : \A r \in Records[s] :
        /\ Len(r.items) \in Nat \ {0} /\ DOMAIN r.items = 1 .. Len(r.items)
        /\ None \notin CallIds(r)
        /\ \A j, k \in DOMAIN r.items :
              r.items[j].kind = "call" /\ r.items[k].kind = "call" /\ r.items[j].call = r.items[k].call
                => j = k
        /\ \A q \in Records[s] : q.items # r.items => CallIds(q) \cap CallIds(r) = {}
        /\ IF SourceOf[s] = "claude_code"
           THEN \A j \in DOMAIN r.items : /\ r.items[j].kind = "call" => r.role # "user"
                                          /\ r.items[j].kind = "result" => r.role = "user"
           ELSE Len(r.items) = 1

\* The texts of an item are sequences of lines.  Sessions are numbered, and
\* None is nothing that a session, a row or an answer holds.
IsLines(t) == Len(t) \in Nat /\ DOMAIN t = 1 .. Len(t) /\ t = [m \in DOMAIN t |-> t[m]]
Touchable == UNION {UNION {UNION {ItemTouches(SourceOf[s], i) : i \in ToSet(r.items)} : r \in Records[s]} :
                       s \in Sessions}
ASSUME TextsAssumption ==
    \A s \in Sessions : \A r \in Records[s] : \A j \in DOMAIN r.items :
        \A t \in {r.items[j].old, r.items[j].new, r.items[j].out} :
            t # None /\ IsLines(t)
ASSUME SessionsAssumption ==
    /\ Sessions \subseteq Nat /\ IsFiniteSet(Sessions)
    /\ None \notin Int /\ None \notin {"exact_edit_hunk", "exact_diff_hunk"}
    /\ None \notin [touched : SUBSET Touchable, updated : Nat, version : Nat]

\* What a line can be: not JSON at all, a notification, or a request.
ASSUME RequestsAssumption ==
    \A q \in Requests :
        /\ q.surface \in Surfaces
        /\ \/ q.method = "garbage" /\ q.id = None
           \/ q.method # "garbage" /\ q.id = None
           \/ /\ q.method \in {"initialize", "tools/list", "ping", "other", "tools/call"}
              /\ q.id # None

\* Only an anchor of lines has text: the lines selected, as they are now.
ASSUME AnchorsAssumption ==
    \A q \in Requests :
        /\ q.depth \in Nat
        /\ q.anchor # None =>
              /\ IsLines(q.anchor.text)
              /\ q.anchor.kind # "line" => q.anchor.text = <<>>

VARIABLES
    log,        \* the transcript of each session
    torn,       \* sessions whose last line is half written
    planFile,
    db,
    ev,         \* source.session_observed events with their chunks
    job,        \* the running refresh, or None
    sent,       \* lines written to each surface's standard input
    served,     \* how many of them its process has taken
    call,       \* the explain under way on the coding surface, or Idle
    answers,    \* lines each surface has written to its standard output
    ledger,     \* mission and artifact events
    work        \* counts what MaxWork bounds

vars == <<log, torn, planFile, db, ev, job, sent, served, call, answers, ledger, work>>
agentVars == <<log, torn, planFile>>
clientVars == <<sent, served, call, answers, ledger>>

Idle == [stage |-> "idle"]

Init ==
    /\ log = [s \in Sessions |-> <<>>] /\ torn = {} /\ planFile = <<>>
    /\ db = EmptyDb /\ ev = {} /\ job = None
    /\ sent = [x \in Surfaces |-> <<>>] /\ served = [x \in Surfaces |-> 0]
    /\ call = Idle /\ answers = [x \in Surfaces |-> <<>>]
    /\ ledger = <<>> /\ work = 0

Clock == Cardinality(UNION {{s} \X DOMAIN log[s] : s \in Sessions})
Work(n) == work + n <= MaxWork /\ work' = work + n

-----------------------------------------------------------------------------
(* The agents. *)

\* A record is appended, completing the line if it was begun.  A call has an
\* id of its own, so that no record is written twice.
Write(s, r) ==
    /\ Clock < MaxRecords /\ Work(1) /\ \A k \in DOMAIN log[s] : log[s][k].items # r.items
    /\ log' = [log EXCEPT ![s] = Append(@, [at |-> Clock + 1, role |-> r.role, items |-> r.items])]
    /\ torn' = torn \ {s}
    /\ UNCHANGED <<planFile, db, ev, job, clientVars>>
Tear(s) ==
    /\ s \notin torn /\ Clock < MaxRecords /\ Work(2)
    /\ torn' = torn \cup {s}
    /\ UNCHANGED <<log, planFile, db, ev, job, clientVars>>
WritePlan(p) ==
    /\ p # planFile /\ Work(2) /\ planFile' = p
    /\ UNCHANGED <<log, torn, db, ev, job, clientVars>>

-----------------------------------------------------------------------------
(* A refresh: the sources in order, and of each the sessions it lists. *)

SourcesInOrder == <<"claude_code", "codex_app", "cursor_ide">>

RefreshBegin ==
    /\ job = None /\ Work(1)
    /\ job' = [source |-> 1, listed |-> <<>>, stage |-> "list"]
    /\ UNCHANGED <<agentVars, db, ev, clientVars>>

InSource(n) == {s \in Sessions : SourceOf[s] = SourcesInOrder[n] /\ (log[s] # <<>> \/ s \in torn)}
\* The file's modification time; listed newest first.
Modified(s) == IF log[s] = <<>> THEN 0 ELSE log[s][Len(log[s])].at
Order(S) == Sorted(S, LAMBDA a, b : \/ Modified(a) > Modified(b)
                                    \/ Modified(a) = Modified(b) /\ a < b)

\* One line that does not parse fails the listing, and with it the refresh.
RefreshList ==
    /\ job # None /\ job.stage = "list"
    /\ LET S == InSource(job.source) IN
       job' = IF S \cap torn # {} THEN None
              ELSE [job EXCEPT !.stage = "row",
                      !.listed = [k \in 1..Cardinality(S) |->
                          LET s == Order(S)[k] IN
                          [session |-> s, version |-> Len(log[s]),
                           found |-> ExtractMetadata(SourceOf[s], log[s])]]]
    /\ UNCHANGED <<agentVars, db, ev, clientVars, work>>

Head1 == job.listed[1]
RowOf(h) == [touched |-> h.found.touched, updated |-> h.found.updated, version |-> h.version]

\* Fingerprint and parser version as stored: only last_seen_at is touched, and
\* chunks are parsed only if there are none.
RefreshRow ==
    /\ job # None /\ job.stage = "row" /\ job.listed # <<>>
    /\ LET s == Head1.session
           unchanged == db.row[s] # None /\ db.row[s].version = Head1.version
       IN /\ db' = IF unchanged THEN db ELSE UpsertSourceSession(db, s, RowOf(Head1))
          /\ job' = [job EXCEPT !.stage = IF unchanged /\ db.chunks[s] # <<>> THEN "emit" ELSE "chunks"]
    /\ UNCHANGED <<agentVars, ev, clientVars, work>>

ParseTornAsEmpty(s) == IF s \in torn THEN {<<>>} ELSE FormatChunks(SourceOf[s], log[s])
\* The outcomes of parsing a transcript: none when its last line is torn.
Parse(s) == IF s \in torn THEN {} ELSE FormatChunks(SourceOf[s], log[s])

RefreshChunks ==
    /\ job # None /\ job.stage = "chunks"
    /\ LET s == Head1.session IN
       \/ \E c \in Parse(s) :
             LET new == UpsertSourceSessionChunks(db, s, c) IN
             /\ db' = IF new = None THEN db ELSE new
             /\ job' = IF new = None THEN None ELSE [job EXCEPT !.stage = "emit"]
       \/ Parse(s) = {} /\ job' = None /\ UNCHANGED db
    /\ UNCHANGED <<agentVars, ev, clientVars, work>>

\* An event has the id of its session and version; appending it again keeps
\* the event and replaces its chunks.
AppendEvent(events, s, row, chunks) ==
    LET id == <<s, row.version>>
        old == {e \in events : e.id = id}
    IN (events \ old) \cup
       IF old = {} THEN {[id |-> id, touched |-> row.touched, updated |-> row.updated, chunks |-> chunks]}
       ELSE {[e EXCEPT !.chunks = chunks] : e \in old}

RefreshEmit ==
    /\ job # None /\ job.stage = "emit"
    /\ LET s == Head1.session IN ev' = AppendEvent(ev, s, db.row[s], db.chunks[s])
    /\ job' = [job EXCEPT !.stage = "row", !.listed = Tail(@)]
    /\ UNCHANGED <<agentVars, db, clientVars, work>>

\* Then the plans of the source, and on to the next one.
RefreshPlans ==
    /\ job # None /\ job.stage = "row" /\ job.listed = <<>>
    /\ LET new == IF SourcesInOrder[job.source] = "cursor_ide" /\ planFile # <<>>
                  THEN UpsertSourcePlanWithEdges(db, planFile) ELSE db
       IN /\ db' = IF new = None THEN db ELSE new
          /\ job' = IF new = None \/ job.source = Len(SourcesInOrder) THEN None
                    ELSE [job EXCEPT !.source = @ + 1, !.stage = "list"]
    /\ UNCHANGED <<agentVars, ev, clientVars, work>>

\* The process that refreshes is killed.
RefreshCrash ==
    /\ job # None /\ job' = None
    /\ UNCHANGED <<agentVars, db, ev, clientVars, work>>

-----------------------------------------------------------------------------
(* Planning tools: every write appends one event to the store of the        *)
(* server's repo, or to the one in BRICK_HOME when it is in none.           *)

CanonicalPlanningName(tool) ==
    CASE tool = "list_missions" -> "mission_list"
      [] tool = "manage_mission" -> "mission"
      [] tool = "record_artifact" -> "artifact_add"
      [] tool = "attach_evidence" -> "artifact_attach"
      [] OTHER -> tool
PlanningTools == {"mission", "mission_list", "show_mission", "artifact_add", "artifact_attach"}

PlanningStore == IF DefaultRepo = None THEN <<"home">> ELSE DefaultRepo

RequiredArgs(tool, action) ==
    CASE tool = "mission" /\ action = "create" -> {"action", "project", "title"}
      [] tool = "mission" -> {"action", "mission"}
      [] tool = "show_mission" -> {"mission"}
      [] tool = "artifact_add" -> {"title"}
      [] tool = "artifact_attach" -> {"artifact", "path"}
      [] OTHER -> {}

\* An event of the store names the id.
EntityExists(events, store, id) ==
    \E i \in DOMAIN events : events[i].store = store /\ id \in {events[i].entity, events[i].mission}

\* An update must change something.
EmptyUpdate(q, tool) ==
    /\ tool = "mission" /\ q.action = "update"
    /\ q.given \cap {"project", "title", "description", "status"} = {}

\* The index has an entry: a mission event, or an artifact of the mission.
MissionIndexed(store, id) ==
    \E i \in DOMAIN ledger : /\ ledger[i].store = store
                             /\ \/ ledger[i].tool = "mission" /\ ledger[i].entity = id
                                \/ ledger[i].mission = id

\* Required arguments are there, every id, status and kind given is one.
PlanningAccepts(q, tool) ==
    /\ tool \in PlanningTools
    /\ tool = "mission" => q.action \in {"create", "update"}
    /\ RequiredArgs(tool, q.action) \subseteq q.given /\ q.valid
    /\ ~EmptyUpdate(q, tool)
    /\ tool = "show_mission" => MissionIndexed(PlanningStore, q.entity)
PlanningWrites(q, tool) ==
    IF tool \notin {"mission", "artifact_add", "artifact_attach"} THEN <<>>
    ELSE <<[store |-> PlanningStore, tool |-> tool, entity |-> q.entity,
            mission |-> IF tool = "artifact_add" THEN q.mission ELSE None]>>

-----------------------------------------------------------------------------
(* The request loop. *)

BlankRequest ==
    [surface |-> "coding", id |-> None, method |-> "tools/call", tool |-> "explain",
     anchor |-> None, depth |-> 3, action |-> None, given |-> {}, valid |-> TRUE,
     entity |-> None, mission |-> None]
RetiredTools == {"log_file", "sessions", "link"} \cup PlanningTools

Send(q) ==
    /\ Work(3)
    /\ \A i \in DOMAIN sent[q.surface] : sent[q.surface][i] # q
    /\ sent' = [sent EXCEPT ![q.surface] = Append(@, q)]
    /\ UNCHANGED <<agentVars, db, ev, job, served, call, answers, ledger>>

Answer(q, is) == [id |-> q.id, is |-> is, steps |-> <<>>,
                  hint |-> None, strength |-> None, verdict |-> None]

RespondToNotifications(q) == <<Answer(q, "result")>>
\* What is answered at once; None for an explain that has a repo to look in.
Respond(q) ==
    LET tool == CanonicalPlanningName(q.tool) IN
    CASE q.method = "garbage" -> <<[Answer(q, "parse_error") EXCEPT !.id = None]>>
      [] q.method # "garbage" /\ q.id = None -> <<>>
      [] q.id # None /\ q.method \in {"initialize", "tools/list", "ping"} -> <<Answer(q, "result")>>
      [] q.id # None /\ q.method = "other" -> <<Answer(q, "method_not_found")>>
      [] q.id # None /\ q.method = "tools/call" ->
           <<Answer(q, IF q.tool = None THEN "tool_error"
                       ELSE IF q.surface = "planning"
                       THEN IF PlanningAccepts(q, tool) THEN "result" ELSE "tool_error"
                       ELSE IF q.tool \in RetiredTools THEN "result"
                       ELSE IF q.tool = "explain" /\ q.anchor # None THEN "result"
                       ELSE "tool_error")>>

\* The repo of an absolute path is its own; else the server's.
StoreForAnchor(a) == IF IsAbsolute(a.path) THEN RepoAt[a.path] ELSE DefaultRepo
BeginsExplain(q) ==
    /\ q.surface = "coding" /\ q.id # None /\ q.method = "tools/call"
    /\ q.tool = "explain" /\ q.anchor # None /\ StoreForAnchor(q.anchor) # None
NormalizeRepoRelative(repo, path) ==
    IF IsPrefix(repo, path) THEN SubSeq(path, Len(repo) + 1, Len(path)) ELSE path

\* Observed sessions that touched the file, newest first, one step for each.
FileSteps(rel, depth) ==
    LET hits == {e \in ev : \E f \in e.touched : PathMatchesRel(f, rel)}
        newest == {e \in hits : \A d \in hits : d.id[1] = e.id[1] => d.id[2] <= e.id[2]}
        order == Sorted(newest, LAMBDA a, b : \/ a.updated > b.updated
                                              \/ a.updated = b.updated /\ a.id[1] < b.id[1])
    IN Take([k \in DOMAIN order |-> [event |-> 1, session |-> order[k].id[1], title |-> None,
                                     at |-> order[k].updated]], depth + 1)
\* Events that name an id carry no transcript here.
IdSteps(repo, id) ==
    LET hits == Select(ledger, LAMBDA e : e.store = repo /\ id \in {e.entity, e.mission})
    IN [k \in DOMAIN hits |-> [event |-> 1, session |-> None, title |-> None, at |-> 0]]

\* The session wrote the text into the file with one edit, which is stored and
\* among the records its stored row was read from.
WroteText(s, path, text) ==
    \E k \in DOMAIN log[s] : \E j \in DOMAIN log[s][k].items :
        LET i == log[s][k].items[j] IN
        /\ i.kind = "call" /\ i.tool \in {"Edit", "apply_patch"}
        /\ \E f \in ItemTouches(SourceOf[s], i) :
              (RepoOf[s] # None \/ IsAbsolute(f)) /\ path = JoinRepoPath(RepoOf[s], f)
        /\ \A m \in DOMAIN text : \E n \in DOMAIN i.new : i.new[n].of = text[m] /\ i.new[n].mark # "-"
        /\ \E n \in DOMAIN db.chunks[s] : db.chunks[s][n].id[3] = i.call
        /\ db.row[s] # None /\ k <= db.row[s].version

\* An explain begins, or is answered with an error: the events cannot be read,
\* or git does not know the line.
Receive(x) ==
    /\ Len(sent[x]) > served[x] /\ (x = "coding" => call = Idle)
    /\ served' = [served EXCEPT ![x] = @ + 1]
    /\ LET q == sent[x][served[x] + 1]
           repo == StoreForAnchor(q.anchor)
           rel == NormalizeRepoRelative(repo, q.anchor.path)
       IN IF BeginsExplain(q)
          THEN \/ /\ answers' = [answers EXCEPT ![x] = Append(@, Answer(q, "tool_error"))]
                  /\ UNCHANGED <<call, ledger>>
               \/ /\ call' = [q |-> q, repo |-> repo, rel |-> rel,
                        stage |-> IF q.anchor.kind = "line" THEN "line" ELSE "file",
                        steps |-> IF q.anchor.kind = "file" THEN FileSteps(rel, q.depth)
                                  ELSE IF q.anchor.kind = "id" THEN IdSteps(repo, q.anchor.id)
                                  ELSE <<>>,
                        hint |-> None, strength |-> None, events |-> <<>>, told |-> <<>>,
                        had |-> {s \in Sessions : /\ q.anchor.text # <<>>
                                                  /\ ToSet(q.anchor.text) \cap ShortLines = {}
                                                  /\ WroteText(s, JoinRepoPath(repo, rel), q.anchor.text)}]
                  /\ UNCHANGED <<answers, ledger>>
          ELSE /\ answers' = [answers EXCEPT ![x] = @ \o Respond(q)]
               /\ ledger' = ledger \o
                    IF /\ x = "planning" /\ q.method = "tools/call" /\ q.id # None /\ q.tool # None
                       /\ PlanningAccepts(q, CanonicalPlanningName(q.tool))
                    THEN PlanningWrites(q, CanonicalPlanningName(q.tool)) ELSE <<>>
               /\ UNCHANGED call
    /\ UNCHANGED <<agentVars, db, ev, job, sent, work>>

-----------------------------------------------------------------------------
(* Explain: line provenance, else text matches, else whoever touched the    *)
(* file.  Each query opens the database anew; one that cannot open it or    *)
(* fails is taken for one that finds nothing.                               *)

Limit == IF call.q.depth < 3 THEN 3 ELSE IF call.q.depth > 8 THEN 8 ELSE call.q.depth
AbsPath == JoinRepoPath(call.repo, call.rel)
Strongest(rows) == IF \E i \in DOMAIN rows : rows[i].kind = "exact_edit_hunk"
                   THEN "exact_edit_hunk" ELSE "exact_diff_hunk"
ExplainIn(stage) == call.stage = stage
ExplainQueryFrame == UNCHANGED <<agentVars, db, ev, job, sent, served, answers, ledger, work>>

Found(rows) == [call EXCEPT !.stage = "refine", !.strength = Strongest(rows),
                            !.steps = MergeSourceStepsInto(@, SourceSessionsToSteps(rows))]

\* Only the first selected line is looked up; without text there is none.  Of
\* a query that failed nothing is asked: had is what is still to be found.
ExplainLine ==
    /\ ExplainIn("line")
    /\ LET text == call.q.anchor.text
           rows == IF text = <<>> THEN <<>>
                   ELSE QueryLineProvenance(db, AbsPath, text[1], call.repo, Limit)
       IN \/ call' = IF rows = <<>> THEN [call EXCEPT !.stage = "text"] ELSE Found(rows)
          \/ call' = [call EXCEPT !.stage = "text", !.had = {}]
    /\ ExplainQueryFrame
ExplainText ==
    /\ ExplainIn("text")
    /\ LET text == call.q.anchor.text
           rows == IF text = <<>> THEN <<>>
                   ELSE QueryTextMatch(db, AbsPath, text, call.repo, Limit)
       IN \/ call' = IF rows = <<>> THEN [call EXCEPT !.stage = "file"] ELSE Found(rows)
          \/ call' = [call EXCEPT !.stage = "file", !.had = {}]
    /\ ExplainQueryFrame
\* For a line, what this finds is labelled weak.
ExplainFile ==
    /\ ExplainIn("file")
    /\ LET rows == IF call.q.anchor.kind = "id" THEN <<>>
                   ELSE QueryFileBlame(db, AbsPath, call.repo, Limit)
       IN \/ call' = [call EXCEPT !.stage = "refine",
                        !.hint = IF call.q.anchor.kind = "line" /\ rows # <<>> THEN Len(rows) ELSE None,
                        !.steps = IF rows = <<>> THEN @
                                  ELSE MergeSourceStepsInto(@, SourceSessionsToSteps(rows))]
          \/ call' = [call EXCEPT !.stage = "refine"]
    /\ ExplainQueryFrame

\* A step of a session that edited the file takes the time of its last edit,
\* where it stands.
RefineSourceSessionTimes(steps) ==
    LET rows == QueryFileBlame(db, call.rel, call.repo, MaxExplainDepth + 1)
        Row(s) == SelectInSeq(rows, LAMBDA r : r.session = s /\ r.occurred # None)
    IN IF call.q.anchor.kind = "id" THEN steps
       ELSE [k \in DOMAIN steps |->
               IF steps[k].session = None \/ Row(steps[k].session) = 0 THEN steps[k]
               ELSE [steps[k] EXCEPT !.at = rows[Row(steps[k].session)].occurred]]

ExplainRefine ==
    /\ ExplainIn("refine")
    /\ \E steps \in {call.steps, RefineSourceSessionTimes(call.steps)} :
          call' = [call EXCEPT !.stage = "heal", !.steps = steps]
    /\ ExplainQueryFrame

\* Sessions of the steps whose chunks are stored, and those of them whose
\* event is missing or has no chunks.
Healable(steps) ==
    {s \in {steps[k].session : k \in DOMAIN steps} \ {None} : db.row[s] # None /\ db.chunks[s] # <<>>}
WithoutChunks(steps) == {s \in Healable(steps) : ~\E e \in ev : e.id[1] = s /\ e.chunks # <<>>}
HealMissing(events, need) ==
    {e \in events : ~(e.id[1] \in need /\ e.id[2] = db.row[e.id[1]].version)} \cup
    UNION {{e \in AppendEvent(events, s, db.row[s], db.chunks[s]) :
               e.id = <<s, db.row[s].version>>} : s \in need}
\* Session by session: one whose event cannot be read is healed too, one whose
\* rows cannot be read or whose event cannot be appended is not.
ExplainHeal ==
    /\ ExplainIn("heal") /\ call' = [call EXCEPT !.stage = "events"]
    /\ \E unread, failed \in SUBSET Healable(call.steps) :
          ev' = HealMissing(ev, (WithoutChunks(call.steps) \cup unread) \ failed)
    /\ UNCHANGED <<agentVars, db, job, sent, served, answers, ledger, work>>

\* The events are read again, to know which entities are recorded.
ExplainEvents ==
    /\ ExplainIn("events")
    /\ \E events \in {ledger, <<>>} : call' = [call EXCEPT !.stage = "enrich", !.events = events]
    /\ ExplainQueryFrame

\* The message of the turn, and a relation only to an entity that is recorded.
EnrichObservedRationale(step, chunks) ==
    LET m == IF step.session = None THEN None ELSE SelectTurnFinalMessage(chunks, step.at)
        refs == IF m = None THEN <<>> ELSE ExtractCauseRefs(m.text)
        known == SelectInSeq(refs, LAMBDA r : EntityExists(call.events, call.repo, r.target))
    IN [session |-> step.session, at |-> step.at,
        note |-> IF m = None THEN None ELSE m.at,
        relation |-> IF known = 0 THEN None ELSE refs[known].target]
\* What reading the chunks of a session can give: those stored, a fresh parse
\* when none are or they cannot be read, nothing when neither can.
StepChunks(s) ==
    IF s = None THEN {<<>>} ELSE {db.chunks[s], <<>>} \cup Parse(s)
ExplainEnrich ==
    /\ ExplainIn("enrich") /\ Len(call.told) < Len(call.steps)
    /\ LET step == call.steps[Len(call.told) + 1] IN
       \E chunks \in StepChunks(step.session) :
          call' = [call EXCEPT !.told = Append(@, EnrichObservedRationale(step, chunks))]
    /\ ExplainQueryFrame

\* What the agent is told to make of the answer.
AgentGuidance(steps, hint) ==
    IF steps = <<>> THEN None ELSE IF hint # None THEN "weak" ELSE "useful"

ExplainFinish ==
    /\ ExplainIn("enrich") /\ Len(call.told) = Len(call.steps) /\ call' = Idle
    /\ answers' = [answers EXCEPT !["coding"] = Append(@,
          [Answer(call.q, "result") EXCEPT !.hint = call.hint, !.strength = call.strength,
             !.verdict = AgentGuidance(call.steps, call.hint), !.steps = call.told])]
    /\ UNCHANGED <<agentVars, db, ev, job, sent, served, ledger, work>>

Next ==
    \/ \E s \in Sessions : Tear(s) \/ \E r \in Records[s] : Write(s, r)
    \/ \E p \in PlanFiles : WritePlan(p)
    \/ RefreshBegin \/ RefreshList \/ RefreshRow \/ RefreshChunks \/ RefreshEmit
    \/ RefreshPlans \/ RefreshCrash
    \/ \E q \in Requests : Send(q)
    \/ \E x \in Surfaces : Receive(x)
    \/ ExplainLine \/ ExplainText \/ ExplainFile
    \/ ExplainRefine \/ ExplainHeal \/ ExplainEvents \/ ExplainEnrich \/ ExplainFinish

Spec == Init /\ [][Next]_vars

-----------------------------------------------------------------------------
(* Properties. *)

CallsIn(records) ==
    UNION {{<<k, j>> : j \in {n \in DOMAIN records[k].items : records[k].items[n].kind = "call"}} :
              k \in DOMAIN records}
CallsOf(s) == CallsIn(log[s])
\* The records from the k-th on whose first result is of the call.
ResultsFor(records, k, id) ==
    {n \in k .. Len(records) : LET f == ClaudeToolResult(records[n].items)
                              IN f # 0 /\ records[n].items[f].call = id}
\* The output the records hold for a call of record k: of the first of those.
OutputIn(records, k, id) ==
    LET results == ResultsFor(records, k, id)
        items == records[Min(results)].items
    IN IF results = {} THEN <<>> ELSE items[ClaudeToolResult(items)].out
OutputOf(s, k, id) == OutputIn(log[s], k, id)

\* However calls and results interleave, and in whatever order the hash map of
\* unfinished calls is drained (claude_code.rs format_chunks), parsing keeps
\* every tool call exactly once, at its own time and with its own output.
CallsKeptOnce ==
    \A s \in Sessions : \A c \in FormatChunks(SourceOf[s], log[s]) : \A q \in CallsOf(s) :
        LET i == log[s][q[1]].items[q[2]]
            mine == {n \in DOMAIN c : c[n].id[3] = i.call}
        IN /\ Cardinality(mine) = 1
           /\ \A n \in mine : c[n].at = log[s][q[1]].at /\ c[n].out = OutputOf(s, q[1], i.call)

\* Whatever refreshes were cut short or re-parsed a grown transcript, a line
\* provenance row (metadata_db.rs insert_source_session_line_provenance) points
\* at the stored chunk it came from, and the transcript has an edit of that time
\* whose text or output is that line; the plan's edges are those of one listing.
IndexSound ==
    /\ \A s \in Sessions : \A p \in db.prov[s] :
         /\ p.n \in DOMAIN db.chunks[s] /\ db.chunks[s][p.n].at = p.at
         /\ \E q \in CallsOf(s) :
              LET i == log[s][q[1]].items[q[2]] IN
              /\ log[s][q[1]].at = p.at /\ i.call = db.chunks[s][p.n].id[3]
              /\ \E t \in {i.new, OutputOf(s, q[1], i.call)} : \E m \in DOMAIN t : t[m].of = p.line
    /\ db.plan \in {{}} \cup {ToSet(p) : p \in PlanFiles}

\* Agents append: no refresh, of a transcript with a half-written last line
\* either, may leave a session with fewer chunks than it had (history.rs
\* refresh, metadata_db.rs upsert_source_session_chunks).
StoredNeverShrinks ==
    [][\A s \in Sessions : Len(db'.chunks[s]) >= Len(db.chunks[s])]_vars

LastAnswer == answers'["coding"][Len(answers'["coding"])]
ExplainAnswered == call # Idle /\ call' = Idle

\* An explain answer (mcp.rs explain_tool_call) about lines that a stored edit
\* wrote is line-level and says so, however refreshes interleave with it, when
\* the queries that look for the lines do not fail; and whatever fails, every
\* step of a line-level answer is a session with an edit or output that has one
\* of the lines; a session comes once; a note is not later than its step.
AnswerHonest ==
    [][ExplainAnswered =>
         LET a == LastAnswer IN
         /\ call.had # {} => a.strength # None /\ a.verdict = "useful"
         /\ a.strength # None => \A k \in DOMAIN a.steps :
              \E q \in CallsOf(a.steps[k].session) :
                 LET r == log[a.steps[k].session][q[1]]
                     i == r.items[q[2]]
                 IN \E t \in {i.old, i.new, OutputOf(a.steps[k].session, q[1], i.call)} :
                       \E m \in DOMAIN t : t[m].of \in ToSet(call.q.anchor.text)
         /\ \A k \in DOMAIN a.steps :
              /\ a.steps[k].note # None => a.steps[k].note <= a.steps[k].at
              /\ \A j \in DOMAIN a.steps :
                   j # k => a.steps[j].session = None \/ a.steps[j].session # a.steps[k].session
      ]_vars

\* The lines a surface has taken that are to be answered, and those that are.
Asks(q) == q.method = "garbage" \/ q.id # None
Asked(x) == {i \in 1 .. served[x] : Asks(sent[x][i])}
Answered(x) == Asked(x) \ (IF x = "coding" /\ call # Idle THEN {served[x]} ELSE {})
\* The place of i in S.
Rank(S, i) == Cardinality({j \in S : j <= i})
\* The planning requests that name a tool that writes, and were told it did.
Wrote == {i \in Asked("planning") :
             /\ sent["planning"][i].method = "tools/call"
             /\ CanonicalPlanningName(sent["planning"][i].tool) \in
                   {"mission", "artifact_add", "artifact_attach"}
             /\ answers["planning"][Rank(Asked("planning"), i)].is = "result"}

\* Every request that was taken is answered once, in order, on the surface it
\* came in by, notifications are not answered, and the ledger has exactly the
\* writes that were answered with a result, in their order (mcp.rs serve,
\* dispatch_planning).
OneAnswer ==
    /\ \A x \in Surfaces :
         /\ Len(answers[x]) = Cardinality(Answered(x))
         /\ \A i \in Answered(x) : answers[x][Rank(Answered(x), i)].id = sent[x][i].id
    /\ Len(ledger) = Cardinality(Wrote)
    /\ \A i \in Wrote :
         LET e == ledger[Rank(Wrote, i)]
             q == sent["planning"][i]
         IN e.entity = q.entity /\ e.tool = CanonicalPlanningName(q.tool)

\* traits.rs select_turn_final_message, of the message that explains a change:
\* "Never use a future assistant message".  The note of a line-level step is no
\* later than the session's last edit that has the line.
NoteNotAfterLine ==
    [][ExplainAnswered /\ LastAnswer.strength # None =>
         \A k \in DOMAIN LastAnswer.steps :
            LET st == LastAnswer.steps[k] IN
            st.note # None => \E q \in CallsOf(st.session) :
                LET i == log[st.session][q[1]].items[q[2]] IN
                /\ log[st.session][q[1]].at >= st.note
                /\ \E t \in {i.old, i.new, OutputOf(st.session, q[1], i.call)} :
                     \E m \in DOMAIN t : t[m].of \in ToSet(call.q.anchor.text)
      ]_vars
=============================================================================
