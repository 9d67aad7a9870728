----------------------------- MODULE TraceIndex -----------------------------
(***************************************************************************)
(* What brick derives from its event rows (crates/core/src/index.rs,       *)
(* sqlite_index.rs): the graph TraceIndex folds out of the events, and the *)
(* tables and queries of the SQLite cache filled from that graph.          *)
(*                                                                         *)
(* An event is a record with every field, None where it has no value:      *)
(* `parent` is the payload's org or project, `name` stands for the fields  *)
(* an update leaves alone when it does not give them (name, title, kind,   *)
(* status), `body` for those a creation overwrites (description, body,     *)
(* session name and source), `item` for the id of an attachment, log, file *)
(* reference or repo context, `files` for the changes of a diff.  Ids of   *)
(* events are numbers, paths are sequences of components.  `readable` is   *)
(* FALSE when the payload does not parse.                                  *)
(***************************************************************************)
EXTENDS Integers, Sequences, FiniteSets, SequencesExt

CONSTANT None

\* The members of S in the order Less, a strict total order on S.
Sorted(S, Less(_, _)) ==
    [k \in 1..Cardinality(S) |->
        CHOOSE x \in S : Cardinality({y \in S : Less(y, x)}) = k - 1]

\* A set of numbers in order; and the elements of s that are Wanted in theirs
\* (SelectSeq, said of their places).
InOrder(S) == Sorted(S, LAMBDA a, b : a < b)
Select(s, Wanted(_)) ==
    LET at == InOrder({i \in DOMAIN s : Wanted(s[i])}) IN [k \in DOMAIN at |-> s[at[k]]]

EventTypes ==
    {"org.created", "org.updated", "project.created", "project.updated",
     "mission.created", "mission.updated", "session.started", "session.linked_to_mission",
     "session.log_uploaded", "artifact.created", "artifact.updated", "artifact.linked_to_mission",
     "artifact.file_ref_recorded", "artifact.attachment_uploaded", "artifact.reviewed",
     "artifact.accepted", "repo_context.captured", "diff.captured", "external_ref.linked",
     "source.session_observed"}

BlankEvent ==
    [id |-> 0, type |-> "artifact.reviewed", occurred |-> 0, recorded |-> 0,
     org |-> None, project |-> None, mission |-> None, session |-> None,
     artifact |-> None, ctx |-> None, name |-> None, body |-> None,
     parent |-> None, item |-> None, files |-> <<>>, target |-> None,
     touched |-> {}, key |-> None, updated |-> None, readable |-> TRUE]

\* ORDER BY occurred_at ASC, event_id ASC: how every reader sees the rows.
ReadEvents(rows) ==
    Sorted(rows, LAMBDA a, b : \/ a.occurred < b.occurred
                               \/ a.occurred = b.occurred /\ a.id < b.id)

-----------------------------------------------------------------------------
(* The graph.  nodes: the entries of the five maps; seen: last_event_at;    *)
(* links: the id sets of entries, <<a, b>> when a's entry lists b; up:      *)
(* org_id of a project and project_id of a mission.                        *)

EmptyIndex ==
    [nodes |-> {}, seen |-> <<>>, links |-> {}, up |-> <<>>, name |-> <<>>,
     body |-> <<>>, ctxs |-> {}, refs |-> <<>>, paths |-> {}, items |-> <<>>,
     diffs |-> <<>>]

Put(f, k, v) == [x \in DOMAIN f \cup {k} |-> IF x = k THEN v ELSE f[x]]
\* entry(..).or_insert_with(blank), then last_event_at = recorded_at.
Touch(x, n, e) ==
    [x EXCEPT !.nodes = @ \cup {n}, !.seen = Put(@, n, e.recorded)]
InsertOptional(x, n, e) ==
    IF e.ctx = None THEN x ELSE [x EXCEPT !.ctxs = @ \cup {<<n, e.ctx>>}]

\* What a created event and what an updated event set on an entry.
Create(x, n, e) ==
    [InsertOptional(Touch(x, n, e), n, e) EXCEPT !.name = Put(@, n, e.name),
                                                 !.body = Put(@, n, e.body)]
Update(x, n, e) ==
    [InsertOptional(Touch(x, n, e), n, e) EXCEPT
        !.name = IF e.name = None THEN @ ELSE Put(@, n, e.name),
        !.body = IF e.body = None THEN @ ELSE Put(@, n, e.body)]

\* The two sides of a link are two writes in the code.
LinkOneSide(x, a, b, e) ==
    [Touch(Touch(x, a, e), b, e) EXCEPT !.links = @ \cup {<<a, b>>}]
Link(x, a, b, e) ==
    [Touch(Touch(x, a, e), b, e) EXCEPT !.links = @ \cup {<<a, b>>, <<b, a>>}]
LinkOptional(x, a, b, e) == IF b = None THEN x ELSE Link(x, a, b, e)
LinkUp(x, child, parent, e) ==
    [Touch(Touch(x, parent, e), child, e) EXCEPT !.links = @ \cup {<<parent, child>>},
                                                 !.up = Put(@, child, parent)]

ApplyOrgCreated(x, e) == Create(x, e.org, e)
ApplyOrgUpdated(x, e) == Update(x, e.org, e)
ApplyProjectCreated(x, e) ==
    InsertOptional(LinkUp(Create(x, e.project, e), e.project, e.parent, e), e.parent, e)
ApplyProjectUpdated(x, e) ==
    Update(IF e.parent = None THEN x ELSE LinkUp(x, e.project, e.parent, e), e.project, e)
ApplyMissionCreated(x, e) == Create(LinkUp(x, e.mission, e.parent, e), e.mission, e)
ApplyMissionUpdated(x, e) ==
    Update(IF e.parent = None THEN x ELSE LinkUp(x, e.mission, e.parent, e), e.mission, e)
ApplySessionStarted(x, e) ==
    LinkOptional(Create(x, e.session, e), e.session, e.mission, e)
ApplySessionLinked(x, e) ==
    InsertOptional(InsertOptional(Link(x, e.session, e.mission, e), e.session, e), e.mission, e)
ApplySessionLogUploaded(x, e) ==
    [InsertOptional(Touch(x, e.session, e), e.session, e) EXCEPT
        !.items = Put(@, e.item, [owner |-> e.session, at |-> e.recorded]),
        !.links = @ \cup {<<e.session, e.item>>}]
ApplyArtifactCreated(x, e) ==
    LinkOptional(LinkOptional(Create(x, e.artifact, e), e.artifact, e.mission, e),
                 e.artifact, e.session, e)
ApplyArtifactUpdated(x, e) ==
    LinkOptional(Update(x, e.artifact, e), e.artifact, e.session, e)
ApplyArtifactLinked(x, e) ==
    InsertOptional(InsertOptional(Link(x, e.artifact, e.mission, e), e.artifact, e), e.mission, e)

FileRef(e, ref, path) ==
    [ref |-> ref, artifact |-> e.artifact, session |-> e.session, path |-> path,
     at |-> e.recorded]

FileRefOfKnownArtifact(x, e) ==
    LET y == [x EXCEPT !.refs = Append(@, FileRef(e, e.item, e.files[1].path))]
    IN IF e.artifact \in x.nodes
       THEN LinkOptional([Touch(y, e.artifact, e) EXCEPT
                             !.paths = @ \cup {<<e.artifact, e.files[1].path>>}],
                         e.artifact, e.session, e)
       ELSE y

\* The path goes to the artifact's entry only when there is one already
\* (get_mut); the link to the session comes after, and makes it.
ApplyArtifactFileRef(x, e) ==
    LET path == e.files[1].path
        y == [x EXCEPT !.refs = Append(@, FileRef(e, e.item, path))]
        z == IF e.artifact \in x.nodes
             THEN [InsertOptional(Touch(y, e.artifact, e), e.artifact, e) EXCEPT
                      !.paths = @ \cup {<<e.artifact, path>>}]
             ELSE y
    IN LinkOptional(z, e.artifact, e.session, e)
ApplyArtifactAttachmentUploaded(x, e) ==
    LinkOptional([InsertOptional(Touch(x, e.artifact, e), e.artifact, e) EXCEPT
                     !.items = Put(@, e.item, [owner |-> e.artifact, at |-> e.recorded]),
                     !.links = @ \cup {<<e.artifact, e.item>>}],
                 e.artifact, e.session, e)

\* One file reference for each change, all of them named by the event's id.
ApplyDiffCaptured(x, e) ==
    LET changed == {e.files[i].path : i \in DOMAIN e.files}
        y == [InsertOptional(Touch(x, e.artifact, e), e.artifact, e) EXCEPT
                 !.diffs = Put(@, e.id, [artifact |-> e.artifact, session |-> e.session,
                                         files |-> e.files, at |-> e.recorded]),
                 !.links = @ \cup {<<e.artifact, e.id>>},
                 !.paths = @ \cup {<<e.artifact, p>> : p \in changed},
                 !.refs = @ \o [i \in DOMAIN e.files |-> FileRef(e, e.id, e.files[i].path)]]
    IN LinkOptional(LinkOptional(y, e.artifact, e.session, e), e.artifact, e.mission, e)
ApplyRepoContextCaptured(x, e) ==
    [x EXCEPT !.items = Put(@, e.item, [owner |-> None, at |-> e.recorded])]

\* The ids whose absence makes apply_* return without a change.
Needed(e) ==
    CASE e.type \in {"org.created", "org.updated"} -> {e.org}
      [] e.type \in {"project.created", "project.updated"} -> {e.project}
      [] e.type \in {"mission.created", "mission.updated"} -> {e.mission}
      [] e.type \in {"session.started", "session.log_uploaded"} -> {e.session}
      [] e.type = "session.linked_to_mission" -> {e.session, e.mission}
      [] e.type = "artifact.linked_to_mission" -> {e.artifact, e.mission}
      [] e.type = "repo_context.captured" -> {e.item}
      [] e.type \in {"artifact.reviewed", "artifact.accepted", "external_ref.linked",
                     "source.session_observed"} -> {None}
      [] OTHER -> {e.artifact}
Applies(e) == None \notin Needed(e)

ApplyEvent(x, e) ==
    IF ~Applies(e) THEN x ELSE
    CASE e.type = "org.created" -> ApplyOrgCreated(x, e)
      [] e.type = "org.updated" -> ApplyOrgUpdated(x, e)
      [] e.type = "project.created" -> ApplyProjectCreated(x, e)
      [] e.type = "project.updated" -> ApplyProjectUpdated(x, e)
      [] e.type = "mission.created" -> ApplyMissionCreated(x, e)
      [] e.type = "mission.updated" -> ApplyMissionUpdated(x, e)
      [] e.type = "session.started" -> ApplySessionStarted(x, e)
      [] e.type = "session.linked_to_mission" -> ApplySessionLinked(x, e)
      [] e.type = "session.log_uploaded" -> ApplySessionLogUploaded(x, e)
      [] e.type = "artifact.created" -> ApplyArtifactCreated(x, e)
      [] e.type = "artifact.updated" -> ApplyArtifactUpdated(x, e)
      [] e.type = "artifact.linked_to_mission" -> ApplyArtifactLinked(x, e)
      [] e.type = "artifact.file_ref_recorded" -> ApplyArtifactFileRef(x, e)
      [] e.type = "artifact.attachment_uploaded" -> ApplyArtifactAttachmentUploaded(x, e)
      [] e.type = "diff.captured" -> ApplyDiffCaptured(x, e)
      [] e.type = "repo_context.captured" -> ApplyRepoContextCaptured(x, e)

\* One payload that does not parse fails the whole build.
BuildFails(rows) == \E e \in rows : Applies(e) /\ ~e.readable
Build(rows) == FoldLeft(ApplyEvent, EmptyIndex, ReadEvents(rows))

\* The server folds its log in the order events arrived.
RebuildServerIndex(log) == FoldLeft(ApplyEvent, EmptyIndex, log)

-----------------------------------------------------------------------------
(* The SQLite cache: INSERT OR IGNORE into artifact_files and              *)
(* artifact_attachments, a plain INSERT, which a duplicate key fails,      *)
(* everywhere else.                                                        *)

UniqueBy(s, Key(_)) ==
    \A i, j \in DOMAIN s : Key(s[i]) = Key(s[j]) => i = j

DiffFiles(x) ==
    FlattenSeq([k \in 1..Cardinality(DOMAIN x.diffs) |->
        LET d == InOrder(DOMAIN x.diffs)[k]
        IN [i \in DOMAIN x.diffs[d].files |->
              [diff |-> d, path |-> x.diffs[d].files[i].path,
               old |-> x.diffs[d].files[i].old, at |-> x.diffs[d].at,
               session |-> x.diffs[d].session]]])

\* A NULL old_path never equals another in the key of diff_files.
InsertFails(x) ==
    \/ ~UniqueBy(x.refs, LAMBDA r : r.ref)
    \/ ~UniqueBy(Select(DiffFiles(x), LAMBDA r : r.old # None),
                 LAMBDA r : <<r.diff, r.path, r.old>>)

InsertFiles(x) ==
    x.paths \cup {<<x.refs[i].artifact, x.refs[i].path>> : i \in DOMAIN x.refs}
\* Newest first, equals in the order they come.
NewerFirst(s) ==
    LET order == Sorted(DOMAIN s, LAMBDA i, j : \/ s[i].at > s[j].at
                                                \/ s[i].at = s[j].at /\ i < j)
    IN [k \in DOMAIN s |-> s[order[k]]]
NormalizedLimit(k) == IF k < 1 THEN 1 ELSE k
TakeRows(s, k) == SubSeq(s, 1, IF NormalizedLimit(k) < Len(s) THEN NormalizedLimit(k) ELSE Len(s))

\* session_missions is filled from the session's entry, artifact_missions and
\* artifact_sessions from the artifact's.
InsertSession(x, S) == {p \in x.links : p[1] \notin S /\ p[2] \notin S}
InsertArtifact(x, S) == {p \in x.links : p[1] \in S}

\* What a session's record lists, when S are the artifacts: its missions, the
\* artifacts that name it and the logs uploaded for it.
QuerySqliteSessions(x, S, s) ==
    {p[2] : p \in {q \in InsertSession(x, S) : q[1] = s /\ q[2] \notin DOMAIN x.items}}
        \cup {p[1] : p \in {q \in InsertArtifact(x, S) : q[2] = s}}
        \cup {i \in DOMAIN x.items : x.items[i].owner = s}

\* The artifacts a query selects, None where it has no filter.  (What blame
\* rows and these do with order and limit is the same.)
QuerySqliteArtifacts(x, S, session, mission) ==
    {a \in S \cap x.nodes :
        /\ session # None => <<a, session>> \in InsertArtifact(x, S)
        /\ mission # None => <<a, mission>> \in InsertArtifact(x, S)}

\* path = query, or path LIKE query/%.
Under(path, query) == IsPrefix(query, path)

\* Ids are random, so the order of equals stands for the order by id.
RuntimeDiffBlame(x, query, k) ==
    TakeRows(NewerFirst(Select(DiffFiles(x), LAMBDA r :
                Under(r.path, query) \/ (r.old # None /\ Under(r.old, query)))), k)
AllFileRefBlame(x, query, k) ==
    TakeRows(NewerFirst(Select(x.refs, LAMBDA r : Under(r.path, query))), k)
RuntimeFileRefBlame(x, query, k) ==
    TakeRows(NewerFirst(Select(x.refs, LAMBDA r :
                Under(r.path, query) /\ r.ref \notin DOMAIN x.diffs)), k)

\* Both limited, put together, sorted newest first and cut again.
FileSessionBlame(x, query, k) ==
    LET Row(s) == [i \in DOMAIN s |-> [at |-> s[i].at, path |-> s[i].path,
                                       session |-> s[i].session]]
    IN TakeRows(NewerFirst(Row(RuntimeDiffBlame(x, query, k))
                           \o Row(RuntimeFileRefBlame(x, query, k))), k)

-----------------------------------------------------------------------------
(* Timelines. *)

MaxExplainDepth == 8

\* One is the other's tail of whole components.
PathMatchesRel(path, rel) == IsSuffix(rel, path) \/ IsSuffix(path, rel)

\* Source sessions of the metadata database as steps: each session once.
SourceSessionsToSteps(found) ==
    LET firsts == {i \in DOMAIN found :
                     \A j \in 1..(i - 1) : found[j].session # found[i].session}
        kept == InOrder(firsts)
    IN [k \in DOMAIN kept |-> [event |-> 0, session |-> found[kept[k]].session,
                               title |-> None, at |-> found[kept[k]].at]]

\* Sessions the chain has already are left out; one timeline, newest first,
\* chain steps before source steps of the same time.
MergeSourceStepsInto(steps, more) ==
    LET linked == {steps[i].session : i \in DOMAIN steps} \ {None}
    IN NewerFirst(steps \o Select(more, LAMBDA s : s.session \notin linked))
=============================================================================
