----------------------------- MODULE Provenance -----------------------------
(***************************************************************************)
(* From a working tree to an answer (crates/core/src/diff_capture.rs,      *)
(* blame.rs, explain.rs): people edit, stage and commit one file; sessions *)
(* capture diffs of it and record other events; blame_file and explain     *)
(* read the rows back.                                                     *)
(*                                                                         *)
(* git is external.  A line of the file is a number that no other line     *)
(* has, a version of the file a sequence of lines.  Files are so short     *)
(* that the context git puts around a change is the whole file: a patch id *)
(* is the pair of versions it leads from and to.                           *)
(***************************************************************************)
EXTENDS TraceIndex

CONSTANTS
    File,       \* the path of the file the working tree holds
    Capturers,  \* who captures diffs: <<session, artifact>>
    Pool,       \* other events that may be recorded
    Paths,      \* anchors and blame queries asked
    Artifacts,
    Linked,     \* missions, sessions and artifacts: the ids links join
    MaxRecorded,\* bound: events of Pool recorded
    MaxMixed,   \* bound: those of them before the file has a line
    MaxLines,   \* bound: lines ever written
    MaxCommits, \* bound: commits
    MaxCaptures \* bound: diffs captured

\* What the payloads require (protocol/src/payloads.rs): a project or mission is
\* created in an org or project, what is uploaded or referred to has an id, a
\* file reference names one path.  A diff in the pool has no patch of the file:
\* those that have are captured.  Ids of events up to 100 are the pool's, those
\* above the captures'.
ASSUME ProvenanceAssumption ==
    /\ MaxRecorded \in Nat /\ MaxMixed \in Nat
    /\ MaxLines \in Nat /\ MaxCommits \in Nat /\ MaxCaptures \in Nat
    /\ \A e \in Pool :
         /\ DOMAIN e = DOMAIN BlankEvent /\ e.type \in EventTypes
         /\ e.id \in 1..100 /\ e.occurred \in Int /\ e.recorded \in Int
         /\ e.updated \in Int \cup {None}
         /\ DOMAIN e.files = 1..Len(e.files) /\ Len(e.files) \in Nat
         /\ \A i \in DOMAIN e.files : e.files[i].path = File => e.files[i].patch = None
         /\ e.type \in {"project.created", "mission.created"} => e.parent # None
         /\ e.type \in {"session.log_uploaded", "artifact.attachment_uploaded",
                        "artifact.file_ref_recorded"} => e.item # None
         /\ e.type = "artifact.file_ref_recorded" => Len(e.files) = 1 /\ e.files[1].old = None

\* Ids say what they name (protocol/src/ids.rs), and what is uploaded or referred
\* to has a new one.
ASSUME IdsAssumption ==
    /\ None \notin Linked /\ Artifacts \subseteq Linked
    /\ \A e \in Pool :
         /\ {e.mission, e.session, e.artifact} \subseteq Linked \cup {None}
         /\ {e.id, e.parent, e.item, e.org, e.project} \cap Linked = {}
         /\ e.artifact \in Artifacts \cup {None} /\ {e.mission, e.session} \cap Artifacts = {}
         /\ \A d \in Pool :
              /\ e.session # None => e.session # d.mission
              /\ e.item # None /\ e.item = d.item => e = d
              /\ e.item # d.id

VARIABLES
    rows,       \* brick_events
    work, index, head,  \* the file: working tree, staged, last commit
    commits,    \* patch of each commit
    lines,      \* lines ever written
    pend        \* a capture that has read the hunks, or None

vars == <<rows, work, index, head, commits, lines, pend>>
treeVars == <<work, index, head, commits, lines>>

Init ==
    /\ rows = {} /\ pend = None /\ lines = 0
    /\ work = <<>> /\ index = <<>> /\ head = <<>> /\ commits = <<>>

-----------------------------------------------------------------------------
(* Editing and git. *)

Captured == {e \in rows : e.id > 100}
Recorded == Cardinality(rows \ Captured)

Edit ==
    /\ Recorded <= MaxMixed
    /\ lines < MaxLines /\ lines' = lines + 1
    /\ \E i \in 1..(Len(work) + 1) : work' = InsertAt(work, i, lines + 1)
    /\ UNCHANGED <<rows, index, head, commits, pend>>
DeleteLine ==
    /\ \E i \in DOMAIN work : work' = RemoveAt(work, i)
    /\ UNCHANGED <<rows, index, head, commits, lines, pend>>
Stage ==
    /\ index # work /\ index' = work
    /\ UNCHANGED <<rows, work, head, commits, lines, pend>>
Commit ==
    /\ index # head /\ Len(commits) < MaxCommits
    /\ head' = index /\ commits' = Append(commits, <<head, index>>)
    /\ UNCHANGED <<rows, work, index, lines, pend>>

\* The commit git blame names for a line of the working tree; 0, the all-zero
\* sha, for a line that is not in HEAD.
BlameCommit(l) ==
    IF l \notin ToSet(head) THEN 0
    ELSE CHOOSE c \in DOMAIN commits : l \in ToSet(commits[c][2]) \ ToSet(commits[c][1])

-----------------------------------------------------------------------------
(* Capturing a diff: one git command for the hunks, another for the patch   *)
(* id, and an edit may come in between.                                    *)

Versions(target) ==
    CASE target = "working" -> <<index, work>>
      [] target = "staged" -> <<head, index>>
      [] target = "range" -> IF commits = <<>> THEN <<head, head>> ELSE Last(commits)

\* The ranges of added lines (--unified=0).
Hunks(v) ==
    LET added == {i \in DOMAIN v[2] : v[2][i] \notin ToSet(v[1])}
    IN {r \in added \X added : /\ r[1] <= r[2] /\ r[1]..r[2] \subseteq added
                               /\ r[1] - 1 \notin added /\ r[2] + 1 \notin added}
FilePatchId(v) == IF v[1] = v[2] THEN None ELSE v

CaptureBegin(s) ==
    /\ pend = None /\ Cardinality(Captured) < MaxCaptures
    /\ \E t \in {"working", "staged", "range"} :
          /\ Versions(t)[1] # Versions(t)[2]      \* else there is no file change
          /\ pend' = [by |-> s, target |-> t, hunks |-> Hunks(Versions(t))]
    /\ UNCHANGED <<rows, treeVars>>
CaptureEnd ==
    /\ pend # None /\ pend' = None
    /\ LET n == Cardinality(Captured) + 1 IN
       rows' = rows \cup
         {[BlankEvent EXCEPT !.id = 100 + n, !.type = "diff.captured",
             !.occurred = 50 + n, !.recorded = 50 + n, !.session = pend.by[1],
             !.artifact = pend.by[2], !.target = pend.target,
             !.files = <<[path |-> File, old |-> None, hunks |-> pend.hunks,
                          patch |-> FilePatchId(Versions(pend.target))]>>]}
    /\ UNCHANGED treeVars

\* Another event is recorded: INSERT OR IGNORE, whatever its place in time.
Record(e) ==
    /\ Recorded < IF lines = 0 THEN MaxRecorded ELSE MaxMixed
    /\ e.id \notin {x.id : x \in rows}
    /\ rows' = rows \cup {e}
    /\ UNCHANGED <<treeVars, pend>>

Next ==
    \/ Edit \/ DeleteLine \/ Stage \/ Commit
    \/ \E s \in Capturers : CaptureBegin(s)
    \/ CaptureEnd
    \/ \E e \in Pool : Record(e)

Spec == Init /\ [][Next]_vars

Events == ReadEvents(rows)

-----------------------------------------------------------------------------
(* Blame. *)

CollectDiffEvents(evs, path) ==
    Select(evs, LAMBDA e : /\ e.type = "diff.captured" /\ e.readable
                           /\ \E i \in DOMAIN e.files : e.files[i].path = path)

AttributeLatestDiff(evs, path, patch) ==
    LET d == CollectDiffEvents(evs, path)
    IN IF patch = None \/ d = <<>> THEN None ELSE Last(d)

\* patch_to_attr: the last event in time that captured this patch, or None.
AttributionOf(evs, path, patch) ==
    LET d == CollectDiffEvents(evs, path)
        n == SelectLastInSeq(d, LAMBDA e : \E i \in DOMAIN e.files :
                                    e.files[i].path = path /\ e.files[i].patch = patch)
    IN IF patch = None \/ n = 0 THEN None ELSE d[n]
LatestWorking(evs, path) ==
    LET d == CollectDiffEvents(evs, path)
        n == SelectLastInSeq(d, LAMBDA e : e.target = "working")
    IN IF n = 0 THEN None ELSE d[n]

InHunk(e, path, n) ==
    \E i \in DOMAIN e.files : /\ e.files[i].path = path
                              /\ \E h \in e.files[i].hunks : h[1] <= n /\ n <= h[2]

Unattributed(c) == [commit |-> c, event |-> None, confidence |-> "unattributed"]

OverlayAll(evs, path, n, c, line) ==
    LET e == LatestWorking(evs, path)
    IN IF e # None /\ InHunk(e, path, n)
       THEN [line EXCEPT !.event = e.id, !.confidence = "working"] ELSE line
\* The overlay of the latest working diff touches uncommitted lines only.
Overlay(evs, path, n, c, line) ==
    LET e == LatestWorking(evs, path)
    IN IF c = 0 /\ e # None /\ InHunk(e, path, n)
       THEN [line EXCEPT !.event = e.id, !.confidence = "working"] ELSE line
BlameLine(evs, path, n) ==
    LET c == BlameCommit(work[n])
        a == IF c = 0 THEN None ELSE AttributionOf(evs, path, commits[c])
    IN Overlay(evs, path, n, c,
               IF a = None THEN Unattributed(c)
               ELSE [commit |-> c, event |-> a.id, confidence |-> "commit"])
BlameFile(evs, path) == [n \in DOMAIN work |-> BlameLine(evs, path, n)]

\* For each commit git log -L lists: the first change of the path in an event
\* that has a patch id stands for the event.
FirstPatch(e, path) ==
    LET i == SelectInSeq(e.files, LAMBDA f : f.path = path /\ f.patch # None)
    IN IF i = 0 THEN None ELSE e.files[i].patch
LineRangeHistory(evs, path, shas) ==
    LET d == CollectDiffEvents(evs, path)
        By(c) == SelectLastInSeq(d, LAMBDA e : FirstPatch(e, path) = commits[c])
    IN [k \in DOMAIN shas |->
          [commit |-> shas[k],
           event |-> IF By(shas[k]) = 0 THEN None ELSE d[By(shas[k])].id]]

-----------------------------------------------------------------------------
(* Explain. *)

DiffEventTouches(e, rel) ==
    \E i \in DOMAIN e.files : PathMatchesRel(e.files[i].path, rel)
SourceSessionEventTouches(e, rel) ==
    e.readable /\ \E p \in e.touched : PathMatchesRel(p, rel)

\* Artifact, mission and event ids select in the order of the stream.
ResolveDirectAnchor(evs, x) ==
    Select(evs, LAMBDA e : x \in {e.artifact, e.mission})

ResolveFileInStreamOrder(evs, rel) ==
    Select(evs, LAMBDA e :
        \/ e.type = "diff.captured" /\ DiffEventTouches(e, rel)
        \/ e.type = "source.session_observed" /\ SourceSessionEventTouches(e, rel))
ResolveFileAnchor(evs, rel) ==
    LET Touches(e) == \/ e.type = "diff.captured" /\ DiffEventTouches(e, rel)
                      \/ /\ e.type = "source.session_observed"
                         /\ SourceSessionEventTouches(e, rel)
        hits == Select(evs, Touches)
        order == NewerFirst([i \in DOMAIN hits |-> [at |-> hits[i].occurred, of |-> hits[i]]])
    IN [i \in DOMAIN order |-> order[i].of]

\* Bounds in either order; each event once, in the order of the lines; the
\* strongest confidence.
ResolveFileRangeAnchor(evs, path, a, b) ==
    LET blame == BlameFile(evs, path)
        span == {n \in DOMAIN work : (a <= n /\ n <= b) \/ (b <= n /\ n <= a)}
        found == {blame[n].confidence : n \in span}
    IN [events |-> {blame[n].event : n \in span} \ {None},
        confidence |-> IF "commit" \in found THEN "commit"
                       ELSE IF "working" \in found THEN "working"
                       ELSE IF span = {} THEN None ELSE "unattributed"]

\* Observations of one source session are one step.
ExplainStepIdentity(e) ==
    IF e.type = "source.session_observed" /\ e.readable /\ e.key # None
    THEN <<"session", e.key>> ELSE <<"event", e.id>>

MissionTitles(evs) ==
    [m \in {evs[i].mission : i \in DOMAIN evs} |->
       LET n == SelectLastInSeq(evs, LAMBDA e :
                   /\ e.type \in {"mission.created", "mission.updated"}
                   /\ e.mission = m /\ e.name # None)
       IN IF n = 0 THEN None ELSE evs[n].name]

BuildStep(e, titles) ==
    [event |-> e.id,
     session |-> IF e.type = "source.session_observed" THEN e.key ELSE e.session,
     title |-> IF e.type = "source.session_observed" THEN None ELSE titles[e.mission],
     at |-> IF e.type = "source.session_observed" /\ e.updated # None
            THEN e.updated ELSE e.occurred]

\* Each identity once, where it comes first; depth + 1 of them at most.
ExplainFromEvents(evs, resolved, depth) ==
    LET limit == (IF depth < MaxExplainDepth THEN depth ELSE MaxExplainDepth) + 1
        Key(i) == ExplainStepIdentity(resolved[i])
        firsts == {i \in DOMAIN resolved : \A j \in 1..(i - 1) : Key(j) # Key(i)}
        kept == InOrder(firsts)
        titles == MissionTitles(evs)
    IN [steps |-> [k \in 1..(IF Len(kept) < limit THEN Len(kept) ELSE limit) |->
                     BuildStep(resolved[kept[k]], titles)],
        truncated |-> Len(kept) > limit]

-----------------------------------------------------------------------------
(* Properties. *)

Quiet == lines = 0

\* The graph is read from either end: when a mission's entry lists a session
\* or an artifact, or a session's an artifact, that entry lists it back,
\* whatever order the events were recorded and occurred in.
LinksMutual ==
    Quiet => LET x == Build(rows) IN
             \A p \in x.links : p[1] \in Linked /\ p[2] \in Linked => <<p[2], p[1]>> \in x.links

\* A session shows the same missions, artifacts and logs in the JSON index and
\* in the SQLite cache, which takes its artifacts from the artifacts' side.
SqliteSessionAgrees ==
    Quiet => LET x == Build(rows) IN
             \A s \in {e.session : e \in rows} \cap x.nodes :
                QuerySqliteSessions(x, Artifacts, s) = {p[2] : p \in {q \in x.links : q[1] = s}}

\* Every path a file reference or a captured diff names: <<event, place>>.
Changes ==
    UNION {{<<e, i>> : i \in DOMAIN e.files} :
             e \in {d \in rows : /\ d.type \in {"artifact.file_ref_recorded", "diff.captured"}
                                 /\ Applies(d)}}

\* Events that make the entry of artifact a, if it has none.
Makes(e, a) ==
    /\ e.artifact = a /\ Applies(e)
    /\ \/ e.type \in {"artifact.created", "artifact.updated", "artifact.linked_to_mission",
                      "artifact.attachment_uploaded", "diff.captured"}
       \/ e.type = "artifact.file_ref_recorded" /\ e.session # None
Early(log, i) ==
    /\ log[i].type = "artifact.file_ref_recorded"
    /\ \A j \in 1..(i - 1) : ~Makes(log[j], log[i].artifact)

\* The server folds events in the order they were pushed, a machine in the
\* order they occurred.  Both come to the same entries, the same links and the
\* same rows of artifact_files; what an artifact's own file_paths lack, in the
\* stored index, are the paths of references folded before any event that makes
\* its entry (index.rs:392-398), and of no other.
\* (Names and parents are the last writer's, and may differ; so may repo contexts.)
OrderMovesOnlyPaths ==
    Quiet /\ ~BuildFails(rows) =>
        LET x == Build(rows)
            n == Len(Events)
            Turn(k) == SubSeq(Events, k + 1, n) \o SubSeq(Events, 1, k)
        IN \A log \in {Reverse(Events)} \cup {Turn(k) : k \in 0..n} :
             LET y == RebuildServerIndex(log)
             IN /\ y.nodes = x.nodes /\ y.links = x.links
                /\ InsertFiles(y) = InsertFiles(x)
                /\ y.paths = {<<c[1].artifact, c[1].files[c[2]].path>> :
                                c \in {d \in Changes : \E i \in DOMAIN log :
                                                         log[i] = d[1] /\ ~Early(log, i)}}

\* A project or mission that names its org or project is found from there: the
\* parent has an entry, made even if its own creation never arrived, and the
\* entry lists the child.  (Not the other way round: a project that moved
\* stays in the list of the org it left.)
ParentListsChild ==
    Quiet => LET x == Build(rows) IN
             \A n \in DOMAIN x.up : x.up[n] \in x.nodes /\ <<x.up[n], n>> \in x.links

\* The graph holds together from either end: LinksMutual and ParentListsChild.
GraphSound == LinksMutual /\ ParentListsChild

\* The SQLite table artifact_files names, for every artifact, exactly the
\* paths its file references and captured diffs name, also where the graph's
\* own file_paths lack one because the reference came before the artifact.
ArtifactPathsComplete ==
    Quiet => LET x == Build(rows) IN
             InsertFiles(x) = {<<q[1].artifact, q[1].files[q[2]].path>> : q \in Changes}

\* Asking the cache for the artifacts of a session or of a mission finds
\* every artifact that an event of any kind recorded with it, and no other.
ArtifactQueryComplete ==
    Quiet => LET x == Build(rows)
                 Of(types) == {e \in rows : e.type \in types /\ Applies(e)}
                 any == {"artifact.created", "artifact.updated", "artifact.file_ref_recorded",
                         "artifact.attachment_uploaded", "diff.captured"}
                 placed == {"artifact.created", "artifact.linked_to_mission", "diff.captured"}
                 arts == {e.artifact : e \in rows}
             IN \A n \in Linked :
                  /\ QuerySqliteArtifacts(x, arts, n, None) =
                        {e.artifact : e \in {d \in Of(any) : d.session = n}
                                            \cup {d \in Of(placed) : d.mission = n}}
                  /\ QuerySqliteArtifacts(x, arts, n, n) = QuerySqliteArtifacts(x, arts, None, n)

\* A file-to-session query answers with the newest evidence for the path:
\* cutting diffs and file references to the limit before they are merged
\* loses no row newer than one it returns, and a diff counts once although
\* the index keeps a file reference for it too.
BlameRowsNewest ==
    Quiet => LET x == Build(rows) IN
             \A q \in Paths, k \in 0..2 \cup {100} :
                LET out == FileSessionBlame(x, q, k)
                    touching == {c \in Changes :
                        LET f == c[1].files[c[2]]
                        IN Under(f.path, q) \/ (f.old # None /\ Under(f.old, q))}
                    all == Cardinality(touching)
                IN /\ Len(out) = IF NormalizedLimit(k) < all THEN NormalizedLimit(k) ELSE all
                   /\ Cardinality({t \in touching : \E i \in DOMAIN out :
                                      t[1].recorded > out[i].at}) <= Len(out)

\* Filling the cache fails exactly when a captured diff changes several files:
\* each gets a file reference with the event's one id (index.rs:516-522), the
\* key of file_refs (sqlite_schema.rs:158, sqlite_index.rs:726).
OnlyWideDiffsFail ==
    Quiet => (InsertFails(Build(rows)) <=>
                \E e \in rows : e.type = "diff.captured" /\ Applies(e) /\ Len(e.files) > 1)

\* A rebuild either fails, for a payload that does not parse or for a diff of
\* several files, or fills a cache whose every answer is what the rows say:
\* SqliteSessionAgrees, ArtifactPathsComplete, ArtifactQueryComplete and
\* BlameRowsNewest.
SqliteAgrees ==
    ~BuildFails(rows) =>
        /\ OnlyWideDiffsFail
        /\ ~InsertFails(Build(rows)) =>
              /\ SqliteSessionAgrees /\ ArtifactPathsComplete
              /\ ArtifactQueryComplete /\ BlameRowsNewest

\* Asking why a file is as it is never loses a change silently: every event
\* that touches the path has its step, through its source session's newest
\* observation, or the answer says it was cut; and steps come newest first.
FileTimelineComplete ==
    Quiet => \A rel \in Paths, depth \in 0..2 :
        LET hits == ResolveFileAnchor(Events, rel)
            out == ExplainFromEvents(Events, hits, depth)
            shown == {e \in rows : \E i \in DOMAIN out.steps : out.steps[i].event = e.id}
        IN /\ \A i, j \in DOMAIN hits : i < j => hits[i].occurred >= hits[j].occurred
           /\ \A i \in DOMAIN hits :
                 \/ \E e \in shown : /\ ExplainStepIdentity(e) = ExplainStepIdentity(hits[i])
                                     /\ e.occurred >= hits[i].occurred
                 \/ out.truncated /\ \A e \in shown : e.occurred >= hits[i].occurred
           /\ out.truncated => Len(out.steps) = depth + 1

\* Merging the metadata database's sessions into a timeline keeps every step
\* that was there, adds each session that was not exactly once and leaves one
\* newest-first sequence.
MergedTimeline ==
    Quiet => \A rel \in Paths :
        LET steps == ExplainFromEvents(Events, ResolveFileAnchor(Events, rel), 2).steps
            found == [i \in DOMAIN Events |-> [session |-> Events[i].session, at |-> Events[i].recorded]]
            known == Select(found, LAMBDA f : f.session # None)
            out == MergeSourceStepsInto(steps, SourceSessionsToSteps(known))
            Count(s) == Cardinality({i \in DOMAIN out : out[i].session = s /\ out[i].event = 0})
            In(s) == \E i \in DOMAIN steps : steps[i].session = s
        IN /\ ToSet(steps) \subseteq ToSet(out)
           /\ \A i \in DOMAIN known : Count(known[i].session) = IF In(known[i].session) THEN 0 ELSE 1
           /\ \A i, j \in DOMAIN out : i < j => out[i].at >= out[j].at

\* A file's timeline is complete, cut only aloud, and stays so when the metadata
\* database's sessions are merged in: FileTimelineComplete and MergedTimeline.
TimelineSound == FileTimelineComplete /\ MergedTimeline

\* Blame never invents: a line with commit confidence was added by the very
\* diff it is attributed to, though a capture reads hunks and patch id with
\* two git commands and the tree may change between them; and the history of
\* a commit's lines names the same event.
CommitBlameSawLine ==
    \A n \in DOMAIN work :
        LET b == BlameFile(Events, File)[n] IN
        b.confidence = "commit" =>
          /\ \E e \in rows : /\ e.id = b.event
                             /\ \E i \in DOMAIN e.files : LET v == e.files[i].patch IN
                                   v # None /\ work[n] \in ToSet(v[2]) \ ToSet(v[1])
          /\ LineRangeHistory(Events, File, <<b.commit>>)[1].event = b.event

\* Attribution survives drift: edits, staging, further commits and events that
\* are no diff of this file never change who a committed line is credited to,
\* however far the line moves.
CommitBlameSurvivesDrift ==
    [][\A n \in DOMAIN work, m \in DOMAIN work' :
          LET b == BlameFile(Events, File)[n]
              c == BlameFile(Events, File)'[m]
          IN (/\ work[n] = work'[m] /\ work[n] \in ToSet(head) /\ work[n] \in ToSet(head')
              /\ Captured' = Captured)
             => c = b]_vars

\* A range anchor answers for every line of the range whichever bound comes
\* first, with the events the single lines resolve to.
RangeAnchorIsUnion ==
    \A a, b \in DOMAIN work :
        LET r == ResolveFileRangeAnchor(Events, File, a, b)
            one == {ResolveFileRangeAnchor(Events, File, n, n) :
                      n \in {n \in DOMAIN work : (a <= n /\ n <= b) \/ (b <= n /\ n <= a)}}
        IN /\ r.events = UNION {o.events : o \in one}
           /\ r.confidence \in {o.confidence : o \in one}

\* What blame and a range anchor say of lines: CommitBlameSawLine and
\* RangeAnchorIsUnion.
BlameSound == CommitBlameSawLine /\ RangeAnchorIsUnion

=============================================================================
