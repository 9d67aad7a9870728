------------------------------ MODULE Metadata ------------------------------
(***************************************************************************)
(* The metadata database (crates/core/src/metadata_db.rs) and the three    *)
(* ways explain asks it about a file: which session wrote this line, whose *)
(* edits contain this text, who touched the file.                          *)
(*                                                                         *)
(* A database is a record: row, the source_sessions; chunks, the           *)
(* source_session_chunks; prov, the source_file_line_provenance; plan, the *)
(* edges of the one source plan.  Sessions are numbers, in the order of    *)
(* (source_id, external_session_id).                                       *)
(***************************************************************************)
EXTENDS Transcript

CONSTANTS
    Sessions,
    SourceOf,   \* source of each session
    RepoOf,     \* repo_path of each session: the cwd of its first record
    LogPath,    \* path of each session's transcript
    ShortLines  \* lines of fewer than six characters

EmptyDb == [row |-> [s \in Sessions |-> None], chunks |-> [s \in Sessions |-> <<>>],
            prov |-> [s \in Sessions |-> {}], plan |-> {}]

-----------------------------------------------------------------------------
(* Writes.  Each is one transaction; None when it fails and rolls back. *)

UpsertSourceSession(db, s, r) == [db EXCEPT !.row[s] = r]

IsFileMutationTool(f) ==
    f \in {"edit_file", "write_file", "delete_file", "run_shell", "create_file",
           "apply_patch", "edit_file_by_replace"}

\* The arguments' path, else the path of the transcript itself.
ChunkFilePath(s, c) == IF c.path # None THEN c.path ELSE LogPath[s]
\* Added lines of the edit, or of the output when the arguments hold none.
ChunkProvenanceLines(c) ==
    LET text == IF c.top # None THEN c.top ELSE c.out
    IN {text[i].of : i \in {j \in DOMAIN text : text[j].mark \in {"", "+"}}} \ ShortLines
ProvenanceOf(s, chunks) ==
    UNION {{[path |-> ChunkFilePath(s, chunks[n]), line |-> l, n |-> n, at |-> chunks[n].at,
             kind |-> IF chunks[n].top # None THEN "exact_edit_hunk" ELSE "exact_diff_hunk"] :
               l \in ChunkProvenanceLines(chunks[n])} :
             n \in {k \in DOMAIN chunks : /\ chunks[k].kind = "tool_call"
                                          /\ IsFileMutationTool(chunks[k].function)}}

UpsertChunksKeepingProvenance(db, s, chunks) ==
    [db EXCEPT !.chunks[s] = chunks, !.prov[s] = @ \cup ProvenanceOf(s, chunks)]
\* Chunks and provenance of the session are deleted, then inserted again;
\* chunk_id is unique within a session.
UpsertSourceSessionChunks(db, s, chunks) ==
    IF \E i, j \in DOMAIN chunks : i # j /\ chunks[i].id = chunks[j].id THEN None
    ELSE [db EXCEPT !.chunks[s] = chunks, !.prov[s] = ProvenanceOf(s, chunks)]

\* Edges are deleted, then inserted one by one; (session, role) is unique.
UpsertSourcePlanWithEdges(db, edges) ==
    IF \E i, j \in DOMAIN edges : i # j /\ edges[i] = edges[j] THEN None
    ELSE [db EXCEPT !.plan = ToSet(edges)]

-----------------------------------------------------------------------------
(* Paths. *)

IsAbsolute(p) == p # <<>> /\ p[1] = "/"
JoinRepoPath(repo, p) == IF IsAbsolute(p) THEN p ELSE repo \o p
PathPrefixMatches(file, dir) == dir \notin {<<>>, <<"/">>} /\ IsStrictPrefix(dir, file)

\* Absolute or relative, the file or a directory above it.
BlamePathMatches(query, stored, repo) ==
    \/ query = stored
    \/ /\ repo # None
       /\ LET q == JoinRepoPath(repo, query)
              t == JoinRepoPath(repo, stored)
          IN t = query \/ q = stored \/ PathPrefixMatches(t, q)
    \/ IsSuffix(stored, query) \/ IsSuffix(query, stored) \/ PathPrefixMatches(stored, query)

-----------------------------------------------------------------------------
(* Queries. *)

\* 0 stands for the default of 100.
Take(s, limit) == SubSeq(s, 1, IF limit = 0 \/ Len(s) < limit THEN Len(s) ELSE limit)

ProvenanceRank(kind) == IF kind = "exact_edit_hunk" THEN 0 ELSE 1
\* Lexicographic order of sequences of numbers.
Before(a, b) == \E k \in DOMAIN a : a[k] < b[k] /\ \A j \in 1..(k - 1) : a[j] = b[j]
OtherRepo(s, repo) == IF repo # None /\ RepoOf[s] = repo THEN 0 ELSE 1

\* A row an explain step is made of: when it happened, else when the session
\* was last seen.
BlameRow(db, s, occurred, kind) ==
    [session |-> s, occurred |-> occurred, kind |-> kind,
     at |-> IF occurred = None THEN db.row[s].updated ELSE occurred]

\* Same repo first, then the stronger evidence, then the newer.
QueryLineProvenance(db, path, line, repo, limit) ==
    LET hits == {h \in Sessions \X UNION {db.prov[s] : s \in Sessions} :
                    /\ h[2] \in db.prov[h[1]] /\ h[2].line = line
                    /\ BlamePathMatches(path, h[2].path, RepoOf[h[1]])}
        Key(h) == <<OtherRepo(h[1], repo), ProvenanceRank(h[2].kind), -h[2].at, h[1], -h[2].n>>
        order == Sorted(hits, LAMBDA a, b : Before(Key(a), Key(b)))
    IN Take([k \in DOMAIN order |->
               BlameRow(db, order[k][1], order[k][2].at, order[k][2].kind)], limit)

\* The text as consecutive lines of the string; a diff's marks break it up.
ContainsText(string, text) ==
    \E i \in 0..(Len(string) - Len(text)) : \A k \in DOMAIN text :
        string[i + k].of = text[k] /\ (k > 1 => string[i + k].mark = "")
EnoughLineOverlap(matched, selected) ==
    selected >= 2 /\ matched >= 2 /\ (matched * 5 >= selected * 2 \/ matched >= 4)
TextEvidence(string, text) ==
    LET selected == {k \in DOMAIN text : text[k] \notin ShortLines}
        matched == {k \in selected : \E i \in DOMAIN string : string[i].of = text[k]}
    IN \/ ContainsText(string, text)
       \/ EnoughLineOverlap(Cardinality(matched), Cardinality(selected))

\* The edit's own text first; else the output and every string of the chunk.
ChunkTextEvidence(c, text) ==
    LET args == IF c.top = None THEN {} ELSE {c.top}
        all == args \cup {c.out} \cup ToSet(c.nested)
    IN IF \E t \in args : TextEvidence(t, text) THEN "exact_edit_hunk"
       ELSE IF \E t \in all : TextEvidence(t, text) THEN "exact_diff_hunk" ELSE None

\* The strongest chunk of a session, the latest of those; None when none has it.
TextMatchChunk(chunks, text) ==
    LET hits == {n \in DOMAIN chunks : /\ chunks[n].kind = "tool_call"
                                       /\ IsFileMutationTool(chunks[n].function)
                                       /\ ChunkTextEvidence(chunks[n], text) # None}
        Key(n) == <<ProvenanceRank(ChunkTextEvidence(chunks[n], text)), -n>>
    IN IF hits = {} THEN None
       ELSE CHOOSE n \in hits : \A m \in hits : ~Before(Key(m), Key(n))

SessionsTouching(db, path) ==
    {s \in Sessions : db.row[s] # None /\ \E f \in db.row[s].touched :
                         BlamePathMatches(path, f, RepoOf[s])}

QueryTextMatch(db, path, text, repo, limit) ==
    LET hits == {s \in SessionsTouching(db, path) : TextMatchChunk(db.chunks[s], text) # None}
        Of(s) == db.chunks[s][TextMatchChunk(db.chunks[s], text)]
        Kind(s) == ChunkTextEvidence(Of(s), text)
        Key(s) == <<OtherRepo(s, repo), ProvenanceRank(Kind(s)), -db.row[s].updated, s>>
        order == Sorted(hits, LAMBDA a, b : Before(Key(a), Key(b)))
    IN Take([k \in DOMAIN order |->
               BlameRow(db, order[k], Of(order[k]).at, Kind(order[k]))], limit)

\* When the session last edited the file: the last chunk of a mutating tool
\* with a string that is this path; None when there is none.
FileTouchTime(s, chunks, path) ==
    LET n == SelectLastInSeq(chunks, LAMBDA c :
                /\ c.kind = "tool_call" /\ IsFileMutationTool(c.function)
                /\ \E f \in {c.path, LogPath[s]} \ {None} : BlamePathMatches(path, f, RepoOf[s]))
    IN IF n = 0 THEN None ELSE chunks[n].at

\* Same repo first, then the most recently seen.
QueryFileBlame(db, path, repo, limit) ==
    LET Key(s) == <<OtherRepo(s, repo), -db.row[s].updated, s>>
        order == Sorted(SessionsTouching(db, path), LAMBDA a, b : Before(Key(a), Key(b)))
    IN Take([k \in DOMAIN order |->
               BlameRow(db, order[k], FileTouchTime(order[k], db.chunks[order[k]], path), None)], limit)
=============================================================================
