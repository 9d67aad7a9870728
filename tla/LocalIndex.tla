----------------------------- MODULE LocalIndex -----------------------------
(***************************************************************************)
(* The derived files of a local store (crates/core/src/store.rs,           *)
(* sqlite_index.rs) under several brick processes: cache/index.json and    *)
(* the Markdown views, written by load_or_rebuild_index when the cached    *)
(* event count differs from the live one, and the SQLite query cache.      *)
(*                                                                         *)
(* No lock guards the files.  fs::write empties a file before it fills it, *)
(* and a shorter text over a longer one leaves the longer one's tail.  An  *)
(* index is identified by the set of events it was built from; those of    *)
(* one directory of views are written in one step.                         *)
(***************************************************************************)
EXTENDS TraceIndex

CONSTANTS
    Processes,
    Pool,       \* events that may be appended
    MaxLoads,   \* bound: commands started
    MaxCrashes  \* bound: processes killed

ASSUME LocalIndexAssumption == MaxLoads \in Nat /\ MaxCrashes \in Nat

\* None is no file and no directory.
ASSUME NoneAssumption ==
    \A s \in SUBSET Pool :
        /\ None \notin [of : {s}, whole : BOOLEAN]
        /\ None \notin [readme : {None, s}, entries : {<<>>, [n \in Build(s).nodes |-> s]}]

VARIABLES
    rows,       \* brick_events of the repo
    cache,      \* index.json: None, or [of, whole]
    views,      \* the views directory: None, or [readme, entries]
    sql,        \* query-cache.sqlite: None, or [version, of]
    pc, snap,   \* each process: where it is, the index it read or built
    before,     \* each process: the rows when its command began (history)
    answer,     \* what the last load of each process returned, or None
    loads, crashes,
    mixed       \* two rebuilds wrote at once, or one was cut short (history)

vars == <<rows, cache, views, sql, pc, snap, before, answer, loads, crashes, mixed>>
fileVars == <<cache, views, sql>>

Init ==
    /\ rows = {} /\ cache = None /\ views = None
    /\ sql \in {None, [version |-> "old", of |-> {}]}
    /\ pc = [p \in Processes |-> "idle"]
    /\ snap = [p \in Processes |-> {}] /\ before = [p \in Processes |-> {}]
    /\ answer = [p \in Processes |-> None]
    /\ loads = 0 /\ crashes = 0 /\ mixed = FALSE

Writing == {"truncate", "fill", "reset", "make", "readme", "entries"}
Goto(p, l) == pc' = [pc EXCEPT ![p] = l]
Fail(p) == Goto(p, "idle") /\ mixed' = (mixed \/ pc[p] \in Writing)

\* INSERT OR IGNORE of one event, in a transaction of its own.
AppendEvent(e) ==
    /\ rows' = rows \cup {e} /\ e \notin rows
    /\ UNCHANGED <<fileVars, pc, snap, before, answer, loads, crashes, mixed>>

-----------------------------------------------------------------------------
(* load_or_rebuild_index. *)

\* read_index: no file is no index, a text that does not parse an error.
ReadIndex(p) ==
    /\ pc[p] = "idle" /\ loads < MaxLoads /\ loads' = loads + 1
    /\ before' = [before EXCEPT ![p] = rows]
    /\ answer' = [answer EXCEPT ![p] = None]
    /\ \/ cache = None /\ Goto(p, "events") /\ UNCHANGED snap
       \/ /\ cache # None /\ cache.whole
          /\ snap' = [snap EXCEPT ![p] = cache.of] /\ Goto(p, "count")
       \/ cache # None /\ ~cache.whole /\ Goto(p, "idle") /\ UNCHANGED snap
    /\ UNCHANGED <<rows, fileVars, crashes, mixed>>

StaleByCount(s) == Cardinality(s) > Cardinality(rows)
Stale(s) == Cardinality(s) # Cardinality(rows)

CompareCount(p) ==
    /\ pc[p] = "count"
    /\ \/ Stale(snap[p]) /\ Goto(p, "events") /\ UNCHANGED answer
       \/ ~Stale(snap[p]) /\ Goto(p, "idle") /\ answer' = [answer EXCEPT ![p] = snap[p]]
    /\ UNCHANGED <<rows, fileVars, snap, before, loads, crashes, mixed>>

ReadRows(p) ==
    /\ pc[p] = "events"
    /\ snap' = [snap EXCEPT ![p] = rows]
    /\ IF BuildFails(rows) THEN Goto(p, "idle") ELSE Goto(p, "truncate")
    /\ UNCHANGED <<rows, fileVars, before, answer, loads, crashes, mixed>>

TruncateIndex(p) ==
    /\ pc[p] = "truncate" /\ Goto(p, "fill")
    /\ cache' = [of |-> {}, whole |-> FALSE]
    /\ mixed' = (mixed \/ \E q \in Processes \ {p} : pc[q] \in Writing)
    /\ UNCHANGED <<rows, views, sql, snap, before, answer, loads, crashes>>

FillKeepingViews(p) ==
    /\ pc[p] = "fill" /\ Goto(p, IF views = None THEN "reset" ELSE "idle")
    /\ cache' = [of |-> snap[p], whole |-> TRUE]
    /\ UNCHANGED <<rows, views, sql, snap, before, answer, loads, crashes, mixed>>
\* Over another's longer text the result is this text and that one's tail.
FillIndex(p) ==
    /\ pc[p] = "fill" /\ Goto(p, "reset")
    /\ cache' \in {[of |-> snap[p], whole |-> w] :
                     w \in IF cache.whole /\ snap[p] \subseteq cache.of /\ snap[p] # cache.of
                           THEN BOOLEAN ELSE {TRUE}}
    /\ UNCHANGED <<rows, views, sql, snap, before, answer, loads, crashes, mixed>>

\* remove_dir_all fails when another process puts files back meanwhile.
ResetViews(p) ==
    /\ pc[p] = "reset"
    /\ \/ views' = None /\ Goto(p, "make") /\ UNCHANGED mixed
       \/ /\ views # None /\ \E q \in Processes \ {p} : pc[q] \in {"make", "readme", "entries"}
          /\ views' = [views EXCEPT !.entries = <<>>] /\ Fail(p)
    /\ UNCHANGED <<rows, cache, sql, snap, before, answer, loads, crashes>>
MakeViews(p) ==
    /\ pc[p] = "make" /\ Goto(p, "readme")
    /\ views' = IF views = None THEN [readme |-> None, entries |-> <<>>] ELSE views
    /\ UNCHANGED <<rows, cache, sql, snap, before, answer, loads, crashes, mixed>>

\* fs::write into a directory that is gone fails, and so does the command.
WriteReadme(p) ==
    /\ pc[p] = "readme"
    /\ \/ /\ views # None /\ views' = [views EXCEPT !.readme = snap[p]]
          /\ Goto(p, "entries") /\ UNCHANGED mixed
       \/ views = None /\ Fail(p) /\ UNCHANGED views
    /\ UNCHANGED <<rows, cache, sql, snap, before, answer, loads, crashes>>

Entries(p) ==
    LET old == views.entries
        new == Build(snap[p]).nodes
    IN [n \in new \cup DOMAIN old |-> IF n \in new THEN snap[p] ELSE old[n]]
WriteEntries(p) ==
    /\ pc[p] = "entries"
    /\ \/ /\ views # None /\ views' = [views EXCEPT !.entries = Entries(p)]
          /\ Goto(p, "idle") /\ answer' = [answer EXCEPT ![p] = snap[p]] /\ UNCHANGED mixed
       \/ views = None /\ Fail(p) /\ UNCHANGED <<views, answer>>
    /\ UNCHANGED <<rows, cache, sql, snap, before, loads, crashes>>

-----------------------------------------------------------------------------
(* rebuild_sqlite_index: the schema first, then one transaction. *)

SqlReadRows(p) ==
    /\ pc[p] = "idle" /\ loads < MaxLoads /\ loads' = loads + 1
    /\ ~BuildFails(rows)
    /\ snap' = [snap EXCEPT ![p] = rows] /\ Goto(p, "schema")
    /\ answer' = [answer EXCEPT ![p] = None]
    /\ UNCHANGED <<rows, fileVars, before, crashes, mixed>>

\* The schema is reset, its version not yet written.
ResetSchema == [version |-> None, of |-> {}]
AlwaysResetSchema(p) ==
    /\ pc[p] = "schema" /\ Goto(p, "commit") /\ sql' = ResetSchema
    /\ UNCHANGED <<rows, cache, views, snap, before, answer, loads, crashes, mixed>>
PrepareSchema(p) ==
    /\ pc[p] = "schema" /\ Goto(p, "commit")
    /\ sql' = IF sql # None /\ sql.version = "current" THEN sql ELSE ResetSchema
    /\ UNCHANGED <<rows, cache, views, snap, before, answer, loads, crashes, mixed>>
SqlTransaction(p) ==
    /\ pc[p] = "commit" /\ Goto(p, "idle")
    /\ sql' = IF InsertFails(Build(snap[p])) THEN sql
              ELSE [version |-> "current", of |-> snap[p]]
    /\ UNCHANGED <<rows, cache, views, snap, before, answer, loads, crashes, mixed>>

-----------------------------------------------------------------------------

Crash(p) ==
    /\ pc[p] # "idle" /\ crashes < MaxCrashes /\ crashes' = crashes + 1
    /\ Fail(p)
    /\ UNCHANGED <<rows, fileVars, snap, before, answer, loads>>

Next ==
    \/ \E e \in Pool : AppendEvent(e)
    \/ \E p \in Processes :
          \/ ReadIndex(p) \/ CompareCount(p) \/ ReadRows(p)
          \/ TruncateIndex(p) \/ FillIndex(p)
          \/ ResetViews(p) \/ MakeViews(p) \/ WriteReadme(p) \/ WriteEntries(p)
          \/ SqlReadRows(p) \/ PrepareSchema(p) \/ SqlTransaction(p)
          \/ Crash(p)

Spec == Init /\ [][Next]_vars

-----------------------------------------------------------------------------
(* Properties. *)

Quiet == \A p \in Processes : pc[p] \notin Writing

\* Comparing counts is enough: the index a load returns, cached or rebuilt,
\* holds every event stored before the load began, and only stored ones; rows
\* are never replaced, so two sets of one size that grew from another are one.
LoadSeesStored ==
    \A p \in Processes : answer[p] # None => before[p] \subseteq answer[p] /\ answer[p] \subseteq rows

\* When no rebuild overlapped another or was cut short, index.json parses and
\* the views are all of the index it holds: one readme and one page for every
\* entry.  (After an overlap or a crash index.json may stay unreadable, and
\* then every load fails until someone deletes it.)
ViewsMatchIndex ==
    Quiet /\ ~mixed /\ cache # None =>
        /\ cache.whole /\ views # None /\ views.readme = cache.of
        /\ views.entries = [n \in Build(cache.of).nodes |-> cache.of]

\* The query cache, once filled, is never left empty: a rebuild that fails
\* half way, or is killed, leaves the rows of the one before.
QueryCacheKept ==
    [][sql # None /\ sql.version = "current" => sql'.version = "current"]_vars
=============================================================================
