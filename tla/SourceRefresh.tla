---------------------------- MODULE SourceRefresh ----------------------------
(***************************************************************************)
(* The incremental refresh of crates/cli/src/history.rs: it copies the     *)
(* coding agents' native sessions into metadata.sqlite (session rows and   *)
(* transcript chunks) and emits one source.session_observed event per      *)
(* observed version into the local event database.                         *)
(*                                                                         *)
(* Every brick process (a CLI call, a hook, an MCP server) refreshes for   *)
(* the repo it runs in, against the same two databases, and with the       *)
(* parsers of its own build.  Each database call is one transaction, but   *)
(* nothing spans two of them, and the agents go on writing their sessions  *)
(* while a refresh reads them.                                             *)
(*                                                                         *)
(* A version of a session is the time it was written: mtime, size and the  *)
(* parser version make up its fingerprint, and the update time inside it   *)
(* is taken to be its mtime.                                               *)
(***************************************************************************)
EXTENDS Naturals, FiniteSetsExt

CONSTANTS
    Procs,            \* brick processes
    Repo,             \* the repo id each process refreshes for
    Parser,           \* the parser version each process was built with
    Sessions,         \* native sessions
    Sources,          \* source profiles, numbered in the order of the list
    SourceOf,         \* the profile each session belongs to
    Listable,         \* the sessions that are shown: not those of subagents
    Limit,            \* SOURCE_INDEX_REFRESH_LIMIT
    Overlap,          \* whether refreshes of two processes may overlap
    WritesDuringScan, \* whether agents write while a refresh is running
    MaxTime,          \* bound: writes by the agents
    MaxFaults,        \* bound: errors and crashes
    None              \* Rust's Option::None, SQL's missing row

Repos == {Repo[p] : p \in Procs}
Parsers == {Parser[p] : p \in Procs}

\* A version of a session as one build parses it: what a fingerprint names,
\* and what the chunks formatted from the session hold.
Version == [time : 1 .. MaxTime, parser : Parsers]

EventId == [session : Sessions, version : Version]

ASSUME ProcsAssumption ==
    /\ Repo \in [Procs -> Repos]
    /\ Parser \in [Procs -> Parsers]

ASSUME SourcesAssumption ==
    /\ Sources \subseteq Nat
    /\ SourceOf \in [Sessions -> Sources]
    /\ Listable \subseteq Sessions

ASSUME BoundsAssumption ==
    /\ Limit \in Nat \ {0}
    /\ MaxTime \in Nat
    /\ MaxFaults \in Nat

ASSUME SwitchesAssumption ==
    /\ Overlap \in BOOLEAN
    /\ WritesDuringScan \in BOOLEAN

ASSUME NoneAssumption ==
    /\ None \notin Nat
    /\ None \notin Version
    /\ None \notin Repos

VARIABLES
    clock,     \* the time of the last write
    mtime,     \* when each session was last written; 0: it does not exist
    row,       \* source_sessions: the version each row's fingerprint names
    chunks,    \* source_session_chunks: the version the stored chunks hold
    watermark, \* source_index_watermark: None, or the high-water mark (0: NULL)
    repoOf,    \* brick_events: the repo of each stored event, or None
    content,   \* brick_event_chunks: the version each event's chunks hold
    faults,    \* errors and crashes so far
    pc,        \* where each process is in its refresh
    job        \* its local variables

nativeVars == <<clock, mtime>>
metadataVars == <<row, chunks, watermark>>
eventVars == <<repoOf, content>>
vars == <<nativeVars, metadataVars, eventVars, faults, pc, job>>

(***************************************************************************)
(* What a process remembers: the due profiles it has still to refresh, the *)
(* one it is refreshing, the watermark it passes as `since`, the sessions  *)
(* its walk has not reached, those it has listed with their times (0: not  *)
(* listed), the highest time seen, the session at hand and its chunks.     *)
(***************************************************************************)
NoJob ==
    [due |-> {}, source |-> None, since |-> None, ahead |-> {},
     listed |-> [s \in Sessions |-> 0], high |-> 0, session |-> None,
     chunks |-> None]

Init ==
    /\ clock = 0
    /\ mtime = [s \in Sessions |-> 0]
    /\ row = [s \in Sessions |-> None]
    /\ chunks = [s \in Sessions |-> None]
    /\ watermark = [n \in Sources |-> None]
    /\ repoOf = [id \in EventId |-> None]
    /\ content = [id \in EventId |-> None]
    /\ faults = 0
    /\ pc = [p \in Procs |-> "idle"]
    /\ job = [p \in Procs |-> NoJob]

Goto(p, label) == pc' = [pc EXCEPT ![p] = label]

Quiet == \A p \in Procs : pc[p] = "idle"

-----------------------------------------------------------------------------
(* The agents. *)

\* An agent creates a session or adds to it.
Write(s) ==
    /\ clock < MaxTime
    /\ WritesDuringScan \/ Quiet
    /\ clock' = clock + 1
    /\ mtime' = [mtime EXCEPT ![s] = clock + 1]
    /\ UNCHANGED <<metadataVars, eventVars, faults, pc, job>>

-----------------------------------------------------------------------------
(* refresh_repo_sources and refresh_profiles_to_metadata. *)

(***************************************************************************)
(* The throttle: a profile never refreshed is due, any other is due when   *)
(* its last refresh is ten seconds old, which may or may not be.           *)
(***************************************************************************)
Begin(p) ==
    /\ pc[p] = "idle"
    /\ Overlap \/ Quiet
    /\ \E due \in SUBSET Sources \ {{}} :
        /\ \A n \in Sources : watermark[n] = None => n \in due
        /\ job' = [job EXCEPT ![p] = [NoJob EXCEPT !.due = due]]
    /\ Goto(p, "profile")
    /\ UNCHANGED <<nativeVars, metadataVars, eventVars, faults>>

\* The next due profile: get_source_watermark (source_scans is only ever
\* written, and left out).
BeginScan(p) ==
    LET n == Min(job[p].due) IN
    /\ pc[p] = "profile" /\ job[p].due # {}
    /\ job' = [job EXCEPT ![p] =
                [NoJob EXCEPT !.due = job[p].due, !.source = n,
                              !.since = watermark[n]]]
    /\ Goto(p, "parser")
    /\ UNCHANGED <<nativeVars, metadataVars, eventVars, faults>>

\* No profile is left.
Done(p) ==
    /\ pc[p] = "profile" /\ job[p].due = {}
    /\ job' = [job EXCEPT ![p] = NoJob]
    /\ Goto(p, "idle")
    /\ UNCHANGED <<nativeVars, metadataVars, eventVars, faults>>

InSource(n) == {s \in Sessions : SourceOf[s] = n}

\* source_has_parser_version_mismatch, asked only if the source lists a session;
\* it counts the rows that are listable.
ParserMismatch(p) ==
    LET S == InSource(job[p].source) IN
    /\ \E s \in S : mtime[s] # 0
    /\ \E s \in S \cap Listable : row[s] # None /\ row[s].parser # Parser[p]

\* Rows of another parser make the scan a full one; then the walk starts.
CheckParser(p) ==
    /\ pc[p] = "parser"
    /\ job' = [job EXCEPT ![p].since =
                    IF ParserMismatch(p) \/ @ = None THEN 0 ELSE @,
                          ![p].ahead = InSource(job[p].source)]
    /\ Goto(p, "walk")
    /\ UNCHANGED <<nativeVars, metadataVars, eventVars, faults>>

-----------------------------------------------------------------------------
(* list_source_sessions_since: collect_session_files walks the directory. *)

Listed(p) == {s \in Sessions : job[p].listed[s] # 0}

\* The walk stops at the limit, whatever it has not reached.
WalkIsOver(p) == job[p].ahead = {} \/ Cardinality(Listed(p)) >= Limit

\* The next file, in whatever order the directory yields them; skip_by_mtime
\* leaves out what is not newer than `since`.
Visit(p) ==
    /\ pc[p] = "walk" /\ ~WalkIsOver(p)
    /\ \E s \in job[p].ahead :
        job' = [job EXCEPT ![p].ahead = @ \ {s},
                           ![p].listed[s] =
                                IF mtime[s] > job[p].since THEN mtime[s] ELSE @]
    /\ UNCHANGED <<nativeVars, metadataVars, eventVars, faults, pc>>

EndWalk(p) ==
    /\ pc[p] = "walk" /\ WalkIsOver(p)
    /\ Goto(p, "next")
    /\ UNCHANGED <<nativeVars, metadataVars, eventVars, faults, job>>

-----------------------------------------------------------------------------
(* refresh_single_profile: the loop over the listed sessions. *)

\* The version p listed session s at.
Found(p, s) == [time |-> job[p].listed[s], parser |-> Parser[p]]

\* The listing is sorted, newest first.
Newest(p) ==
    CHOOSE s \in Listed(p) :
        \A t \in Listed(p) : job[p].listed[t] <= job[p].listed[s]

\* Mutant: only the parser version is compared.
UnchangedByParser(p, s) == row[s] # None /\ row[s].parser = Parser[p]

\* The stored row has the session's fingerprint and parser version.
Unchanged(p, s) == row[s] = Found(p, s)

\* Take the next session and look its row up; if it is unchanged only
\* last_seen_at is touched.
NextSession(p) ==
    LET s == Newest(p) IN
    /\ pc[p] = "next" /\ Listed(p) # {}
    /\ job' = [job EXCEPT ![p].session = s,
                          ![p].high = Max({@, job[p].listed[s]})]
    /\ Goto(p, IF Unchanged(p, s) THEN "stored" ELSE "upsert")
    /\ UNCHANGED <<nativeVars, metadataVars, eventVars, faults>>

\* Mutant: the stored chunks are kept for the new fingerprint.
UpsertRowOnly(p) ==
    LET s == job[p].session IN
    /\ pc[p] = "upsert"
    /\ row' = [row EXCEPT ![s] = Found(p, s)]
    /\ Goto(p, "stored")
    /\ UNCHANGED <<nativeVars, chunks, watermark, eventVars, faults, job>>

\* upsert_source_session commits the new fingerprint.
UpsertRow(p) ==
    LET s == job[p].session IN
    /\ pc[p] = "upsert"
    /\ row' = [row EXCEPT ![s] = Found(p, s)]
    /\ Goto(p, "format")
    /\ UNCHANGED <<nativeVars, chunks, watermark, eventVars, faults, job>>

\* source_session_chunks_or_backfill: stored chunks are taken as they are.
UseStored(p) ==
    LET s == job[p].session IN
    /\ pc[p] = "stored"
    /\ job' = [job EXCEPT ![p].chunks = chunks[s]]
    /\ Goto(p, IF chunks[s] = None THEN "format" ELSE "emit")
    /\ UNCHANGED <<nativeVars, metadataVars, eventVars, faults>>

\* format_source_session_chunks reads the session as it is by now.
Format(p) ==
    /\ pc[p] = "format"
    /\ job' = [job EXCEPT ![p].chunks =
                [time |-> mtime[job[p].session], parser |-> Parser[p]]]
    /\ Goto(p, "putChunks")
    /\ UNCHANGED <<nativeVars, metadataVars, eventVars, faults>>

\* upsert_source_session_chunks, in a transaction of its own.
PutChunks(p) ==
    /\ pc[p] = "putChunks"
    /\ chunks' = [chunks EXCEPT ![job[p].session] = job[p].chunks]
    /\ Goto(p, "emit")
    /\ UNCHANGED <<nativeVars, row, watermark, eventVars, faults, job>>

\* source_session_event_id, from the row and not from the chunks.
EventOf(s) == [session |-> s, version |-> row[s]]

(***************************************************************************)
(* The row is read again to build the event; LocalEventStore::append_event *)
(* ignores a known id but replaces the id's chunks.                        *)
(***************************************************************************)
Emit(p) ==
    LET s == job[p].session
        id == EventOf(s)
    IN
    /\ pc[p] = "emit"
    /\ repoOf' = [repoOf EXCEPT ![id] = IF @ = None THEN Repo[p] ELSE @]
    /\ content' = [content EXCEPT ![id] = job[p].chunks]
    /\ job' = [job EXCEPT ![p].listed[s] = 0, ![p].session = None,
                          ![p].chunks = None]
    /\ Goto(p, "next")
    /\ UNCHANGED <<nativeVars, metadataVars, faults>>

\* set_source_watermark: COALESCE keeps the mark when nothing was listed.
MarkAfter(old, high) ==
    IF high # 0 THEN high ELSE IF old = None THEN 0 ELSE old

\* The loop is over: set_source_watermark.
FinishScan(p) ==
    LET n == job[p].source IN
    /\ pc[p] = "next" /\ Listed(p) = {}
    /\ watermark' = [watermark EXCEPT ![n] = MarkAfter(@, job[p].high)]
    /\ job' = [job EXCEPT ![p].due = @ \ {n}]
    /\ Goto(p, "profile")
    /\ UNCHANGED <<nativeVars, row, chunks, eventVars, faults>>

-----------------------------------------------------------------------------
(* Faults. *)

\* Mutant: the error arm sets the watermark as well.
FailMarking(p) ==
    LET n == job[p].source IN
    /\ faults < MaxFaults
    /\ faults' = faults + 1
    /\ pc[p] \notin {"idle", "profile"}
    /\ watermark' = [watermark EXCEPT ![n] = MarkAfter(@, job[p].high)]
    /\ job' = [job EXCEPT ![p] = NoJob]
    /\ Goto(p, "idle")
    /\ UNCHANGED <<nativeVars, row, chunks, eventVars>>

(***************************************************************************)
(* A read of the source or a database call fails, and the error gives up   *)
(* the profiles still due; or the process is killed.  What was committed   *)
(* stays.                                                                  *)
(***************************************************************************)
Fail(p) ==
    /\ faults < MaxFaults
    /\ faults' = faults + 1
    /\ pc[p] # "idle"
    /\ job' = [job EXCEPT ![p] = NoJob]
    /\ Goto(p, "idle")
    /\ UNCHANGED <<nativeVars, metadataVars, eventVars>>

-----------------------------------------------------------------------------
\* What a process does by itself once its refresh has begun.
Step(p) ==
    \/ BeginScan(p) \/ CheckParser(p)
    \/ Visit(p) \/ EndWalk(p)
    \/ NextSession(p) \/ UpsertRow(p) \/ UseStored(p) \/ Format(p)
    \/ PutChunks(p) \/ Emit(p)
    \/ FinishScan(p) \/ Done(p)

Next ==
    \/ \E s \in Sessions : Write(s)
    \/ \E p \in Procs : Begin(p) \/ Step(p) \/ Fail(p)

Spec == Init /\ [][Next]_vars

(***************************************************************************)
(* A refresh that has begun goes on (the process is scheduled), and brick  *)
(* keeps being invoked after each profile's throttle window: every hook,   *)
(* explain call and MCP request starts a refresh.  Nothing obliges agents  *)
(* to write or faults to happen.                                           *)
(***************************************************************************)
FairSpec ==
    /\ Spec
    /\ \A p \in Procs : WF_vars(Step(p))
    /\ \A n \in Sources : SF_vars(\E p \in Procs : Begin(p) /\ n \in job'[p].due)

-----------------------------------------------------------------------------
(* Properties. *)

(***************************************************************************)
(* The watermark only covers what is indexed: a session whose mtime is at  *)
(* or below its source's watermark, which every later walk skips, has a    *)
(* row of exactly that mtime (skip_by_mtime: such a file "cannot have      *)
(* changed since the last index").                                         *)
(***************************************************************************)
WatermarkCovers ==
    \A s \in Sessions :
        LET mark == watermark[SourceOf[s]] IN
        mark # None /\ 0 < mtime[s] /\ mtime[s] <= mark =>
            row[s] # None /\ row[s].time = mtime[s]

(***************************************************************************)
(* Between refreshes the stored chunks are of the row's parser and at      *)
(* least as new as its fingerprint: the fingerprint, which stops the next  *)
(* refresh from formatting the session again, never runs ahead of the      *)
(* transcript (refresh_single_profile commits the row first).              *)
(***************************************************************************)
ChunksMatchRow ==
    Quiet => \A s \in Sessions :
        row[s] # None =>
            /\ chunks[s] # None
            /\ chunks[s].time >= row[s].time
            /\ chunks[s].parser = row[s].parser

\* The row, its chunks and its event are of time t or newer.
Indexed(s, t) ==
    /\ row[s] # None /\ row[s].time >= t
    /\ chunks[s] # None /\ chunks[s].time >= t
    /\ content[EventOf(s)] # None /\ content[EventOf(s)].time >= t

(***************************************************************************)
(* Whatever an agent writes is eventually indexed: in the row, in the      *)
(* stored transcript and in the event that will be pushed.                 *)
(***************************************************************************)
EveryWriteIndexed ==
    \A s \in Sessions, t \in 1 .. MaxTime : mtime[s] = t ~> Indexed(s, t)

=============================================================================
