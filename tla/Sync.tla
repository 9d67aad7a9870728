-------------------------------- MODULE Sync --------------------------------
(***************************************************************************)
(* The sync client (crates/sync/src/lib.rs and supabase.rs) of several     *)
(* machines against one remote: a self-hosted server, whose pull is paged  *)
(* by the line number in its log, or Supabase, which keeps events and      *)
(* their chunks in two tables that no transaction spans.                   *)
(*                                                                         *)
(* Push sends every local event of the repo each time and keeps no state,  *)
(* so a lost answer changes nothing; the server's handler goes on whatever *)
(* becomes of the client.  Pull collects, drops what is known, projects    *)
(* the rest into metadata.sqlite and only then stores it in brick.sqlite,  *)
(* one transaction per event and table.                                    *)
(*                                                                         *)
(* The events are source.session_observed: a session, and the time of the  *)
(* version observed, which also orders events (occurred_at).  A refresh    *)
(* (SourceRefresh) is one step here, and the server's log is taken to be   *)
(* parseable (ServerStore!LogIsJsonl).                                     *)
(***************************************************************************)
EXTENDS Naturals, Sequences, FiniteSetsExt

CONSTANTS
    Machines,
    Clients,    \* brick processes that sync
    MachineOf,  \* the machine of each client
    Repo,       \* the repo each client runs in
    Sessions,
    OwnerOf,    \* the machine whose refresh observes the session
    RepoOf,     \* the repo its events are stored under
    Backends,   \* the remotes considered: "server", "supabase"
    AllRepos,   \* pushes are made with --all-repos
    GlobalPull, \* pulls from the server name no repo
    PageSize,   \* PULL_PAGE_LIMIT
    Parts,      \* batches of 500 that an event's chunks are inserted in
    MaxTime,    \* bound: observations
    MaxFaults,  \* bound: errors and crashes
    Absent      \* no such event

Id == [session : Sessions, at : 1 .. MaxTime]

\* An event in transit: its place in the order it is handled in, its id, and
\* how many parts of its chunks it carries.
Item == [pos : Nat, id : Id, parts : 0 .. Parts]

\* An event at the remote, with the parts of its chunks there.
Entry == [id : Id, parts : 0 .. Parts]

ASSUME ClientsAssumption ==
    /\ MachineOf \in [Clients -> Machines]
    /\ OwnerOf \in [Sessions -> Machines]
    /\ DOMAIN Repo = Clients
    /\ DOMAIN RepoOf = Sessions

ASSUME BackendsAssumption ==
    /\ Backends \subseteq {"server", "supabase"}
    /\ AllRepos \in BOOLEAN /\ GlobalPull \in BOOLEAN

ASSUME SizesAssumption ==
    /\ PageSize \in Nat \ {0}
    /\ Parts \in Nat
    /\ MaxTime \in Nat
    /\ MaxFaults \in Nat

ASSUME AbsentAssumption == Absent \notin Nat

VARIABLES
    backend,    \* which remote there is
    clock,      \* the time of the last observation
    log,        \* the remote's events: [id, parts], in the order of arrival
    local,      \* brick.sqlite of each machine: parts held of each event, or Absent
    row,        \* source_sessions of each machine: the version of each row
    transcript, \* source_session_chunks: the version of the stored chunks
    faults,     \* errors and crashes so far
    pc,         \* where each client (or the handler it called) is
    job         \* its local variables

machineVars == <<local, row, transcript>>
vars == <<backend, clock, log, machineVars, faults, pc, job>>

\* The remote ids known when the handler started, the items still to handle,
\* those pulled, the pull's cursor and the chunk batches already sent.
NoJob == [existing |-> {}, todo |-> {}, pulled |-> {}, cursor |-> 0, sent |-> 0]

Init ==
    /\ backend \in Backends
    /\ clock = 0
    /\ log = <<>>
    /\ local = [m \in Machines |-> [id \in Id |-> Absent]]
    /\ row = [m \in Machines |-> [s \in Sessions |-> 0]]
    /\ transcript = [m \in Machines |-> [s \in Sessions |-> 0]]
    /\ faults = 0
    /\ pc = [c \in Clients |-> "idle"]
    /\ job = [c \in Clients |-> NoJob]

Goto(c, label) == pc' = [pc EXCEPT ![c] = label]

Finish(c) ==
    /\ Goto(c, "idle")
    /\ job' = [job EXCEPT ![c] = NoJob]

\* Mutant: the newest event is handled first.
Last(T) == CHOOSE x \in T : \A y \in T : x.pos >= y.pos

\* The item that comes first.
First(T) == CHOOSE x \in T : \A y \in T : x.pos <= y.pos

LoggedIds == {log[i].id : i \in DOMAIN log}

-----------------------------------------------------------------------------
\* A refresh observes a new version of a session: row, chunks and event.
Record(s) ==
    LET m == OwnerOf[s]
        now == clock + 1
    IN
    /\ clock < MaxTime
    /\ clock' = now
    /\ local' = [local EXCEPT ![m][[session |-> s, at |-> now]] = Parts]
    /\ row' = [row EXCEPT ![m][s] = now]
    /\ transcript' = [transcript EXCEPT ![m][s] = now]
    /\ UNCHANGED <<backend, log, faults, pc, job>>

-----------------------------------------------------------------------------
(* Push. *)

\* The events machine m holds of repo r.
HeldOf(m, r) == {id \in Id : local[m][id] # Absent /\ RepoOf[id.session] = r}

\* collect_push_events: the repo's events with their chunks, by occurred_at.
Collected(c, r) ==
    {[pos |-> id.at, id |-> id, parts |-> local[MachineOf[c]][id]] :
        id \in HeldOf(MachineOf[c], r)}

(***************************************************************************)
(* handle_push, auto_push: one request per target repo, which is the       *)
(* client's own or, with --all-repos, any repo of a local event; nothing   *)
(* is sent when there is nothing to send.                                  *)
(***************************************************************************)
BeginPush(c, r) ==
    /\ pc[c] = "idle" /\ Collected(c, r) # {}
    /\ job' = [job EXCEPT ![c] = [NoJob EXCEPT !.todo = Collected(c, r)]]
    /\ Goto(c, IF backend = "server" THEN "post" ELSE "insert")
    /\ UNCHANGED <<backend, clock, log, machineVars, faults>>

\* append_events_for_repo reads the ids in the log ...
Receive(c) ==
    /\ pc[c] = "post"
    /\ job' = [job EXCEPT ![c].existing = LoggedIds]
    /\ Goto(c, "append")
    /\ UNCHANGED <<backend, clock, log, machineVars, faults>>

\* Mutant: push drains the local store.
AppendDraining(c) ==
    LET e == First(job[c].todo) IN
    /\ pc[c] = "append" /\ job[c].todo # {}
    /\ log' = IF e.id \in job[c].existing THEN log
              ELSE Append(log, [id |-> e.id, parts |-> e.parts])
    /\ local' = [local EXCEPT ![MachineOf[c]][e.id] = Absent]
    /\ job' = [job EXCEPT ![c].todo = @ \ {e}]
    /\ UNCHANGED <<backend, clock, row, transcript, faults, pc>>

\* ... and appends what is not among them.
Append1(c) ==
    LET e == First(job[c].todo) IN
    /\ pc[c] = "append" /\ job[c].todo # {}
    /\ log' = IF e.id \in job[c].existing THEN log
              ELSE Append(log, [id |-> e.id, parts |-> e.parts])
    /\ job' = [job EXCEPT ![c].todo = @ \ {e}]
    /\ UNCHANGED <<backend, clock, machineVars, faults, pc>>

\* SupabaseRemote::insert_event: on conflict the row is left alone.
InsertEvent(c) ==
    LET e == First(job[c].todo) IN
    /\ pc[c] = "insert" /\ job[c].todo # {}
    /\ log' = IF e.id \in LoggedIds THEN log
              ELSE Append(log, [id |-> e.id, parts |-> 0])
    /\ Goto(c, "chunks")
    /\ UNCHANGED <<backend, clock, machineVars, faults, job>>

\* Mutant: one batch too many.
InsertOneMore(c) ==
    LET e == First(job[c].todo) IN
    /\ pc[c] = "chunks" /\ job[c].sent <= e.parts
    /\ log' = [i \in DOMAIN log |->
                IF log[i].id # e.id THEN log[i]
                ELSE [log[i] EXCEPT !.parts = Max({@, job[c].sent + 1})]]
    /\ job' = [job EXCEPT ![c].sent = @ + 1]
    /\ UNCHANGED <<backend, clock, machineVars, faults, pc>>

\* insert_event_chunks: the next batch, of which known chunks are ignored.
InsertChunks(c) ==
    LET e == First(job[c].todo) IN
    /\ pc[c] = "chunks" /\ job[c].sent < e.parts
    /\ log' = [i \in DOMAIN log |->
                IF log[i].id # e.id THEN log[i]
                ELSE [log[i] EXCEPT !.parts = Max({@, job[c].sent + 1})]]
    /\ job' = [job EXCEPT ![c].sent = @ + 1]
    /\ UNCHANGED <<backend, clock, machineVars, faults, pc>>

\* All batches of the event were sent; the next event.
EndChunks(c) ==
    LET e == First(job[c].todo) IN
    /\ pc[c] = "chunks" /\ job[c].sent >= e.parts
    /\ job' = [job EXCEPT ![c] = [job[c] EXCEPT !.todo = @ \ {e}, !.sent = 0]]
    /\ Goto(c, "insert")
    /\ UNCHANGED <<backend, clock, log, machineVars, faults>>

EndPush(c) ==
    /\ pc[c] \in {"append", "insert"} /\ job[c].todo = {}
    /\ Finish(c)
    /\ UNCHANGED <<backend, clock, log, machineVars, faults>>

-----------------------------------------------------------------------------
(* Pull: collecting the remote's events. *)

BeginPull(c) ==
    /\ pc[c] = "idle"
    /\ job' = [job EXCEPT ![c] = NoJob]
    /\ Goto(c, IF backend = "server" THEN "page" ELSE "list")
    /\ UNCHANGED <<backend, clock, log, machineVars, faults>>

\* repo_matches: positions the client asks for.
Matching(c) ==
    {i \in DOMAIN log :
        \/ GlobalPull /\ backend = "server"
        \/ RepoOf[log[i].id.session] = Repo[c]}

\* list_events_page: what comes after the cursor, and the first of it.
Rest(c) == {i \in Matching(c) : i > job[c].cursor}

Page(c) == {i \in Rest(c) : Cardinality({j \in Rest(c) : j <= i}) <= PageSize}

\* Mutant: the cursor names the line after the page.
CursorPast(c) == Max(Page(c)) + 1

\* The cursor a page that is not the last one hands back: its last line.
NextCursor(c) == Max(Page(c))

\* Mutant: the next cursor is ignored.
FetchFirstPage(c) ==
    LET items == {[pos |-> i, id |-> log[i].id, parts |-> log[i].parts] : i \in Page(c)} IN
    /\ pc[c] = "page"
    /\ job' = [job EXCEPT ![c].pulled = @ \cup items]
    /\ Goto(c, "dedupe")
    /\ UNCHANGED <<backend, clock, log, machineVars, faults>>

\* get_all_events_from_remote: one page; without a next cursor it is the last.
FetchPage(c) ==
    LET more == Page(c) # Rest(c)
        items == {[pos |-> i, id |-> log[i].id, parts |-> log[i].parts] : i \in Page(c)}
    IN
    /\ pc[c] = "page"
    /\ job' = [job EXCEPT ![c].pulled = @ \cup items,
                          ![c].cursor = IF more THEN NextCursor(c) ELSE @]
    /\ Goto(c, IF more THEN "page" ELSE "dedupe")
    /\ UNCHANGED <<backend, clock, log, machineVars, faults>>

\* SupabaseRemote::get_all_events: the events without chunks ...
FetchEvents(c) ==
    /\ pc[c] = "list"
    /\ job' = [job EXCEPT ![c].pulled =
                {[pos |-> log[i].id.at, id |-> log[i].id, parts |-> 0] : i \in Matching(c)}]
    /\ Goto(c, "attach")
    /\ UNCHANGED <<backend, clock, log, machineVars, faults>>

\* ... and, later, the chunks there are by then (attach_event_chunks).
FetchChunks(c) ==
    /\ pc[c] = "attach"
    /\ job' = [job EXCEPT ![c].pulled =
                {[pos |-> log[i].id.at, id |-> log[i].id, parts |-> log[i].parts] :
                    i \in {j \in DOMAIN log : \E x \in @ : x.id = log[j].id}}]
    /\ Goto(c, "dedupe")
    /\ UNCHANGED <<backend, clock, log, machineVars, faults>>

-----------------------------------------------------------------------------
(* Pull: storing what is new. *)

\* Mutant: nothing is known.
KnowsNothing(c) == {}

\* known_event_ids: those stored under the repo the client runs in.
Known(c) == HeldOf(MachineOf[c], Repo[c])

\* dedupe_remote_events: unknown ids, the first item of each.
Dedupe(c) ==
    LET new == {x \in job[c].pulled :
                    /\ x.id \notin Known(c)
                    /\ \A y \in job[c].pulled : y.id = x.id => x.pos <= y.pos}
    IN
    /\ pc[c] = "dedupe"
    /\ job' = [job EXCEPT ![c] = [NoJob EXCEPT !.todo = new, !.pulled = new]]
    /\ Goto(c, "ingest")
    /\ UNCHANGED <<backend, clock, log, machineVars, faults>>

\* ingest_source_sessions_into_metadata: the row of the next event ...
IngestRow(c) ==
    LET e == First(job[c].todo) IN
    /\ pc[c] = "ingest" /\ job[c].todo # {}
    /\ row' = [row EXCEPT ![MachineOf[c]][e.id.session] = e.id.at]
    /\ \/ /\ e.parts > 0
          /\ Goto(c, "ingestChunks")
          /\ UNCHANGED job
       \/ /\ e.parts = 0
          /\ job' = [job EXCEPT ![c].todo = @ \ {e}]
          /\ UNCHANGED pc
    /\ UNCHANGED <<backend, clock, log, local, transcript, faults>>

\* ... and its chunks, if it carries any.
IngestChunks(c) ==
    LET e == First(job[c].todo) IN
    /\ pc[c] = "ingestChunks"
    /\ transcript' = [transcript EXCEPT ![MachineOf[c]][e.id.session] = e.id.at]
    /\ job' = [job EXCEPT ![c].todo = @ \ {e}]
    /\ Goto(c, "ingest")
    /\ UNCHANGED <<backend, clock, log, local, row, faults>>

EndIngest(c) ==
    /\ pc[c] = "ingest" /\ job[c].todo = {}
    /\ Goto(c, "store")
    /\ UNCHANGED <<backend, clock, log, machineVars, faults, job>>

\* append_remote_events: the event if it is new, and its chunks in any case.
Store(c) ==
    LET e == First(job[c].pulled) IN
    /\ pc[c] = "store" /\ job[c].pulled # {}
    /\ local' = [local EXCEPT ![MachineOf[c]][e.id] = e.parts]
    /\ job' = [job EXCEPT ![c].pulled = @ \ {e}]
    /\ UNCHANGED <<backend, clock, log, row, transcript, faults, pc>>

EndPull(c) ==
    /\ pc[c] = "store" /\ job[c].pulled = {}
    /\ Finish(c)
    /\ UNCHANGED <<backend, clock, log, machineVars, faults>>

-----------------------------------------------------------------------------
(***************************************************************************)
(* A request fails, a database call fails, or the process (or the server's *)
(* handler) is killed: what was done stays, the rest is given up.          *)
(***************************************************************************)
Fail(c) ==
    /\ faults < MaxFaults
    /\ faults' = faults + 1
    /\ pc[c] # "idle"
    /\ Finish(c)
    /\ UNCHANGED <<backend, clock, log, machineVars>>

Step(c) ==
    \/ Receive(c) \/ Append1(c)
    \/ InsertEvent(c) \/ InsertChunks(c) \/ EndChunks(c)
    \/ EndPush(c)
    \/ FetchPage(c) \/ FetchEvents(c) \/ FetchChunks(c)
    \/ Dedupe(c) \/ IngestRow(c) \/ IngestChunks(c) \/ EndIngest(c)
    \/ Store(c) \/ EndPull(c)

\* push_targets.
Targets(c) == {Repo[c]} \cup IF AllRepos THEN {RepoOf[s] : s \in Sessions} ELSE {}

Next ==
    \/ \E s \in Sessions : Record(s)
    \/ \E c \in Clients :
        \/ \E r \in Targets(c) : BeginPush(c, r)
        \/ BeginPull(c) \/ Step(c) \/ Fail(c)

Spec == Init /\ [][Next]_vars

(***************************************************************************)
(* A push or pull under way goes on, and both keep being started: explain  *)
(* pulls before it reads, a refresh and every planning write push.         *)
(***************************************************************************)
FairSpec ==
    /\ Spec
    /\ \A c \in Clients :
        WF_vars(Step(c)) /\ SF_vars(BeginPush(c, Repo[c])) /\ SF_vars(BeginPull(c))

-----------------------------------------------------------------------------
(* Properties. *)

\* The places a client can be.
Labels == {"idle", "post", "append", "insert", "chunks", "page", "list", "attach",
           "dedupe", "ingest", "ingestChunks", "store"}

Job == [existing : SUBSET Id, todo : SUBSET Item, pulled : SUBSET Item,
        cursor : Nat, sent : 0 .. Parts]

\* Every variable holds a value of its kind.
TypeOK ==
    /\ backend \in Backends
    /\ clock \in 0 .. MaxTime
    /\ log \in Seq(Entry)
    /\ local \in [Machines -> [Id -> (0 .. Parts) \cup {Absent}]]
    /\ row \in [Machines -> [Sessions -> 0 .. MaxTime]]
    /\ transcript \in [Machines -> [Sessions -> 0 .. MaxTime]]
    /\ faults \in 0 .. MaxFaults
    /\ pc \in [Clients -> Labels]
    /\ job \in [Clients -> Job]

(***************************************************************************)
(* Sync keeps the promise of Replicas: no event is lost, invented, or      *)
(* stored where it was not recorded or pulled.                             *)
(***************************************************************************)
Promise ==
    INSTANCE Replicas
        WITH Ids <- Id,
             Home <- [id \in Id |-> OwnerOf[id.session]],
             remote <- LoggedIds,
             held <- [m \in Machines |-> {id \in Id : local[m][id] # Absent}]

KeepsPromise == Promise!Spec

(***************************************************************************)
(* Between two pages of a pull nothing was skipped: the client holds every *)
(* matching line up to its cursor, though others append to the log and     *)
(* lines of other repos lie in between (list_events_page's cursor).        *)
(***************************************************************************)
PagesAreGapless ==
    \A c \in Clients :
        pc[c] = "page" =>
            {x.pos : x \in job[c].pulled} = {i \in Matching(c) : i <= job[c].cursor}

(***************************************************************************)
(* A pull handles only events the machine does not have: it "deduplicates  *)
(* by event ID against the local event/chunk DB".                          *)
(***************************************************************************)
DedupedAgainstLocal ==
    \A c \in Clients :
        pc[c] \in {"ingest", "ingestChunks"} =>
            \A x \in job[c].todo : local[MachineOf[c]][x.id] = Absent

(***************************************************************************)
(* A machine's metadata is never behind its events: once an event is       *)
(* stored, and so is never pulled again, its session's row is of that      *)
(* version or a newer one, and so are the stored chunks if the event has   *)
(* chunks (pull_events projects first and stores last, and whatever fails  *)
(* in between is done again).                                              *)
(***************************************************************************)
MetadataNotBehind ==
    \A m \in Machines, id \in Id :
        local[m][id] # Absent =>
            /\ row[m][id.session] >= id.at
            /\ local[m][id] > 0 => transcript[m][id.session] >= id.at

\* The event is recorded, in the repo client c syncs.
Awaited(c, id) ==
    local[OwnerOf[id.session]][id] # Absent /\ RepoOf[id.session] = Repo[c]

(***************************************************************************)
(* Every recorded event reaches every machine that syncs its repo, over    *)
(* either remote (auto_push and auto_pull in handle_push and pull_events). *)
(***************************************************************************)
EveryEventArrives ==
    \A c \in Clients, id \in Id :
        Awaited(c, id) ~> local[MachineOf[c]][id] # Absent

=============================================================================
