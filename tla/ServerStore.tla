----------------------------- MODULE ServerStore -----------------------------
(***************************************************************************)
(* The self-hosted server's event store (crates/server/src/store.rs) under *)
(* the push handlers of crates/server/src/routes.rs.                       *)
(*                                                                         *)
(* axum runs the handlers on several threads over one Arc<ServerStore>.    *)
(* Nothing guards events.jsonl: a push reads the ids already in the log,   *)
(* then appends, and writeln! on an unbuffered File is two write(2) calls, *)
(* the event's text and the newline.  The repo->org projection has an      *)
(* RwLock around its in-memory copy, but its file is written both under    *)
(* that lock (record_repo_orgs) and outside it (ensure_repo_org_loaded),   *)
(* each time through the same temporary name.                              *)
(*                                                                         *)
(* A step is what one handler does between two accesses to shared state.   *)
(***************************************************************************)
EXTENDS Naturals, Sequences, FiniteSetsExt

CONSTANTS
    Handlers,       \* request-handling tasks
    Repos, Orgs, Users,
    Ids,            \* event ids
    Events,         \* the events clients send
    Requests,       \* the push requests clients send
    Members,        \* org membership as this process has it cached
    StartsWithFile, \* whether repo_org.json exists at the first start
    MaxFaults,      \* bound: crashes and I/O errors in one behaviour
    None,           \* Rust's Option::None
    NL,             \* the newline written after an event's text
    Absent,         \* no such file
    Unloaded        \* the in-memory projection before its first use

OrNone(S) == S \cup {None}

\* TraceEvent: the id used for deduplication and the two optional scopes.
Event == [id : Ids, repo : OrNone(Repos), org : OrNone(Orgs)]

(***************************************************************************)
(* What authenticated the request: the server may be open (or the token's  *)
(* scope needs no org), the token may be scoped to an org, or the bearer   *)
(* may be a Supabase user.                                                 *)
(***************************************************************************)
Credential ==
    [kind : {"open"}] \cup [kind : {"org"}, id : Orgs]
                      \cup [kind : {"user"}, id : Users]

\* A push; actorOk: the token is bound to no actor, or to that of every event.
Request == [route : OrNone(Repos), cred : Credential, actorOk : BOOLEAN,
            events : Seq(Event)]

\* A repo->org map; an unbound repo is None.
Projection == [Repos -> OrNone(Orgs)]

NoBindings == [r \in Repos |-> None]

ASSUME EventsAssumption == Events \subseteq Event

\* Org-scoped tokens and Supabase users never reach the global route: without
\* a repo in the path AuthConfig::authorize answers Forbidden.  Supabase users
\* are bound to no actor.
ASSUME RequestsAssumption ==
    /\ Requests \subseteq Request
    /\ \A q \in Requests : q.route = None => q.cred.kind = "open"
    /\ \A q \in Requests : q.cred.kind = "user" => q.actorOk

ASSUME MembersAssumption == Members \subseteq Orgs \X Users

ASSUME StartsWithFileAssumption == StartsWithFile \in BOOLEAN

ASSUME MaxFaultsAssumption == MaxFaults \in Nat

\* The markers are none of the values they stand beside.
ASSUME MarkersAssumption ==
    /\ None \notin Repos \cup Orgs \cup Handlers \cup Requests
    /\ NL \notin Event
    /\ Absent \notin Projection
    /\ Unloaded \notin Projection

VARIABLES
    log,      \* events.jsonl: the texts and newlines written, in file order
    file,     \* repo_org.json, or Absent
    tmp,      \* repo_org.json.tmp, or Absent
    cache,    \* RepoOrgProjection.loaded, or Unloaded
    lock,     \* the handler holding the projection's write lock, or None
    acked,    \* ids a 200 response has named as accepted or duplicate
    faults,   \* crashes and I/O errors so far
    pc,       \* where each handler is
    req,      \* the request it serves, or None
    after,    \* why it loads the projection: "gate", "claim" or "record"
    todo,     \* normalized events still to append
    existing, \* ids it read from the log before appending
    accepted, \* ids it appended
    dups,     \* ids it skipped
    binds,    \* accepted_repo_orgs (or the claim) as a first-wins map
    loaded    \* the map it read from the file or rebuilt from the log

sharedVars == <<log, file, tmp, cache, lock, acked, faults>>
localVars == <<pc, req, after, todo, existing, accepted, dups, binds, loaded>>
vars == <<sharedVars, localVars>>

-----------------------------------------------------------------------------
(* Reading the log. *)

IsText(t) == t # NL

\* Every line holds at most one event: what read_sequenced_events can parse.
LogIsJsonl ==
    \A i \in 1 .. Len(log) - 1 : IsText(log[i]) => log[i + 1] = NL

\* read_events: positions of event texts, and the ids found there.
TextAt == {i \in 1 .. Len(log) : IsText(log[i])}

LoggedIds == {log[i].id : i \in TextAt}

\* Positions whose event ties repo r to some org.
TiesAt(r) == {i \in TextAt : log[i].repo = r /\ log[i].org # None}

\* rebuild_repo_org_from_log: the first org per repo wins.
RebuildFromLog ==
    [r \in Repos |->
        IF TiesAt(r) = {} THEN None
        ELSE log[Min(TiesAt(r))].org]

\* Mutant: BTreeMap::insert instead of or_insert_with.
OrInsertLast(m, b) == [r \in Repos |-> IF b[r] # None THEN b[r] ELSE m[r]]

\* BTreeMap::entry(..).or_insert_with over a whole batch.
OrInsert(m, b) == [r \in Repos |-> IF m[r] # None THEN m[r] ELSE b[r]]

(* Preparing a request. *)

\* normalize_repo_events: a repo route rejects events of another repo ...
RepoMismatch(q) ==
    /\ q.route # None
    /\ \E i \in DOMAIN q.events : q.events[i].repo \notin {None, q.route}

\* ... and fills in the missing repo ids.
Normalized(q) ==
    [i \in DOMAIN q.events |->
        IF q.route # None THEN [q.events[i] EXCEPT !.repo = q.route]
        ELSE q.events[i]]

\* enforce_repo_member: events naming an org the user belongs to.
ClaimableAt(q) ==
    {i \in DOMAIN q.events :
        q.events[i].org # None /\ <<q.events[i].org, q.cred.id>> \in Members}

ClaimedOrg(q) == q.events[Min(ClaimableAt(q))].org

-----------------------------------------------------------------------------
Init ==
    /\ log = <<>>
    /\ file = IF StartsWithFile THEN NoBindings ELSE Absent
    /\ tmp = Absent
    /\ cache = Unloaded
    /\ lock = None
    /\ acked = {}
    /\ faults = 0
    /\ pc = [h \in Handlers |-> "idle"]
    /\ req = [h \in Handlers |-> None]
    /\ after = [h \in Handlers |-> "gate"]
    /\ todo = [h \in Handlers |-> <<>>]
    /\ existing = [h \in Handlers |-> {}]
    /\ accepted = [h \in Handlers |-> {}]
    /\ dups = [h \in Handlers |-> {}]
    /\ binds = [h \in Handlers |-> NoBindings]
    /\ loaded = [h \in Handlers |-> NoBindings]

Goto(h, label) == pc' = [pc EXCEPT ![h] = label]

\* The handler is done with its request and forgets everything about it.
Finish(h) ==
    /\ pc' = [pc EXCEPT ![h] = "idle"]
    /\ req' = [req EXCEPT ![h] = None]
    /\ after' = [after EXCEPT ![h] = "gate"]
    /\ todo' = [todo EXCEPT ![h] = <<>>]
    /\ existing' = [existing EXCEPT ![h] = {}]
    /\ accepted' = [accepted EXCEPT ![h] = {}]
    /\ dups' = [dups EXCEPT ![h] = {}]
    /\ binds' = [binds EXCEPT ![h] = NoBindings]
    /\ loaded' = [loaded EXCEPT ![h] = NoBindings]

\* 200 with the accepted and the duplicate ids.
Respond(h) == Finish(h) /\ acked' = acked \cup accepted[h] \cup dups[h]

\* Any other status.
Reject(h) == Finish(h) /\ UNCHANGED acked

\* Mutant: a failed load is tried again.
LoadRetries(h) ==
    /\ Goto(h, "load")
    /\ UNCHANGED <<acked, req, after, todo, existing, accepted, dups, binds, loaded>>

(***************************************************************************)
(* A failed ensure_repo_org_loaded: resolve_repo_org turns it into None,   *)
(* record_repo_orgs returns the error.                                     *)
(***************************************************************************)
LoadFails(h) ==
    \/ /\ after[h] = "gate"
       /\ Goto(h, "unresolved")
       /\ UNCHANGED <<acked, req, after, todo, existing, accepted, dups, binds,
                      loaded>>
    \/ /\ after[h] # "gate"
       /\ Reject(h)

-----------------------------------------------------------------------------
(* The gate: require_bearer_token and enforce_repo_member. *)

\* A request arrives; only some credentials need the repo's org.
Receive(h) ==
    /\ pc[h] = "idle"
    /\ \E q \in Requests :
        /\ req' = [req EXCEPT ![h] = q]
        /\ Goto(h, IF q.cred.kind = "open" THEN "begin" ELSE "load")
    /\ UNCHANGED <<sharedVars, after, todo, existing, accepted, dups, binds,
                   loaded>>

\* What the gate decides once it knows the repo's org (None: unresolved).
Decide(h, org) ==
    LET q == req[h] IN
    \/ /\ \/ q.cred.kind = "org" /\ org = q.cred.id
          \/ q.cred.kind = "user" /\ <<org, q.cred.id>> \in Members
       /\ Goto(h, "begin")
       /\ UNCHANGED <<acked, req, after, todo, existing, accepted, dups, binds,
                      loaded>>
    \/ /\ q.cred.kind = "user" /\ org = None /\ ClaimableAt(q) # {}
       /\ binds' = [binds EXCEPT ![h][q.route] = ClaimedOrg(q)]
       /\ after' = [after EXCEPT ![h] = "claim"]
       /\ Goto(h, "load")
       /\ UNCHANGED <<acked, req, todo, existing, accepted, dups, loaded>>
    \/ /\ \/ q.cred.kind = "org" /\ org # q.cred.id
          \/ /\ q.cred.kind = "user"
             /\ IF org = None THEN ClaimableAt(q) = {}
                ELSE <<org, q.cred.id>> \notin Members
       /\ Reject(h)

\* resolve_repo_org reads the loaded projection under the read lock.
Gate(h) ==
    /\ pc[h] = "gate"
    /\ lock = None
    /\ Decide(h, cache[req[h].route])
    /\ UNCHANGED <<log, file, tmp, cache, lock, faults>>

\* resolve_repo_org answered None because the projection could not be loaded.
GateUnresolved(h) ==
    /\ pc[h] = "unresolved"
    /\ Decide(h, None)
    /\ UNCHANGED <<log, file, tmp, cache, lock, faults>>

-----------------------------------------------------------------------------
(* ensure_repo_org_loaded. *)

\* Where the caller continues once the projection is loaded.
AfterLoad(h) == IF after[h] = "gate" THEN "gate" ELSE "merge"

\* Mutant: the file is read without asking whether it exists.
LoadUnchecked(h) ==
    /\ pc[h] = "load"
    /\ lock = None
    /\ \/ /\ cache # Unloaded
          /\ Goto(h, AfterLoad(h))
          /\ UNCHANGED loaded
       \/ /\ cache = Unloaded
          /\ loaded' = [loaded EXCEPT ![h] = file]
          /\ Goto(h, "setCache")
    /\ UNCHANGED <<sharedVars, req, after, todo, existing, accepted, dups, binds>>

(***************************************************************************)
(* The check under the read lock and the read of the file.  They are one   *)
(* step: a file found later than the check can only be installed if the    *)
(* cache is still unloaded then, exactly as if the check came later too.   *)
(***************************************************************************)
Load(h) ==
    /\ pc[h] = "load"
    /\ lock = None
    /\ \/ /\ cache # Unloaded
          /\ Goto(h, AfterLoad(h))
          /\ UNCHANGED loaded
       \/ /\ cache = Unloaded /\ file # Absent
          /\ loaded' = [loaded EXCEPT ![h] = file]
          /\ Goto(h, "setCache")
       \/ /\ cache = Unloaded /\ file = Absent
          /\ Goto(h, "rebuild")
          /\ UNCHANGED loaded
    /\ UNCHANGED <<sharedVars, req, after, todo, existing, accepted, dups, binds>>

\* rebuild_repo_org_from_log fails on a line it cannot parse.
Rebuild(h) ==
    /\ pc[h] = "rebuild"
    /\ \/ /\ LogIsJsonl
          /\ loaded' = [loaded EXCEPT ![h] = RebuildFromLog]
          /\ Goto(h, "putTmp")
          /\ UNCHANGED <<acked, req, after, todo, existing, accepted, dups, binds>>
       \/ ~LogIsJsonl /\ LoadFails(h)
    /\ UNCHANGED <<log, file, tmp, cache, lock, faults>>

\* write_repo_org_file, outside the lock: the temporary file ...
PutTmp(h) ==
    /\ pc[h] = "putTmp"
    /\ tmp' = loaded[h]
    /\ Goto(h, "putRename")
    /\ UNCHANGED <<log, file, cache, lock, acked, faults, req, after, todo,
                   existing, accepted, dups, binds, loaded>>

\* ... and its rename, which fails when another handler has renamed it away.
PutRename(h) ==
    /\ pc[h] = "putRename"
    /\ \/ /\ tmp # Absent
          /\ file' = tmp
          /\ tmp' = Absent
          /\ Goto(h, "setCache")
          /\ UNCHANGED <<acked, req, after, todo, existing, accepted, dups, binds,
                         loaded>>
       \/ /\ tmp = Absent
          /\ LoadFails(h)
          /\ UNCHANGED <<file, tmp>>
    /\ UNCHANGED <<log, cache, lock, faults>>

\* Mutant: the map is installed whether or not another handler has done so.
SetCacheAlways(h) ==
    /\ pc[h] = "setCache"
    /\ lock = None
    /\ cache' = loaded[h]
    /\ loaded' = [loaded EXCEPT ![h] = NoBindings]
    /\ Goto(h, AfterLoad(h))
    /\ UNCHANGED <<log, file, tmp, lock, acked, faults, req, after, todo,
                   existing, accepted, dups, binds>>

\* Install the map unless another handler did so first.
SetCache(h) ==
    /\ pc[h] = "setCache"
    /\ lock = None
    /\ cache' = IF cache = Unloaded THEN loaded[h] ELSE cache
    /\ loaded' = [loaded EXCEPT ![h] = NoBindings]
    /\ Goto(h, AfterLoad(h))
    /\ UNCHANGED <<log, file, tmp, lock, acked, faults, req, after, todo,
                   existing, accepted, dups, binds>>

-----------------------------------------------------------------------------
(* record_repo_orgs, called for a claim and after an append. *)

\* A claim is followed by the append, a record by the response.
AfterMerge(h) ==
    \/ /\ after[h] = "claim"
       /\ Goto(h, "begin")
       /\ UNCHANGED <<acked, req, after, todo, existing, accepted, dups, binds,
                      loaded>>
    \/ /\ after[h] = "record"
       /\ Respond(h)

(***************************************************************************)
(* Under the write lock: insert the bindings that are missing and, if any  *)
(* was, write the temporary file and keep the lock for the rename.         *)
(***************************************************************************)
Merge(h) ==
    LET merged == OrInsert(cache, binds[h]) IN
    /\ pc[h] = "merge"
    /\ lock = None
    /\ cache' = merged
    /\ \/ /\ merged # cache
          /\ tmp' = merged
          /\ lock' = h
          /\ Goto(h, "mergeRename")
          /\ UNCHANGED <<acked, req, after, todo, existing, accepted, dups, binds,
                         loaded>>
       \/ /\ merged = cache
          /\ AfterMerge(h)
          /\ UNCHANGED <<tmp, lock>>
    /\ UNCHANGED <<log, file, faults>>

\* The rename releases the lock whether or not it finds the temporary file.
MergeRename(h) ==
    /\ pc[h] = "mergeRename"
    /\ lock' = None
    /\ tmp' = Absent
    /\ \/ tmp # Absent /\ file' = tmp /\ AfterMerge(h)
       \/ tmp = Absent /\ UNCHANGED file /\ Reject(h)
    /\ UNCHANGED <<log, cache, faults>>

-----------------------------------------------------------------------------
(* append_events_for_repo. *)

\* enforce_actor_binding, then normalize the request and read the ids in the log.
BeginAppend(h) ==
    LET q == req[h] IN
    /\ pc[h] = "begin"
    /\ \/ /\ q.actorOk /\ ~RepoMismatch(q) /\ LogIsJsonl
          /\ todo' = [todo EXCEPT ![h] = Normalized(q)]
          /\ existing' = [existing EXCEPT ![h] = LoggedIds]
          /\ binds' = [binds EXCEPT ![h] = NoBindings]
          /\ Goto(h, "append")
          /\ UNCHANGED <<acked, req, after, accepted, dups, loaded>>
       \/ /\ ~q.actorOk \/ RepoMismatch(q) \/ ~LogIsJsonl
          /\ Reject(h)
    /\ UNCHANGED <<log, file, tmp, cache, lock, faults>>

\* Mutant: repeats within the request are not noticed.
HeadIsLogged(h) == Head(todo[h]).id \in existing[h]

\* Whether the next event is known: in the log read, or earlier in the request.
HeadIsDuplicate(h) == Head(todo[h]).id \in existing[h] \cup accepted[h]

SkipDuplicate(h) ==
    /\ pc[h] = "append" /\ todo[h] # <<>>
    /\ HeadIsDuplicate(h)
    /\ dups' = [dups EXCEPT ![h] = @ \cup {Head(todo[h]).id}]
    /\ todo' = [todo EXCEPT ![h] = Tail(@)]
    /\ UNCHANGED <<sharedVars, pc, req, after, existing, accepted, binds, loaded>>

\* Mutant: the text stays in a buffer that is never flushed.
WriteTextBuffered(h) ==
    /\ pc[h] = "append" /\ todo[h] # <<>>
    /\ ~HeadIsDuplicate(h)
    /\ Goto(h, "newline")
    /\ UNCHANGED <<sharedVars, req, after, todo, existing, accepted, dups, binds,
                   loaded>>

\* The first write of writeln!: the event's text.
WriteText(h) ==
    /\ pc[h] = "append" /\ todo[h] # <<>>
    /\ ~HeadIsDuplicate(h)
    /\ log' = Append(log, Head(todo[h]))
    /\ Goto(h, "newline")
    /\ UNCHANGED <<file, tmp, cache, lock, acked, faults, req, after, todo,
                   existing, accepted, dups, binds, loaded>>

\* Mutant: the event's org is recorded for every repo.
BindsEveryRepo(e) == [r \in Repos |-> e.org]

\* What the event adds to accepted_repo_orgs, as a map of at most one entry.
BindingOf(e) ==
    [r \in Repos |-> IF e.repo = r THEN e.org ELSE None]

\* The second write, after which the event counts as accepted.
WriteNewline(h) ==
    LET e == Head(todo[h]) IN
    /\ pc[h] = "newline"
    /\ log' = Append(log, NL)
    /\ accepted' = [accepted EXCEPT ![h] = @ \cup {e.id}]
    /\ binds' = [binds EXCEPT ![h] = OrInsert(@, BindingOf(e))]
    /\ todo' = [todo EXCEPT ![h] = Tail(@)]
    /\ Goto(h, "append")
    /\ UNCHANGED <<file, tmp, cache, lock, acked, faults, req, after, existing,
                   dups, loaded>>

\* Mutant: the bindings of the accepted events are not recorded.
FinishUnrecorded(h) ==
    /\ pc[h] = "append" /\ todo[h] = <<>>
    /\ Respond(h)
    /\ UNCHANGED <<log, file, tmp, cache, lock, faults>>

\* The loop is over: record the new bindings, if any, before responding.
FinishAppend(h) ==
    /\ pc[h] = "append" /\ todo[h] = <<>>
    /\ \/ /\ binds[h] = NoBindings
          /\ Respond(h)
       \/ /\ binds[h] # NoBindings
          /\ after' = [after EXCEPT ![h] = "record"]
          /\ Goto(h, "load")
          /\ UNCHANGED <<acked, req, todo, existing, accepted, dups, binds, loaded>>
    /\ UNCHANGED <<log, file, tmp, cache, lock, faults>>

-----------------------------------------------------------------------------
(* Faults. *)

\* The process dies and is started again over the same data directory.
Crash ==
    /\ faults < MaxFaults
    /\ faults' = faults + 1
    /\ cache' = Unloaded
    /\ lock' = None
    /\ pc' = [h \in Handlers |-> "idle"]
    /\ req' = [h \in Handlers |-> None]
    /\ after' = [h \in Handlers |-> "gate"]
    /\ todo' = [h \in Handlers |-> <<>>]
    /\ existing' = [h \in Handlers |-> {}]
    /\ accepted' = [h \in Handlers |-> {}]
    /\ dups' = [h \in Handlers |-> {}]
    /\ binds' = [h \in Handlers |-> NoBindings]
    /\ loaded' = [h \in Handlers |-> NoBindings]
    /\ UNCHANGED <<log, file, tmp, acked>>

\* One write or rename returns an error, which the handler propagates.
IOError(h) ==
    /\ faults < MaxFaults
    /\ faults' = faults + 1
    /\ \/ /\ pc[h] \in {"putTmp", "putRename"}
          /\ LoadFails(h)
          /\ UNCHANGED lock
       \/ /\ \/ pc[h] \in {"newline", "mergeRename"}
             \/ pc[h] = "append" /\ todo[h] # <<>> /\ ~HeadIsDuplicate(h)
          /\ Reject(h)
          /\ lock' = IF lock = h THEN None ELSE lock
    /\ UNCHANGED <<log, file, tmp, cache>>

-----------------------------------------------------------------------------
\* What a handler does by itself once it has a request.
Step(h) ==
    \/ Gate(h) \/ GateUnresolved(h)
    \/ Load(h) \/ Rebuild(h) \/ PutTmp(h) \/ PutRename(h) \/ SetCache(h)
    \/ Merge(h) \/ MergeRename(h)
    \/ BeginAppend(h) \/ SkipDuplicate(h) \/ WriteText(h) \/ WriteNewline(h)
    \/ FinishAppend(h)

Next ==
    \/ \E h \in Handlers : Receive(h) \/ Step(h) \/ IOError(h)
    \/ Crash

Spec == Init /\ [][Next]_vars

(***************************************************************************)
(* A started handler keeps being scheduled (tokio's workers, the operating *)
(* system); nothing obliges clients to send requests or faults to happen.  *)
(* Weak fairness is enough although handlers wait for the lock: it is held *)
(* only to add a binding, which can happen only finitely often.            *)
(***************************************************************************)
FairSpec == Spec /\ \A h \in Handlers : WF_vars(Step(h))

-----------------------------------------------------------------------------
(* Properties. *)

\* The places a handler can be.
Labels == {"idle", "gate", "unresolved", "load", "rebuild", "putTmp", "putRename",
           "setCache", "merge", "mergeRename", "begin", "append", "newline"}

\* Every variable holds a value of its kind.
TypeOK ==
    /\ log \in Seq(Event \cup {NL})
    /\ file \in Projection \cup {Absent}
    /\ tmp \in Projection \cup {Absent}
    /\ cache \in Projection \cup {Unloaded}
    /\ lock \in OrNone(Handlers)
    /\ acked \subseteq Ids
    /\ faults \in 0 .. MaxFaults
    /\ pc \in [Handlers -> Labels]
    /\ req \in [Handlers -> OrNone(Requests)]
    /\ after \in [Handlers -> {"gate", "claim", "record"}]
    /\ todo \in [Handlers -> Seq(Event)]
    /\ existing \in [Handlers -> SUBSET Ids]
    /\ accepted \in [Handlers -> SUBSET Ids]
    /\ dups \in [Handlers -> SUBSET Ids]
    /\ binds \in [Handlers -> Projection]
    /\ loaded \in [Handlers -> Projection]

(***************************************************************************)
(* Every id a 200 response named, as accepted or as duplicate, is in       *)
(* events.jsonl, whatever other handlers, crashes and I/O errors do        *)
(* (append_events_for_repo answers after its writes and its read).         *)
(***************************************************************************)
AckedDurable == acked \subseteq LoggedIds

\* The repos and orgs something ties together: a logged event, or a request
\* of a user who is a member of the org one of its events names.
Tied ==
    {p \in Repos \X Orgs :
        \/ \E i \in TextAt : log[i].repo = p[1] /\ log[i].org = p[2]
        \/ \E q \in Requests :
            /\ q.cred.kind = "user" /\ q.route = p[1]
            /\ \E i \in ClaimableAt(q) : q.events[i].org = p[2]}

BindsOnly(m, T) == \A r \in Repos : m[r] # None => <<r, m[r]>> \in T

(***************************************************************************)
(* The projection never invents a binding: what the cache, repo_org.json   *)
(* and its temporary file say, across rebuilds, races on the shared        *)
(* temporary name and restarts, comes from the log or from a member's      *)
(* claim (record_repo_orgs, rebuild_repo_org_from_log, claim_repo_org).    *)
(***************************************************************************)
BindingsJustified ==
    /\ cache # Unloaded => BindsOnly(cache, Tied)
    /\ file # Absent => BindsOnly(file, Tied)
    /\ tmp # Absent => BindsOnly(tmp, Tied)

(***************************************************************************)
(* A Supabase user's push reaches the log only while the repo is bound in  *)
(* the cache: enforce_repo_member resolves or claims it first, and no      *)
(* other handler's load can take the binding away (ensure_repo_org_loaded  *)
(* installs its map only if the cache is still empty).                     *)
(***************************************************************************)
UserAppendsToBoundRepo ==
    \A h \in Handlers :
        pc[h] \in {"begin", "append", "newline"} /\ req[h].cred.kind = "user" =>
            cache # Unloaded /\ cache[req[h].route] # None

(***************************************************************************)
(* First binding wins: while the process lives, no step of any handler     *)
(* rebinds or unbinds a repo in the cache (record_repo_orgs inserts with   *)
(* or_insert_with; ensure_repo_org_loaded does not replace a loaded map).  *)
(***************************************************************************)
FirstBindingWins ==
    [][\A r \in Repos :
        cache # Unloaded /\ cache' # Unloaded /\ cache[r] # None
            => cache'[r] = cache[r]]_vars

\* No handler is serving a request.
Quiet == \A h \in Handlers : pc[h] = "idle"

(***************************************************************************)
(* Push is idempotent by event id: no id is in the log twice               *)
(* (append_events: "Appends events that are not already present").         *)
(***************************************************************************)
NoDuplicateIds ==
    \A i, j \in TextAt : log[i].id = log[j].id => i = j

(***************************************************************************)
(* Between requests the projection is in step with the log: every repo an  *)
(* event ties to an org is bound, once the projection is loaded            *)
(* (append_events_for_repo records the bindings of what it accepted).      *)
(***************************************************************************)
ProjectionInStep ==
    Quiet /\ cache # Unloaded =>
        \A r \in Repos : TiesAt(r) # {} => cache[r] # None

(***************************************************************************)
(* Every request is answered: no handler waits for ever, be it for the     *)
(* projection's lock or in the append loop.                                *)
(***************************************************************************)
EveryRequestAnswered ==
    \A h \in Handlers : pc[h] # "idle" ~> pc[h] = "idle"

=============================================================================
