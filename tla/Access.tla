------------------------------- MODULE Access -------------------------------
(***************************************************************************)
(* Who may use a self-hosted server (crates/server/src/auth.rs, main.rs    *)
(* and the gate of routes.rs): the token table tokens.json and the         *)
(* membership file org_members.json, edited by brick-server commands while *)
(* a server runs on the copy it loaded; the bearer gate, its audit log,    *)
(* and the checks of the push and list routes.                             *)
(*                                                                         *)
(* A table is a set of records: create_token refuses a label that is taken, *)
(* so no two have one, and nothing depends on their order.                 *)
(*                                                                         *)
(* A secret is a number, fresh for each create or rotate; 0 is the value   *)
(* of --auth-token.  A request is one step: the table and the members a    *)
(* server decides by never change while it runs, and the interleavings of  *)
(* pushes in the event log are ServerStore's.  fs::write empties a file    *)
(* before it fills it and an empty table is read as no tokens.             *)
(***************************************************************************)
EXTENDS Login

CONSTANTS
    Admins,     \* brick-server commands that may run at once
    Labels,
    Issues,     \* what create-token may be asked for: [scopes, write, ttl, actor]
    Orgs,
    Repos,
    Actors,
    JwtModes,   \* whether a server may verify Supabase tokens
    MaxSecrets, \* bound: tokens made
    MaxStarts,  \* bound: server starts
    MaxOps      \* bound: requests, member edits and crashes of commands

\* TokenScope, as a tuple that begins with its kind.
Scope == {<<"all">>} \cup {<<"repo", r>> : r \in Repos} \cup {<<"org", o>> : o \in Orgs}

ASSUME AccessAssumption ==
    /\ Issues \subseteq [scopes : SUBSET Scope, write : BOOLEAN,
                        ttl : Nat \cup {None}, actor : Actors \cup {None}]
    /\ None \notin Orgs
    /\ JwtModes \subseteq BOOLEAN
    /\ MaxSecrets \in Nat /\ MaxStarts \in Nat /\ MaxOps \in Nat

VARIABLES
    tokens,     \* tokens.json
    secrets,    \* secrets made so far
    apc, snap,  \* each command: where it is, the table it will save, and the
                \* secrets that this makes and takes away
    server,     \* the running server: its table, or None
    starts,
    members,    \* org_members.json: pairs <<org, user>>
    staged,     \* org_members.json.tmp, or None
    edit,       \* each command: its copy of the members, changed, and the
                \* step of the save it is at
    cache,      \* the server's copy, or None before its first use
    bound,      \* the org each repo is bound to, or None
    audit,      \* audit.jsonl
    accepted,   \* pushes stored: [by, actor, repo, org]
    ops,
    origin,     \* what each secret was issued for, and its label (history)
    granted,    \* secrets a finished create or rotate has shown (history)
    retired,    \* secrets a finished revoke or rotate took away (history)
    dead,       \* those retired before this server started (history)
    seen,       \* memberships in the file since this server started (history)
    torn        \* a command died with tokens.json emptied (history)

tableVars == <<tokens, secrets, apc, snap, origin, granted, retired, torn>>
serverVars == <<server, starts, cache, dead>>
fileVars == <<members, staged, edit>>
dataVars == <<bound, audit, accepted>>
vars == <<now, faults, loginVars, tableVars, serverVars, fileVars, seen, dataVars, ops>>

Secrets(table) == {t.secret : t \in table}

\* What a table has of a label: one token or none.
Labelled(table, l) == {t \in table : t.label = l}

NoSave == [table |-> {}, made |-> {}, gone |-> {}]
NoEdit == [at |-> "idle", map |-> {}]

Init ==
    /\ now = 0 /\ faults = 0 /\ ops = 0
    /\ LoginInit
    /\ tokens = {} /\ secrets = 0
    /\ apc = [a \in Admins |-> "idle"] /\ snap = [a \in Admins |-> NoSave]
    /\ server = None /\ starts = 0
    /\ members = {} /\ staged = None /\ edit = [a \in Admins |-> NoEdit]
    /\ cache = None /\ seen = {}
    /\ bound = [r \in Repos |-> None]
    /\ audit = {} /\ accepted = {}
    /\ origin = <<>> /\ granted = {} /\ retired = {} /\ dead = {} /\ torn = FALSE

-----------------------------------------------------------------------------
(* The token commands: load, change, save. *)

\* A command has loaded the table, made `table` of it and has yet to save it.
Prepare(a, table, made, gone) ==
    /\ apc[a] = "idle"
    /\ apc' = [apc EXCEPT ![a] = "truncate"]
    /\ snap' = [snap EXCEPT ![a] = [table |-> table, made |-> made, gone |-> gone]]
    /\ UNCHANGED <<tokens, granted, retired, torn>>

NewSecret(issued) ==
    /\ secrets < MaxSecrets
    /\ secrets' = secrets + 1
    /\ origin' = Append(origin, issued)

\* What a secret is issued for, for as long as it is only rotated.
Issued(l, issue) ==
    [label |-> l, scopes |-> issue.scopes, write |-> issue.write, actor |-> issue.actor]

\* The record create_token makes.
TokenRecord(l, issue) ==
    [label |-> l, secret |-> secrets + 1, scopes |-> issue.scopes,
     write |-> issue.write, actor |-> issue.actor,
     expires |-> IF issue.ttl = None THEN None ELSE now + issue.ttl]

\* Mutant: the new token is saved into an empty table.
CreateAlone(a, l, issue) ==
    /\ NewSecret(Issued(l, issue))
    /\ Prepare(a, {TokenRecord(l, issue)}, {secrets + 1}, {})

\* create_token.
CreateToken(a, l, issue) ==
    /\ Labelled(tokens, l) = {}
    /\ NewSecret(Issued(l, issue))
    /\ Prepare(a, tokens \cup {TokenRecord(l, issue)}, {secrets + 1}, {})

\* Mutant: the token is made anew, without its actor.
RotatedUnbound(t, days) ==
    [t EXCEPT !.secret = secrets + 1, !.actor = None,
              !.expires = IF days = None THEN t.expires ELSE None]

\* The token a rotation with `days` puts in t's place: None keeps its expiry,
\* 0 clears it.
Rotated(t, days) ==
    [t EXCEPT !.secret = secrets + 1,
              !.expires = CASE days = None -> t.expires
                            [] days = 0 -> None
                            [] OTHER -> now + days]

\* rotate_token: the token of that label gets a new secret.
RotateToken(a, l, days) ==
    \E t \in Labelled(tokens, l) :
        /\ NewSecret(origin[t.secret])
        /\ Prepare(a, (tokens \ {t}) \cup {Rotated(t, days)}, {secrets + 1}, {t.secret})

\* Mutant: retain keeps what it should drop.
RevokeOthers(a, l) ==
    /\ Labelled(tokens, l) # {}
    /\ Prepare(a, Labelled(tokens, l), {}, Secrets(Labelled(tokens, l)))
    /\ UNCHANGED <<secrets, origin>>

\* revoke_token.
RevokeToken(a, l) ==
    /\ Labelled(tokens, l) # {}
    /\ Prepare(a, tokens \ Labelled(tokens, l), {}, Secrets(Labelled(tokens, l)))
    /\ UNCHANGED <<secrets, origin>>

\* TokenStore::save empties the file ...
TruncateTable(a) ==
    /\ apc[a] = "truncate"
    /\ apc' = [apc EXCEPT ![a] = "write"]
    /\ tokens' = {}
    /\ UNCHANGED <<secrets, snap, origin, granted, retired, torn>>

\* ... and fills it.
WriteTable(a) ==
    /\ apc[a] = "write"
    /\ apc' = [apc EXCEPT ![a] = "idle"]
    /\ tokens' = snap[a].table
    /\ granted' = granted \cup snap[a].made
    /\ retired' = retired \cup snap[a].gone
    /\ snap' = [snap EXCEPT ![a] = NoSave]
    /\ UNCHANGED <<secrets, origin, torn>>

\* The command dies before it has saved.
AdminCrash(a) ==
    /\ apc[a] # "idle"
    /\ apc' = [apc EXCEPT ![a] = "idle"]
    /\ snap' = [snap EXCEPT ![a] = NoSave]
    /\ torn' = (torn \/ apc[a] = "write")
    /\ UNCHANGED <<tokens, secrets, origin, granted, retired>>

TableNext ==
    \E a \in Admins :
        \/ \E l \in Labels :
              \/ \E issue \in Issues : CreateToken(a, l, issue)
              \/ \E days \in {None, 0, 1} : RotateToken(a, l, days)
              \/ RevokeToken(a, l)
        \/ TruncateTable(a) \/ WriteTable(a)

\* add_org_member and remove_org_member, run as commands of their own: the
\* file is read and the copy changed; a change that is none is not saved.
LoadMembers(a, o, u, add) ==
    LET pair == {<<o, u>>} IN
    /\ edit[a].at = "idle"
    /\ add # (<<o, u>> \in members)
    /\ edit' = [edit EXCEPT ![a] =
                  [at |-> "stage", map |-> IF add THEN members \cup pair ELSE members \ pair]]
    /\ UNCHANGED <<members, staged>>

\* write_org_members_file: the copy goes to one temporary name ...
StageMembers(a) ==
    /\ edit[a].at = "stage"
    /\ staged' = edit[a].map
    /\ edit' = [edit EXCEPT ![a].at = "rename"]
    /\ UNCHANGED members

\* ... and what is there is renamed over the file; nothing there is an error.
RenameMembers(a) ==
    /\ edit[a].at = "rename"
    /\ edit' = [edit EXCEPT ![a] = NoEdit]
    /\ members' = IF staged = None THEN members ELSE staged
    /\ staged' = None

MemberCrash(a) ==
    /\ edit[a].at # "idle"
    /\ edit' = [edit EXCEPT ![a] = NoEdit]
    /\ UNCHANGED <<members, staged>>

MemberNext ==
    /\ \E a \in Admins : StageMembers(a) \/ RenameMembers(a)
    /\ seen' = seen \cup members'

-----------------------------------------------------------------------------
(* The server. *)

LegacyToken ==
    [label |-> "legacy-auth-token", secret |-> 0, scopes |-> {<<"all">>},
     write |-> TRUE, actor |-> None, expires |-> None]

\* serve: the table is read once; resolve_serve_auth adds --auth-token.
Start(legacy, jwt) ==
    /\ server = None /\ starts < MaxStarts
    /\ server' = [table |-> IF legacy THEN tokens \cup {LegacyToken} ELSE tokens,
                  jwt |-> jwt]
    /\ starts' = starts + 1
    /\ cache' = None
    /\ dead' = retired
    /\ seen' = members

Stop ==
    /\ server # None
    /\ server' = None
    /\ UNCHANGED <<starts, cache, dead, seen>>

\* resolve_serve_auth: neither tokens nor Supabase, no gate.
Open == server.table = {} /\ ~server.jwt

\* scope_matches, for the repo of a route, or None for a route without one.
\* (The org is resolved only when some token has an org scope, which is when
\* it is asked for.)
ScopeMatches(scope, repo) ==
    \/ scope = <<"all">>
    \/ repo # None /\ scope \in {<<"repo", repo>>, <<"org", bound[repo]>>}

TokenIdentity(t) == [label |-> t.label, secret |-> t.secret, actor |-> t.actor, user |-> None]
UserIdentity(u) == [label |-> u, secret |-> None, actor |-> None, user |-> u]
Anyone == [label |-> None, secret |-> None, actor |-> None, user |-> None]

\* A token of the table that has neither expired nor too little scope.
Unexpired(t) == t.expires = None \/ now < t.expires
InScope(t, repo) == \E s \in t.scopes : ScopeMatches(s, repo)

\* Mutant: a read-only token may write.
PermitsAll(t, write) == TRUE

\* Access::permits.
Permits(t, write) == write => t.write

(***************************************************************************)
(* AuthConfig::authorize: the identity a bearer is admitted as, as a set   *)
(* of at most one.  A token of the table that has expired or lacks the     *)
(* scope is refused; what is not in the table may be a Supabase token,     *)
(* which opens the repo routes only.                                       *)
(***************************************************************************)
Authorized(bearer, repo, write) ==
    LET known == {t \in server.table : t.secret = bearer.secret} IN
    IF Open THEN {Anyone}
    ELSE IF known # {}
    THEN {TokenIdentity(t) : t \in
            {t \in known : Unexpired(t) /\ Permits(t, write) /\ InScope(t, repo)}}
    ELSE {UserIdentity(u) : u \in
            {u \in {bearer.user} \ {None} : server.jwt /\ repo # None /\ now < bearer.expires}}

\* ensure_org_members_loaded, on the first membership question.
Members == IF cache = None THEN members ELSE cache

\* Mutant: the members of a bound repo are not asked for.
BoundToAny(id, repo, event) ==
    IF id.user = None THEN {bound[repo]}
    ELSE {IF bound[repo] # None THEN bound[repo] ELSE event.org} \ {None}

(***************************************************************************)
(* enforce_repo_member: the org the repo is bound to once the request has  *)
(* passed, as a set of at most one; a Supabase user who pushes to a repo   *)
(* that is not bound claims it for an org of theirs named by the event.    *)
(***************************************************************************)
BoundTo(id, repo, event) ==
    IF id.user = None THEN {bound[repo]}
    ELSE {o \in {IF bound[repo] # None THEN bound[repo] ELSE event.org} \ {None} :
             <<o, id.user>> \in Members}

\* Asking about members loads the cache.
AskMembers(id) == cache' = IF id.user = None THEN cache ELSE Members

\* require_bearer_token records an admitted write before its handler runs; an
\* entry AuditLog::record cannot write is dropped and the request goes on.
Audited(id, repo) ==
    IF Open THEN {audit}
    ELSE {audit, audit \cup {[label |-> id.label, actor |-> id.actor, repo |-> repo]}}

\* enforce_actor_binding.
ActorAllowed(id, event) == id.actor \in {None, event.actor}

Entry(id, repo, event, org) ==
    [by |-> id, actor |-> event.actor, repo |-> repo, org |-> org]

\* push_repo_events, admitted by the gate.
PushRepo(bearer, repo, event) ==
    \E id \in Authorized(bearer, repo, TRUE) :
        LET orgs == BoundTo(id, repo, event) IN
        /\ AskMembers(id)
        /\ audit' \in Audited(id, repo)
        /\ IF orgs = {} THEN UNCHANGED <<bound, accepted>>
           ELSE \E o \in orgs :
                  LET first == IF o = None THEN event.org ELSE o
                      stored == ActorAllowed(id, event)
                  IN
                  /\ bound' = [bound EXCEPT ![repo] = IF stored THEN first ELSE o]
                  /\ accepted' = IF stored THEN accepted \cup {Entry(id, repo, event, first)}
                                 ELSE accepted

\* push_events: the event names its repo; no membership is asked for.
PushAny(bearer, repo, event) ==
    \E id \in Authorized(bearer, None, TRUE) :
        /\ audit' \in Audited(id, None)
        /\ IF ActorAllowed(id, event)
           THEN /\ bound' = [bound EXCEPT ![repo] = IF @ = None THEN event.org ELSE @]
                /\ accepted' = accepted \cup {Entry(id, repo, event, bound'[repo])}
           ELSE UNCHANGED <<bound, accepted>>
        /\ UNCHANGED cache

\* list_repo_events: the members' list is loaded; nothing else changes.
ListRepo(bearer, repo) ==
    /\ \E id \in Authorized(bearer, repo, FALSE) : AskMembers(id) /\ cache' # cache
    /\ UNCHANGED dataVars

(***************************************************************************)
(* The /v1/local-history routes: no repo, so a token of scope all.  They   *)
(* start a `brick` command and change nothing here but the audit log, for  *)
(* the two that POST (a refresh, a scan that writes the defaults).         *)
(***************************************************************************)
LocalHistory(bearer) ==
    /\ \E id \in Authorized(bearer, None, TRUE) : audit' \in Audited(id, None)
    /\ UNCHANGED <<cache, bound, accepted>>

\* What may be presented: a secret ever made, or the access token a client
\* has in hand.
Bearers ==
    {[secret |-> s, user |-> None, expires |-> 0] : s \in 0 .. secrets}
        \cup {[secret |-> None, user |-> hold[c].user, expires |-> hold[c].expires] :
                c \in {c \in Clients : cpc[c] = "ready"}}

Events == [actor : Actors, org : Orgs \cup {None}]

Request ==
    /\ server # None
    /\ \E b \in Bearers :
          \/ \E r \in Repos, e \in Events : PushRepo(b, r, e) \/ PushAny(b, r, e)
          \/ \E r \in Repos : ListRepo(b, r)
          \/ LocalHistory(b)
    /\ UNCHANGED <<server, starts, dead>>

Tick ==
    /\ now < MaxTime
    /\ now' = now + 1

Next ==
    \/ LoginNext /\ UNCHANGED <<now, tableVars, serverVars, fileVars, seen, dataVars, ops>>
    \/ TableNext /\ UNCHANGED <<now, faults, loginVars, serverVars, fileVars, seen, dataVars, ops>>
    \/ MemberNext /\ UNCHANGED <<now, faults, loginVars, tableVars, serverVars, dataVars, ops>>
    \/ /\ ops < MaxOps /\ ops' = ops + 1
       /\ Request
       /\ UNCHANGED <<now, faults, loginVars, tableVars, fileVars, seen>>
    \/ /\ (\E legacy \in BOOLEAN, jwt \in JwtModes : Start(legacy, jwt)) \/ Stop
       /\ UNCHANGED <<now, faults, loginVars, tableVars, fileVars, dataVars, ops>>
    \/ /\ ops < MaxOps /\ ops' = ops + 1
       /\ \/ (\E a \in Admins : AdminCrash(a)) /\ UNCHANGED fileVars
          \/ /\ \E a \in Admins :
                   \/ \E o \in Orgs, u \in Users, add \in BOOLEAN : LoadMembers(a, o, u, add)
                   \/ MemberCrash(a)
             /\ UNCHANGED tableVars
       /\ UNCHANGED <<now, faults, loginVars, serverVars, seen, dataVars>>
    \/ Tick /\ UNCHANGED <<faults, loginVars, tableVars, serverVars, fileVars, seen, dataVars, ops>>

Spec == Init /\ [][Next]_vars

-----------------------------------------------------------------------------
(***************************************************************************)
(* A secret whose revocation or rotation has been reported is in no table  *)
(* from then on, and a server started afterwards does not know it, as long *)
(* as commands run one at a time.                                          *)
(***************************************************************************)
RevokedStaysOut ==
    /\ Secrets(tokens) \cap retired = {}
    /\ server # None => Secrets(server.table) \cap dead = {}

(***************************************************************************)
(* A command never takes away a token other than the one it names: every   *)
(* secret shown and not retired is in the file whenever no save is under   *)
(* way, unless a command died between emptying the file and filling it.    *)
(***************************************************************************)
IssuedSurvive ==
    \/ torn
    \/ \E a \in Admins : apc[a] = "write"
    \/ granted \ retired \subseteq Secrets(tokens)

(***************************************************************************)
(* Every push stored under a token is within what that token was issued    *)
(* for, rotations included: write access, the bound actor, and a scope     *)
(* that names everything, the repo, or the org the repo is bound to.       *)
(***************************************************************************)
AcceptedWithinIssue ==
    \A p \in accepted : p.by.secret \notin {None, 0} =>
        LET issue == origin[p.by.secret] IN
        /\ issue.write
        /\ issue.actor \in {None, p.actor}
        /\ {<<"all">>, <<"repo", p.repo>>, <<"org", p.org>>} \cap issue.scopes # {}

(***************************************************************************)
(* The audit log, which may lack entries, names nobody a write was not     *)
(* issued to: of the label and the actor of an entry a token has been      *)
(* created, for writing, with a scope that names everything, the repo of   *)
(* the route, or the org that repo is bound to; however it was rotated, or *)
(* revoked and its label given again, since.                               *)
(***************************************************************************)
AuditWithinIssue ==
    \A e \in audit : e.label \in Labels \ (Users \cup {LegacyToken.label}) =>
        \E s \in 1 .. secrets :
            /\ origin[s].label = e.label /\ origin[s].actor = e.actor
            /\ origin[s].write
            /\ \/ <<"all">> \in origin[s].scopes
               \/ /\ e.repo # None
                  /\ {<<"repo", e.repo>>, <<"org", bound[e.repo]>>} \cap origin[s].scopes # {}

(***************************************************************************)
(* A push of a Supabase user is stored only in a repo bound to an org      *)
(* whose membership file has named the user since this server started, and *)
(* a binding, once made, stays: a user removed while the server runs may   *)
(* go on until it restarts, and no longer.                                 *)
(***************************************************************************)
RemovedMemberStaysOut ==
    [][/\ \A p \in accepted' \ accepted : p.by.user # None =>
             <<bound'[p.repo], p.by.user>> \in seen
       /\ \A r \in Repos : bound[r] # None => bound'[r] = bound[r]]_vars

=============================================================================
