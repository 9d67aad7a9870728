# A TLA+ model of Brick (org-trace)

Brick records what coding agents do in a repository. Each developer machine
indexes the agents' native sessions into two SQLite databases and answers
`explain`, `blame` and history queries from them; a self-hosted server keeps an
append-only event log that machines push to and pull from. This directory models
the parts of that system where several processes, handlers or agents meet, checks
them with TLC on small instances, and proves the most important properties with
TLAPS for all instances.

Paths below are relative to the repository root, so `crates/...` is the code.

## 1. Inventory

| Component | State it keeps | Operations | What makes it correct |
|---|---|---|---|
| Server event store (`crates/server/src/store.rs`) | `events.jsonl`; the repo->org projection: in-memory map under an `RwLock`, `repo_org.json`, `repo_org.json.tmp`; the org-members projection (same shape) | `append_events_for_repo`, `resolve_repo_org`, `claim_repo_org`, `ensure_repo_org_loaded`, `record_repo_orgs`, paged reads | an acknowledged event is in the log; the log stays one parseable event per line without repeated ids; the projection follows the log, the first binding wins, and survives restarts |
| Server routes and gate (`crates/server/src/routes.rs`) | none besides the store | push and read routes, `require_bearer_token`, `enforce_repo_member`, `enforce_actor_binding` | a push is appended only after its gate; every request is answered |
| Server tokens, members, audit, JWT (`crates/server/src/auth.rs`, `main.rs`, `args.rs`) | `tokens.json`, the table a running server loaded, the audit log | issue, rotate, revoke, list, authorize | a revoked or rotated secret opens no server started later; a push stays within what its token was issued for; the audit log may lack an entry but attributes none wrongly; a command loses no other token |
| Source refresh (`crates/cli/src/history.rs`) | `metadata.sqlite`: session rows, chunks, watermarks; `brick.sqlite`: events and their chunks | `refresh_repo_sources`, `refresh_profiles_to_metadata`, `refresh_single_profile` | what the watermark covers is indexed; rows, chunks and events are of one version; every write is eventually indexed |
| Native file walker (`crates/core/src/native_source.rs`) | none; reads the agents' directories | `list_file_source_sessions_with_filter`, `collect_session_files` | lists every session newer than the watermark |
| Metadata database (`crates/core/src/metadata_db.rs`, `plan_metadata.rs`, `sqlite_schema.rs`) | `metadata.sqlite` | upserts, plans, line provenance, queries, schema reset | upserts are idempotent and never lose what another process stored |
| Local event store (`crates/core/src/local_event_store.rs`, `source_session_event.rs`) | `brick.sqlite` | `append_event`, repo-scoped reads, observation ids | an event id is stored once, in one repo, with chunks of the version it names |
| Sync client (`crates/sync/src/lib.rs`, `wire.rs`, `supabase.rs`) | none; works on the two databases and a remote | push, paged pull, ingestion of pulled observations, automatic sync | every event reaches the server once and every other machine once, whatever is retried |
| Login identity (`crates/sync/src/identity.rs`) | `identity.json` | login, refresh, logout | the stored refresh token is one the service still takes, unless an answer or a process was lost |
| Local store and index cache (`crates/core/src/store.rs`, `index*.rs`, `sqlite_index.rs`) | `.brick/` views, cached index | append, rebuild, load-or-rebuild | a loaded index holds what was stored before the load; the views are of the index beside them; a failing rebuild keeps the query cache |
| Explain, blame, session queries (`crates/core/src/explain.rs`, `blame.rs`, ...) | none | anchors, timelines, blame, line history | complete, in order, and never credit a line to a session that did not write it |
| Diff capture, activity (`crates/core/src/diff_capture.rs`, `activity.rs`) | none; runs git several times | `capture_diff` | hunks and patch id may be of different moments, and blame must not be misled |
| Attachments and logs (`crates/core/src/attachment_store.rs`, `log_store.rs`) | content-addressed files | put, get | a stored blob is what was put |
| Native parsers, liveness (`crates/core/src/sources/`) | none | parse, list, format, liveness probe | every tool call becomes one chunk with its own output, also from a half-written file |
| Installers (`crates/cli/src/agent.rs`, `skill.rs`, `mcp_config.rs`, hooks) | managed blocks and entries in agent configuration | install, update, uninstall, status | idempotent, inverse to each other where nothing of the user's stands in brick's place, true in what they report, and leave what is the user's alone |
| MCP server, CLI (`crates/cli/src/mcp.rs`, `main.rs`, `metadata.rs`) | none besides the stores | request dispatch, planning tools | one answer per request; an answer about a line names only sessions that wrote it, and says nothing is known only when nothing is or the database does not answer |
| Protocol, importers, contexts (`crates/protocol`, `crates/importers`, ...) | none | constructors, one-shot conversion | data only |

How they interact. Every `brick` invocation (a CLI command, an agent's hook, an MCP
server) is a process of its own; processes of one machine share the two databases,
`identity.json` and the source profiles, without any lock beyond SQLite's
transactions. Agents write their native sessions whenever they like. A refresh turns
sessions into rows, chunks and events; sync pushes the repo's events to the server
and ingests what other machines pushed. The server runs one axum process whose
handlers share one `Arc<ServerStore>`; the server's CLI edits the token and member
files under the same data directory.

What is hard about it: handlers that read the log and then append to it; two files and a cache
that are meant to agree; errors that are taken for empty answers; crashes between two writes;
database calls that are transactions one by one but not together; a high-water mark that decides
what is never looked at again; agents that write while they are read; retries of a push that may
already have happened; processes of different builds on one database.

The full list of hazards, each at its line and with the properties that address it,
is in `PROJECT.json`.

## 2. Modules

| Module | Models |
|---|---|
| `ServerStore` | push handlers over the server's event store: gate, projection, append, faults |
| `Login` | the login of one machine: `identity.json`, shared by processes, and the account service |
| `Access` | composes `Login` with a server: token commands, the table a server loaded, the bearer gate, members, audit |
| `SourceRefresh` | refreshing processes over the two local databases and the agents' files |
| `Sync` | push and pull by several clients and machines against one remote, a server or Supabase |
| `Replicas` | what sync promises: events recorded, copied to the remote and from it, never lost or invented |
| `TraceIndex` | operators: the fold of events into the index, the SQLite cache and its queries, timelines |
| `LocalIndex` | processes that load and rebuild `index.json`, the views and the query cache |
| `Provenance` | a file that is edited, committed and captured; blame and explain over the events |
| `Transcript` | operators: chunks, touched files and messages read out of Claude Code and Codex transcripts |
| `Metadata` | operators: the writes and queries of `metadata.sqlite` that `explain` rests on |
| `McpServer` | composes `Transcript` and `Metadata`: agents that append, a refresh, and the MCP server's two surfaces |
| `Install` | `brick agent install`, `uninstall` and `status` over files shared with the user |
| `MC...` | the TLC instances of the module they name |
| `...Proofs` | the theorems about the module they name |

`Access` extends `Login`; `LocalIndex`, `Provenance` and `Transcript` extend `TraceIndex`;
`Metadata` extends `Transcript` and `McpServer` extends `Metadata`. `AccessProofs` has the
theorems about `Login` too, `ProvenanceProofs` those about the operators of `TraceIndex`.

Some operators are the plausible mistakes the properties are tested against
(`PROJECT.json`, "mutants"): each stands just before the definition it is an alternative
body for, and under it TLC finds the property violated. No specification uses them.

### ServerStore

State. `log` is `events.jsonl` as the sequence of what was written to it, an event's
text and the newline being two elements, because `writeln!` on an unbuffered `File` is
two writes and every handler opens the file for itself. `file`, `tmp` and `cache` are the
three copies of the repo->org projection, `lock` its write lock where it is held across
file I/O. `acked` is what clients were told in 200 responses. The other variables are the
handlers' locals.

Actions. A handler takes one step per access to shared state:

| Action | Code |
|---|---|
| `Receive` | a request passes `require_bearer_token`; only some credentials need the repo's org |
| `Load`, `Rebuild`, `PutTmp`, `PutRename`, `SetCache` | `ensure_repo_org_loaded`, with the rebuilt map written to the file outside the lock |
| `Gate`, `GateUnresolved` (`Decide`) | `resolve_repo_org` and what the middleware and `enforce_repo_member` decide: go on, claim, or 403 |
| `Merge`, `MergeRename` | `record_repo_orgs` under the write lock, for a claim and after an append |
| `BeginAppend` | `enforce_actor_binding`, `normalize_repo_events`, reading the known ids |
| `SkipDuplicate`, `WriteText`, `WriteNewline`, `FinishAppend` | the loop of `append_events_for_repo`, and what follows it |
| `IOError`, `Crash` | a failing write or rename, and the end of the process followed by a restart |

Abstractions. An event is its id, repo and org. Org membership is a constant: the
running server reads it once. The check of the cache and the read of the file are one
step (the comment at `Load` says why). The middleware resolves the repo's org and
`enforce_repo_member` resolves it again; the model has one resolution, which is the one
that decides (bindings in the cache never change, theorem `FirstBinding`). The read of
the log happens at one moment. `fs::write` of the temporary file is one step; that two
handlers may also interleave inside it (truncate, then write, on the shared name) is
not modelled. A line with two texts, or a text at the end of the file
followed by another handler's text, does not parse; a last line without a newline does,
as for `BufRead::lines`.

### SourceRefresh

State. `clock` and `mtime` are the agents' files; `row`, `chunks` and `watermark` are
the tables `source_sessions`, `source_session_chunks` and `source_index_watermark` of
`metadata.sqlite`; `repoOf` and `content` are `brick_events` and `brick_event_chunks`.
A fingerprint is made of mtime, size and parser version, so a row, a set of chunks and an
event id are each of a *version*: a time and a parser.

Actions. `Write` is an agent. `Begin` is `refresh_repo_sources` with its throttle (which
profiles are due is a choice, but those never refreshed are), `BeginScan` and
`CheckParser` the head of `refresh_profiles_to_metadata`'s loop, `Visit` and `EndWalk`
`collect_session_files` in whatever order the directory yields, `NextSession`,
`UpsertRow`, `UseStored`, `Format`, `PutChunks` and `Emit` the body of
`refresh_single_profile`'s loop with one action per transaction or file read,
`FinishScan` the watermark, `Done` the end, `Fail` an error (which gives up the remaining
profiles) or a kill.

Abstractions. The update time a parser finds inside a session is taken to be its mtime.
`Listable` are the sessions that are shown, which a subagent's are not; only their rows count
for a mismatch of parsers (`ParserMismatch`). `source_scans` rows, source roots, plan rows, repo
links and `last_seen_at` are left out: the refresh writes them but does not read them back. The
sources modelled are those backed by files (`claude_code`, `codex_app`, `gemini`); the ones that
read another program's SQLite database list it in one query. The read of the row and the
insertion of the event are one step in `Emit`; so are the watermark and the end of the scan.
`Overlap` and `WritesDuringScan` are assumptions a run makes explicit: with them FALSE the run
says what the refresh guarantees when nothing meets it, with them TRUE what it does not. What
the chunks contain is `McpServer`'s subject.

### Sync

State. `log` is the remote: the server's lines, or the rows of Supabase's two tables, an
event with the number of its chunk batches that have arrived. Per machine, `local` is
`brick.sqlite` (`Absent`, or how many batches of chunks the event is stored with), `row`
and `transcript` the versions of `source_sessions` and `source_session_chunks`. `pc` and
`job` are each client's place and locals.

Actions. `Record` is a refresh (`SourceRefresh` in one step). `BeginPush` collects a
target repo's events with their chunks; on a server `Receive` reads the known ids and
`Append1` appends one event (`append_events_for_repo`; its finer steps and races are
`ServerStore`'s, and the log is taken to parse); on Supabase `InsertEvent`, `InsertChunks`
and `EndChunks` are the requests of `SupabaseRemote::push_events`. `BeginPull`, `FetchPage`
(`get_all_events_from_remote` and `list_events_page`) or `FetchEvents` and `FetchChunks`
(`get_all_events`) collect; `Dedupe` drops the known ids; `IngestRow` and `IngestChunks`
project into the metadata database and `Store` appends to the event store, one action per
transaction. `Fail` is an error or a kill at any point: a failed push may have been carried
out in part, which is also what a lost answer looks like.

Abstractions. Events are `source.session_observed`, the only ones a pull projects. Time
stands both for the version observed and for `occurred_at`. Logins and the org gate are
left out (`ServerStore` has the gate). Chunk pages of one pull are one step. `AllRepos`
and `GlobalPull` are the two command-line choices: push every repo, and pull without
`--repo-id`.

`Sync` implements `Replicas` (`KeepsPromise`): the ids in `log` are `remote`, those not
`Absent` in `local` are `held`, and everything else is a stuttering step.

### Login and Access

State. `identity` is `identity.json`; `minted` and `live` the account service's refresh tokens;
`cpc` and `hold` each process. `tokens` is `tokens.json`, `apc` and `snap` the token commands,
`server` the table a running server loaded, `members`, `staged` and `cache` the membership file,
its temporary file and the server's copy, `edit` the member commands, `bound` the repo->org
projection, `audit` the audit log, `accepted` the pushes stored. `origin`, `granted`, `retired`,
`dead`, `seen`, `torn` and `lost` are history.

Actions. `SignIn`, `RefreshIfNeeded`, `Reload`, `PostRefresh`, `Truncate`, `WriteOut`,
`Release` and `Logout` are `identity.rs`: the file is written in place, so that there is a
moment at which it is empty, which `load_from` takes for "not logged in". `CreateToken`,
`RotateToken` and `RevokeToken` load and change the table, `TruncateTable` and
`WriteTable` are `TokenStore::save`. `Start` reads the table once. `PushRepo`, `PushAny`,
`ListRepo` and `LocalHistory` are a request through `authorize`, the audit entry,
`enforce_repo_member` and `enforce_actor_binding`; a request is one step, since what it is
decided by does not change while the server runs (the pushes' interleavings are
`ServerStore`'s). The audit entry is written before the handler decides, and dropped when it
cannot be (`Audited`). `LoadMembers`, `StageMembers` and `RenameMembers` are a membership
command, `AdminCrash`, `MemberCrash` and `ClientCrash` kill a process, and the service's
answer may be lost (`PostRefresh`).

Abstractions. A secret is a number, fresh each time; its hash, the JWT signature and the
one-time codes are the ability to present it. `tokens.json` is a set of tokens: the order
of its rows decides nothing the properties speak of. Two token commands at once lose each
other's update (`crates/server/src/auth.rs:163`); the run has one at a time. `fs::write` of
the members' temporary file is one step.

### TraceIndex and LocalIndex

`TraceIndex` holds the fold of `index.rs` with one operator per event type, the tables
`sqlite_index.rs` fills from it, the queries over those tables, and the parts of
`explain.rs` that only see timelines. An index is a record of entries, links and
references; text that an update overwrites is `name` or `body`.

`LocalIndex` is what several processes do with `cache/index.json`, the views directory
and the query cache. `ReadIndex`, `CompareCount`, `ReadRows`, `TruncateIndex`,
`FillIndex`, `ResetViews`, `MakeViews`, `WriteReadme`, `WriteEntries` are
`load_or_rebuild_index` and `rebuild_index`, `SqlReadRows`, `PrepareSchema` and
`SqlTransaction` the rebuild of the query cache (the schema is outside the transaction),
`Crash` the end of a process anywhere. A shorter text over a longer one leaves the
longer one's tail. Which index a text or page holds is the set of events it was built
from; the pages of one directory are written in one step.

### Provenance

`work`, `index` and `head` are the file in the working tree, staged and committed;
`commits` the patches. `Edit`, `DeleteLine`, `Stage` and `Commit` are people and git
(external). `CaptureBegin` and `CaptureEnd` are `capture_diff`, whose git commands for
hunks and for patch ids may see different trees. `Record` appends any other event, in any
order of time. `BlameFile`, `LineRangeHistory`, `ResolveFileAnchor`,
`ResolveFileRangeAnchor`, `ExplainFromEvents` and the rest are the functions that answer.
Renames of the file and a diff longer than its context are left out; the second makes a
patch id the pair of versions it joins.

A diff of several files gives each of them a file reference with the event's one id
(`crates/core/src/index.rs:516`), which is the key of the cache's table: the rebuild of the
query cache fails as long as such a diff is recorded, and the cache keeps what it held.
`InsertFails` says so, `OnlyWideDiffsFail` that nothing else fails it. A reference folded before
any event that makes its artifact's entry leaves its path out of the entry's own paths
(`crates/core/src/index.rs:392`): `Early` names those. `ProvenanceAssumption` and
`IdsAssumption` say what an event of the pool may be: what the payloads and ids of
`crates/protocol/src/payloads.rs` and `ids.rs` require of it, a new id for what is uploaded or
referred to, and, since an id says what it names, none that names two things.

### Transcript, Metadata and McpServer

`Transcript` turns the records of a Claude Code or Codex transcript into chunks
(`FormatChunks`: pending calls are drained from a hash map, hence a set of outcomes), the
files touched (`ItemTouches`, `ShellEditTargets`) and the message of a turn
(`SelectTurnFinalMessage`). `Metadata` is a database as a value: the upserts, which are
transactions, and the three queries. `McpServer` puts them together. `Write` and `Tear`
are agents, the second leaving a half-written line, which fails the listing of its source
and so the refresh; `RefreshBegin` to `RefreshPlans` are one refresh with an action per
transaction, `RefreshCrash` its end anywhere; `Send` is a client, `Receive` the request
loop with everything that is answered at once. An explain has an action per access to the
databases, between which a refresh may write: `ExplainLine`, `ExplainText` and `ExplainFile`
look for sessions, `ExplainRefine` moves the steps' times, `ExplainHeal` stores chunks that
an event lacks, `ExplainEvents` reads the events again, `ExplainEnrich` reads one step's
chunks for its message, and `ExplainFinish` answers. Each may also fail, which the code takes
for finding nothing (`.ok()?`), or skips; only the first reads, in `Receive`, end the request
with an error. The pull an explain may start beforehand is `Sync`'s, and the list of sessions
running now is left out.

What the model shows of the code and no property states: Claude Code's edits are nested
under "payload", so that a line's provenance comes from outputs only; Codex's patches name
no file in their arguments, so that the transcript's own path stands for it; of a Claude
user record with two tool results only the first is used.

`had` is history: the sessions that, when a request is taken, have a stored edit of all the
lines it asks about, as `WroteText` says; it is emptied when a query that looks for them
fails, since nothing is asked of such an answer. `RecordsAssumption` and `RequestsAssumption` say
what agents and clients write; `TextsAssumption` and `AnchorsAssumption` that texts are
sequences of lines, and that only an anchor of lines has text; `SessionsAssumption` that
there are finitely many sessions, numbered, and that `None` is no row, number or strength.

### Install

The files an agent and its user share, by the parts that are the user's and brick's.
`Start` begins a command of one of two builds, `Read` reads one file and works out the new
contents (`MemoryInstall`, `SettingsInstall`, `CodexInstall`, `JsonInstall`, ...),
`Stage`, `Fill` and `Commit` are the temporary file and the rename, `Remove` the skill's;
then the next file of the target (`StepsOf`). Windsurf's `hooks.json` has a list per event:
`pre` is the one brick writes to, `post` stands for the others, which its status and its
uninstall look through and its install does not. `Fail` and `Crash` may come anywhere, `Edit`
is the user at any time. `Exposed` names the places where brick takes what is the user's
for its own; see below.

A file holds, beside brick's, `Words`, commands (`UserCommands`) and servers of the
user's. That they are kept means that those before and those after correspond one to one,
equal and in the same order (`SameInOrder`).

`GivenBack` says when an uninstall has given back what the install found: the same text but
for blank space at its end, the same entries and servers, the same skill; a list or table
that was there and empty counts as one that was not. `Lost` names the two cases in which it
does not: a skill of the user's own, which install leaves alone, never to "clobber a user's
own `brick` skill silently" (`crates/cli/src/skill.rs:241`), and uninstall deletes
(`crates/cli/src/skill.rs:203`); and hooks or servers of another form in `config.toml`,
which install replaces. `InstallAssumption` says that the markers
(a newline, an end marker, nothing, a torn file) are none of the contents.

## 3. Runs

Runs that pass:

| Run | Shows |
|---|---|
| `store` | two concurrent handlers, pushes of an open client and of users of two orgs, one crash or I/O error at any step: `TypeOK`, `AckedDurable`, `BindingsJustified`, `UserAppendsToBoundRepo`, `FirstBindingWins`, and every request is answered (`EveryRequestAnswered`) |
| `store_serial` | one handler, no fault, every kind of push: `NoDuplicateIds`, `ProjectionInStep`. What the code promises holds when requests do not meet |
| `access` | one machine's processes renew a login while token commands, member edits and two server starts go on, with crashes and lost answers: `StoredTokenUsable`, `RevokedStaysOut`, `IssuedSurvive`, `AcceptedWithinIssue`, `AuditWithinIssue`, `RemovedMemberStaysOut` |
| `refresh_covers` | overlapping refreshes with a fault while agents are quiet: `WatermarkCovers` |
| `refresh_live` | refreshes of two builds that do not overlap, agents writing at any time: `ChunksMatchRow`, and every write is eventually in the row, the transcript and the event (`EveryWriteIndexed`) |
| `sync` | two machines, either remote, one fault, pushes of all repos: `TypeOK`, `KeepsPromise`, `PagesAreGapless`, `DedupedAgainstLocal`, `MetadataNotBehind`, and every recorded event reaches every machine that syncs its repo (`EveryEventArrives`) |
| `local` | two processes store, load, rebuild and are killed over one cache directory: `LoadSeesStored`, `ViewsMatchIndex`, `QueryCacheKept` |
| `provenance` | every kind of event in any order, and a file that is edited, committed and captured: the graph, timelines and blame agree with the rows, the SQLite tables too unless their rebuild fails, and the order of the fold moves nothing but the paths stored with artifacts (`GraphSound`, `SqliteAgrees`, `OrderMovesOnlyPaths`, `TimelineSound`, `BlameSound`, `CommitBlameSurvivesDrift`) |
| `memory` | a Claude Code and a Codex session grow, possibly in the middle of a line, while a refresh stores them, may be killed, and an MCP server answers, whose queries may fail: `CallsKeptOnce`, `IndexSound`, `OneAnswer`, `StoredNeverShrinks`, `AnswerHonest` |
| `install` | three commands of two builds and two edits by the user, failures and crashes anywhere: `ReportsTrue`, `InstallIsExact`, `UserContentKept` |

Runs that end in a violation, each a disagreement between the code and what its
comments or documentation say (quoted in `PROJECT.json`, "findings"):

| Run | Property | What happens |
|---|---|---|
| `push_race` | `NoDuplicateIds` | two concurrent pushes of one event both append it |
| `note_future` | `NoteNotAfterLine` | explain moves a line's step to the session's last edit of the file, and then quotes a message that came after the line |

Other behaviours that the modules have and no passing run can exclude, each with the
change to a configuration that shows it:

- `store_serial` with `MaxFaults` = 1: a crash between append and record loses the
  binding, also for a retried push (`ProjectionInStep`). With two handlers, the texts and
  newlines of two pushes interleave and the log no longer parses (`LogIsJsonl`, kept as a
  definition).
- `refresh_live` with `MaxFaults` = 1: a failure between a row and its chunks leaves the old
  transcript for good (`ChunksMatchRow`, `EveryWriteIndexed`). With `Overlap`, the slower
  refresh files its old transcript under the newer row (`ChunksMatchRow`).
- `refresh_covers` with two sessions and `Limit` = 1: the walk stops at the limit in
  directory order, and the watermark jumps over what it did not reach; with
  `WritesDuringScan`, a file written behind the walk ends up under the new watermark.
- `sync` with `GlobalPull` = TRUE: a pull that names no repo takes other repos' events,
  which the machine has, for new (`DedupedAgainstLocal`). With a second client of one repo
  on one machine: two pulls that both dedupe before either stores write older rows over
  newer ones (`MetadataNotBehind`). A pull between Supabase's event insert and chunk insert
  keeps the event without its transcript for good.
- `access` with two `Admins`: a creation and a revocation that overlap bring the revoked
  secret back, two creations lose one (`RevokedStaysOut`, `IssuedSurvive`); member commands
  that overlap lose each other's edits. By design of the code, a rotated or revoked secret
  opens the running server until it restarts, although the command has reported it rotated
  or revoked, and `crates/server/src/auth.rs:202` says "immediately". A push may lack its audit
  entry (`Audited`), so that no property asks for one.
- `provenance`: with a two-file diff in the pool no rebuild of the query cache succeeds, so
  that a property of the cache without that case fails; and the paths stored with an artifact
  are not the same for every order of the fold.
- `local`: the views of an overlap or a crash are excluded by `mixed`; afterwards
  `index.json` may stay unreadable until someone deletes it.
- `install`: the places in `Exposed`. A start marker whose end the user deleted makes the
  next block's text part of the managed region; a command the user put into brick's own
  hook entry goes with it; `hooks` and `mcp_servers` that `config.toml` holds in another
  form (an inline table) are replaced, although `crates/cli/src/mcp_config.rs:3` says that a
  user's existing servers are never clobbered; a skill of that name that the user wrote is
  removed by uninstall and replaced by `--force`. Leaving one out of `Exposed` shows it; so
  does leaving one out of `Lost`.

Bounds, and why they are enough. `ServerStore`: two handlers are what a race needs; the
requests contain an event repeated within and across requests, two orgs competing for one
repo, a claim, an event of another repo and a misattributed push; three ids and two repos
tell them apart. `MaxFaults` = 1 puts one crash or error at every point of every
interleaving. `store` has fewer requests than the module allows because its safety
properties are also proved for all of them. `SourceRefresh`: two sessions and two processes
of different repos (and, where parsers matter, builds) are the smallest instance in which
one session can be overtaken by another; three writes let a session be written before,
during and after a scan; `Limit` is the number of sessions of a source. `Sync`: two
machines, one session of each and two repos give a log in which lines of another repo lie
between those pulled; `PageSize` = 1 makes every page boundary a case; one batch of chunks
separates an event with its transcript from one without; `MaxTime` = 2 lets a session be
observed twice. The proofs cover every size.

`Access`: `MaxSecrets` = 2 and two labels let one token be made and rotated or two be made and
one revoked; `MaxStarts` = 2 puts a restart between. The constraint `Bounded` explores three
kinds of behaviour in depth instead of their product, which do not share state: token commands
and the requests they allow, logins, and members with one signed-in process. `LocalIndex`: three
loads by two processes give a cached, a stale and an overlapping one; the pool has an event that
no query cache can hold. `Provenance`: `MaxMixed` = 0 means that either events of the pool (five
of the twenty-two, in every order of recording) or the file's history (two lines, two commits,
two captures) are explored; `MCPool` has every event type, a reference older than its artifact,
diffs of one file and of two, a rename and two observations of one session. `McpServer`: three
records are an edit, its result and a message; `MaxWork` weighs what happens (a record or a
refresh 1, a request 3, anything else 2) so that a line can be asked for after two refreshes, or
in the middle of the second. `Install`: `claude`, `codex` and `windsurf` between them have every
kind of file; three commands are an install, another build's and an uninstall, two edits one
before and one in between.

Symmetry: `access` (processes, labels) and `install` (builds), whose properties are
invariants and action properties. The runs with liveness properties use none.

Deadlock is checked where the system never stops by itself (`store`, `store_serial`,
`refresh_*`, `sync`: an idle handler can receive, an idle process begin again); in
`access`, `local`, `provenance`, `memory` and `install` agents, users and administrators
may stop.

Fairness. `ServerStore!FairSpec`: a handler that has a request keeps taking steps (weak
fairness per handler; the runtime schedules ready tasks). The lock is held only to add a
binding, and only finitely many can be added, so no handler starves for it. Clients are
not obliged to send anything and faults are not obliged to stop other than by their bound.
`SourceRefresh!FairSpec`: a refresh that has begun keeps taking steps, and each source is
due again and again when a refresh begins (strong fairness of `Begin` per source: every
hook, explain call and MCP request starts a refresh, and the throttle only delays one by
ten seconds). `Sync!FairSpec`: a push or pull under way goes on, and each client keeps
starting both (strong fairness: `explain` pulls before it reads, refreshes and planning
writes push); automatic sync is on, and faults stop at their bound. The other modules
state safety only: nothing in an installer, a token command or an MCP request waits for
another process.

## 4. Proofs

`ServerStoreProofs` proves, for every set of handlers, repos, orgs, users, requests and
any number of faults, from the assumptions named in `ServerStore` (requests are
well-formed; only an open server serves the global route; the markers differ from the
values they stand beside):

- `TypeCorrect`. `TypeOK` alone is not inductive: the gate applies the cache to a route,
  so `ControlOK` records that a handler past the load finds the cache loaded, that only
  requests with a repo in the path get to the gate, and that a handler between its two
  writes has an event in hand.
- `Durability`: `AckedDurable`. A response names what the handler remembers, so
  `DurableInv` adds that the ids a handler has read, skipped or written are in the log,
  and that the event between its two writes is. It rests on `LogStep`: every step leaves
  the log alone or appends to it.
- `FirstBinding`: `FirstBindingWins`, an action property, from the types and `CacheStep`:
  each step leaves the cache alone, unloads it, loads it, or merges into it.
- `Justification`: `BindingsJustified`. `JustifiedInv` adds the maps in flight (`loaded`,
  `binds`): each is justified when it is made, and stays so because the log only grows.
- `UserPushesAreBound`: `UserAppendsToBoundRepo`. `BoundInv` follows a claim from the
  decision, where the handler carries the binding, to the merge, after which the cache
  has it, and uses `FirstBinding`'s lemma that no other handler takes it away.

It also proves, with one handler (`OneHandler`), what concurrent ones do not keep (runs
`push_race`, and `store_serial` with a fault, show why each hypothesis is there):

- `LoggedOnce`: `NoDuplicateIds`, whatever fails. `KnownIds` adds that between reading the
  known ids and the end of the append, the handler has read or accepted every id the log
  holds: the check that a second handler's append makes stale.
- `Projected`: `ProjectionInStep`, without faults. `StepInv` says which copy of the
  projection counts (the cache once loaded, else the file, else the map being written) and
  that it binds every repo an event of the log ties to an org, but for what the handler has
  appended and still owes a record.

`SyncProofs` proves, for every set of machines, clients, repos, sessions and remotes,
every page size and number of chunk batches and faults, from the assumptions named in
`Sync` (each client has a machine and a repo, each session an owner and a repo, sizes are
naturals, a page is not empty, `Absent` is not a number):

- `SyncTypeCorrect`: `TypeOK`. It needs that a client about to handle an item has one, and
  that a page which is not the last is not empty, so that its cursor is defined.
- `Refinement`: `KeepsPromise`, that `Sync` implements `Replicas`. `SyncInv` adds
  `Provenance`: what a client pushes its machine holds, and what it has pulled is at the
  remote. `CopySteps` classifies every step as one that copies or one that changes neither
  the remote nor a machine's events; `NothingLost` follows, and carries `Provenance` over
  the steps of others.
- `GaplessPaging`: `PagesAreGapless`. The invariant adds that the cursor lies in the log,
  so that appending does not disturb what is before it; `PageIsPrefix` shows by cardinality
  that a page is all of the rest up to its last line.
- `HandlesOnlyNew` and `ProjectedFirst`: `DedupedAgainstLocal` and `MetadataNotBehind`, when
  no two clients of a machine sync one repo and pulls name their repo (`OnePerRepo`): the
  known ids are read once and for the client's repo only (`crates/sync/src/lib.rs:375`), so
  that a second pull, or one that names no repo, handles what the machine has. `OrderInv`
  says that the order in which a session was observed is kept everywhere: a line of the log
  comes after those of all earlier observations, a machine that holds one holds all earlier
  ones, and so do a push, a page, what is new in it and what is left to ingest, whose
  handled part the metadata already has.

`AccessProofs` proves, for every set of processes, commands, labels, orgs,
repos and users and any number of starts, requests, crashes and lost answers, from
`LoginAssumption` and `AccessAssumption`:

- `LoginUsable`: `StoredTokenUsable`. `LoginInv` adds that of each family one refresh token
  at most is live (`OneLive`), and that a process with tokens to save is alone in having
  them, in memory or in the file, and the service takes them (`SaverOwns`).
- `PushesWithinIssue`: `AcceptedWithinIssue`. `IssueInv` follows tokens through the tables
  (the file's, a command's, the server's): each has the scopes, the write bit and the actor
  its secret was first issued with, also after rotation.
- `MembersOnly`: `RemovedMemberStaysOut`, an action property, from `MemberInv`: what the
  server believes of the members, the file has said since it started.
- `AuditNamesIssued`: `AuditWithinIssue`. Tokens leave the tables and labels are given anew
  while entries stay, so `AuditInv` asks what a secret was issued for, which is never
  forgotten; `IssueInv` ties the table the gate reads to it, and bindings are never moved.
- `RevokedForGood` and `CommandsExact`: `RevokedStaysOut` and `IssuedSurvive`, when token
  commands run one at a time (`OneAtATime`); two that overlap lose each other's update.
  `OneInv` adds that what a command is about to save fits: labels and secrets are distinct,
  nothing retired is in it, and everything granted is, counting the command's own work.

`SourceRefreshProofs` proves, for every set of processes, builds, sources and sessions, from
the assumptions of `SourceRefresh`. `RefreshInv` has the types, that no file is newer than
the clock, and what a process has at each of its places. On it rest:

- `ChunksInStep`: `ChunksMatchRow`, when refreshes do not overlap and none is cut short
  (`OneRefresh`). `MatchInv` says that every session's chunks are of its row's parser and no
  older than its row, but for the one whose row the refresh has committed and whose chunks
  it has not. A second process, or the next one after a crash, takes the row's fingerprint
  as proof that the chunks are there (section 3).
- `MarkIsIndexed`: `WatermarkCovers`, when agents write only between refreshes and no source
  has more sessions than `Limit` (`SteadySources`), with any overlap, faults and builds.
  `CoverInv` says that a walking process has listed its source's sessions as they are, or
  has them still ahead of it, or their rows are up to date; that no mark is in the future;
  and that rows only move to newer versions (`UpToDateStays`).

`LocalIndexProofs` proves, for every set of processes and events and any number of loads
and crashes (`NoneAssumption`: `None` is none of the files):

- `CountsSuffice`: `LoadSeesStored`. `LoadInv` adds that the rows are finite, that every
  index on disk or in memory is of stored events, and that one being written was built
  from rows read after the load began. Rows only grow, so an index with as many events as
  the rows is the index of the rows (`SameSize`). `OwnStep` reduces a step of a process to
  what it does to its own registers and to the file.
- `ViewsInStep`: `ViewsMatchIndex`. `ViewsInv` says that until rebuilds have overlapped or
  one was cut short (`mixed`), one process at most is writing, `Progress` how far it has
  come with index and views, and that they are of one index while none is.
- `QueryCacheStays`: `QueryCacheKept`, step by step.

`InstallProofs` proves, for every set of targets and builds and any number of commands and
edits, from `InstallAssumption`. `InstallInv` says that every file holds contents of its
kind, and that a command has in hand what its step makes of what it read.

- `UserContent`: `UserContentKept`, an action property. Each edit of a file is a splice or
  drops entries, and the order lemmas (`SplicedWords`, `OnlyKeeps`) give the correspondence
  of what is the user's before and after; `Exposed` has the places where there is none.
- `Exactness`: `InstallIsExact`, from the kinds of the contents alone, file by file: both
  that what is given back is what was there and that in the cases of `Lost` it is not.
- `Reports`: `ReportsTrue`. A step looks at the first block, entry or server of brick's it
  finds, so its report is true of the file only if there is no second one: `ReportInv`
  therefore adds that every file and every content in a command's hands is tidy in that
  sense, which holds because an install writes over what it finds, and that the report
  about to be made is the one of the contents in hand.

`McpServerProofs` proves, for every set of sessions, records and requests. What it assumes of
them: a request is a line of one of three kinds (`RequestsAssumption`); a transcript's
records have items, a call's id is used once, and the items are those the agent's format
has (`RecordsAssumption`: Claude Code's calls are the assistant's and its results the
user's, Codex has one item per record); texts, anchors and sessions are what section 2 says of them.

- `EveryAnswerOnce`: `OneAnswer`. `AnswerInv` adds that the explain under way is of the last
  line its surface has taken, which asks for an answer. `RespondOnce` gives the one line a
  request is answered with, `WritesAsSaid` that a planning request adds to the ledger exactly
  when its answer says so, `RankOfNew` and `AnsweredNext` the place of one more answer.
- `ParsingKeepsCalls`: `CallsKeptOnce`. `LogInv` says, for each transcript as it is, what its
  parser has read: which calls are chunks, with which output, and which wait. It is
  inductive because agents append, and parsing a record more is parsing what was there and
  then the record (`ReadNext`). That, and that items of a record are read in turn, rest on
  `Climb`, induction along a least counterexample. `Formatted` is for the unfinished calls at
  the end, drained in any order: an injective order of a finite set is onto.
- `RefreshNeverShrinks`: `StoredNeverShrinks`, an action property. `DbInv` says that a
  session's stored chunks are no more than its transcript's (`SizeNext`: a record never
  takes a chunk away), and a refresh stores what all of the transcript gives.
- `IndexTrue`: `IndexSound`. `DbInv` also says that every stored chunk with lines is of one
  call of the transcript, with no other output than its result's (`FromCalls`, kept by
  appending), and that the rows of line provenance are those of the chunks stored.
- `HonestAnswers`: `AnswerHonest`, an action property that joins what an answer says to what the
  database held when the request came, several refreshes ago. Three invariants carry it, beside
  `AnswerInv`. `MemoryInv` is `LogInv` and `DbInv`. `RefreshInv` says that a row has all files
  touched in the records it was read from (`RowsInv`), that a refresh at its chunks has
  committed the row they belong to (`ListInv`), and that each event names a session and a
  version, once (`EvInv`). `ExplainInv` says of the explain under way, by its stage, that the
  sessions in `had` still wrote the lines, that a query they must answer is still ahead unless
  it has answered or failed, that steps found by lines are of sessions that have one, and that
  what is told so far is of the first of the steps, in their order. Its induction needs what a
  refresh between two queries may not do: `StepGrows` (transcripts are appended to, rows are
  replaced by newer ones, chunks by those of the whole transcript) gives `WroteTextKept`.
  `HadIsFound` is why the query by text finds whoever wrote all the lines: the row has the file,
  and the edit is a chunk with evidence (`AllLinesShow`). A note is no later than its step
  because the message chosen is not (`TurnMessage`). That sorting neither loses nor repeats is
  `PlacesList`: a strict order of a finite set gives each member a place of its own.

`ProvenanceProofs` proves, for every pool of events, set of paths and those who capture
diffs, and any number of lines, commits, captures and records, from `ProvenanceAssumption`
and `IdsAssumption`. `HistoryInv` is inductive. `RowsInv`: the recorded events are the pool's
or captures, no two with one id. `TreeInv`: a committed line that a later version lacks is in
no version after it, in the index or in the working tree, so one commit adds it. `QuietInv`:
before the file has a line nothing is captured. That is all the properties need of the
states; the rest is about what the functions answer from a set of rows.

- `BlameIsSound`: `BlameSound`. A line's commit is the only one that added it (`CommitOfLine`),
  and the diff it is credited to is the newest with that commit's patch of the file
  (`Attributed`), whatever its hunks were read from; a line's history asks an event for its
  first patch of the file, which gives the same event (`PatchesAgree`). `BlameSurvivesDrift`:
  `CommitBlameSurvivesDrift`, an action property: commits are only added (`CommitsGrow`), and
  only captured diffs have a patch of the file (`PatchIsCaptured`), so that other events
  change no credit (`SameCredit`).
- `GraphIsSound` and `OrderIsKnown`: `GraphSound`, `OrderMovesOnlyPaths`. `Joins` says what an event
  adds to the index, as a set of entries and a set of links, whatever the index has;
  every kind of event adds a set that depends on the event alone (`Applied`), and so the index
  of a log has what its events add, in whatever order (`GraphOfLog`). An index that joined one
  event's links on one side only would have no such set. The paths stored with artifacts
  are the exception: a reference adds one only where its artifact has an entry, which is what
  the events before it in the log decide.
- `TimelineIsSound`: `TimelineSound`. The first event of each kind in a list newest first is
  the newest of its kind (`FirstOfKind`), and the merge with the metadata database's sessions
  adds each it has not seen once, after or among what is there (`Merged`).
- `CacheAgrees`: `SqliteAgrees`, the longest. That a rebuild fails exactly for a diff of several
  files follows from what its keys are made of. Else, `TablesOfLog`: each table of the index has one
  row for every event that makes one. What a query about artifacts or sessions reads from it
  is then what the rows say. For the newest evidence of a path, diffs and references are cut
  to the limit before they are merged and cut again: `IsTop` says that a list has the newest
  of a set of changes, up to a limit, and `MergedTop` that two such lists, merged and cut, are
  the newest of both sets. `PartListed` and `Flattened` follow the change each row stands for
  through filters and nested lists.

The folds are reasoned about without an induction theorem (the library's take the induction
hypothesis as an operator, which the provers cannot instantiate): the least place at which the
claim fails has one before it, where it holds.

Only model-checked: the liveness properties (`EveryRequestAnswered`, `EveryWriteIndexed`,
`EveryEventArrives`), since fairness and ENABLED are beyond the prover. Every other property
of a passing run is proved.

## 5. Plan

Modelled and checked: all modules of section 2; proved: what section 4 lists. What could
come next, where it adds a behaviour: the two writes of the projection's temporary file; two
installs at once, which share it too; the offset paging of Supabase's chunks.

## 6. Not modelled

- Parsers other than Claude Code's and Codex's (`cursor_*`, `gemini`, `opencode`, `orgii`,
  `windsurf`): they extract the same chunks from formats of third parties, sequentially and
  without state.
- Attachments and logs, importers, source discovery and profiles, the liveness probe,
  identity and home resolution: one command reads or writes one file named by its content
  or its user, and nothing else meets it.
- Parts of modelled components: source roots and scan rows (written, never read back),
  schema migrations, the bridge of the server to the local CLI, filters of the index
  routes, org and invite calls that only forward to Supabase, rendering of answers and
  views, the CLI's own commands where they call functions modelled for the MCP server.
- Outside the code: the JWT library, HTTP and TLS, SQLite itself, git, the account service
  (each modelled from how the code uses it, where it is), the lab UI (`apps/lab-ui`), the
  npm wrapper (`npm/`), release scripts.
