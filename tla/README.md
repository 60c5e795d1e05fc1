# PerchTail: specifications, model checking and proofs

PerchTail is a self-hosted log viewer: a FastAPI backend over one SQLite database,
a Svelte frontend, and an optional Go agent that dials in from servers that cannot
be reached. This directory holds TLA+ models of the parts of it whose correctness
depends on the order in which things happen, the TLC configurations that check
them on small instances, and TLAPS proofs of what matters most.

Everything is translated from the source under `src/`; `PROJECT.json` maps each
definition to the lines it stands for. Paths below are relative to
`src/backend/app/` unless they say otherwise.

## 1. The system

One backend process. Request handlers are synchronous functions that run in
FastAPI's thread pool, each with a database session of its own; APScheduler runs
the background jobs in threads, one run of a job at a time (`max_instances` is 1);
WebSocket handlers are coroutines of one event loop. SQLite is in WAL mode: a
single write lock, taken by the first write of a transaction and held until its
end, a busy timeout for those who wait, and SELECTs that see what is committed when
they run. All of the modelled behaviour follows from how these three kinds of
actors interleave over that database, and from the two in-memory stores beside it.

| Component | State | Operations | Hard behaviour | Correct when |
|---|---|---|---|---|
| **Audit chain** (`audit.py`, `audit_hash_chain.py`, `audit_purge.py`) | rows of `AuditLog`, each hashed over its predecessor; the singleton `AuditChainState` (anchor, cutoff, last status) | append in a request's transaction, retention sweep, backfill at boot | interleaved appends, rows whose timestamps and ids disagree, a sweep of several statements, crashes | the chain is one line from the anchor; retention removes an old prefix and nothing else |
| **Audit verification** (`audit_integrity.py`, `api/audit.py`) | the stored status; recording rows with breaks, leaves and parents | scheduled and manual check, record known breaks | a check of several statements beside writers and retention; the recorded rows themselves get purged | an edit is reported, an untouched log verifies, only what the old race broke can be accepted |
| **Agent registry** (`agent_registry.py`, `api/agent_ws.py`, `collectors/agent.py`) and **push agent** (`src/agent/internal/agent/`) | the registered connection of a source, its pending futures and streams; slots and jobs of the agent | connect, replace, disconnect, send a command, resolve, receive chunks, time out, cancel | reconnects while commands are in flight, writes in threads, late and repeated messages, agents of an older version | no command waits on a dead connection; a fetched file is whole or absent |
| **Scratch store** (`scratch.py`, `api/archive.py`) | entries (paths, refcount, last access) in memory; files on disk | open, download, close, idle sweep, size guard | requests that die, sweeps that overtake a fetch, restarts that lose the memory and not the files | nobody's file is deleted under them; nothing leaks for good |
| **Search index** (`search_index.py`, `api/sources.py`) | FTS rows and `SearchIndexState` per file | indexing sweep, purge, edits of a source | the source, its rules or its files change during a sweep that commits file by file; time budgets | a disabled source leaves nothing behind; every changed file gets its turn |
| **Alerts** (`alerts.py`) | per-alert watermarks | evaluation, webhook | webhooks fail; files rotate, and leave a listing and come back | no line is reported twice, or lost, but for reasons that can be named |
| **Login, MFA, sessions** (`api/auth.py`, `login_throttle.py`, `auth/mfa.py`, `auth/sessions.py`, `auth/providers/oidc.py`) | failures per account, TOTP step and backup codes, sessions | login, second factor, change or reset of a password, revocation | parallel attempts, code reuse, revocation against a login under way | a code works once; no session outlives the credential it was made with |
| **RBAC and org tree** (`auth/rbac.py`, `api/users.py`, `api/roles.py`, `api/folders.py`, `api/customers.py`, `api/sources.py`) | users, roles, grants, folders, customers, sources | edits of each, capability resolution | check-then-act between administrators | a super-admin is left; the folder tree has no cycle; grants go with their scope |
| **Rule engine** (`rules.py`, `api/rules.py`) | ordered include and exclude patterns, globs and regexes | visibility of a file or directory, edits, reorder | a pruned directory must hold no visible file | listing and access agree |
| **Keys, data layout, startup** (`crypto.py`, `rotate_credential_key.py`, `data_layout.py`, `main.py`) | salt file, encrypted credentials, files to be moved | boot, schema upgrade, rotation of the key, moves | a crash between two steps, or inside a revision | what was readable stays readable |
| **Log rotation** (`log_rotation.py`) | log files by date | rollover, retention | a full directory | retention keeps to its limit |
| Collectors, monitoring, settings, configuration transfer, labels, frontend, test support | little or none of their own | reads, protocol I/O, long sequential imports | - | - |

How they interact: every mutating handler appends to the audit chain in its own
transaction, so the chain's tip is contended by all of them; the retention sweep
and the verification job share the chain's state row; `collectors/agent.py` blocks a
worker thread on a command that the event loop sends and resolves; the archive
handlers fetch through a collector into a scratch path and give the reference back
in a background task or when the browser closes a tab; the indexing sweep fetches
through the same collectors and hands changed files to the alerts.

The hazards this gives rise to are listed with their lines under `hazards` in
`PROJECT.json`, each with the properties that watch over it. Four have none, because the
code does not handle them; section 3 says how to see what then happens.

## 2. Modules

| Module | What it is |
|---|---|
| `AuditChain` | appends, retention sweep, boot and backfill, crash |
| `AuditIntegrity` | extends `AuditChain` with checks, recording of known breaks, out-of-band edits |
| `Fetching` | abstract: what a connector's `fetch_file` promises |
| `AgentRegistry` | backend and agent sides of one source's commands; implements `Fetching` |
| `ScratchStore` | the store, its requests, jobs and restarts |
| `SearchIndex` | the indexing sweep beside edits of the sources and changing files |
| `LoginThrottle` | the lockout table on its own |
| `SignIn` | extends `LoginThrottle`: logins, MFA, passwords, sessions |
| `Tables` | tables of the database as functions of their ids |
| `Administration` | accounts, roles, SSO mappings and providers, and who may change them |
| `Organisation` | customers, folders, sources, grants and how they resolve |
| `Rules` | the rule engine and the requests that edit the rules of a source |
| `Alerts` | evaluation of alerts beside their requests, files that change, and faults |
| `Startup` | data layout, schema, salt, seeds and key rotation, with a crash at every step |
| `*_proofs` | TLAPS proofs about the module or modules of that name (section 4) |
| `MC*` | instances for TLC: initial databases, small sets, symmetry, views |

### AuditChain

`log` and `chainStates` are the committed tables, `tx` the transactions of the
request threads, `purge` the local variables of the one sweep that may run.

- A request is `FlushEarlier` (the handler's own flush, which takes the lock
  early; not every handler has one), `BuildEntry` (the timestamp is taken here),
  `TakeWriteLock` (the no-op UPDATE), `ChainNewEntry` (read the tip, hash), then
  `Commit` or `Rollback`. It may build several entries in one transaction.
- `run_audit_purge_sweep` is `PurgeScan`, `PurgePickAnchor` and `PurgeDelete`: its two
  SELECTs run outside a write transaction, so rows may be committed in between;
  `PurgeDelete` writes the anchor and deletes under the lock, with the boundary the
  first SELECT found. `PurgeFail` is the busy timeout.
- `Boot` is the backfill that `lifespan` commits before anything else can write;
  `Crash` drops every open transaction.

A row hash is an HMAC. It is modelled by the serial number of its computation:
different computations give different hashes and nobody without the key can make
one. `valid` says that a row's content still fits its hash. Ids are what SQLite
gives a table without AUTOINCREMENT: one more than the largest present. Time is
counted in days, the only unit the retention uses.

### AuditIntegrity

A check is `CheckLoad` (the state row), `CheckList` (the recorded breaks),
`CheckWalk` (the rows), `CheckCommit`, each of its SELECTs a step of its own, with
`CheckReload` when it found no state row. `Walk` is `_walk` with the classification
of `verify_chain`, stated over positions of the log instead of a loop. Recording is
the same up to the walk; `CheckLeaves` then reads the leaves, and `RecordCommit` chains its
audit entry and verifies again under the lock it took. Both use the state row loaded at the
start, for the session keeps the object and reads no newer one: `TipRecorded` is the newest
row of that moment, but on a log that a sweep has emptied meanwhile it is the old anchor.
The history variables `emptied` of a check and of a note record that; an entry made so is
`Astray`. As the ORM does, a commit writes only columns whose value changed since they were
loaded (`StatusWritten`).

`EditRow`, `DeleteRow` and `RenumberRow` change the database from outside: a column that the
hash covers, a row, or the id, which the hash does not cover. `EditOf` keeps what was done,
and whether the log was `settled` then: no row had been deleted yet, and every break was
recorded. `DeletedRowsAreReported` speaks of the deletion from such a log with its ids as
they were, and no later one is promised: with three edits TLC finds a log in which deletions
hide one another (a double fork, and a sweep that overtakes the first recording). A
renumbered row stays where it is in the order of ids; an id that moves it among the others,
and a renumbering while a sweep holds the id of its anchor, are left out.

`Verdict` is what a check would find if nothing moved while it ran; the properties
speak of that, and `NoFalseAlarm` of what checks in fact store.

### AgentRegistry

One source. Each connection has a socket (`net`), a backend handler (`handler`), and
the agent's jobs on it (`job`); each request has a command (`cmd`: where
`_send_command` stands, its future, the next chunk expected) and, for a fetch, a
destination file (`dest`). A handler that is writing a chunk in a thread is `writing`:
its receive loop does not read on, but everything else goes on, so the command can
time out and its sink close under the write. `AgentFault` sends any message at all,
`MaxFaults` times. An agent from before 0.5.3 answers a fetch in one message that holds the
whole content. What `fetch_file` makes of that answer may raise outside the `try` that
removes the file: `Return` then ends in "refused" and leaves one of `RefusedFiles`.

Left out: the chunk's payload (a chunk is its sequence number), the deadline that
the worker thread of a list has 5 s after the loop's own, other sources (registry
entries of different sources share nothing but the dictionary), authentication of
the connection.

`Fetching` is what `fetch_file` promises whoever calls it: the destination is filled in
order; then the call returns and the file stays as it is, or it raises and there is
none, or it refuses an old agent's answer and part of a file may stay (`Refuse`).
`AgentRegistry` implements it (`KeepsPromise`): a call is running from the send until the
worker thread takes the outcome, and its file is `dest`.

### ScratchStore

`entries` is `_entries`, `files` the directory, `req` each request with, for an open,
the browser tab that keeps its reference. A request stands for the path it fetches
into, since `acquire` makes a new path for each. `Vanish` is a browser that never
sends `/close`, or a response that breaks before its background task. `GrowIdle` is
the passing of `SCRATCH_IDLE_SECONDS` since the last `acquire` (nothing calls
`touch`). `Restart` forgets the entries and keeps the files and the tabs. The history
variables `swept`, `robbed` and `stale` record whose entry was taken by a sweep, by
another request's release, and which entries have a count that such a request has
already falsified; no action's guard reads them.

The order in which the size guard evicts (oldest first) is left open: a superset of
what the code does. `TotalBytes` counts files of one unit each.

### SearchIndex

A file stands for its source and path; `disk` is what it holds, at the location its
source has now, `rows` the content its rows in `search_index_fts` were made from, and
`states` the `SearchIndexState` rows in the order of `indexed_at`. A content is known
by its size alone, as nothing else is reported to the code either. `sweep` holds the
local variables of the one sweep that may run. `Kept` is `states` without the rows that a
DELETE took, in their order.

`SweepStart` is `purge_inactive_source_indexes` and the query for the sources due. Then
for each source `IndexLoad` (the states known, and the rules), `IndexList` (the slow
listing, and from it the order of reading: `PendingOrders`), and for each file
`IndexRead` and `IndexWrite`: everything a file's turn reads comes before anything it
writes, and `_still_indexed` just before the read, so an administrator's transaction
fits between a read and its write. `IndexStops` is the early return, `IndexFinish` the
end of the loop (all read, or the deadline, which may strike after any file but not
before the first) with the removal of what is gone. `IndexFails` is an exception at any
point, a dead connection or a write lock that is not to be had. `SwitchOff`,
`SwitchOn` and `Relocate` are `update_source` and `delete_source`, each one transaction
with `delete_source_index`.

Ids of state rows are modelled as SQLite gives them without AUTOINCREMENT, one more
than the largest present, since the sweep keeps ids across commits. The history
variable `mixedUp` records the sources of which a sweep took the state row of one file
for another's; no action's guard reads it.

### LoginThrottle and SignIn

`LoginThrottle` is `_state` of `login_throttle.py` with the clock. `CheckAttempt`,
`RecordFailure` and `RecordSuccess` are its three calls; the first changes it too, since it
drops idle entries to make room. Its names are all the names anybody may try.

`SignIn` is one account over that table. A request keeps the row it loaded (`req[r].row`,
the ORM's copy) while it hashes a password, and its commit writes back only the columns
it changed: between the two, everything else may happen. A login is `LoginStart`,
`LoginFails`, `LoginNeedsCode` or `LoginVerified`, `LoginCommit`, and `OpenSession`, which
is a commit of its own. The owner's requests start with `OwnerStart` and end in
`OwnerFails`, `OwnerRefused` or their writes: `Change*` the password, `Enroll`, `Confirm`,
`Disable` and `Regenerate*` the second factor. `Reset*` and `SetActive` are the
administrator's, `SessionEnds` a logout, an expiry or a revocation. Passwords, secrets and
codes are numbered as they are chosen. Any requests may overlap, the owner's own in two tabs
among them. `late` and `overtaken` are history: a login that overlapped a change of the
password, and whether the request that last changed the second factor had loaded it before
another one did.

The steps of `SignIn` contain those calls beside what else the handler does. That each of
them is a step of `LoginThrottle` on the table, and so what is proved of the one holds of
the other, is a lemma of the proofs and says nothing of the handlers. Left out: rehashing of
old hashes, `last_seen` and `last_login`, cookies, the password policy; an expired session
counts as gone.

### Administration and Organisation

Handlers here check what is committed and then write, with nothing that repeats the check at
the commit. Each request is an action for its checks (`CreateFolder`) and an operator for
its writes (`FolderCreated`); it is served at once, or it passes its checks and becomes
`waiting` while others are served, until `CommitLate` makes its writes over whatever there
is by then or `GiveUp` drops it. One waiting request shows every race of two. `served` is
history: what was served last, by whom, and whether it had been overtaken (`late`).

`Administration` has accounts with their role, roles with global capabilities, group
mappings and providers. `rbac.py` decides who may: a super-admin anything, a delegate
only over accounts and roles whose capabilities it has itself. A sign-in by SSO provisions
an account or maps its role anew. Left out: the grants that `duplicate_role` copies, the
audit events, and what a provider's settings are.

`Organisation` has customers, folders with a parent, sources in either, and one role's
grants on any of the three. `Resolve` and `ShownFolders` are the capability resolution and
the tree that `rbac.py` lets a user see. Deleting a scope deletes the grants found then.
Ids are AUTOINCREMENT (`nextId`), which is what keeps a leftover grant from meeting a new
scope.

### Rules

A path is a sequence of names and a glob the sequence of its segments: the set of names that
literals, `*` and `?` match there, `Deep` for `**`, or `Spanning` for one that crosses `/`.
A glob with a `Spanning` segment is known by the paths it matches (`Spanned`), a regex by
those it finds. The three walks along a glob and a path are functions of the two positions.
`IsVisible` is the last matching rule, `IsDirVisible` the judgement over a directory that
nobody lists (it may say yes to a directory with nothing to show, never the reverse).
`CreateRule`, `UpdateRule`, `DeleteRule`, `ReorderRules` and `ReplaceRulesRaw` are the
requests, overtaken as in `Organisation`. A reorder compares the ids as sets, so its list
may name a rule twice; the last place counts (`Place`), and orders then have gaps. Left out:
case-insensitive sources, paths that `is_safe_relative_path` rejects, the system source,
severity patterns.

### Alerts

Two actors: `evaluate_alerts` in the thread of the sweep (`sweep` holds its local
variables) and requests, which are served at any time but above all while a webhook is
under way. `marks` are the watermarks of an alert in a file; files grow, are
rotated, end in an unfinished line, and leave the listing and come back (`SetListed`: moved
away, or hidden by a rule), in which case a sweep drops their rows and their marks (`Gone`).
A source is on, paused (disabled, but still opted in), off or deleted; the owner is a
super-admin or sees some files (`ScopeOf`). A failing commit or a crash may follow any
webhook, and a query may fail before it. Every line matches. `told`, `passed` and `again`
are history: for each alert the lines that its webhook was given, those it was not given for
one of seven reasons, and those it may be given twice.

The seven are in the code, so a property that nothing is lost would be false: a webhook that
failed is not retried; it is given the first 10 hits of all files (`MaxSent`) and only the
number of the others; a file yields no more than its own cap (`MaxHits`); a line was indexed
before it was finished; a rotated file has grown past the old watermark; a line was out of
scope when the alert was checked; a watermark was left by another alert of the same id.
`EveryMatchAccounted` says there is no eighth. A line is reported again (`NoRepeats`) after a
check that failed behind its webhook, after its source was switched off or moved, and
after its file was gone from a listing. Left out: edits of the query, blank lines, what a
snippet looks like. Of `EvalFails`: the except clause reads `alert.id` before it rolls back
(`alerts.py:223`), which raises again after a failed flush, so the loop ends for all alerts;
a failure before any write (`EvalSkips`) costs only its own alert.

### Startup

A start is a sequence of `StartStep`s: the moves of `data_layout.py` one by one (a copy and
a removal where the filesystems differ), the migrations, `init_db`, the guard of the salt,
loading or creating it, the backfill and the seeds, each commit a step. A revision of
Alembic is two: `Revise`, its DDL, of which SQLite commits each statement by itself, and
`Record`, its version. Between them the database is `torn`; a start that finds it so runs
the revision over tables that exist and fails (`ReviseFails`), and with it the entrypoint
(`set -e`). `InitDb` makes the tables that are missing without telling Alembic, so a start
by hand that skips the migrations leaves a new database `unversioned` or an old one torn.
`Crash` ends the process anywhere; `PowerLoss` also takes a salt that is not on the disk
yet, for it is not synced while commits are. Operators start Alembic or uvicorn by hand
(`StartByHand`), lose, restore or allow a salt and run the rotation script (`Rotate`). What
is encrypted counts only by the keys used: `creds`, `mfa` and `audit` of the database. Left
out: paths set explicitly, file permissions, two workers at once, the seed of severity
patterns.

## 3. Runs

Each `.cfg` names its bounds.

| Run | Instance | States | What it shows |
|---|---|---|---|
| `audit_chain` | 2 writers, 4 hashes, 3 days, retention 0 or 1 day, a new database or one with 2 rows from before the chain | 0.3 million | `ChainUnforked`, `SweepSparesYoungRows`, `OnlyPrefixesLeave` |
| `audit_integrity` | 1 writer, the manual checker (which also records), 2 new hashes, 3 days, retention 0 or 1 day, 1 edit, a new database or one with a forked chain | 4.2 million | `UntouchedLogVerifies`, `EditsAreReported` (`EditedRowsAreReported` and `DeletedRowsAreReported`), `OnlyForksAreRecorded` |
| `audit_false_alarm` | 1 writer, the scheduled checker, no edit | - | expected to fail, see below |
| `agent_registry` | 2 connections, 1 fetch, 1 slot, 2 chunks, 1 made-up message | 0.3 million | `WaitsOnlyOnTheRegistered`, `WholeFileOrNone`, `OnlyOwnUnregistered`, `KeepsPromise`, `DroppedCommandsReturn` |
| `scratch_store` | 2 keys, 2 opens, 1 download | 0.3 million | `RefsCountHolders`, `ForgottenFilesLostTheirEntry`, `OnlyStrayReleasesRob`, `LeaksAreSwept` |
| `search_index` | 1 source, 2 files, 2 sizes, 2 events (edits of the source, files that come or go, crashes) | 0.3 million | `IndexedFilesHaveTheirState`, `SwitchedOffKeepsOneFile`, `PurgedUnlessMixedUp`, `GrowingLogsGetTheirTurn` |
| `sign_in` | 2 names for a table of 1, 1 attempt, 2 requests, 2 sessions, 1 password change, 2 secrets, 2 sets of codes | 3.0 million | `OldSessionsGone`, `EnabledSecretWasConfirmed`, `GuessesBounded`, `NeverEvicted` |
| `administration` | 2 local accounts, 1 of SSO, 1 group, 2 capabilities, 3 roles, 2 providers, 4 requests | 0.1 million | `LastSuperAdminKept`, `ChecksSuffice`, `AuthorityKept` |
| `organisation` | 2 customers, 3 folders, 1 source, 2 grants, 5 requests | 0.3 million | `ConsistencyKept`, `NewScopesStartUngranted`, `OnlyGrantedPathsShown` |
| `rules` | 2 names, 3 levels, 3 rules of 13 kinds, reorders of up to 3 ids, 2 requests | 0.5 million | `WayToEveryFile`, `HiddenReliably`, `OrdersStayDistinct`, `ExcludesOnlyHide` |
| `alerts` | 2 files, 2 alerts, 2 lines, 1 hit per file and per webhook, 2 events | 2.2 million | `EveryMatchAccounted`, `NoRepeats` |
| `startup` | every earlier database, 2 revisions, 6 salts, 4 events | 0.2 million | `NeverWithoutItsSalt`, `KeysStay`, `GetsUp` |

Deadlock is not checked where the model stops because a bound or a use-once
request ends it: `agent_registry`, `scratch_store`, `sign_in`, `administration` (where an
installation without a super-admin stops too), `organisation` and `rules`. In
`administration`, `organisation` and `rules` a VIEW leaves out the history of the last
request, which only properties of the step that served it read. In `audit_integrity` it
leaves out the stored status and what a verification has read, which go into no property of
that run; in `sign_in` the columns of a loaded row that its request no longer looks at.

Why the bounds suffice.

- Audit: two writers give every race for the tip, and four hashes a transaction of two rows
  on each side, or a chain on which a second sweep follows a first. Three days let a row be
  old, at the boundary and young at once. In the forked history rows 2 and 3 both chain from
  row 1 and row 3 is a day younger, so retention can remove the parent, then the leaf, then
  the recording row, and empty the log before or under a recording. One edit shows what
  `EditsAreReported` speaks of; that more edits hide neither a changed row nor the first one
  deleted is proved (section 4).
- Registry: two connections give a replacement and a late handler; two chunks with a
  limit of two a first, a last, a missing, a repeated and an excess chunk. A list command
  adds nothing that a fetch does not do and is left out of the run to keep it small (the
  proofs are for any mix of both).
- Scratch: two keys and three requests give two viewers of one file besides another
  file, and a later viewer who meets an earlier one's stray release.
- Search: two files give a sweep that is interrupted between them, one that starves the
  other, and one whose state row gets the other's id; two events an edit that undoes what
  a sweep has done and a second one after it. Sources share only the ids of their state
  rows, and only the sweep writes those, for one source at a time. Files change in place
  without a bound.
- Sign-in: a table of one entry with two names is full at once; with one attempt the first
  failure locks, so two requests that passed together are one too many; two requests are
  every race of two, be it of logins, of the owner's tabs or of both; two secrets one
  enrolled and one in force; two ticks a window that runs out.
- Administration and organisation: one request waiting and four or five served reach a
  set-up of two or three steps (a role, an account with it, a move) with the race after
  it. Three folders make a cycle and a chain with a folder between.
- Rules: a pattern of each sort the engine tells apart, over all lists of two that a
  source may start with and those two requests make of it; a list of three ids names one of
  two rules twice; three levels let a `**` stand for none, one and two names.
- Alerts: two lines exceed a file's cap of one hit, two files a webhook's; two alerts with
  two ids give one that is deleted and one that gets its id; two events a rotation with
  growth, a file that goes and comes back, or a deletion and a creation under a webhook. The
  proofs are for any number.
- Startup: four events give a crash at two steps with an operator's mistake on each side;
  two revisions a crash before, in, between and after them.

The run that is expected to fail states what a comment promises. `audit_false_alarm`: a
purge between a check's SELECT of the anchor and its SELECT of the rows makes the check
store "broken" for a log nobody edited. The next check clears it.

Every property of a passing run has a mutant in `PROJECT.json`: an operator next to
the original, changed the way a plausible bug would change it (`..._byAge`,
`..._reused`), with which TLC finds the property violated.

### What the code does not keep

These are definitions in the modules, and TLC refutes them when they are added to the
`.cfg` of the module's run. They mark the edge of what the passing properties promise.

- `PurgesOnlyOldRows` (`AuditChain`): if the sweep's first SELECT finds every row old, its
  DELETE has no boundary (`true()`) and takes rows committed meanwhile. When it did see a
  young row it is safe: `SweepSparesYoungRows`.
- `PurgeIsNoTamperBreak` (`AuditIntegrity`): retention that deletes the parent of a fork
  before anybody records it turns a recordable break into permanent tampering.
- `OneStateRow` (`AuditIntegrity`): a check and a sweep that overlap on a new installation both
  find no state row (`audit_integrity.py:212`, `audit_purge.py:67`) and insert one each. The
  anchor may be in the one that is never read; the log then looks broken until the next
  purge.
- `RecordedLogVerifies` (`AuditIntegrity`): a sweep that empties the log while an
  administrator records its breaks moves the anchor; the recording's own entry then chains
  from the anchor that the session has loaded (`audit_integrity.py:294`,
  `audit_hash_chain.py:86`), and is a break past the cutoff that nothing can record.
  `UntouchedLogVerifies` excepts a log with such an entry and nothing else of the kind.
- `AnyEditIsReported` (`AuditIntegrity`): "altering or deleting a row anywhere in the chain
  changes every hash after it" (`audit_hash_chain.py`), but `compute_row_hash` leaves the id
  out, so a row renumbered in its place goes unnoticed; so does the newest row when it is
  deleted.
- `RecordedBreaksAccepted` (`AuditIntegrity`, with `Histories <- MCRestarted` and no edit):
  a purged parent is recognised by an id no higher than the anchor's
  (`audit_integrity.py:177`). Once ids have started again, on a log that retention had
  emptied, a parent that was the old anchor never passes, and a recorded break is accepted
  no more. Where ids have not started again the claim is proved (section 4).
- `RegisteredIsLive` (`AgentRegistry`): the commit between `register` and the handler's `try`
  (`api/agent_ws.py:78`) may raise; the dead connection stays registered and every command
  times out on it until the agent comes back.
- `NoFileAfterFailure` (`AgentRegistry`): "no partial file left behind"
  (`collectors/agent.py:65`) holds of the `try` it stands in; the answer of an old agent is
  decoded and written after it (69-76), and what raises there leaves the file.
- `OnlyTheLastViewerDeletes` (`ScratchStore`): a request that the idle sweep overtook gives
  back a reference that a later viewer holds, whose file is deleted under it.
- `PurgedOnTheNextSweep` (`SearchIndex`): when an edit drops a source's index in the middle of
  its sweep, the cleanup of vanished files may delete the new state row of another file,
  which has got the old id. That file's rows are then found by no purge. Without such a
  mix-up the promise holds: `PurgedUnlessMixedUp`.
- `LastStepNeverGoesBack` (`SignIn`): the last used TOTP step is read before a password check
  and written after it (`auth/mfa.py:64`), so a slower request takes it back.
- `BackupCodesOnce` (`SignIn`): backup codes are called single-use (`auth/mfa.py:69-70`,
  "`MfaBackupCode.used_at` already makes single-use"), but two logins that both read the code
  before either commits both get in: each commit sets `used_at`, and neither looks again.
- `NoUnconfirmedSecret` (`SignIn`): an enrollment has read that MFA is off
  (`api/auth.py:319`), the code of an earlier one is confirmed meanwhile, and the commit
  replaces the secret that is now in force by one that nobody confirmed.
  `EnabledSecretWasConfirmed` says that only a request overtaken like this one does it.
- `ProgressIsItsOwn` (`Alerts`): an alert created during the webhook of a deleted one gets
  its id and the progress the check then records.

In `Administration`, `Organisation` and `Rules` the properties about checks except requests
that were overtaken (`served'.late`, or sent by "nobody"). Without that exception TLC shows
two administrators who demote each other, two moves of folders that together make a cycle,
and two pastes or reorders that give two rules one place.

The models also show, or their making has:

- the first start, dying between the commits of the role and of the account
  (`bootstrap.py:123`), leaves a database on which every later start fails on the unique
  role name: an exception of `GetsUp`;
- the rotation script creates a new salt where one is missing, beside the guard that
  refuses this at a start, and even with `--dry-run`: "script" in `KeysStay`;
- a rotation re-encrypts credentials; MFA secrets and the audit chain stay under the old
  key, although the script says the database now only decrypts under the new one;
- a regenerated salt with SSO accounts still to be bound to their issuer never gets up;
- a process that dies inside a revision of Alembic, behind its DDL and before its version,
  leaves tables that make every later `alembic upgrade head` fail, and the entrypoint with
  it; so does a start without the entrypoint on no database, or on one that is behind
  (`db.py:84` creates tables without a version): the fifth exception of `GetsUp`;
- `alerts.py:223`: "One alert's failure is logged and skipped" (`alerts.py:192`), but after
  a failed flush or on an alert that is gone the except clause itself raises, and no other
  alert is evaluated in that sweep;
- `alerts.py:156`: matches after the tenth of a webhook are counted in it and never shown,
  while their watermarks pass;
- `search_index.py:284`: a file that a listing no longer names, or a rule hides, loses its
  watermarks, so all of its lines fire again when it is back;
- `search_index.py:376`: the except clause reads the id of a row that may be gone, and the
  exception ends the loop for all other sources. With one source there is no other to
  see this;
- `api/sources.py:713`: a new agent token, or a disabled source, leaves the connection made
  with the old one registered. The token is outside `AgentRegistry`.

### Fairness

Safety needs none. The liveness properties assume, and no more:

- `agent_registry`: weak fairness of what the event loop does by itself: ready callbacks
  run (`EndOfStream`, `CloseReplaced`, `ReceiveResponse`, `ReceiveChunk`), a thread's write
  ends (`WriteDone`, `WriteFails`), a send ends by the time its socket is closed
  (`SendDone`, `SendFails`), and the worker takes its outcome (`WaitDone`, `Return`). No
  timeout is assumed to fire and nothing of the agent or the network, so
  `DroppedCommandsReturn` holds because `unregister` fails the pending futures and not
  because something gives up.
- `scratch_store`: time passes and the scheduler keeps running `sweep_idle`; nothing of
  requests, browsers or the size guard.
- `search_index`: the scheduler keeps starting sweeps and a started one goes on (weak
  fairness of `SweepStep` and `Boot`), and a file that comes first again and again is now
  and then read and written (strong fairness): what fails there is a connection or a lock,
  which comes back. It does not assume that there is ever time for a second file.
- `startup`: weak fairness of `StartStep`: the container is started again whenever its process
  ends (`restart: unless-stopped`), and a started one goes on. Crashes are bounded by
  `MaxEvents`; otherwise only operators and the states that `GetsUp` names end a start.

## 4. Proofs

The proofs hold for every value of the constants that the modules' ASSUMEs admit, and
whatever the bounds. Each follows the same argument: the type invariant and the property are
strengthened to an invariant, which the initial states satisfy and each action preserves,
one lemma per action; the property follows from it, or from it and one step. Types are
proved here and not run.

| Module | Theorems | What the invariant adds |
|---|---|---|
| `Audit_proofs` | `SpecTypeOK`, `SpecChainUnforked`, `SpecSweepSparesYoungRows`, `SpecOnlyPrefixesLeave` (`AuditChain`); `ISpecOnlyForksAreRecorded`, `ISpecUntouchedLogVerifies`, `ISpecRecordedBreaksAccepted`, `ISpecEditedRowsAreReported`, `ISpecDeletedRowsAreReported`, `ISpecEditsAreReported` (`AuditIntegrity`) | see below |
| `AgentRegistry_proofs` | `SpecTypeOK`, `SpecWaits`, `SpecWholeFileOrNone`, `SpecOnlyOwnUnregistered`, `SpecKeepsPromise` | `ReplacedInv`: a handler that closes a replaced connection has one. `WaitInv`: a command that waits has a connection, the registered one as long as it has no answer. `WriteInv`: a handler that writes is that of the command's connection, writes the chunk expected next, and no result was believed meanwhile. `FileInv`: while a fetch runs its file holds the chunks counted so far, in order |
| `Files_proofs` | `SpecRefsCountHolders`, `SpecForgottenFiles`, `SpecOnlyStrayReleasesRob` (`ScratchStore`); `SpecEveryMatchAccounted`, `SpecNoRepeats` (`Alerts`) | `PathsInv`: one path, one entry. `HeldInv`, `FilesInv`: a reference held, or a file that exists, is of its key's entry or was taken from it on record. `RefsInv`: the count, unless falsified on record. For alerts see below |
| `Sources_proofs` | `SpecSwitchedOffKeepsOneFile`, `SpecIndexedFilesHaveTheirState`, `SpecPurgedUnlessMixedUp` (`SearchIndex`); `SpecNewScopesStartUngranted`, `SpecConsistencyKept`, `SpecOnlyGrantedPathsShown` (`Organisation`) | `IInv`: the files still to read are of the source being swept, and nothing of a source is left when it is switched off but what the sweep is about to write. `OrgInv`: everything that exists, is granted or is waited for has an id already given out. For the others see below |
| `SignIn_proofs` | `ThrottleSpecTypeOK`, `ThrottleSpecBounded`, `ThrottleSpecNeverEvicted` (`LoginThrottle`); `SpecOldSessionsGone`, `SpecEnabledSecretWasConfirmed`, `SpecGuessesBounded`, `SpecNeverEvicted` | see below |
| `Administration_proofs` | `SpecAuthorityKept`, `SpecLastSuperAdminKept`, `SpecChecksSuffice` | `UsersInv`, `RolesInv`, `ProvidersInv`: rows are well-formed, a new role's id is above all there are, and the built-in roles stay; `RequestOK(waiting)`: so is the request that waits, and it deletes no built-in role |
| `Rules_proofs` | `SpecOrdersStayDistinct`, `SpecExcludesOnlyHide`, `SpecWayToEveryFile`, `SpecHiddenReliably` | orders stay below a bound that the length of a reorder's list sets and that grows with the requests served (`Limit`), so there is a greatest order to put a new rule after. For the last two see below |
| `Startup_proofs` | `SpecNeverWithoutItsSalt`, `SpecKeysStay` | see below |

`SpecKeepsPromise` is a refinement (of `Fetching`): initial states map to initial states, and
every step to a step or a stutter. It rests on `WriteInv` and `FileInv`, chiefly that a sink is
closed before its command ends.

**The chain.** `ChainUnforked` is not inductive. Its `IInv` adds: a transaction that has
written holds the lock (`LockInv`); its pending rows chain from the committed tip, which
cannot move while the lock is held (`PendingInv`); between boots no row is unhashed, and before
the first boot either all or none are (`HashedInv`); the sweep's boundary row is
still in the log, all rows below it are old, and the anchor it picked is the row just
below (`PurgeInv`); ids grow along the log (`SortedById`). That the boundary row
survives rests on there being one sweep at a time and on nothing else deleting rows;
that everything below it stays old rests on new rows getting higher ids, whatever
their timestamps.

**Recorded breaks.** `ISpecOnlyForksAreRecorded` holds while the database is edited, so it
cannot rest on `ChainUnforked`, which an edit breaks at once. `IInv` is therefore split:
`BaseInv` survives edits, `ChainInv` does not, and every step keeps the first and, as long
as nobody edits, the second (`Keeps`). `JInv` takes `BaseInv` and adds what an edit cannot
forge. Hashes are given out in order, so what is chained last has the highest (`HashesInv`);
the parent of a row that the race did not fork is the row before it, or is nowhere in the
log (`HonestInv`), which is also the case of an `Astray` one: a deleted row leaves its
successor without a parent, and the walk takes only rows with a known parent for race
breaks. The anchor, and every anchor that a check under way has loaded, is a hash that has
left the log and that only its first row may chain from (`Left`, `AnchorsInv`); what the
sweep has picked will become one (`PickInv`).

`ISpecUntouchedLogVerifies` and `ISpecRecordedBreaksAccepted` are about a log nobody edits.
`KInv` is `JInv` and, until the first edit, `AccountInv` and `LinkedInv`: every row fits its
hash (`ValidInv`); hashes of this version are later than those of the history, and an entry
chained after a recording is later than it (`FreshInv`); a break or leaf that was recorded,
or is drafted in a recording under which no sweep emptied the log, is still in the log or
below the anchor, and the same goes for the parent of a break (`Stands`, `ParentStands`:
`NotesInv`, `DraftsInv`). Such a recording has an anchor that sweeps may have moved since,
but only up (`Older`). That a parent below the anchor is told from a missing one by its id
needs the anchor to be below the log. It is, as long as an old row or the recording row is
left, for then no sweep has emptied the log (`AnchorInv`), and that in turn rests on the
sweep deleting just up to the anchor it picked (`BoundaryInv`). `LinkedInv` counts the rows
that do not chain from the one before: the race forked them, or they are `Astray`. Both
theorems are for histories that nobody had edited before and whose ids had not started again
below the anchor (`UntouchedHistories`); both histories of `audit_integrity` are, and
without the second half the claim is false, as `MCRestarted` shows.

`ISpecEditedRowsAreReported` needs none of this and holds for any number of edits:
`EditedInv` says that the edited row still does not fit its hash, as long as it is there,
and that no row is ever given that hash again (`HashesInv`: new ones are higher). The row is
known by its hash, since another edit may renumber it. A row that does not fit is neither
linked nor accepted, in whatever branch of the walk, so the verdict is "broken".

**Deleted rows.** `ISpecDeletedRowsAreReported` is about a row that is no longer there, so
`LInv` has to remember it. `DeletedInv` says that there is a ledger of what every hash
stands for, its row's id and predecessor, with which the log, the anchors and the records
agree (`Fits`), and for the deletion a list `S`, the log it was made from (`Remembered`).
Every row of `S` but the last is `Guarded`: a later row of `S` chains from it, or is the
entry of a recording that lists it. Now consider the rows of `S` that are gone and lie above
the anchor; the deleted row is one, until retention reaches it, and the property speaks no
longer of it then. The last of them has all rows after it still in place. If one of these
chains from it, that row has a parent nobody knows (`OrphanIsReported`); if one is the
recording, it lists a row that is missing. Either way the verdict is "broken". No later step
disturbs this: sweeps take rows from the bottom and raise the anchor, further edits only
take rows away or spoil them, and new rows have hashes that `S` does not know.

That every row of the log is guarded at the first deletion takes `OrderInv`: what this
version chained is in the order of its hashes (`Ascending`), a row of the history comes
after the one it chains from (`OldParentsFirst`), and the row before a recorded break is
recorded as a leaf or has a child further on (`Beside`), also for breaks that a check or a
recording still holds in memory. After the first deletion a check can take rows for
neighbours that never were, so the next one cannot count on `OrderInv`: hence `settled`.
Once a row has another id the ledger is wrong about it, so `LInv` promises all this only
while none has.

**Recursive functions.** What a recursive function computes is proved in three steps.
Induction is over a set of naturals whose least member outside is looked at (`Least`,
`Induction`), since an induction theorem that takes a predicate is beyond the provers. First
such an induction shows that the equation has a solution: on the length of the list for
`Kept` (`KeptExists`), on the number of steps for the walk up the folders (`WalkExists`);
for the walks along a glob, each of which is monotone in the set of positions it has
reached, there is a fixed point (`FixedPoint`, `MatchExists`, `ReachExists`, `ExactExists`).
Then the function satisfies its equation (`MatchIs`), and what it yields follows by
induction once more. This is why `Kept` is a function of the module and not the library's
`SelectSeq`, and why a glob is walked by positions.

**Search index.** `SpecIndexedFilesHaveTheirState` adds `StatesInv`: an indexed file of a
source that no sweep mixed up has a state row. A DELETE takes the states of a file only
together with the file's rows, or marks the source as mixed up (`StatesRemoved`); that what
is kept is just what was not deleted is `KeptMembers`. `SpecPurgedUnlessMixedUp` follows: a
purge finds the rows of every file with a state.

**Organisation.** `SpecConsistencyKept` needs that a folder whose walk up ends at a root
still does after a move that was checked: a path up that meets the moved folder goes on as
the new parent's did, which the check found free of the folder itself (`NoCycleMade`).
`UpIn` is the walk over any table of folders, to compare two of them; `ShapeInv` says what
rows look like. `SpecOnlyGrantedPathsShown`: the granted folder is some steps above the
source and the folder shown fewer, and steps add up (`UpAdds`).

**Rules.** `SpecWayToEveryFile`: where an include matches a file, the walk that asks whether
a directory could hold a match says yes for each directory above it (`MatchedIsReached`),
and a later exclude that covers such a directory also matches the file (`CoveredIsMatched`),
so it would have hidden it. `SpecHiddenReliably` is the converse: an `X/**` that matches
everything below a directory covers it (`MatchedIsCovered`), which compares two walks, one
that ends before the last `**` and one that lets it stand for the rest. `PatternsInv` says
that every rule's pattern is one of those given.

**Sign-in.** Each property has an invariant of its own on top of `ShapeInv`. Passwords are
chosen in order; a login under way has proved the present one or is late, and a change that
has read the session rows knows that all it did not read are late (`SessionsInv`).
`EnabledSecretWasConfirmed` is inductive as it stands: a request that its factor did not
move under decides it (`FactorDecided`), and all others write of the row only columns they
changed, which leaves the factor alone (`PasswordOnly`). A count that has reached the limit
is locked, and the count together with the requests that may still add to it stays below the
bound (`GuessInv`): a request that adds one leaves that set.

**Startup.** What is left at the old place is exactly what is still to be moved, in the order
of the moves, so a crash can be resumed (`MovesInv`); as long as something is encrypted its
salt is at one of the two places, or an operator has it (`OldInv`); a salt still at
the old place is the one in place, or the one that was lost (`SaltInv`); what is stored is under
the key of the installation, in use or not, but for the reasons on record (`KeyInv`).

**Alerts.** Both properties speak of the lines before and after a watermark, and it takes
both sides to prove either. `AccountsInv`: everything up to a mark that is the alert's own
was told or passed over, and so was every line of a file that is not due. `RepeatsInv`: what
was told lies behind the mark, or its commit is still to come, or it may be told again; a
mark that is dropped takes its file's lines along (`Reopened`). What connects the two is
that files only grow or are rotated (`GrowthInv`): a mark is never ahead of the file on disk
or in the index, so a file that is shorter than its mark has been rotated and the search
starts from its first line. The seven reasons are what is left when the cases of a commit
are counted (`ReadIsAccounted`; for the cap on hits, `HitsAtTheLimit` counts them).

`SpecExcludesOnlyHide` leaves patterns opaque: it holds for whatever they match, since a new
rule of type exclude can only turn a verdict from shown to hidden, for files and for
directories alike. `SpecAuthorityKept` speaks of requests that were not overtaken, as
`SpecLastSuperAdminKept` and `SpecChecksSuffice` do.

The assumptions are those of the modules, each named where it stands: a "no such" value is
not one of the values; bounds are naturals, limits positive; a history of the audit log is a
database an older version can have left; two rows of it never share a hash, nor has a row
that of the anchor, since hashes are HMACs and the anchor's row is gone, and a row's
predecessor, where it is in the log, came before it (`HashesAssumption`); what is not a
regex is a glob of at least one segment (`GlobsAssumption`); the requests that run at once
are finitely many, for they have a thread each (`ReqsAssumption`); the three management
capabilities are capabilities.

Only model-checked are the liveness properties (`DroppedCommandsReturn`, `LeaksAreSwept`,
`GrowingLogsGetTheirTurn`, `GetsUp`), for the prover reasons neither about fairness nor
about when an action is enabled. Every other property of a passing run is stated by a
theorem.

## 5. Not modelled

- What a hash, a TOTP code or an encrypted credential is made of: cryptography is
  an unforgeable name. Tokens of an identity provider are checked by a library, their
  discovery and state cookie are pure checks.
- A log that is emptied by a sweep starts again at id 1 while the anchor names a
  higher id. The models do keep this. What follows for a recording under way is under "What the
  code does not keep"; `UntouchedLogVerifies` excepts the `Astray` entry it leaves.
- Audit labels and the text of events: lookups without control state. Logging and the
  rotation of log files: little control.
- Configuration transfer and settings: one long import in one transaction, with no
  concurrency of its own; what it writes are rows whose own requests are modelled.
- Monitoring, health, listings, exports, the search query, browsing, archive members and
  the folder ZIP: reads, or reads through a scratch path that `ScratchStore` covers.
- Collectors: protocol I/O through libraries. Of the push agent its reconnect backoff, path
  safety and configuration.
- Severity patterns, the frontend's presentation, a webhook's address check, test
  support. `PROJECT.json` gives the reason per component.

## 6. Plan

What is left, in this order:

1. Compose `SearchIndex` with `Alerts` over two sources: one run that shows what a source
   deleted in mid-sweep costs the others, and that alerts are due exactly where the
   index moved.
2. The token of a source beside `AgentRegistry`: connections made with a token that has
   been replaced.
3. A second process over the same data directory: a worker started twice, the rotation
   script beside a running service.
4. Retention of rotated log files, and the import of a configuration beside the requests
   of `Organisation` and `Rules`.
