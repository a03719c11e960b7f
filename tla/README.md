# SOC360 PYMES: a TLA+ verification project

SOC360 is a multi-tenant service that scans the assets of small companies with
Nmap, stores the findings as vulnerabilities and enriches them with an LLM. A
FastAPI application writes PostgreSQL rows; Celery workers execute scans; Redis
carries Celery messages, domain events, the access-token denylist, login counters
and locks. Several API processes and several workers run at the same time, and
the code relies on PostgreSQL row locks, advisory locks and single-statement
conditional UPDATEs, not on in-process state, to stay correct. This project models
those protocols, checks them with TLC and proves the central ones with TLAPS.

## Inventory

| Component | State | Operations | Why it is hard | What makes it correct |
|---|---|---|---|---|
| Scan execution (`scans/state.py`, `scans/executor.py`, `worker/`) | `scans` rows (status, dispatched_at, started_at, failure_reason), bells in the broker, the tasks of the pool | create, run, cancel, delete; wake, claim, load, graph, persist, complete, fail, cancel; pump, reap; kill switch | duplicated and lost bells, a worker dying at any point, two Celery limits, cancellation by polling, a transaction open during the whole run | one executor per scan, findings if and only if completed, a terminal status is final, nothing queued or running is forgotten |
| Scan graph and Nmap runner (`agents/scan_graph.py`, `scans/targets.py`, `scans/nmap/`) | the Nmap process group, its pipes, the accepted documents | resolve, spawn, read, clean up, parse, deduplicate, persist | a process that ignores SIGTERM, a descendant that outlives its leader, cancellation at any await, names that resolve to several addresses | a run that fails takes its process group with it, a result is whole or absent, only allowed addresses are scanned, the graph ends |
| Launch and daily quota (`scans/service.py::dispatch_scan`) | `dispatched_at`, the tenant row's lock | lock tenant, conditional UPDATE, count, commit | concurrent launches, cancellation between statement and commit, midnight | the plan's `scans_per_day` holds, requests are answered |
| Scan definitions (`scans/service.py`) | name, type, configuration | create, patch, delete, events | validation against a row read earlier | the stored configuration is valid for the stored type |
| Authentication (`auth/service.py`, `core/security.py`) | `refresh_tokens`, password hash, `active_jtis`, denylist | login, refresh, logout, change password, deactivate | several transactions and non-transactional Redis commands per request | a refresh token rotates once, the session cap, nothing survives a revocation |
| Lockout and rate limiter (`auth/service.py`, `core/rate_limit.py`) | a failure counter per account and a hash per address and per subject, with TTLs, in Redis | check, record failure, record success, expiry | check and increment are separate commands, each may raise, a lock is read, extended and written back | wrong passwords per window are bounded, a counter expires, a lock ends |
| Distributed lock (`core/dist_lock.py`) | lease with token and TTL, local token table | acquire, retry, release | time-out racing a late grant, lease expiry | one holder, a release never frees somebody else's lease |
| Event bus (`event_bus/`, `main.py`) | streams, pending lists, retry counters, dead letters | publish, read, claim, dispatch, acknowledge | restarts, redelivery, exhausted retries | no event is dropped silently |
| Enrichment (`enrichment/`, `worker/enrichment_tasks.py`) | enrichment rows per vulnerability and function | run, upsert | overlapping runs, late failures | a success is never downgraded |
| Assets, vulnerabilities, reports (`assets/`, `vulnerabilities/`, `reports/`) | one row each, foreign keys between them | create, patch, delete, events | a row is read without a lock and written column by column; deletions cascade; the event follows the commit | no orphans, no duplicates, columns that fit each other, no event for what did not happen |
| Tenants and users (`tenants/`, `users/`) | rows, plan limits | create, read, patch, deactivate | decisions on copies read earlier, deactivation beside live sessions | role ceilings, the plan's limit, a superadmin remains, a deactivated user has no session |
| Request dependencies and row-level security (`dependencies/`, `core/database.py`) | transaction per request, settings on a pooled connection | look up the caller, elevate, restore, close | the lookups are elevated, the connection is reused | every statement of a route runs in its caller's scope |
| LLM providers, dashboard, configuration, logging, frontend, migrations, deployment | none, or read-only, or presentation | | | |

The components meet in the `scans` table (API, workers, Beat tasks), in the
broker (API and pump ring, workers consume; workers enqueue enrichment), and in
Redis (authentication, lock and events).

`PROJECT.json` lists every component with its status and every hazard with its
line.

## Modules

| Module | Models | Extends / used by |
|---|---|---|
| `ScanLife` | the promise about one scan: defined, queued, started and ended at most once, findings with the completion | abstract specification |
| `ScanExecution` | queue, claim, executor, watcher, limits, pump, reaper, kill switch | implements `ScanLife` (`ImplementsScanLife`) |
| `ScanExecutionProofs` | the inductive invariant, the safety theorems and the refinement theorem; those of `ScanDispatch`, which puts a scan into the queue | `ScanExecution`, `ScanDispatch` (instance `Q`), TLAPS |
| `ScanDispatch` | `POST /scans/{id}/run` statement by statement | |
| `MCScanDispatch` | one tenant with one scan a day | `ScanDispatch` |
| `AuthSessions` | login, refresh, logout, change of password, deactivation of one user's sessions | |
| `MCAuthSessions` | symmetry for TLC | `AuthSessions` |
| `AuthSessionsProofs` | its inductive invariants and theorems | `AuthSessions`, TLAPS |
| `EventConsumer` | the `auth.login` stream: publication, the consumer loops, retries, dead letters | |
| `EventConsumerProofs` | its inductive invariant and theorems | `EventConsumer`, TLAPS |
| `DistLock` | `acquire_dist_lock` as the deactivation dependencies use it | |
| `MCDistLock` | three requests in two processes | `DistLock` |
| `Enrichment` | the enrichment rows of one vulnerability under overlapping Celery tasks | |
| `MCEnrichment` | two levels with opposite orders | `Enrichment` |
| `EnrichmentProofs` | its inductive invariant and theorems | `Enrichment`, TLAPS |
| `Inventory` | POST, PATCH and DELETE of assets, scan definitions, vulnerabilities and reports | |
| `MCInventory` | a small tree of rows, symmetry for TLC | `Inventory` |
| `InventoryProofs` | its inductive invariants and theorems | `Inventory`, TLAPS |
| `ScanGraph` | what the executor runs inside a claimed scan: gate, Nmap, parser, upsert | refines the time a task of `ScanExecution` stays in `graph` and `persisted` |
| `MCScanGraph` | assets on both sides of every test of the gate, reports | `ScanGraph` |
| `ScanGraphProofs` | its invariants and theorems | `ScanGraph`, TLAPS |
| `LoginLockout` | the failure counters in front of the authentication endpoints | |
| `MCLoginLockout` | a lockout table of two steps, symmetry for TLC | `LoginLockout` |
| `LoginLockoutProofs` | its inductive invariants and theorems | `LoginLockout`, TLAPS |
| `TenantAccess` | users and tenants behind the request dependencies | |
| `MCTenantAccess` | two superadmins, an administrator and a viewer of two tenants | `TenantAccess` |
| `TenantAccessProofs` | its inductive invariant and theorems; those of `DistLock`, whose lease the deactivations run under | `TenantAccess`, `DistLock` (instance `D`), TLAPS |

### ScanExecution

State. `status`, `dispatched`, `reason`, `findings` and `age` are the committed
columns of each row (`age` is `now() - started_at` of a running row; a row keeps a
dispatch timestamp out of `1 .. MaxStamp`). `bells` counts wake messages. A pool
process has a `pc` in its task, the `job` it claimed, a `draft` telling whether its
open transaction inserted findings, and `taskAge`, the time Celery measures.

Steps. One committed transaction is one step. The executor's long transaction
(persist, conditional completion, commit) is split where other actors can commit in
between: after `persist_node` flushed (`persisted`), and after the completing UPDATE
(`completing`), which from then on holds the row lock (`Locked`); the inserted
findings hold a key-share lock on their scan, which stops a DELETE and not a status
UPDATE (`KeyShared`). The Nmap run itself is the time a task may stay in `graph`.

| Action | Code |
|---|---|
| `CreateScan`, `RunScan`, `CancelScan`, `DeleteScan` | the API's four changes of a row; `RunScan` commits and then rings, or fails to |
| `Wake`, `WakeDisabled`, `ClaimNextScan`, `NothingToClaim` | `_wake` up to its claim; the claim is the single UPDATE of `claim_next_scan` |
| `LoadScan`, `GraphError`, `GraphPersist` | `_load_scan` and the scan graph's outcomes |
| `CompleteScan`, `CompleteTooLate`, `CommitScan` | the end of `execute_scan` |
| `FailScan`, `CancelRun` | the shielded `fail()` and `cancel()` |
| `WatcherCancels`, `ExecutorError`, `SoftTimeLimit` | interruptions; one that hits COMMIT in flight may find it applied |
| `WorkerLost`, `HardTimeLimit` | the process dies; with late acknowledgement the message may come back |
| `Pump`, `Reap`, `LoseBell`, `Tick`, `ToggleSwitch` | Beat tasks, broker, time, operator |

Left out: the contents of findings and the errors' codes beyond `run_error` and
`worker_lost` (`ScanGraph` has both), logging and metrics. The quota is `ScanDispatch`'s
subject.

### ScanDispatch

Timestamps are UTC days, the only part the quota looks at. A request is `idle`,
waits for the tenant row (`locking`), runs the conditional UPDATE (`updating`),
the count (`counting`) and the commit (`committing`). The updated row is locked
until the end (`Dispatching`), the tenant row too (`tenantLock`). A cancellation or a deletion
holds its row from its statement (`CancelScan`, `DeleteScan`; the outcome is `uncommitted`) until
`CommitWrite` or `RollbackWrite`, and a launch that has the tenant row may be waiting for it
(`Locked`). `now` is the start of the transaction, as PostgreSQL's `now()` is. `AbortRun` is a
time-out or the death of the API process. A deleted row keeps its `dispatched` and `started` as
history, which the code cannot see: `Reserved` excludes it, so `QuotaRespected` speaks of the rows
that exist, and not of all that ran on a day. The plan limit of a tenant is constant: changing
the plan below today's reservations is not modelled.

### AuthSessions

A session is a refresh token (`token`, a row of `refresh_tokens`) and the access token
issued with it (`tracked` is `active_jtis:{user}`, `denied` the denylist). Sessions are
numbered when their transaction starts, because `created_at` is `NOW()`; the number is
the order in which the eviction looks for the oldest. `origin` and `parent` are history:
the password a login verified, and the session a refresh rotated.

A request goes through labels that stand for its statements and Redis commands:

| Request | Steps |
|---|---|
| login | `BeginLogin` (user row read), `TrackJti`, `AcquireSessionCapLock`, `TouchUser` (the count autoflushes `last_login_at`), `CountSessions`, `EvictOldest`, `LockRow` and `RowsLocked` (flush), `Commit` |
| refresh | `BeginRefresh` (`FOR UPDATE SKIP LOCKED`), `CheckUser`, `AcquireSessionCapLock`, `CountSessions`, `EvictOldest`, `DenyOld` and `UntrackOld` (when an access token was sent), `TrackJti`, flush, `Commit` |
| logout | `BeginLogout`, `DenyOld`, `UntrackOld`, `LoadToken`, flush, `Commit` |
| change password, deactivate user, deactivate tenant | `Begin...`, `TouchUser`, `SnapshotTokens`, `LockRow` and `RowsLocked` (the UPDATE of `refresh_tokens`), `ReadJtis`, `DenyNext`, `DropSet`, `Commit` |

`SET LOCAL` statements and `text()` statements do not autoflush, which is why a login
takes the advisory lock before the lock of its user row. `Abort` ends any request at
any label with its Redis commands done: an outage, a lock time-out, a deadlock victim or
a dead process. Left out: JWT contents, cookies, login events, the failure counters (module
`LoginLockout`), the expiry of access tokens (a denylist entry lives at least as long as its
token).

### EventConsumer

An entry is its position in the stream, so the order of Redis identifiers is the order of
numbers. `trim` is how far `MAXLEN ~` has cut the stream, `delivered` and `pel` are the
consumer group, `retries` the `event_retry:{id}` hashes. `handled` and `failures` are
history. Every API process runs a loop, and all loops use one consumer name, so a loop may
claim an entry another loop is just handling; the model has this overlap.

| Action | Code |
|---|---|
| `Publish`, `PublishRaises` | `publish()` from `login()`, with its one repetition |
| `XPending`, `XClaim` | `read_pending`: list, then claim what is still pending; trimmed entries leave the list |
| `XReadGroup`, `XReadGroupTimesOut`, `ReadRaises` | `read_new`, and a reply that is lost after the group moved on |
| `ReadCount`, `HandlerReturns`, `HandlerRaises`, `HandlerExhausted`, `AppendToDlq`, `DlqRaises`, `CleanupRetryKey` | `_dispatch_event` |
| `Ack`, `AckRaises`, `BatchDone` | the rest of `_consumer_loop` |
| `Stop`, `Restart`, `ExpireRetryKey` | the lifespan, a crash, the TTL of a retry hash |

A command that raises may have been applied; each one, each stop and each expired key counts
against `MaxFaults`. Left out: payload validation (an invalid payload is a handler that
raises), back-off delays.

### DistLock

A request stands for its random token. `SetLock` applies the SET and `Granted` or `Denied`
acts on its reply; `WaitTimesOut` is `asyncio.wait_for` giving up the retry and `SetRaises`
an outage or a cancelled request, both of which may leave a SET on its way (`late`,
`ApplyLate`). `active` is `_ACTIVE_TOKENS`, per process, which `Released` pops whatever
token it holds. `Release` is `RELEASE_LUA`, `RenewNotOwner` a renewal that finds another
token, `Expire` the TTL and `Crash` the end of a process.

### Enrichment

A `version` stands for a cache identity (input hash, prompt version, model) and a text is known
by the version it was written for; an edit may return to an earlier one. A task is `unsent`,
`queued`, `reading` (it has the finding and the level), `writing` (it has the rows and the
provider's answers) or `ended`. The upserts are steps of their own, in the order of the level
(`IsNext`), because each takes a row lock that lasts to the commit (`draft`, `Locked`): the
statement judges the row as committed when it gets the lock.

| Action | Code |
|---|---|
| `Enqueue`, `Ignore` | `request_enrichment` and its like; the switch is off or the finding is gone |
| `LoadFinding`, `ReadRows` | the two SELECTs of `enrich_vulnerability`, and `due_functions` |
| `Store`, `StoreRefused` | one upsert with an answer of either kind (`Success`, `Failure`); the foreign key refuses it |
| `CommitRun`, `RunRaises` | the commit of `_enrich` and what `enrich` makes of the outcome (`Again`, `End`) |
| `DeadlockDetected`, `Killed` | PostgreSQL's victim; a lost worker process, with late acknowledgement |
| `EditVulnerability`, `DeleteVulnerability`, `ChangeLevel`, `ToggleSwitch` | API and operator (no endpoint writes the level) |

Left out: prompts, citation checks, concurrency and budget of the provider calls (any function
may fail), the `attempts` counter, `only_functions`, which no caller passes.

### Inventory

The four services have one shape: SELECT without a lock, judge, flush, commit, publish. A row
is reduced to two columns that belong together (type and value, type and configuration, status
and `closed_at`, status and `generated_at`), each with the few values that tell a fitting pair
from another. A request is `flushing` once it has read and judged, `committing` while its
uncommitted statement holds locks, `publishing` after the commit. The UPDATE sets only the
columns the ORM saw change, on the row as it is by then (`Written`), so that two requests can
each write half of a pair (`ScanConfigFits` does not hold) and do not undo each other's columns
(`NoLostUpdate`). `ask` keeps the body of a request. `stale` and `mixed` are history: requests whose
row somebody else wrote after they read it, and rows such a request wrote.

`Holds`, `KeyShares` and the `Blocks...` operators are PostgreSQL's row and foreign-key locks: a
DELETE locks what it cascades to, an INSERT holds its parent, and an UPDATE of an asset, whose
columns are in a unique constraint, conflicts with inserting a child. `DuplicatePending` is the
unique index waiting for an uncommitted entry. `Abort` is any error: a failed connection, a
deadlock victim, the scan's open-name constraint, a publication that raises. Left out: columns
that constrain nothing (names, descriptions, scores), tenant scoping, lists and exports.

### ScanGraph

`pc` is where the graph is: the gate (`resolve`, `dns`), `run_nmap` once per address family
(`spawn`, `starting`, `read`, then `unwind`, `term`, `grace`, `kill`, `killed`, `final` when it
raises), and `parse`, `persist`, `commit`, `end`. In `starting` the group runs and
`create_subprocess_exec` has not returned: `process` is still None, so an interruption there
leads not to the clean-up but to `closing`, where asyncio kills the leader and waits for it. `proc`
is Nmap's process group, a leader and a descendant: who is alive, who was sent SIGKILL (`doomed`),
who ignores SIGTERM (`deaf`), who holds the pipes (`holds`), whether `process` was ever set
(`returned`), what is in the pipe and what was written in all. A document is known by its size, by what Nmap had written, and by a
report: the parser's verdict and the scripts with the identity and the printed score of their
finding. An address is a family and a class of the `ipaddress` module.

| Action | Code |
|---|---|
| `ResolveTarget`, `DnsAnswer`, `DnsFails` | `resolve_target` and its checks of literals, subnets and answers |
| `SpawnFails`, `Spawn`, `SpawnReturns`, `ReadStdout`, `RunExits`, `RunTimesOut` | `run_nmap` up to its result; the reader asks for one byte more than fits; end of file needs closed pipes, not a dead group |
| `CloseSpawn`, `SpawnClosed` | what asyncio does for a spawn that is cancelled or times out |
| `ReadersGathered`, `CleanupTerm`, `GraceEnds`, `GraceExpires`, `CleanupKill`, `KilledEnds`, `KilledExpires`, `CleanupEnds` | the except clause and the shielded `_cleanup` |
| `Parse`, `PersistReads`, `PersistCommits`, `PersistFails` | parser and mapping to findings, `dedup_node`, `upsert_findings` with the executor's commit or rollback |
| `Cancel` | the watcher's `Task.cancel()`, at any await and more than once |
| `NmapWrites`, `NmapCloses`, `NmapExits`, `Drain`, `CreateVulnerability` | the subprocess, `_discard`, and a finding stored by the API |

Left out: the command line, XML, the wording of findings; any refusal of the parser is a verdict.

### LoginLockout

Each Redis command is a step, so two requests interleave between any two of them, and each may
raise (`MaxFaults`). A request is at its precheck (`check_ip`, `check_subject`), in the service
(`service`, `verify`, `expire`) or recording (`hincrby`, `hget`, `hset`, `reset`), once for the
address and once for what the endpoint passes as its subject. Time is relative: deadlines count
down with `Tick`, and the `now` a request captured falls behind. `tries` is history: wrong passwords
verified since the account's counter was last gone. So is `outlived`: keys whose lock was lowered by
the reset of a successful login, by a shorter write or by the expiry of the hash, while a request was between its HGET and its
HSET with the old lock in hand. The endpoints differ in `FailClosed` and
`ResetsOnSuccess`. The model has the limiter switched on (`RATE_LIMIT_ENABLED`); the services behind
the endpoints other than login are `AuthSessions`'s.

### TenantAccess

A request is one transaction on a connection of the pool: `caller` (`get_current_user`), `target`
(the tenant's lookup, or the start of `_get_user_for_admin`), `lookup` (a caller that is not superadmin
is elevated, `Elevate`, until `GetUserForAdmin` restores its scope or a statement fails), `policy` (the router's and the service's checks),
`flush`, `commit`, `answer`. It judges copies of rows, writes the columns that differ from the copy
(`Changed`), and holds their locks and index entries (`Locks`) until it ends. `ctx` is what
`set_tenant_context` left on each connection, and `SeesUser`, `SeesTenant` and `Hidden` are the
row-level policies that judge by it. `denied` is whose sessions the request has revoked in Redis. `foreign` says that the request asked for
an existing user or tenant of another tenant and its caller is not superadmin; it is decided from the
tables when the request arrives, not from what the request's lookup returns.
`stale` and `orphaned` are history: tenants whose plan or limit was replaced under a PATCH, and a
commit by a caller deactivated meanwhile. `Fail` is any statement, lease or revocation that raises.

`UserRows` and `TenantRows` are the columns the checks look at, with the two check constraints that tie
`is_superadmin` to `tenant_id`. `TablesAssumption` says that the seeded tables are such rows, with a limit
within its plan and a superadmin; `BodiesAssumption` that request bodies are what `UserUpdate` and
`TenantUpdate` accept (`IsUserPatch`, `IsTenantPatch`: any subset of their columns).

Left out: names and passwords, the merge of a tenant's JSON settings, lists, the lease that
serialises deactivations (module `DistLock`; without it the model has more interleavings), and the
steps of the revocation (module `AuthSessions`).

## Runs

| Run | Instance | Shows |
|---|---|---|
| `scan_execution` | 2 scans, 2 workers, 1 bell, 1 timestamp, limits 1 < 2 < 3; 185,996 states | the type invariant, one executor per scan, findings only if completed, a reaper that never hits a live task, enrichment after commit, refinement of `ScanLife`; under `FairSpec`, a dispatched scan is taken, a running scan ends, and an executor whose row is cancelled stops unless the row is deleted first, each under its own hypotheses |
| `scan_quota` | 2 scans, 2 requests, 2 days, plan of 1; 76,086 states | the reservations of existing scans stay within the plan; a dispatch commits only onto a pending row; under `FairSpec`, every launch request is answered, also beside a cancellation that holds the scan row |
| `auth_sessions` | 2 requests, 3 sessions, cap 2, one expiry, one change of password; 2.1 million states | a refresh token rotates once; a revocation that stops half-way leaves every access token it read denied or tracked; the cap holds until an unrevoked token expires |
| `auth_password_change` | 2 requests, 2 sessions | expected violation: see Findings |
| `events` | 1 login, published up to twice, 2 loops, 1 retry, MAXLEN 1, 2 faults; 189,475 states | no entry leaves the pending list without an outcome, no entry is dead before its retries, a retry count goes down only with an outcome or by expiry; under `FairSpec`, every entry is handled, dead lettered or trimmed |
| `dist_lock` | 3 requests in 2 processes, 2 faults; 120,004 states | a granted request owns the lease until it expires |
| `enrichment` | 2 functions, 2 levels, 2 tasks, 2 identities, 1 retry, 1 fault; 368,384 states | a stored success has its own text, no row outlives its finding, a late failure keeps successes and texts; under `FairSpec`, every task ends |
| `inventory` | 2 assets, 2 scans, 2 findings, 1 report, 3 requests; 224,664 states | no orphans, no duplicate assets, no event before its commit, no PATCH undoes a column it did not name |
| `inventory_pairs` | the same, 2 requests | expected violation: see Findings |
| `scan_graph` | 10 assets, 4 DNS answers, 3 reports, a cap of 2 chunks, 2 cancellations; 1.3 million states | a run that fails by itself has killed its whole group, and otherwise only cancellations and two narrow cases leave a process behind; a completed scan is whole and stored once, any other stored nothing; under `FairSpec`, the graph ends |
| `login_lockout` | 2 requests at a time, 4 in all, login and refresh, 1 address, 1 account, 2 steps in the table, 1 fault; 3.6 million states | wrong passwords per window stay within the maximum, plus one per competitor and fault; a counter expires unless a command raised; a lock is at most one step of the table per request on its way |
| `tenant_access` | 2 requests at a time, 3 in all, 5 users, 3 tenants, 2 connections; 3.0 million states | every route acts in its caller's scope and pooled connections have none; whoever asks for a user or tenant of another tenant reaches no route and gets 403, unless its own token is refused or a statement fails; `max_assets` fits the plan; a superadmin remains; who is deactivated has been revoked |

Bounds. Two scans and two workers are what a double claim, an out-of-order
dispatch and a stale executor beside a fresh one need; a third scan only queues
behind. One timestamp makes every two dispatches equally old, so that a claim may take either, which
includes both orders. One bell at a time is enough for a duplicate: `Wake` consumes it, and the pump
or a redelivery rings again before the first worker has claimed; ringing above the bound is the same
as losing a bell, which the model allows anyway. The limits are the smallest numbers in the order
`celery_app.py` guarantees. Two scans and a plan of one leave room for a
reservation and a competitor; two days for a launch that straddles midnight. The safety results of ScanExecution do
not depend on these bounds, since they are proved. Two concurrent requests show every
pairwise race of the session code, the third session is the one that goes over a cap
of two. Two loops are one that processes an entry and one that takes it
away; one login whose publication is repeated fills a stream longer than its MAXLEN. Three
requests in two processes give a competitor inside the process, where `_ACTIVE_TOKENS`
decides, and one outside. Two tasks, two functions and two orders are what a late failure, an
edit between two runs and a cycle of row locks need. Three requests are a stale reader, the
one that overtakes it and one that deletes or recreates under both. Deadlock is checked in
`ScanExecution` and `EventConsumer`, and in `Enrichment` the API keeps moving; the runs of
`ScanDispatch`, `AuthSessions`, `DistLock` and `Inventory` use up requests, identities and days
and may stop, as may `LoginLockout` and `TenantAccess`, whose requests are counted; a scan graph
ends. Two chunks are an output below, at and above the cap; a leader and a descendant that each may
ignore SIGTERM are what the clean-up must tell apart, and two cancellations are one that starts it
and one that hits it. Two lockout steps, four requests and a window of two ticks let a counter fill,
expire and fill again beside a lock. Three requests of two callers are a stale copy, what overtakes
it and a reuse of the connection; two superadmins are the fewest who can deactivate each other.

Type invariants. `scan_execution` checks `TypeOK` in a run and `TypeCorrect` proves it, as
`LoginTypes` does for `LoginLockout`; in `EventConsumer`, `DistLock`, `Enrichment`, `ScanDispatch`,
`AuthSessions`, `Inventory` (`Types`) and `TenantAccess` (`Tables`, `Asked`) it is a part of the proved
invariant. Elsewhere `TypeOK` documents the variables; it holds on the instances above and can be added
to any of their configurations.

Fairness. `FairSpec` of `ScanExecution` assumes only that the shielded clean-ups run to their end;
what else must keep happening is the hypothesis of each property. `RecoveryFairness` says that time
passes, that Celery kills a task at its hard limit and that Beat keeps starting the reaper; the
executor may hang anywhere. `QueueFairness` adds the pump, and strong fairness of waking and
claiming: a broker that loses every bell, or a pool in which every process dies before its claim,
defeats any design. `WatcherFairness` says that the watcher polls. `FairSpec` of `ScanDispatch` assumes that
PostgreSQL grants a lock that is released again and again, that a request whose
next statement can run runs it, and that a cancellation or deletion commits or rolls back; it never
relies on a time-out. `FairSpec` of
`EventConsumer` assumes that a loop takes its next step and that a process which is down
is started again; handlers may raise every time. `FairSpec` of `Enrichment` assumes that a
worker takes a queued message and goes on with a run that can go on, and that PostgreSQL ends a
deadlock; the provider may fail every time and the operator may play with the switch. `FairSpec` of
`ScanGraph` assumes that the event loop runs what is ready and that its timers fire; the resolver,
Nmap and even a killed process may do nothing for ever, with one exception: the leader that asyncio
has killed in the spawn window exits, because asyncio waits for it without a limit.

## Proofs

`ScanExecutionProofs` proves `InvariantHolds == Spec => []Inv` for any sets of scans
and workers, any bounds, and any limits with `SoftLimit < HardLimit < StaleLimit`
(`LimitsAssumption`, derived from `celery_app.py`). The properties are not inductive by
themselves:

- `OneExecutorPerScan` needs that a held row is past `pending` (`HeldIsClaimed`) and that a
  task holds a row exactly from claim to end (`JobsOfClaims`);
- `ReapedHasNoExecutor` needs that a task is at least as old as its row has been
  running (`TaskIsOlder`): then a stale row's task would be past the hard limit;
- `FindingsOnlyIfCompleted` and `EnrichedOnlyAfterCommit` need what the row lock
  preserves between the completing UPDATE and the commit (`HeldStatus`).

From it: `TypeCorrect`, `OneExecutor`, `FindingsAtomic`, `ReaperIsRight`,
`EnrichmentFollowsCommit`, and `ExecutionImplementsLife == Spec => ImplementsScanLife`, with one
lemma per group of actions.

For `ScanDispatch`, `ScanExecutionProofs` proves `LaunchInvariance` for any tenants, plans and requests
and any finite set of scans, in an instance: what `ScanDispatch` assumes of its constants is the
hypothesis `LaunchAssumptions`, and TLC evaluates it in the run `scan_quota`. A request past the tenant lock holds it (`HoldsTenant`), so what its UPDATE and its count
found is still true when it commits (`StillDispatchable`, `RoomLeft`): nobody else of the
tenant reserves in between, claims and midnight take nothing from the room it found, and a cancellation
or deletion cannot have the row open beside the dispatch (`NobodyWrites`); what it has open is a row
that exists (`WritesExist`), so its commit only frees places. From
it: `QuotaHolds` (with the theorems on cardinality) and `OnlyPendingDispatched`.

`AuthSessionsProofs` proves three invariants for any requests, numbers of sessions and cap
(`BoundsAssumption`: the cap is positive).

- `RotatesOnce`: a refresh keeps the token it was sent locked and live until it commits
  (`RefreshHolds`), a rotated token is revoked (`RotatedIsRevoked`) and no two requests issue the
  same session (`FreshIsNew`). `WritesLocked` says that the flush has taken the lock of every row
  written, without which a concurrent revocation could overwrite it.
- `RetryFindsAll`: revocations exclude each other by the lock of the user row, and an access
  token leaves `active_jtis` only after it was denied (`RevocationInv`).
- `CapHolds`: whoever is past the advisory lock holds it, and from the count and the eviction on the
  live sessions it is not going to revoke are fewer than the cap (`CapInv`). Revocations of others
  only lower the number; the least live session exists because the order of numbers is well founded.

`EventConsumerProofs` proves `Invariance` for any number of loops, any finite set of
logins (`LoginsAssumption`) and any counts. `NoSilentLoss` needs that a loop at its
acknowledgement has an entry with an outcome, `DeadOnlyAfterRetries` that the count a loop
has read is covered by handlers that raised (`Knows`, `CountsFailures`): both must survive
another loop handling, acknowledging or resetting the same entry. From it: `NothingLost`,
`NothingDeadEarly` and `ExhaustionKept`.

For `DistLock`, `TenantAccessProofs` proves `LeaseInvariance` for any requests and processes, in an
instance of the same kind (`LeaseAssumptions`, run `dist_lock`). `HolderOwnsLease`
needs that a SET still travelling belongs to a refused request (`LateIsRefused`), and
`LostHasNoLease` that no handle is lost before its grant and that a request told "not owner"
stays without the lease (`LostWasHeld`, `NotOwnerHasNoLease`). From it: `LeaseIsExclusive`
and `LostHandleIsFree`.

`EnrichmentProofs` proves `Invariance` for any functions, levels, orders, tasks and bounds.
`OkHasItsContent`, `NoDowngrade` and `ContentKept` speak of committed rows and need what the row
lock preserves until the commit: two runs never hold the same row (`RowsHeldOnce`), and what a
run is going to commit respects the row it will replace (`DraftsRespectRows`), which rests on a
run having an identity (`RunsAreLoaded`, `OkHasItsKey`). `NoOrphans` needs that a DELETE waits for
uncommitted rows (`NoDraftsAfterDelete`). From it: `CacheIsRight`, `NoRowOutlives`,
`SuccessIsKept` and `TextIsKept`.

`InventoryProofs` proves `Invariance` for any rows, foreign keys (`TreeAssumption`: they form a
forest of depth three at most) and requests, from four invariants. `LifeInv`: what a request
inserts nobody else has seen, what it changes exists, what it says it has deleted is gone
(`RowsOfRequests`); it gives `EventsAreTrue`. `TreeInv`: the parent of an uncommitted row is live and
no uncommitted DELETE cascades to it (`ParentsHeld`), because a DELETE and an INSERT beneath it
block each other in either order; it gives `NothingOrphaned`. `AssetInv`: uncommitted assets
differ from each other and from every committed one (`AssetsDiffer`); it gives
`AssetsStayUnique`. `PairInv`: a request that is not stale writes a pair that was judged as a whole,
the columns it leaves alone included (`Judged`); it gives `OnlyStaleBreakPairs`: the race that
`ScanConfigFits` exhibits is the only way to a pair that does not fit. `UpdatesAreKept` needs that an
UPDATE holds its row until the commit (`RowLocked`) and sets only what its body named (`Asked`).

`ScanGraphProofs` proves four invariants, the last on top of the others, for any assets, answers, reports, output cap
(`OutputAssumption`: positive) and number of cancellations. `FailedRunsAreKilled` follows from one
invariant of the run (`RunInv`): a failure of a run that has its process passes the final KILL, a
success finds the leader gone and nobody at the pipes, a spawn closed by its time limit finds the
leader gone, and only a cancellation ends a run elsewhere. The same invariant gives `DocumentsAreWhole`: while it reads, the
pipe holds exactly what was written and not yet kept (`NothingSkipped`), and an accepted exit finds
it empty. `FindingsOnlyOfCompleted` shows that findings of Nmap appear in the step that completes the
scan and in no other. `OnlyAllowed` needs that only a subnet has a second end (`AssetsAssumption`)
and that neither the asset nor the mode changes under the graph (`GateInv`). `CompletedWhole` proves `CompletedIsWhole`: there is one accepted document per address
family when the graph persists (`AllDocuments`, from `FamiliesAssumption`: addresses are of family 4
or 6), and every finding in them is stored once (`Stored`). The second rests on two facts about
`NewRows`, proved from `ReportsAssumption` (scripts are sequences): every identity has a first
finding, which is kept (`FirstIsKept`, by well-foundedness), and only one (`KeptOnce`).

`LoginLockoutProofs` proves two invariants for any finite set of requests, any addresses, accounts and
endpoints, any window and any table whose limits and times do not decrease (`ConstantsAssumption`, the
shape of `_LOCKOUT_TABLE`).

- `CounterInv`: below the limit the counter has counted every wrong password but those whose INCR raised;
  at the limit no request begins to verify, so that those verified and those still being verified are
  together bounded (`TriesCounted`). `AttemptsBounded` alone is not inductive, as it does not say what
  the requests in flight may add. From it: `AttemptsAreBounded`, `CounterGetsTTL` and `LoginTypes`.
- `LockInv`: a lock that will still run after v ticks leaves a step of the table for every request that
  may extend it then (`Room`), those included that will have passed the precheck by that time
  (`Lockers`, `MayLock`). It is said of every v, since a tick turns v + 1 into v and a request passes the
  precheck of a lock at the moment it runs out. From it: `LocksAreBounded`. The proof attempt showed that
  the bound without `outlived` fails from three requests on: a reset lets new requests in, and the one
  that had read the old lock writes it back behind them.

`TenantAccessProofs` proves `AccessInvariance` for any requests, connections, users, tenants, plans and
bodies. A request is `Good`: what it was asked for exists and stays, and whose it is does too (`Asked`;
rows are never deleted and change no tenant, so a `foreign` target fails the comparison whenever it is
looked up), the
copies it works on agree with the tables in what no request changes, and its connection has its caller's
scope (`Copied`), and the change it is going to flush was judged by the policy that its caller's copy had
to pass (`Prepared`). Requests share neither a connection nor a new row (`Apart`), and a free connection
is clean (`FreeAreClean`). A step of one request keeps the others good because rows only grow in what
matters (`Grown`, `Framed`); what remains is one lemma per stage. From it: `ScopeIsCallers`,
`OtherTenantsUserIs403`, `PlanLimitKept`, `SuperadminKept` (the caller who deactivates a superadmin is
another superadmin, and active unless `orphaned`) and the action property `DeactivatedIsRevoked`.

Every invariant and every action property of the passing runs is now proved. Only model-checked: the liveness
properties `QueuedScanIsTaken`, `RunningScanEnds`, `CancelStopsExecutor`, `RequestIsAnswered`,
`EventSettled`, `TaskEnds` and `GraphEnds`, since TLAPS does not reason about fairness here.

## Findings

`auth_password_change`: a login that verified the old password, or a refresh whose row the
revoking UPDATE had to wait for, inserts its token after that UPDATE took its snapshot, and
the session survives a change documented to revoke all active sessions. Deactivation has
the same shape; there the session is usable again after a reactivation.

`inventory_pairs`: two PATCHes that read the same scan, one of the type and one of the configuration,
each validate the pair they would leave and each write one column; the committed pair is one neither
validated. `scans/service.py` (lines 8-11) says that this can never be persisted. Assets (a value that
does not fit the type) and vulnerabilities (closed without `closed_at`) are judged in the same way.

Behaviours of the models that a reader of the code should know and that no run states:

- `dispatch_scan` counts the rows that still exist and `delete_scan` removes a row in any status:
  launch, delete, launch again starts more scans in a day than `scans_per_day`, while the
  repository's README (line 301) expects 429.
- executor.py (lines 8-10) says that cancelling the task which runs the executor reaches the runner's
  clean-up and terminates the live Nmap process. A cancellation while `create_subprocess_exec` is
  awaited finds `process` None and skips the clean-up: asyncio kills the leader, here the `timeout`
  supervisor, and its descendants get no signal. A second cancellation while `run_nmap` gathers its
  cancelled readers, before the shielded clean-up starts, skips it too, and then not even the leader
  is killed. `FailedRunIsKilled` excepts cancelled runs for these two, and names the other processes
  that may survive: a descendant of a spawn that timed out, and after a success one that had closed
  its pipes, since that path never calls `killpg`.
- `_create_refresh_token` counts unexpired tokens and evicts the oldest unrevoked one, which may have
  expired; then no active session is evicted and the cap is passed by one. `SessionCapUntilExpiry`
  says that it holds until then.
- A fault between INCR and EXPIRE leaves an account counter without a TTL, and nothing sets it
  later; only a successful login, which the full counter refuses, clears it. `CounterExpires` says
  that nothing else can.
- Two failures that read the same `locked_until` overwrite each other: the lock may get shorter than
  the table says for that many failures, or come from a `now` captured before a wait. A failure that
  read the lock before a successful login cleared it writes it back, extended. `LockBounded` excepts
  the keys this has happened to.
- Outside demo mode a subnet is judged by `network.is_global`, which does not promise that both of
  its ends are global.
- The API may store a finding after `upsert_findings` has looked; the run then stores it again.
- Two PATCHes of a tenant that read the same plan and limit can leave `max_assets` above the plan;
  two superadmins who deactivate each other at the same time leave none. `PlanLimitHolds` excepts
  the tenants of the first (`stale`) and `SuperadminRemains` the second (`orphaned`).
- A user created while the tenant is being deactivated stays active in the inactive tenant, and is
  refused because of the tenant only.
- A duplicate email is a 409 for POST /users and a 500 for a PATCH that loses the race; an
  administrator's check cannot see other tenants, and the unique index can.
- `revoke_all_user_access_tokens` deletes `active_jtis` after denying what it read from it; an
  identifier added in between is deleted undenied, and no later revocation can find it.
- A login holds the advisory lock while its flush waits for the row it evicts, a refresh of
  that token holds the row and waits for the advisory lock; PostgreSQL ends the cycle with
  `deadlock_detected`, which is not turned into the controlled 503.
- `login()` repeats a publication that raised; when only the reply was lost, the login is in
  the stream twice. The only handler logs.
- When `wait_for` gives up a SET that Redis applies, nobody releases that lease before its TTL;
  and the dependencies never renew it, so a body that outlives the TTL commits without it.
- A late success for an older version of a finding overwrites the newer one; the next run finds
  the function due again, but `POST /scans/{id}/enrichment` counts it as done.

## Plan

In this order; each item adds its hazards' properties (`PROJECT.json` names the lines).

1. `ClientSession`: tabs of the web client, one refresh cookie, Web Lock and broadcast channel;
   composed with the rotation of `AuthSessions`. A sign-out is final, a rotation is not spent twice.
2. Changes of the plan beside `ScanDispatch` and of the tenant's JSON settings.
3. Pure algorithms against reference definitions: configuration validation, identity of findings.

Theorems: the promise of a lease as an abstract specification that `DistLock` implements, and the
foreign keys and unique emails of `TenantAccess`, which its runs hold (`TypeOK`) and no theorem needs.

## Not modelled

- LLM providers: HTTP requests and their translation; `Enrichment` takes any answer or failure.
- Dashboard: read-only queries.
- Configuration, event schemas, logging, metrics, middleware: validation at start-up and
  presentation; no state of their own. `Enrichment` and `EventConsumer` name the settings they use.
- `scripts/seed_db.py`, migrations, deployment: run by an operator, before the service does.
- Frontend: presentation, apart from the session client (first item of the plan).
