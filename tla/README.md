# WikiNext in TLA+

A verification development for WikiNext: TLA+ modules that model parts of the
program in `src/crates`, TLC configurations that check them on small instances,
and theorems with TLAPS proofs that hold for every instance. Paths below are
relative to the root of the repository, `src/`.

WikiNext is at its first milestone. It is a small service skeleton: two health
endpoints with cached probes, a migration command, a local storage, a
configuration with strict validation, a password service and, as the first
piece of domain logic, a permission resolver. What is hard in it is not size but
cancellation (every handler is a future that a timeout may drop), locks held
across awaits, processes that die while their database session lives, and the
order of checks in the resolver.

## 1. Inventory

| Part | State | Operations | Talks to |
| --- | --- | --- | --- |
| Health endpoints: `AppServices::readiness`, `::search_status` (`crates/app/src/runtime.rs`) under the layers of `crates/server/src/lib.rs` | per endpoint a `Mutex<Option<CachedReport>>`; the futures of the requests in progress | lock, answer from a fresh report, probe all components at once, store the report; request timeout; client disconnect | PostgreSQL, storage, Meilisearch |
| Permission resolver (`crates/core/src/policy.rs`) | none between calls; maps and cursors of its loops within one | `resolve` | nobody: pure |
| Migration and schema probe (`crates/store/src/postgres.rs`, `migrations/0001_schema_state.sql`) | in the database: the schema version, sqlx's record of migrations, grants, the advisory lock; in the process: its place in `migrate` | `migrate`, `diagnose`, `ensure_compatible_server` | PostgreSQL, through sqlx |
| Local storage (`crates/store/src/storage.rs`) | directories, their modes, probe files | `prepare`, `status`, `diagnose` | the filesystem |
| HTTP server (`crates/server/src/lib.rs`) | listener, a watch channel, open connections | `serve`, signal task, graceful shutdown, its deadline | health endpoints, the OS |
| Meilisearch client (`crates/search/src/lib.rs`) | none; one body buffer in a call | `diagnose`, `get_json`, `append_bounded` | Meilisearch |
| Configuration (`crates/app/src/config.rs`) | the configuration being built | `Config::load`, `MigrationConfig::load`, overrides, validation | files, environment |
| Passwords (`crates/app/src/password.rs`) | none | `hash_password`, `verify_password`, `needs_rehash` | argon2 |
| Commands (`crates/server/src/main.rs`, `AppServices::connect`, `run_doctor`) | the process's exit status | `serve`, `migrate`, `doctor` | all of the above |
| Identifiers, rendering settings, telemetry, scripts, `ops/postgres/init.sql` | none, or written once | - | - |

The parts call each other directly. Shared state exists in three places: the two
report caches (between requests), the database (between processes) and the
storage directory (between processes). The only callbacks are timers and the
dropping of futures.

What makes each part correct, and what is hard about it:

- **Health endpoints.** The lock survives every way a handler can end; one probe
  at a time however many clients ask; no verdict is told that is older than the
  design allows; every request is answered even if a filesystem call hangs with
  the lock held; the endpoint recovers when its components do. Hard: futures
  dropped at any await, the queue of the lock, timers that race answers.
- **Resolver.** Its loops compute the documented rules, reason included; damaged
  policies fail closed; a page lock cannot be bypassed; roles only add. Hard: the
  order of checks, repeated and unknown identifiers.
- **Migration.** Crashes, timeouts, late commits, retries and concurrent jobs
  amount to one atomic change; a later release that has migrated the same database is
  noticed before success is reported; an incompatible server is not touched; no failure
  blocks a retry. Hard: the process
  and its session fail independently and the outcome of a commit may be unknown.
- **Storage.** Only private directories without symbolic links are used; probes
  leave nothing behind unless interrupted; processes that start together do not confuse
  each other; what one has left half done the next completes. Hard: calls of two
  processes in any order, changes between a check and the use of its result.
- **HTTP server.** After a signal `serve` ends within the deadline, and not before
  its requests are answered if they are quick enough; the process ends too. Hard: two
  signals and their registration, clients that stall anywhere, an end and a deadline
  that race, filesystem calls that outlive the requests that made them.
- **Search client.** Bounded body, bounded time, two answers that belong together.
  Hard: responses of any length in any pieces, announced or not, and silence.
- **Configuration.** Nothing unvalidated is used, and nothing else is validated;
  secrets of the migration do not reach the server; what is accepted means the same to
  those who read it again. Hard: three sources, two loaders, several layers that check
  or parse the same values each in its own way.
- **Passwords.** What is hashed verifies and needs no rehash; no version, cost or
  length that keeps a hash from verifying goes without a rehash; hashes outside the
  bounds are refused before any work is done on them. Hard: three operations with
  three different conditions on one string.
- **Commands.** What `doctor` and a start report was so; a green `doctor` is followed
  by a start that succeeds; a migration makes the database fit for the server; every
  command ends; a failed start spoils nothing. Hard: futures beside each other, the
  world changing under them, the same parts arranged differently in two commands.

`PROJECT.json` lists the hazards one by one with their lines and the properties
that would catch them.

## 2. Plan

| # | Module | Models | State |
| --- | --- | --- | --- |
| 1 | `Diagnostics`, abstraction `ProbeGate` | cached health endpoints | checked, proved |
| 2 | `Policy` | permission resolver, with a declarative definition as abstraction | checked, proved |
| 3 | `Migration`, abstraction `SchemaUpgrade` | migration command and schema probe | checked, proved |
| 4 | `HttpServer`, abstraction `GracefulShutdown` | `serve`: signals, graceful shutdown, deadline, connections | checked, proved |
| 5 | `Storage`, abstraction `DataDirectory` | `prepare` and `diagnose` by several processes on one directory tree, under cancellation | checked, proved |
| 6 | `Configuration` | sources, checks and later readers of the configuration | checked, proved |
| 7 | `Password` | agreement of hash, verify and rehash policies | checked, proved |
| 8 | `SearchProbe` | bounded diagnostic requests to Meilisearch | checked, proved (as part of 9) |
| 9 | `Startup` | the three commands, composing 6 and 8 with 3 and 5 at the size of their promises | checked, proved |

The order follows importance: first what runs all the time and concurrently, then
the domain logic, then what changes persistent state, then what happens once per
process. `Diagnostics` composes with the parts it probes through the constants that
describe their calls; `Startup` EXTENDS `Configuration` and `SearchProbe`, takes of
`Migration` that it is one atomic upgrade which grants rights to one role
(`SchemaUpgrade`), and of `Storage` that a preparation completes a fit tree, in stages,
and refuses another (`DataDirectory`), and ends where `HttpServer` begins.

Every safety property of a passing run is proved; what is left to TLC is liveness
(section 5). Still wanted are the safety halves of termination, for every value of the
constants: that some part of a command can always go on, and that what goes on comes
closer to an end. No module that is proved about has a RECURSIVE operator.

## 3. Modules

Every action stands for a stretch of code between two points at which another
actor can intervene; `PROJECT.json` maps every definition to its lines. An
operator whose comment says "Mutant of" is not part of the model: it is a
plausible bug, kept beside the definition it would replace, to show that a
property can fail.

### Diagnostics

One module serves both endpoints, whose handlers have the same shape; constants
name the components that are probed (`Components`), the calls each probe makes
(`Stages`: the server version and then the schema version for PostgreSQL, one for
the storage) and the deadline of such a call (`StageTimeout`, 5 s for PostgreSQL,
none for the storage).

| Variable | In the code |
| --- | --- |
| `pc`, `age` | the handler's future of each client, and the request timeout's timer |
| `ahead` | the queue of tokio's fair mutex: whom each request waits for. Nobody ahead means the guard is held |
| `probe`, `stage`, `stageAge` | the futures under `join!`, their progress and the timers of their calls |
| `cache`, `cacheAge` | `Option<CachedReport>`: verdict and `checked_at.elapsed()` |
| `up`, `since` | whether each component works, and since when (only properties read `since`, and `AnswerDue`) |

`Arrive` is the call of `lock().await`; `ServeCached`, `StartProbe` and `Finish` are
the three stretches of `readiness`; `StageOk`, `StageFail`, `StageTimesOut` are the
results of a component's call. `RequestTimesOut` (TimeoutLayer, 504) and `Disconnect`
(hyper drops the handler) both `DropHandler`: the place in the queue or the guard is
released, a running probe is abandoned, the cache is not written. A fast component
reports before a slow one and `Finish` waits for all, as `join!` does.

Time is a `Tick` that is disabled while anything is due, and every age is kept only
up to the bound beyond which no guard or property distinguishes it (`Later`), so the
state space is finite without bounding the length of runs. A call may return at any
moment before its deadline; one that a working component has owed for `AnswerTime`
must return before time passes; one to a broken component may fail or hang.

`ProbeGate` is what the probed services see: a probe begins only if none is running
and there is no report younger than the TTL; a probe completes with a report or is
abandoned without one. `GateSpec` says that `Diagnostics` implements it with
`probing`, `report` and `reportAge` read off the handlers and the cache.

### Policy

`resolve` has no state between calls; what can go wrong is inside, so the module
has one action for each iteration of each loop: `CheckAccount`, `InsertRole` (with
the refusal of a repeated role) and `RolesDone` for `unique_roles`; `InsertOverride` and
`OverridesDone` for `unique_overrides`; `CheckSubjectRole(id)` and `SubjectDone` for the
loop over the subject's roles; `MergeRole(id)` for `effective_grants`; `Decide`. The
variables are the arguments, the maps being built, the cursor of the loop and the
result. `AskAgain(id)` is the next call, with the same policy, page and action, for the
subject with one more role; the history variable `earlier` remembers whether a call for
fewer roles has allowed, so `RolesOnlyAdd` compares decisions of the code with each
other and not with a definition. Sets of roles are visited in ascending order, as
BTreeSet does.

Beside it stands `Resolved`, which says without loops what the decision is:
`Grants` for the rule of one role and its override, `Issue` for the first defect of a
damaged policy, `Judge` for the rest. It follows the nine rules of
`docs/compat/rufoundation-acl.md` as the code implements them.

### Migration

Each job of `Migrators` has a process (`pc`: check of the server, setup of the
connection, the migrator's run, the query of the final probe and its judgement) and a
session in the server
(`session`: the statement it executes). In good times they move in step. `Crash`,
`Hang` followed by `Expire` (the deadlines of 5 s for probes and 300 s for all between)
and every error end the process only; the session ends later, in `EndSession`, and if
it was committing the commit may still happen. `Start` runs a failed job again,
possibly for another application role, once its old session is gone; a retry beside a
session that lives on is the second job, which is like the first. `answer` is the version
that the final probe has been told: it is read in the server (`ReadSchema`) and judged in
the process (`Diagnose`), and a later release may get in between.

| Code | Actions |
| --- | --- |
| `ensure_compatible_server` | `CheckServer`, and part of `ReadSchema` |
| acquire, four SETs, `set_config` | `Setup` |
| `MIGRATOR.run` (sqlx: advisory lock, applied migrations, one transaction each, unlock) | `Lock`, `LockTimesOut` (lock_timeout), `List`, `CreateTable`, `Grant`, `Commit`, `Unlock` |
| `0001_schema_state.sql` | `CreateTable` (table and its rows), `Grant` (fails for a missing role), `Committed` |
| `diagnose` | `ReadSchema`, `Diagnose` |

sqlx and PostgreSQL are not in the repository and are modelled from the way the
code uses them: a session-level lock that ends with the session, a transaction that
takes effect with its commit, a migration already on record is skipped, and one
unknown to the release is an error. The environment creates roles (`CreateRole`)
and lets a later release migrate the same database (`LaterRelease`).

`SchemaUpgrade` is what applications rely on: version, record and grants change in
one step, at most once for this release, and never go back.

### HttpServer

`wikinext serve` from the open listener to the end of the process.

| Variable | In the code |
| --- | --- |
| `handler` | per signal, whether `wait_for_shutdown_signal` has registered for it, with what result, and whether it came |
| `notified` | the watch channel |
| `server`, `conn`, `age` | axum's server; per connection its place between accept and close, and the request timeout's timer |
| `calls`, `storageHangs` | blocking threads inside the filesystem for a request, which dropping the request does not end |
| `draining` | the timer of the shutdown deadline |
| `outcome`, `process` | what `serve` returned; `main` running, dropping its runtime, ended or killed |

`Install`, `Signal` and `WaitIsOver` are the two branches of `wait_for_shutdown_signal`,
with their different answers to a failed registration: the one for Ctrl+C ends the wait,
the one for SIGTERM waits for ever (and leaves the signal its default effect).
`Notify`, `Drain` and `Late` are the three tasks connected by the watch channel;
`Return` is the `select!`, which may choose either branch when both are ready, and
`DropRuntime` the end of `main`. axum, hyper and tokio are external: an idle
connection is closed when the server drains, one with a request is served first; the
runtime drops its tasks and waits for its blocking threads. axum's server future has
no error of its own, so `ServerError::Serve` does not occur, and neither does a panic
of the signal task. Tasks that a second worker thread might still run between the
return of `serve` and the drop of the runtime are not given a step.

`GracefulShutdown` is what an operator relies on: from the notice on no time passes in
which new connections are taken, the end is good only with nobody connected and
bad only at the deadline, and only after it, or by a kill, is anybody cut. `ShutdownSpec`
says that `HttpServer` implements it, with the phase read off `process`, `outcome` and
`notified`, the time off the timer of the deadline, and the connections off `conn`.

### Storage

Any number of processes (the server, `doctor`) on one `storage.data_dir`. The tree is
a parent, which stands for all ancestors, the data directory, `blobs` and `tmp`; at each
path there is nothing, a private or another directory, a link or a file. An
administrator may `Replace` any of them at any time.

| Variable | In the code |
| --- | --- |
| `fs` | the tree |
| `pc`, `at` | the call of the filesystem that a process makes next, and its path |
| `preparing`, `verdict` | `prepare()` (start of a process) or `diagnose()` for a request, and its last result |
| `file`, `files` | the probe file of a process, all probe files in `tmp` |
| `abandoned`, `disturbed`, `was` | history for the properties: files that interruptions have left; whether anybody but the processes has made the tree unfit; what each process could have seen since it began |

`InspectAncestor`, `Ensure`, `Create`, `Inspect`, `Resolve` are the calls of `prepare` and
`ensure_directory`; `Status`, `Open`, `Sync`, `Remove`, `CleanUp` those of `diagnose`.
`Create` is DirBuilder with `recursive(true)`: one directory in a step, from the top, and
an existing directory is a success. When a process crashes or its request is dropped,
`Abandon` lets the call in progress take effect or not: tokio makes it on a blocking
thread that the drop does not stop. A mode is private (0700) or not; umasks that
take away the owner's rights, and directories that a process may not search, are left
out. If a path vanishes twice while its ancestors are being created, DirBuilder gives
up where the model goes on. `doctor` calls `status` once more before it exits, which
changes nothing. A probe file's name is a random UUID, so a number that no file has.

`DataDirectory` is the directory as its users have it, and as `Startup` takes it: absent,
partial, ready or unfit. Users complete it in two stages and never spoil it; unless
somebody has interfered, they are satisfied only with one that is ready, and refuse
none. `SharedDirectory` says that `Storage` implements it, by way of `Stage` (the
tree) and `Uses` (what each process is at).

### Configuration

Loading reads the file and the environment once, before anything else happens, and
has no effect but its result; so the module has one variable, `deployment`, and the
loaders are operators on it. A deployment is a file (its size, whether it can be read,
where it has keys that no structure knows, a value or `None` or `Garbage` per field) and
an environment (a value, `None` or `NotUnicode` per variable; the thirteen variables of
libpq are one, since they are all treated alike).

| Code | Operators |
| --- | --- |
| `read_bounded`, `toml::from_str`, the serde defaults | `Readable`, `FileParses`, `FromFile` |
| `apply_environment` (two of them) | `VariablesParse`, `Loaded` |
| `validate_database_url` and its loop over the query, `database_role`, `validate_search_url`, the rest of `validate` | `ValidDsn`, `QueryIsPlain`, `ValidRole`, `ValidSearchUrl`, `ValidDataDir`, `Validates` |
| `Config::load` | `RuntimeAccepts`, `RuntimeConfig` |
| `MigrationConfig::load`, `::build` | `MigrationAccepts`, `MigrationUrl`, `ApplicationRole` |
| `normalize_base_url`, `SearchClient::new`, `absolute_storage_path`, `init_tracing` | `ClientAcceptsUrl`, `ClientBuilds`, `StorageAcceptsPath`, `TracingStarts` |
| sqlx's parser of the same DSN (external) | `DriverHost`, `DriverSslMode`, `DriverUser` |

A DSN is the record of its parts, its query a sequence of keys and values, because
what repeated and unknown keys mean depends on their order; a role is its length,
its first character and whether the rest is plain; a path is the set of kinds of its
components. That an error names the first of several defects is not modelled.
`MigrationConfigFile` allows sections it does not know but not keys in those that it does
(`stray`), `Config` neither.

### Password

A stored hash is a record of what its PHC string says; `stored` is that record and
`Hash` replaces it. `Bounded` is `parse_bounded_hash`, `Verify` and `NeedsRehash` the two
questions that are put to a hash. What argon2 can compute at all (`Computable`: lower
bounds of costs and salt, two versions, a salt that decodes, no parameters that it does
not know) is external; three fields stand for what only it looks at: `accepted` (further
parameters: associated data and the name of a key are, others are not), `decodes` (the
salt) and `keyed` (made with a secret key, which the service does not have).
`needs_rehash` looks at none of the three, so a hash may need no rehash and yet not open
with its own password; `CurrentVerifies` says that this is so exactly for those three
(`Overlooked`), and that no version, cost or length gets past it. That two passwords do
not have the same hash is taken for granted. A string that gives a parameter twice is
outside the model: what the crates make of it cannot be seen in the repository.

### SearchProbe

`diagnose`: two requests, each a head (`Respond`) and chunks (`Chunk`) that are kept by
`append_bounded` (`Fits`), until the end of the body (`Decode`), an error (`Break`) or the
timeout of the request (`TimesOut`), which runs from the connection to the last byte. The
module has actions and no specification of its own: `Startup` runs it, with a width of
lengths (`Modulus`) small enough for a sum to wrap around. `sent` and `said` are history:
how much the server has sent, and what it has said of itself.

### Startup

| Variable | In the code |
| --- | --- |
| `deployment`, `secret` | the file and environment a command finds; the migration's variable differs from command to command |
| `command`, `pc`, `exit` | `cli.command`, the place in `run`, and its result |
| `db`, `st`, and the variables of `SearchProbe` | the futures under the `join!` of `connect` and `run_doctor` |
| `database`, `granted`, `tree` | what PostgreSQL and the filesystem hold between commands |
| `seen`, `green`, `migrated`, `faults` | history for the properties |

| Code | Actions |
| --- | --- |
| `Config::load`, `init_tracing`, or `MigrationConfig::load` | `Refuse`, or the first half of the next three |
| `AppServices::connect` | `StartServe`, `Connect`, `Prepare`, then `Diagnose` once both are in, `Connected` |
| `run_doctor` | `StartDoctor`, its three futures (`Connect`, `Diagnose`; `Prepare`, `Status`; `Search`), `Report` |
| `migrate` | `StartMigrate`, `Connect`, `Migrate`, `MigrateEnds` |
| `serve` | `Bind`, `Stop` |

`Begin` is an operator giving a command when the last has ended; commands do not run
beside each other (what that means for the database and the directory is what
`Migration` and `Storage` are about). `Kill`, `ChangeDatabase` and `ChangeTree` are the
faults. Connections succeed when the database is up; one that fails although it is
is an outage that comes and goes.

### Proof and model-checking modules

`DiagnosticsProofs`, `PolicyProofs`, `MigrationProofs`, `HttpServerProofs`,
`StorageProofs`, `ConfigurationProofs`, `PasswordProofs` and `StartupProofs` extend their
components with theorems; `MCDiagnostics`, `MCPolicy`, `MCMigration`, `MCHttpServer`,
`MCStorage`, `MCApplication` (for `Configuration` and `Password`) and `MCStartup` give the
constants values.

## 4. Runs

| Run | Bounds | Shows |
| --- | --- | --- |
| `readiness` (Readiness.cfg) | 3 interchangeable requests, 2 components, 3 calls, answer in 1 tick, call deadline 2, TTL 2, request timeout 3 | `LockNeverLost`, `NoStaleAnswer`, `GateSpec` |
| `readiness_live` (ReadinessLive.cfg) | 2 requests, TTL 1, request timeout 4 | `EveryRequestAnswered`, `RecoversOnceUp` under fairness |
| `readiness_overload` (ReadinessOverload.cfg) | as above with request timeout 3 | violates `ReportsReady` |
| `policy` (Policy.cfg) | two roles, five rules for each entry, up to two overrides; 20 damaged policies with up to four entries; six subjects and what they become with further roles, all page states, two actions | `ComputesResolved`, `FailsClosed`, `RolesOnlyAdd`, `LockHolds` |
| `policy_damaged` (PolicyDamaged.cfg) | the damaged policies | violates `InvalidIsDenied` |
| `migration` (Migration.cfg) | 2 jobs, each retried without bound; 2 roles; both kinds of server; every set of roles that exist | `OneMigrationAtATime`, `IncompatibleIsUntouched`, `SupersededIsNoticed`, `AtomicUpgrade`, `EveryMigrationEnds`, `RetriesSucceed` |
| `migration_roles` (MigrationRoles.cfg) | the same | violates `ApplicationIsServed` |
| `http_server` (HttpServer.cfg) | 2 connections, request timeout 2, shutdown timeout 3 | `ShutdownSpec`, `StartedHandlersFinish`, `ServeReturns`, `SignalEndsProcess` |
| `http_server_hung` (HttpServerHung.cfg) | 1 connection, the same timeouts | violates `DeadlineEndsProcess` |
| `storage` (Storage.cfg) | 2 processes, each restarted without bound; 6 trees to begin with; 2 faults (crash, dropped request, I/O error, intervention) | `SharedDirectory`, `FilesHaveOwners`, `SuccessWasSo`, `CreatesOnlyInside`, `FitIsUsed` |
| `application` (Application.cfg) | every file with at most one peculiarity beside every environment with at most one variable; 20 DSNs, 7 search URLs, numbers around both ends of their ranges, file sizes around the limit; 50,000 stored hashes with costs around their bounds, some with what only argon2 looks at, passwords of 0, 1, 1024 and 1025 bytes | `LaterReadersAgree`, `MigrationAgrees`, `OverriddenDoesNotMatter`, `PasswordsAgree` |
| `startup` (Startup.cfg) | 6 deployments, 2 roles, the secret given or not; every state of database and directory; commands without bound, 2 faults; limit 2, lengths modulo 4, chunks up to 2 | `GoodNewsIsTrue`, `GreenMeansGo`, `MigratedMeansServed`, `LimitHolds`, `CommandsEnd`, `StartsOnceRepaired` |

Why the bounds are enough to meet the interesting cases:

- Three requests give a prober, one that waits and one that arrives later, so that a
  waiting request can be dropped from the middle of the queue. Two components give a
  result that is in while another is still out. A request timeout of three ticks
  lies between one call and a whole probe with queueing, so requests time out
  queued, probing and not at all; a TTL of two has an inside and a boundary. Requests
  are symmetric in the safety run only; symmetry is unsound for liveness.
- With two requests, a probe of two ticks (two calls of PostgreSQL, one tick each)
  and a timeout of four, everyone is served after one probe of another; with a
  timeout of three not. That is the boundary the overload run is about.
- Policies of two roles let one restrict what another allows and what an override
  adds; damaged ones have their first defect in any position and of any kind.
- Two jobs are one more than an exclusive lock admits; a retry of either meets the
  other's leftover session.
- With two connections one can be cut while the other is served. The shutdown
  timeout is one tick above the request timeout, the least that lets a handler
  that was running at the signal time out before the deadline; one tick less, and
  the deadline may cut it (that is the mutant of `StartedHandlersFinish`).
- Two processes meet in every pair of calls. The trees are the three fit ones (nothing,
  an empty place, a complete storage) and three whose defect is found first, last, and
  only through a link; two interventions can make a fit tree out of each and the
  reverse. Two faults leave one process's work half done while another's is dropped.

- A defect of a configuration comes from one value, or from one of the file against
  one of the environment, so one of each in every pair is enough; the DSNs include
  each single defect and the repeated, renamed and overriding parameters in which
  the driver's reading could differ.
- With a limit of 2 and chunks of 2 a body can be of the limit, pass it in one chunk
  or in two, and wrap around at 4. Six deployments are one per way to be refused
  or not: by the loader for the server alone, by the client, by telemetry, by none; in
  one the role of the environment differs from the file's. Two faults are a kill and a
  change, or a change and its reverse.

`CHECK_DEADLOCK FALSE` appears where the system is done: a resolved permission, a
migration after which all jobs have succeeded, an ended process, a configuration that is
only looked at.

Fairness. In `Diagnostics`: a runtime polls woken futures and fires timers, so the
handler's steps, the timers and `Tick` are weakly fair; a component that works
answers. No fairness for clients, disconnects, failures or repairs. In `Migration`:
a process whose statement has been answered goes on, and one whose answer never
comes meets its deadline (`Step`, which includes both); the server ends the session of
a dead process; and for `RetriesSucceed` only, someone runs failed jobs again. Crashes
and hanging statements are unfair choices that stop when the environment says
so (`calm`), which need never happen. The two deadlines guard only answers that never
come: a slow but successful migration that runs into the deadline is `Crash`.
In `HttpServer`: the tasks of the runtime that can run do (weak fairness), and a
storage call on its own thread returns if the storage does not hang for ever (strong
fairness of `ReturnStorage`, since it may hang now and then). No fairness for clients,
who may stall in the middle of a request or of reading its response, nor for signals.
In `Startup`: loading, the futures under `join!` and what follows them are polled when
they can go on, and a request of the search probe meets its timeout if nothing else
ends it (`SearchTimer`); PostgreSQL's calls have deadlines, but those of the filesystem
have none (`LocalStorage::prepare`), so `CommandsEnd` assumes that they
return; the search server itself is owed nothing, nor does anybody
have to give a command, stop a server or repair anything.
In `Storage`: a process goes on with its calls, and one that is down or ready is
started or asked again, since a supervisor and a health check do that; none for exits
and faults, of which `MaxFaults` bounds the number in a run.

### Findings

1. **Readiness under overload** (`readiness_overload`). The request timeout covers the
   wait for the cache's lock. With more clients than fit one after the other into
   it, every prober times out before its probe completes, throws the probe away and
   leaves its successor with a clock that has been running as long: 504 for ever with
   every component up, though `docs/development.md:131` has `/readyz` depend on
   the components alone. The condition is (concurrent clients) x (length of a probe)
   against the request timeout; one probe is bounded only by 5 s + 5 s for PostgreSQL
   and by nothing for the storage, against 10 s in `config.example.toml`.
2. **Superusers and invalid policies** (`policy_damaged`). `policy.rs:115` promises a
   denial for every invalid input; an active superuser is allowed before the policy is
   looked at. `docs/compat/rufoundation-acl.md` has the order of the code.
3. **Grants of a second application role** (`migration_roles`). `docs/development.md:269`
   says that `migrate` grants the app role its rights, and line 246 that a missing role
   aborts it; both hold only for the run that applies the migration. Later runs with
    another `database.url` role succeed and grant nothing.
4. **The deadline does not force the process to end** (`http_server_hung`).
   `server/src/lib.rs:120` announces a forced end after the deadline. `serve` does return
   (`ServeReturns`), but `main` then drops the runtime of `#[tokio::main]`, which waits
   for its blocking threads without limit; a storage probe that hangs in the
   filesystem keeps the process until something kills it. `SignalEndsProcess` says
   what is true: the process ends if the storage does not hang for ever.

## 5. Proofs

The proofs hold for every value of the constants that satisfies the modules'
assumptions: any finite set of requests, any components, stages and deadlines with
`AnswerTime` below each deadline; any policies of well-typed lists over natural
identifiers; any jobs and roles; any connections and positive timeouts.

- **Diagnostics** (`ParametersAssumption`). The inductive invariant `IInv` has four
  parts. `TypeOK` includes that no age passes the deadline it is compared with,
  which holds because `Tick` waits for what is due. `QueueInv`: the queue is a strict
  total order, compatible with arrival (`OldestFirst`), and a prober is at its head; from
  its being finite and ordered follows that it has a head (`LockNeverLost`), by
  taking a request with the fewest ahead of it. `ProbeInv`: probe state exists only
  for a prober, who found no fresh report, and no call is older than its request.
  `AccuracyInv`: a result is at most as stale as its request is old, a report at most
  as stale as its age plus a request timeout; `NoStaleAnswer` is its
  consequence when an answer is given. `SingleFlight` and `OldestFirst` are theorems only: the
  first follows from the gate, the second is the fairness of tokio's mutex. `ImplementsGate` maps each step of the
  handlers to a step of `ProbeGate` or to none.
- **Policy** (`PolicyAssumption`). `LoopInv` says what each loop has established: a map
  built from the first entries of a list, all different; no defect in what has been
  read; roles visited in order; and `Credited`, that the grants so far are those of the
  visited roles, each to the credit of the smallest. The early returns are correct
  because the defect at hand is the first (`FirstIndex`, `LeastIsMin`). `Computes` is the
  result, and the other properties of one call follow from it by reasoning about
  `Resolved` alone (`AllowedByJudge`, `Verdict`). `RolesOnlyAdd` is about several calls:
  `EarlierInv` says what the running call owes its subject, and `AskAgainStep` keeps it,
  since by `Computes` the call that has ended gave `Resolved`, which further roles only
  widen (`MoreRoles`). Two comparisons of policies that no run makes follow from
  `Resolved` alone: `OnlyOwnRolesMatter` (a decision is a
  function of the entries of the subject's roles, wherever in the lists they are) and
  `StrictnessIsSafe` (whoever a policy with less allowed and more restricted lets in,
  the original does).
- **Migration** (`MigrationAssumption`). `LockInv`: a session is in the exclusive part
  exactly if it holds the lock, dead or alive process notwithstanding. `SessionInv`
  ties sessions to processes and to the check of the server. `SchemaInv`: version, record
  and grants agree, and what a session found out under the lock is still so. That is
  what makes a late commit harmless: at the time of the commit the version is
  still 0. `LaterReleaseIsNoticed` is a stability proof: `Superseded`, which says that a
  later release has migrated and this job has read nothing or that release's version, is
  kept by every step of anybody (`SupersededStays`, `SupersededStep`) and excludes success.
  `ImplementsUpgrade` maps the two places where a commit can happen to
  `Upgrade`, and everything else of this release to nothing.
- **HttpServer** (`TimeoutsAssumption`). `OutcomeInv` ties the outcome to its cause: Ok
  to no open connection, the deadline to all of its time having passed since the
  notification, a cut connection to the deadline or a kill. `TypeOK` bounds a
  handler's age by the request timeout, as in `Diagnostics`; a handler cut at the deadline
  is then younger than the notification if the deadline is the longer timeout
  (`HandlersFinish`). `ImplementsShutdown` maps the steps to those of `GracefulShutdown`; it
  needs in addition `ListenerInv`, that the listener is closed before time passes (which
  is because `Tick` waits for tasks that can run) and not before the notice. That Ok
  cuts nobody (`GracefulEndIsClean`) follows from `OutcomeInv`.
- **Storage** (`StorageAssumption`; the trees are arbitrary). `ProcessInv` says for
  each place of a process what it must have seen (`SeenBy`): from the inspection of a
  directory on, that it was private; from the comparison of the canonical path on, that
  there was no link. Facts are recorded when they hold and never forgotten within an
  operation, so a step of one process, or of the administrator, leaves what the others
  have seen (`Frame`). `SuccessIsTrue` and `CreatesInside` read their claims off the
  place of the step; `TopmostIsThere` finds the directory a recursive creation makes.
  `FilesHaveOwners` is inductive as it stands.
  `TypeCorrect`, `FitIsNeverRefused` and `ImplementsDirectory` need a second invariant, `UInv`.
  Its `ProbeInv`: running probes have files of their own, what has been abandoned is
  nobody's, and a fault abandons one file at most; so, by counting, there is always a
  name left for the next probe (`NewNameIsNew`), and names never pass the number of
  processes and faults. Its `UseInv`: a tree that nobody has interfered with is fit,
  nobody has refused it, and what a process has `Passed` on its way is private still,
  since the steps of others only complete the tree (`GrowingIsSafe`). `GrowingCompletes` maps the
  creation of a directory to a stage of `DataDirectory`; every other call is work
  that leaves no trace there.

- **Configuration** (`ConfigurationAssumption`: the shape of a deployment). No
  induction: the properties are about one deployment, which is arbitrary.
  `LaterReadersAgree` rests on `DriverReadsTheSame`: in a query of at most one parameter,
  named `sslmode` (`AtMostOne`), the last of any keys is the first, so the driver's reading
  and the validation's are one. `ServerCanBeMigrated` rests on `SameFields` and
  `SecretIsApart`: the two loaders make the same of the fields they share, and the secret
  is not one of them. `OverriddenIsFree` compares the loaded fields one by one.
- **Password** (`PasswordAssumption`). `PasswordInv`: the stored hash is well typed and,
  once made, is what `Hashed` makes of a valid password. The rest follows from the bounds
  and from `DefaultIsComputable`: a hash with the values of the policy can be computed
  unless argon2 refuses its further parameters or its salt.
- **Startup** (the assumptions of `Configuration`, `SearchProbe` and its own). `IInv` has
  `TypeOK` and five parts. `SearchInv`: a body is as long as what
  was sent of it, and a version is asked for only after an available health. `CommandInv`:
  a server or doctor that has started was accepted as it was loaded, without the secret. `SeenInv`: a future that has succeeded has seen what it
  looked for. `GreenInv`: what doctor has found in order since it was asked still is, so
  the futures of a later server do not fail. `MigratedInv`: the schema is current and the
  role of the deployment has its rights, which is the role of the server by
  `ServerCanBeMigrated`.

Only model-checked: the liveness properties (`EveryRequestAnswered`, `RecoversOnceUp`,
`EveryMigrationEnds`, `RetriesSucceed`, `ServeReturns`, `SignalEndsProcess`, `FitIsUsed`, `CommandsEnd`,
`StartsOnceRepaired`), as the prover handles neither fairness nor ENABLED.

## 6. Not modelled

- In `Configuration`, which defect an error names; the syntax of TOML and of URLs,
  percent-encoding in DSNs; the joining of search URLs with paths. The passwords have no
  caller yet: when they are hashed and replaced is not in the code.
- In `Startup`, commands at the same time, wrong credentials, and connections that
  fail while the database is up other than as an outage.
- Response headers, request ids, tracing and telemetry: layout and output without
  influence on any state.
- Identifiers, rendering settings: no behaviour. Repository scripts: they check the
  source tree. `ops/postgres/init.sql`: run once, part of Migration's environment.
- In `Migration`, a change of the server's version while a process runs, and the
  pool's reconnection; sqlx's table of migrations is its set of versions, and the
  four components of the schema table are one version.
- In `Diagnostics`, the texts of the checks; a report is its verdict.
