# orcacommon in TLA+

Specifications of the parts of `orcacommon` whose correctness depends on the
order in which goroutines, database sessions, HTTP requests and processes do
things, with TLC runs on small instances and TLAPS proofs of what they check.
`PROJECT.json` lists runs, mutants, the code lines behind each definition,
findings, hazards and theorems.

    tlc -config pool_resources.cfg MCPoolRegistry.tla     # check an instance
    tlapm PoolLifecycleProofs.tla                         # check the proofs

## 1. The system

| part | state it keeps | operations | behaviours that are hard |
|---|---|---|---|
| pool registry, `postgres/pool.go` | `poolRegistry.entries` (key -> entry with pool, `done` channel, resources) | `OpenPool(WithKey)`, `ClosePool(WithKey)`, `gracefulShutdown` | concurrent opens of a key, close and shutdown during a creation, failure half-way, release order |
| embedded Postgres, `pool.go`, `utils/embedded_pg.go` | `embeddedInstances`, `shuttingDown`, data and runtime directories, `postmaster.pid` | start, reuse, register, stop with SIGTERM / SIGKILL | start racing the shutdown, replaced servers, stale pid files and pids, timeouts, crashes |
| Cloud SQL and test containers, `pool.go` | the dialer or container, attached to an entry | create, attach, release | releasing under an open pool, leaking |
| migrations, `postgres/migrate.go` | advisory lock of a database session, revision table | lock, pending files, apply, record, unlock | replicas and goroutines migrating at once, pooled sessions, failure half-way |
| database configuration, `postgres/dbconfig.go` | none | choose the URL | precedence of settings |
| version manager, `litespaserver/version.go`, `dao.go`, `fetcher.go` | cached version and load time, `litespa_settings` row, listeners | `Version`, `ForceRefresh`, `SetVersion`, `OnChange` | TTL, shared reloads, writers racing readers |
| page serving, `litespaserver/serve.go`, `static.go`, `csp.go` | index cache, static cache, CSP rule | `ServeRoot`, `FlushCache`, `SetCSP` | capacity, flush racing a fetch, several versions |
| ephemeral authentication, `ephemeralauth/` | guest cookie, token (both in the browser), derived key | `GuestSession`, `IssuanceHandler`, `Issue`, `Verify`, `Protect` | a bot check between reading a request and answering it, parallel first requests, expiry, a rollout of another key |
| converters, network, log handler, `utils/` | none | pure functions | key conversion |
| mail client, end-to-end server | none | one request; wiring | none |

How they interact: the application calls the exported functions from any
goroutine. `OpenPoolWithKey` provisions a backend (`openCloudSQL`, `Connect`),
opens a `pgxpool` over it and caches it in the entry; then it migrates.
`init()` starts `gracefulShutdown`, which waits for SIGTERM or SIGINT and then
works on the same maps. The version manager reads and writes its row through a
pool; the page server asks the manager for the version and the fetcher for the
page.

What makes each part correct:

- pool registry: `resolvePool` returns a pool only while it is open (what a
  close does while the migrations run is the caller's to see); a pool is closed
  once, after its creation settled and after it left its entry; its dialer is
  released after that and is released; every call returns; the shutdown ends
  and leaves no registered server;
- embedded Postgres: every running server is registered or about to be stopped;
  data directories are removed when their server is gone and only then; calls
  end although servers hang, and the shutdown leaves no server;
- migrations: one replica migrates at a time, versions are applied in order and
  once, and a success means that the schema is current;
- version manager: after `SetVersion` the cache serves the new version, and the
  cache falls behind the row by no more than the TTL;
- page serving: a page is served under the version it was fetched for, caches
  stay within their capacity, a flush is not undone;
- ephemeral authentication: a token opens the API only for the guest it was
  issued to, within 180 seconds of its bot check; a good session is not
  replaced; a token that does not bind any more is not kept for good.

## 2. Modules

    PoolLifecycle              what one pool and its backend promise
        ^  ImplementsLifecycle
    PoolRegistryRefinement     the mapping
        |  EXTENDS
    PoolRegistry               registry, closes and shutdown
        ^
    PoolRegistryProofs <- PoolLifecycleProofs <- PoolRefinementProofs
    MCPoolRegistry             constants for TLC

    EmbeddedServer             servers, processes, pid files and directories
        ^
    EmbeddedServerProofs, MCEmbeddedServer

    SchemaHistory              what the history of one database is
        ^  ImplementsHistory
    MigrationRefinement        the mapping
        |  EXTENDS
    Migration                  runMigrations over pooled sessions
        ^
    MigrationProofs, MCMigration

    VersionManager             the version, its cache and its row
        ^                  ^
    PageServer       VersionManagerProofs, MCVersionManager
        ^                  ^
    MCPageServer     PageServerProofs

    EphemeralAuth              guest cookies, tokens and protected routes
        ^
    EphemeralAuthProofs, MCEphemeralAuth

### PoolRegistry

An action is the code between two points where goroutines interleave: one
critical section of `poolRegistry.mu`, `entry.mu` or `embeddedPGLock`, a wait
on `entry.done`, or one call to the outside. `pc[t]` names the point goroutine
`t` has reached; the other local variables keep the names of the code's where
they have one (`e`/`entry` is `ent`, the copied slice of `releaseAll` is `rel`).

Calls are numbered, and one number names the call, the entry it allocates, the
pool it opens and the backend it starts: a *generation* of the key. That loses
nothing, since a call allocates at most one of each, and it makes "an entry
holds a pool of another generation" expressible, although the model never
assumes it away: `CreateEntry`, `Store`, `TcAttach`, `Register` and the closers
name the entry and the key by the variables the code uses.

| code | actions |
|---|---|
| `OpenPoolWithKey`, `resolvePool` fast path | `OpenCall`, `Lookup`, `FastRead`, `FastWait` |
| `resolvePool` slow path | `Slow`, `SlowWait`, `Replace` (all through `CreateEntry`) |
| `openCloudSQL` | `NewDialer`, `NewPool`, `NewPoolFails` |
| `Connect`, any other URL | `ProvisionPlain`, `NewPool`, `NewPoolFails` |
| a backend that cannot be had | `ProvisionFails` |
| `Connect`, embedded | `StartServer`, `Register`, `StopOld`, `NewPool`, `NewPoolFails`, `UndoTake`, `UndoStop` |
| `Connect`, test container | `StartContainer`, `TcLookup`, `TcAttach`, `NewPool`, `NewPoolFails` |
| `resolvePool`, end | `Store`, `Fail`, `FailReleaseOne`, `FailReleased`, `RemoveFailed`, `CloseDone` |
| `OpenPoolWithKey`, end: `runMigrations`, with no lock held, and the return | `Migrate` |
| `ClosePoolWithKey` | `CloseCall`, `CloseRemove`, `CloseInst`, the drain, `CloseStop` |
| drain of one entry, the same statements in the close and in the shutdown | `Drain`, `ClosePool`, `Take`, `DrainReleaseOne`, `Released` |
| `gracefulShutdown` | `Signal`, `GsSnapshot`, `GsNext`, the drain, `GsInstances`, `GsStop`, `GsStragglers`, `GsStop2` |

`Return` is where `resolvePool` hands its pool over. If the caller has a
`Migrator`, the call goes on to `Migrate` and is over only then, with an error
if the migration failed; the entry is not locked meanwhile, so a close in that
window leaves the caller with a closed pool (pool.go:198).

Two choices keep the state space small and are sound for what is checked: the
lock of `entry.mu` nested in that of `poolRegistry.mu` is one action with it,
and a release or a stop always succeeds (a failing callback of `releaseAll` is
logged and the loop goes on, exactly as after a success).

### EmbeddedServer

`PoolRegistry` treats a server as a backend that starts and stops in one step.
`EmbeddedServer` opens these steps and leaves out what the other module has:
waits for a creation in flight and the closing of pools. Of the registry's
entries it keeps their presence (`open`). It adds what the code in
`utils/embedded_pg.go` looks at: processes, their ids, `postmaster.pid` files,
and the two directories of a server, the data directory (named by the caller,
`Dirs`, or created by `Connect`, `temps`) and the runtime directory of the key
(`runtimes`).

| code | actions |
|---|---|
| `Connect` with `ReuseEmbeddedPG`, `ensureDatabaseExists`, `CheckPIDFile` | `Reuse`, `EnsureDatabaseExists`, `EnsureFails`, `ReadPid` |
| `Connect`, a new server | `Prepare`, `PrepareFails`, `Started`, `StartError`, `StartTimeout`, `StopUnmanaged` |
| registration and replacement under `embeddedPGLock`, refusals in a shutdown | `Register`, `RefuseReused`, `RefuseNew` |
| `Connect`, the pool | `NewPool`, `NewPoolFails` |
| `ClosePoolWithKey` | `Close`, `Take`, then the stop |
| `stopWithForceKill` with `sendPostgresSIGTERM`, `KillEmbeddedPG` | `CheckSIGTERM`, `SendSIGTERM`, `SeenDead`, `CheckKill`, `SendKill`, `KeepDirs`, `Confirm`, `RemoveFiles` |
| `gracefulShutdown` | `Signal`, `StopAll` (both snapshots; a goroutine per key stops its server), `ShutdownDone` |
| the embedded-postgres library, Postgres, the operating system (external) | `Spawn`, `SpawnFails`, `ShutsDown`, `Ends`, `Dies`, `PidReused` |
| the program dies and is started again | `Crash` |

A call number names the call, its server, the server's port, the data directory
made for it, and the pid it has unless an old one is used again. A process that
has exited counts as dead whether it has been reaped or not, which is what
`IsProcessAlive` and `IsPostgresProcess` say of a zombie. The removals that end
a stop are one step. A signal is two: the code looks whether the pid is a
Postgres, and then signals whatever has the pid by that time. Which process
that is matters to the model only if it is a server; what a signal does to
another process is left out. Postgres refuses a data directory that another
server uses. `Stopped` is where `stopWithForceKill` returns to: the call of a
close ends, a replacement goes on to the pool, a refused server's call fails.
Idle goroutines are alike, so a call takes one of them (`CHOOSE`). The log
file, the choice of ports, URLs and the work of `initdb` are left out.

Asking a reused server for its database may fail whether it still takes
connections or not (`EnsureFails`). `ensureDatabaseExists` has no deadline in
the code; the model assumes that it returns.

Four variables are not in the code. `late`, `lost` and `left` record what the
code gives up: servers that come up after `startTimeout`, servers that a crash
or a stop mistaken about them left behind, and keys whose directories were left
in the same ways. `undercut` records the servers whose runtime directory was
removed on behalf of another generation of their key. What they say of a server
is dropped when it ends (`Forget`), since the properties are about running ones.

### PoolLifecycle and PoolRegistryRefinement

`PoolLifecycle` is the promise about one pool, without goroutines, keys or
entries: new -> serving -> retired -> closed, or new -> failed, with a backend
that is acquired while new and released only when closed or failed.
`PoolRegistryRefinement` reads the phase of a generation off the registry: a
pool serves while it is open and cached, is retired when it is open and its
entry settled without it, and a creation has failed from the moment its
goroutine enters the failure path. Backends are the Cloud SQL dialers, the
only kind the code ties to the entry of its own creation; the other kinds are
looked up by key, and the findings show what that costs.

### Migration

A statement of `runMigrations` is two steps: its goroutine takes a session out
of the replica's pool (`Acquire`), then the statement is executed and the
session given back. In between, other goroutines and the application
(`AppTake`, `AppGive`) use the pool, so the next statement may get another
session. The pool hands out the idle session that came back last and opens the
others in order. The advisory lock is a count per session (`held`): PostgreSQL
lets the session that holds it take it again, and an unlock elsewhere only
warns.

No statement names a schema. The SQL of a migration and the revisions table
`atlas_schema_revisions` are those that the `search_path` of the session finds:
`SchemaOf` is the `MigrationSchema` on a session where the path was set and the
`DefaultSchema` on any other. So there is a revisions table per schema
(`tables`, `recorded`), and a count of executions per schema and version
(`execs`). Where `MigrationSchema` is not configured it is the default one, and
the two are the same.

| code | actions |
|---|---|
| `OpenPoolWithKey`, calling `runMigrations` | `Call` |
| `SET search_path` | `SetPath` |
| `acquireAdvisoryLock` | `TryLock`: success, one more poll, or the deadline |
| `pgRevisions.init`, reading revisions, `embedDir`, `IsBaseline` | `InitTable`, `Pending`, `Baseline` |
| `executor.ExecuteN`, `WriteRevision` | `Exec`, `Record` |
| deferred `releaseAdvisoryLock` | `Unlock`, `UnlockFails` (logged and ignored: the lock stays) |
| error returns before and under the lock | `FailsOutside`, `FailsInside` |
| a process that dies | `Crash`: its sessions end, with them their locks and paths |

The Atlas executor is external: it is modelled by what `runMigrations` asks of
it, which is to execute each pending file and then write its revision. A
baseline marks the first version as applied in an empty revisions table. A
session that expires or breaks while its process lives is not modelled, except
as the failure of one statement.

`SchemaHistory` is what all of that is for: a database whose versions are
applied one at a time and in order, each recorded after it was executed and
never executed again, by nobody in particular. Its steps are `Execute`,
`Record`, `Interrupt` (a failure or a crash between the two, after which the
version may be executed once more) and `Baseline`. `MigrationRefinement` maps
`Migration` to it: the version being applied is the next file of the migrator
that is between `Exec` and `Record`. With several goroutines per replica this
is false (finding 5), and so it is with another schema than the default
(finding 4); with one goroutine each and the default schema, the lock of the
replicas makes it true.

### VersionManager and PageServer

A version that was read is the number of the write that put it into the row.
The code handles the name only, so numbers are never compared by the model's
guards; they make a cache that goes back to an older value visible, even if a
name is set twice. Goroutines that call `sf.Do` with the same key while one of
them runs the function wait for its result: the leader is the one at `query`,
`store` or `settle` (a reload), or at `fetch`, `keep` or `deliver` (a page).

| code | actions |
|---|---|
| `NewManager`, `seedDefaultIfAbsent` | `SeedCheck`, `SeedWrite` |
| `Version`, `ForceRefresh` | `Version`, `ForceRefresh`, then `ReadCache`, `Join`, `Query`, `Store`, `Settle`, `Answer` |
| time passes the TTL | `Expire` |
| `SetVersion` | `SetVersion`, `Validate`, `Persist`, then as `ForceRefresh`, `Notify` |
| `ServeRoot`, `serveRootInner` | `Request`, the version, `Lookup`, `Share`, `Fetch`, `Keep`, `Deliver`, `Respond` |
| `SetCSP`, `FlushCache` | `SetCSP`, `Listeners` (if the application registered `FlushCache` with `OnChange`) |

`PageServer` extends `VersionManager` and replaces the start and the end of a
call; index and static requests differ in their cache, their key and their
capacity. A page is identified by the version and target it was fetched for, so
a response can be compared with its request. Static files and the index go
through the same actions because `retrieve` and `serveRootInner` have the same
statements.

### EphemeralAuth

The servers keep nothing about a guest; all state is in browsers and on the
wire. Tabs of a browser share its cookie jar and send one request each at a
time, so parallel requests are those of several tabs. A handler is one step
once its request has arrived, except `IssuanceHandler`, which calls the bot
verifier over the network: `IssuanceHandler` is its part before the call and
`Judge` its part after it, with the request and the release it began with.

| code | actions |
|---|---|
| `GuestSession` around `ServeRoot` | `GuestSession` |
| `IssuanceHandler` with `TurnstileVerifier`, `Issue` | `IssuanceHandler`, `Judge` (`BotVerdict`, `Issue`) |
| `Protect` with `Verify`, `hasRequiredScopes`, `clientIP` | `Protect` (`Verify`, `Bound`, `hasRequiredScopes`) |
| a server restarted with another `Config` | `Deploy` |
| browser, script and network (external) | `Send`, `Receive`, `Follow`, `Reload`, `Close`, `Move`, `Lose` |
| time | `Tick` |

A signature is the key it was made with, a context hash the value hashed, and a
new guest id one that nobody has; forged or colliding values do not occur. A
token carries the seconds it has left instead of its expiry. `recent` is not in
the code: it records when the verifier said "success" and for which session,
address and user agent, which is what the properties compare tokens with. A
script follows `frontend-integration.md`: it renews its token on 401 only.

## 3. What is checked

| run | instance | shows |
|---|---|---|
| `pool_resources` | 2 goroutines, shutdown, a Cloud SQL key and a test-container key, 3 calls, pools that fail to open, migrations that fail | type invariant, `CachedPoolOpen`, `ClosedOnce`, `DialerOutlivesPool`, `DialerReleased`, `OneUndisturbedPool`, `ContainerOnOwnEntry`, `ResolvedOpen`, `WaitsForCreator`, `ImplementsLifecycle` |
| `pool_live` | 2 goroutines, shutdown, an embedded key and one with a plain database, 3 calls without a Migrator, creations that fail, fairness | `NoForgottenServer`, `ShutdownLeavesNoServer`, `CallsReturn`, `ShutdownCompletes` |
| `embedded_servers` | 2 goroutines, shutdown, one key, one named data directory, 3 calls, 1 fault of any of six kinds, fairness | type invariant, `TempUnderServer`, `RuntimeUnderServer`, `NoStrayServer`, `NoResidue`, `CallsReturn`, `ShutdownStopsServers` |
| `pool_singleton` | 3 goroutines open one key, a creation may fail | `OnePoolPerKey` fails (finding 1) |
| `pool_server_under_pool` | 3 goroutines open and close one embedded key | `ServerOutlivesPool` fails (finding 2) |
| `pool_close_server` | the same | `ServerStopped` fails (finding 3) |
| `migrate_replicas` | 2 replicas with one goroutine each, applications on the same pools, 2 sessions per pool, the default schema, 2 versions, 2 calls, a crash, failures, fairness | type invariant, `ReplicasExcluded`, `LockCovers`, `ExecutedOnce`, `SuccessMeansCurrent`, `ImplementsHistory`, `CallsReturn` |
| `migrate_schema` | 1 replica and its application, another schema than the default, 1 version | `WithinSchema` fails (finding 4) |
| `migrate_together` | 1 replica, 2 goroutines | `AppliedOnce` fails (finding 5) |
| `spa_pages` | 2 goroutines, 2 versions, index and one static file, caches of one page, 3 calls, failing queries, fairness | `AnswerForward`, `CacheForward`, `PageOfVersion`, `WithinCapacity`, `RequestsAnswered` |
| `spa_set_version` | 2 replicas, 3 goroutines, 2 calls, nothing fails | `SetRefreshes` fails (finding 6) |
| `auth_tokens` | 1 browser behind a proxy, with a tab whose script calls the API and one that only loads pages, 2 servers, 2 releases, 2 places, fairness | `TokensVerified`, `AdmittedVerified`, `SessionKept`, `TokenGivenUp` |

Bounds. `MaxCalls = 3` with two goroutines is the smallest instance with a
creation in flight, a second call that waits for it or closes it, and a third
that comes after one of them returned and meets what it left behind; the
shutdown runs beside them. Two keys are enough to tell apart an effect on the
own key from one on another key: no action reads more than one key's slot,
except the two snapshots of the shutdown. The goroutines are interchangeable,
so runs without liveness properties use symmetry. Calls end when `MaxCalls` are
made; `Quiet` is then the only step, so TLC's deadlock check stays on and shows
that no call is left waiting.

For the servers, one key with a named data directory and temporary ones is the
instance: a call may name `d1` or nothing, so two generations of the key can
share `d1` or not, one can find the server of another running, and a crash lets
a later generation find one that no instance names. Two keys that share a data
directory add no further step to these (the code reads and writes files by
directory and instances by key), and the proofs cover them. One fault is enough
for every recovery in the code, since a server that hangs, at its start or at
SIGTERM, and deadlines that pass early are no faults in this model but possible
at any time; for the safety properties the proofs allow any number of faults.
The calls of `pool_live` have no Migrator: that a migration ends is
`CallsReturn` of `migrate_replicas`.

The migrations need two calls, so that one meets what the other left (a lock,
a half-recorded version, a busy pool), two sessions per pool, so that a
statement can find its session taken, one poll, so that waiting and the
deadline both happen, and one crash. Two versions make "the rest is not tried"
visible. For the pages, one replica is enough: another one reaches it only by
writing the row, which a `SetVersion` that has not refreshed yet does as well;
capacity one makes every second page evict; three calls allow a reload that
begins before a write and ends after the reload of the writer.

One browser is enough for the tokens, because a server compares a request with
its own token only; the second session that a token can meet comes from the
second tab. A tab without a script sends page requests that cross those of the
other one, in a small state space. Two sessions at a time are the least with
which a cookie is replaced, two places the least with which an address changes.
The two releases differ in key, lifetime (600, above the maximum, and 0, the
default), scopes and required scopes, and the two servers take them in any
order. A step of time is 180 seconds: it ends every token and every bot check
together, and the proofs cover all other steps.

Fairness. For the pool, `Fairness` is weak fairness of each goroutine's `Work`
and of `Shutdown`: the Go scheduler runs every goroutine that is ready, and the
waits in this code are on a channel that stays closed (`entry.done`) or on
mutexes whose holders do not block. Calls to the outside (a server start, a
pool close) return, because the code gives them deadlines or has no answer when
they hang. Nothing is assumed about the arrival of calls or of the signal. In
`EmbeddedServer` one weak fairness is enough, on the steps of all goroutines
and the shutdown (deadlines pass: `StartTimeout`, `CheckKill`) and on the end
of a process that got SIGKILL or has removed its pid file: the calls are
bounded, so there are finitely many such steps, and one of them is taken as
long as there is one. A server need not start, nor heed SIGTERM; the question
that `ensureDatabaseExists` puts to it is answered or fails, which is an
assumption, since the code sets no deadline. In `Migration` the goroutines'
steps are fair, and so is `AppGive`: the application gives its connection back,
without which every `Acquire` may wait forever. In `PageServer` the steps of a
call are fair; time (`Expire`) is not. In `EphemeralAuth` time passes and
scripts send what they are about to send, and a request that is sent again and
again gets through some time (strong fairness of `Protect` and `Receive`: the
network does not lose everything). No fairness is assumed of users, deployments
or the verifier.

`TokenGivenUp` is worth a remark. A mismatch of the binding is answered with
403 (middleware.go:58) and the documented script renews on 401 only
(frontend-integration.md:231, with the comment "Token expired or binding
changed"), so a guest whose cookie was overwritten by a parallel answer, or who
changed networks, gets 403 until the token expires. The run shows that it does
not last longer: without the expiry check it would last for good.

Findings, each a run that TLC finds violated:

1. `OnePoolPerKey`. After waiting for a creation that failed, `resolvePool`
   puts a new entry under the key without looking again (pool.go:258), and a
   failed creator removes whatever entry is under its key (pool.go:281). Two
   waiters create two pools; one of them is open and unreachable.
2. `ServerOutlivesPool`. `ClosePoolWithKey` takes the entry and the server in
   two critical sections (pool.go:308-311). An open in between gets its fresh
   server stopped under its pool.
3. `ServerStopped`. The same function takes the server before it waits for the
   creation in flight, so the server registered meanwhile stays.
4. `WithinSchema`. `SET search_path` is one statement on one pooled session
   (migrate.go:70), and the following ones may run on another session with the
   default path. The SQL of a migration and its revisions may then end up in
   different schemas, and a version be executed once in each.
5. `AppliedOnce`. Between two statements of a migration its session is idle in
   the pool; another goroutine of the process takes the lock again on it
   (migrate.go:217) and executes a version that is being executed.
6. `SetRefreshes`. `refresh` joins a reload in flight that read the row before
   (version.go:60); `SetVersion` returns true and the old version is served,
   freshly loaded, until the TTL passes.

Four more observations without a run of their own. The unlock of a migration
may run on a session without the lock, or fail (migrate.go:231 logs it and goes
on), so the lock stays held after `runMigrations` returned, until its session
runs another unlock or closes, and other replicas time out meanwhile;
`LockCovers` says only that it is never released too early. The fallback of a
failed reload was read before the goroutine became the leader
(version.go:46-51), so it may be older than the cache; `AnswerForward` excludes
it. `seedDefaultIfAbsent` may overwrite a version that another replica sets
between its two statements. The comment of `FlushCache` says that it is called
through `OnChange`, but `NewServer` does not register it; `FlushListens` covers
both.

The exceptions in the properties of `EmbeddedServer` are what the code gives up
or gets wrong:

- `undercut`. The runtime directory is named after the key (pool.go:502), and a
  stop removes it without looking whose it is. A registration that replaces the
  server of an earlier generation stops that one (pool.go:825) and thereby
  removes the directory from under the server it has just registered; a close
  that overlaps an open, and a failing start of the same key, do the same. The
  code does not exclude any of these. `RuntimeUnderServer` says what is left:
  a server loses its runtime directory by no stop and no failed start of its
  own.
- `late`. When `Start` does not answer within `startTimeout`, its goroutine is
  left to itself (pool.go:780): the server may come up later, in directories
  that are made again after `Connect` removed them, and no instance names it.
- `lost`. A stop takes a missing pid file for the end of the process
  (pool.go:453), and Postgres removes that file before it exits. The stop then
  goes on to its last check: if the process is still there its directories are
  kept for good, and it is never sent SIGKILL should it hang.
- Two keys may share a data path, one of them by reuse. A stop takes the pid
  for SIGTERM from the pid file (pool.go:549), hence may stop the server that
  another key has meanwhile started there; closing the one key stops the server
  under the other one's pool in any case. A replacement under one key and one
  data path stops the server that was just found running and registered.
  `pool_test.go:295` tests the sequential case, in which this does not happen.
- A server that was found running is not registered when the shutdown has begun
  (`RefuseReused`) and runs on. `ShutdownStopsServers` holds: either another
  instance of this program has it and is stopped, or an earlier run of the
  program left it, and it counts as `lost` until it is registered.
  pool.go:629-631 promises the stop of the instances that are registered.
- `ReuseEmbeddedPG` does not check that the pid in the file is that of a
  Postgres, and `CheckPIDFile` may have no pid when it is read a second time:
  then an instance with pid 0 is registered, of which a stop knows the data
  directory only. The port decides, so no wrong server is used.
- Between looking at a pid and signalling it (pool.go:560-569,
  embedded_pg.go:196-204) the process may end and another one take its pid: it
  gets the signal. The runs and the proofs include that; for servers of the
  program it means one more that stops, for other processes the code has no
  more to say.

`OneUndisturbedPool` and `ContainerOnOwnEntry` say what remains true of the
first and of test containers: as long as nothing fails and nothing is closed.

## 4. What is proved

The theorems about the pool hold for every set of goroutines and keys, every
assignment of backend kinds, every bound on calls and every set of faults, from
the single assumption `PoolRegistryAssumption` (the shutdown goroutine is no
caller, `NoKey` is no key, `Kind` is a function on keys, `MaxCalls` is a
natural).

Those about servers need `EmbeddedAssumption`: the shutdown's goroutines, which
have the names of the keys, are no callers, and the names of data directories
are no call numbers. They hold for all sets of goroutines, keys and named
directories and for all faults.

Those about migrations need `MigrationAssumption`: finitely many goroutines,
each in a replica, pools of at least one session. Those about versions and
pages need `VersionAssumption` and `PageAssumption`: goroutines run in
replicas, published versions are versions, capacities are positive. Those about
tokens need `AuthAssumption`: tabs belong to browsers, releases have an integer
lifetime, time passes in positive steps.

| theorem | says |
|---|---|
| `TypeCorrect`, in four modules | `TypeOK` of their component always holds |
| `CachedPoolOpenHolds` | a cached pool is open |
| `ClosedOnceHolds` | a pool is closed by one goroutine, while open |
| `SettledStaysHolds` | a drained entry stays drained |
| `WaitsForCreatorHolds` | who waits for an entry waits for a goroutine that creates it and waits for nobody |
| `CallsAdvanceHolds`, in three modules, `RequestsAdvanceHolds` | every step of a call brings it nearer to its end: no call loops |
| `ResolvedOpenHolds` | `resolvePool` returns a pool only while it is open |
| `DialerOutlivesPoolHolds` | an open Cloud SQL pool has its dialer |
| `LifecycleImplemented` | `PoolRegistry` implements `PoolLifecycle` |
| `DialerReleasedHolds` | the dialer of a generation that is over is released, once nobody works on it |
| `NoForgottenServerHolds` | a running server is registered under its key or in somebody's hands |
| `ShutdownLeavesNoServerHolds` | after the shutdown no server is registered or waits for its stop |
| `OneUndisturbedPoolHolds` | one open pool per key, while nothing fails or is closed |
| `ContainerOnOwnEntryHolds` | the container of a pool is on the list of its own entry, likewise |
| `KeepsTemp` | a server has the data directory made for it as long as it runs |
| `KeepsRuntime` | and the runtime directory of its key, unless another generation's stop or failed start removed it: its own do not |
| `NoStrays` | a running server is registered or in somebody's hands |
| `LeavesNoResidue` | directories go with their server |
| `ShutdownAccountsHolds` | when the shutdown is over nothing is registered, and a server that runs is lost, killed, or in the hands of a call on its way |
| `LockCoversHolds` | the advisory lock covers every goroutine that migrates |
| `ReplicasExcludedHolds` | goroutines that migrate together are of one replica |
| `RecordedExecutedHolds` | what a schema records was executed in one of them, or is the baseline |
| `AppliedInOrder` | nothing is executed or recorded before all that precedes it is recorded, in whatever schemas, with any number of migrators |
| `SuccessMeansRecordedHolds` | a call without an error leaves every version recorded, in some schema |
| `SuccessMeansCurrentHolds` | with the default schema, it leaves them all recorded there |
| `ExecutedOnceHolds` | with the default schema and one migrator per replica, versions are executed once unless a failure came in between |
| `HistoryImplemented` | under the same conditions, `Migration` implements `SchemaHistory` |
| `SessionsExclusive` | a session serves one statement, or the application, at a time |
| `CacheForwardHolds` | a version cache never goes back |
| `AnswerForwardHolds` | an answer is no older than what its caller saw, unless the reload failed |
| `LeaderRefreshesHolds` | a `SetVersion` that leads its own reload, and is answered, has refreshed the cache |
| `PageTypeCorrect` | `PTypeOK` always holds |
| `PageOfVersionHolds` | a response has the page of its version and path |
| `WithinCapacityHolds` | the page caches keep their capacities |
| `OneFetchHolds` | a replica fetches a page once at a time |
| `WaitersServedHolds` | who shares a fetch or a reload waits for a goroutine in flight that waits for nobody |
| `TokensVerifiedHolds` | a live token has a bot check of its own context, not older than 180 seconds |
| `AdmittedVerifiedHolds` | a call is let in only after such a bot check |
| `SessionKeptHolds` | a settled browser keeps its session |

The argument:

- `TypeInv` (PoolRegistryProofs) adds to `TypeOK` what a goroutine's locals are
  at each program point: without it `CreateEntry` or `ClosePool` could write
  outside the tables, so `TypeOK` alone is not inductive.
- `LifeInv` (PoolLifecycleProofs) says who may touch an entry. A call number is
  run by one goroutine (`UniqueCalls`) and its entry is unknown to all until it
  creates it (`Virgin`); the creator opens, stores and settles in this order
  (`Creations`); a drainer holds an entry that is listed nowhere and that
  nobody else drains (`OneDrainer`, `DrainedUnlisted`, `SnapUnlisted`), of a
  settled creation (`Drains`). `CachedPoolOpen` needs all of these: it breaks
  if a creator could store after a drain or two drainers could meet.
- `ClaimInv` is the other half of that, and why nobody waits in vain: an entry
  that anybody has seen is settled, or some goroutine is between its creation
  and `close(entry.done)`. `resolvePool` closes the channel on its error paths
  too, and each of the invariant's cases is one of them. `WaitsForCreator` does
  not say by itself that the wait ends; `CallsAdvance` does the rest, by giving
  every program point a rank (`Rank`) that each step of its goroutine lowers,
  except for a release, which shortens the list. What is left to the fairness
  of the run is that goroutines take their steps.
- `DialerInv` (PoolRefinementProofs) adds what may be released: a list of
  resources holds no dialer but that of the entry's own call (`ResOK`,
  `RelOK`), and what is stopped as a server is a server (`HeldOK`,
  `InstancesOK`, `StoppingOK`). Hence no release reaches another generation's
  dialer.
- `ShutdownInv` says what `gracefulShutdown` has still to do: from its signal
  on `shuttingDown` is set (`Warned`), and after its second snapshot the map is
  empty (`Cleared`) because `Register` tests the flag under the same lock. A
  snapshot taken is not empty only while it is worked off (`SnapAt`,
  `StoppingAt`).
- `ServerInv`: a live server is registered under its own key, or some goroutine
  is at a point at which it has the server in hand. Registering and taking are
  one critical section each, so a server changes hands but is never in none.
- `OwnerInv`: a live dialer is on the list of its entry or on one that a
  goroutine took from there. The list of an entry is not filled any more once
  its creation has settled, so whoever takes it last takes the dialer.
- `CalmInv` is "disturbed, or calm": a failure, a close or a shutdown leaves a
  trace for good (`DisturbedStays`), and until then every entry that was
  created is the one under its key (`ListedMaking`, `ListedDone`), nobody
  replaces an entry, and a container is attached to the entry that it was
  started for. The two properties hold in calm states only, so the invariant
  must carry the disturbance along.
- The refinement has one lemma per group of actions; most steps leave phases
  and backends alone (`PhaseWalk`, `PhaseReturn`, `BackendKept`), and each of
  the others is one step of the life of one generation.
- `Base` (EmbeddedServerProofs) is `TypeInv`, which ties a goroutine's locals
  to its program point, with `Starts`, what a `Connect` knows of the server it
  started, `PidFiles`, by which the pid file of a running server names that
  server or is gone and no two servers share a directory, and `PidsOK`, by
  which no other process has a running server's pid. A step either brings one
  server up or is calm (`NextServers`): servers keep pid and directory, or end.
  The theorems then add one invariant each: `Holding` and `RemoveOK` (an
  instance holds the server of its data directory, and who removes files has
  seen that one dead); `Strays` (somebody answers for every running server);
  `Residue` (somebody holds the directories); for the runtime directories
  `RemoveOK` is enough, since who removes one for a generation has seen the
  server of that generation dead, and any other server under the key is noted.
- `ShutdownAccounts` is the safety half of `ShutdownStopsServers`: `Emptied`
  says that `Register` adds nothing once `StopAll` has run, because it tests
  `shuttingDown` under the lock that `StopAll` holds, and `Strays` that
  whatever is not registered is in hand. What is in the hands of a call is
  refused and stopped by it, and the call ends because its measure decreases:
  `ToDo` counts two passes through `stopWithForceKill`, for the replaced server
  and its own.
- `RecordInv` (MigrationProofs) ties what a migrator has read to the revisions
  tables, which only grow: a version that a call does not have to do any more
  is in one of them (`Known`). With the default schema there is only one
  (`OneSchema`), and what is known is what the schema has. `OnceInv` accounts
  for every version that was executed and is not recorded: a failure or crash
  interrupted it (`interrupted`), or the one goroutine that migrates is about
  to record it. With one migrator per replica the lock makes that goroutine
  alone; without that the last step fails, as finding 5 shows.
- `HistoryImplemented` needs no further invariant than these and `LeftInv`
  (what is still to do is not recorded): with `ReplicasExcluded` at most one
  version is between its SQL and its revision. `AppliedInOrder` is about any
  number of goroutines, which overlap and may have looked for what is pending
  at different times: each of them goes through its list from the front, and
  the table only grows.
- `LockInv` (MigrationProofs): statements of a replica run on its own sessions
  (`Own`), at most one session holds the lock (`OneHolder`), and it holds it as
  often as there are goroutines inside. A goroutine that enters finds the lock
  free for its session, hence that session is the holder if there is one; one
  that leaves takes away at most one; a crash takes all of a replica's or
  nothing. `ReplicasExcluded` alone is not inductive: it does not say why the
  lock is still held.
- `VInv` (VersionManagerProofs): one goroutine of a replica reloads at a time
  (`OneLeader`), so what it read is no older than the cache (`Ahead`), and what
  anybody saw is no newer (`Behind`). Without the shared singleflight key of
  `version` and `refresh` the first part fails, and with it the theorem.
- `LeaderRefreshes` separates the two ways a reload can go for `SetVersion`:
  the leader of a reload reads the row after its own write, and what it read is
  stored before it leaves, so only a joined or a failed reload leaves the cache
  behind. Finding 6 is the joined one.
- `OneFetch` and `SharersLed` (PageServerProofs) are inductive together: a
  request fetches only where nobody fetches the same page, it shares only where
  somebody does, and the key of a fetch does not change under those who share
  it. The leader's `Deliver` wakes all of them in one step. The same for
  reloads is `ReloadersLed`, proved for `VersionManager`.
- `PInv` (PageServerProofs): pages lie under their own keys (`RightPlace`), a
  request has its own page or none (`RightBody`). The key of a request that has
  its version is fixed, because only the request changes `val` and `target` and
  the row only grows.
- `IInv` (EphemeralAuthProofs): `TokensVerified` for every token in a tab or on
  the wire, and `InFlight`, by which the second half of `IssuanceHandler` still
  has the cookie that the first half verified. Time takes the same from tokens
  and from bot checks (`LessBounds`), and a token starts with no more than its
  bot check has, whatever lifetime is configured (`ClampBounds`). A request
  that passes `Protect` has the context of its token, hence of a bot check.

Only model-checked: the liveness properties, `CallsReturn` in three runs,
`ShutdownCompletes`, `ShutdownStopsServers`, `RequestsAnswered` and
`TokenGivenUp` (TLAPS has no proof rule for fairness here). Of these the
theorems cover what does not depend on fairness. Calls do not loop, in any of
the four models that have calls: each has a measure that the steps of its
goroutine lower and nobody raises. Waits end: in the pool for a creation in
progress (`WaitsForCreator`), in the manager and the page server for a leader
in flight (`WaitersServed`), for embedded servers by deadlines, which are steps
of the goroutine itself. (A migration's statement waits for a session, which
the fairness of `AppGive` is about.) And what a shutdown leaves running is in
somebody's hands (`ShutdownAccounts`). All other properties of the passing runs
are theorems.

Three theorems have a condition on the constants besides the module's
assumption. `SuccessMeansCurrentHolds` needs the default schema (the
`MigrationSchema` is the one that a session without a `search_path` works in),
which is what `DBConfig` has unless it is configured otherwise.
`ExecutedOnceHolds` and `HistoryImplemented` need that and one goroutine per
replica that migrates, as in a program that opens its pool once when it starts.
The code ensures neither; findings 4 and 5 show what happens without them.
`AppliedInOrder`, `SuccessMeansRecordedHolds`, `RecordedExecutedHolds` and the
theorems about the lock hold for any schema and any number of goroutines.

## 5. What is not modelled, and the plan

Known limits, of the code as the models show it and of the models:

- A call with a Migrator returns a pool that a close may have closed while the
  migrations ran (pool.go:198). `Migrate` does it, and `ResolvedOpen` speaks of
  the end of `resolvePool` only.
- Cleared entries of another caller (pool.go:281, `RemoveFailed`), the container
  of an entry that is gone or of another generation (pool.go:887, `TcAttach`)
  and servers that come up late (pool.go:780, `late`) are behaviours of the
  models that no property forbids.
- A full page cache that already holds a version evicts another one for nothing
  (serve.go:274); `WithinCapacity` is the bound only.
- `AdmittedVerified` asks that some server saw the bot check pass, not which.
- A pool that is not embedded and is opened after the shutdown's snapshot
  (pool.go:367) is neither refused nor closed. The model does it, but no
  property forbids it, since the code does not promise otherwise.
- A page that is being fetched when `FlushCache` runs is stored after it
  (serve.go:230), and the two observations on `seedDefaultIfAbsent`
  (version.go:148) and on the fallback of a reload (version.go:72) above: the
  models do these too, and the properties leave room for them.
- In `PoolRegistry` a stop always succeeds, and a server does not die by
  itself; `EmbeddedServer` has both, without the waits between calls.
  `embedded_servers` and the pool runs check the two views separately, and the
  code they share, `Connect`'s registration and `ClosePoolWithKey`, is in both.
- The failure to remove a directory is logged and ignored by the code, and is
  not modelled.

Left out, with the reasons:

- the choice of a response in `serveRootInner`, the CSP rule, nonce insertion
  and log formatting: pure functions on text, tested by the repository;
- converters and key conversion: text as well;
- database configuration: settings read once, in a fixed order;
- the mail client and the end-to-end server: one request, and wiring;
- cryptography, base64 and what Cloudflare does with a bot token besides its
  verdict.

The plan of the beginning (registry, refinement, migrations, versions and
pages, tokens, servers, and the proofs of their safety properties) is done.
What would add most next:

1. An abstract specification of a server (starting, running, stopping, gone,
   and its directories with it), implemented by `EmbeddedServer` as long as
   nothing is late or lost.
2. The pure functions against references, where two functions must agree: key
   conversion there and back, and the prefix of a migration's version.
