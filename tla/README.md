# microJBase in TLA+

microJBase is a small backend over PostgreSQL: an authenticated data API
(`/v1/data/:alias`), a schema-admin lane that creates and changes tables, row
security and policies and decides which tables the data API exposes, and a
management UI over that lane. The process holds little state of its own. What
is hard about it is what happens between its awaits: queries the driver gives
up on and the server finishes, connections that go back to a pool, commands
that are checked before they take the lock, a snapshot that must follow a
registry, sessions that expire while their request waits, a page whose answers
come back late, processes that die or start together.

This directory models those parts, model-checks them on small instances (TLC)
and proves the most important results for every value of the constants
(TLAPS). `PROJECT.json` lists components, runs, mutants, hazards, theorems and,
under `map`, the source lines each definition stands for. Paths below are
relative to the repository root.

## 1. Inventory

| Component | State | Operations | Talks to |
|---|---|---|---|
| Schema-DDL executor (`src/database/schema-ddl.ts`) | none of its own; one transaction on one pooled connection | `execute(plans, options)`: BEGIN, hardening, advisory lock, claim, statements, succeed, COMMIT; the compilers of sealed plans | admin pool, operation log |
| Operation log (`schema-operation-log.ts`) | rows of `microjbase.schema_operations` | `begin`, `succeed`, `fail`, `get`, `list` | called by the executor in its transaction; `get` by the services |
| Exposure service and registry (`schema-exposure.ts`, `exposure-registry.ts`) | rows of `exposure_registry`, the `initialized` guard, grants | `expose`, `unexpose`, one-time import, read | executor, catalogue, refresher |
| Mutation service (`schema-mutations.ts`) | operator tables and columns | eleven table and column commands | executor, catalogue, served snapshot |
| Row-security service (`schema-rls.ts`) | `relrowsecurity`, `relforcerowsecurity`, policies | enable, disable, add and remove policy | executor, catalogue, served snapshot |
| Constraint service (`schema-constraints.ts`) | indexes, unique and foreign keys | create and drop | executor, catalogue |
| Table registry and refresher (`table-registry.ts`, `main.ts`) | the served snapshot, `latestTicket` | build, list, get, install, refresh | durable registry, data service |
| Transaction runner and data lane (`transaction.ts`, `data-repository.ts`, `data/service.ts`) | none; transaction-local identity | list, get, create, update, delete | runtime pool, snapshot |
| Authentication (`auth-repository.ts`, `auth/*.ts`, `http/auth-routes.ts`) | `users`, `sessions` | register, login, authenticate, logout | limiter, runtime pool |
| Rate limiter (`http/rate-limiter.ts`) | entries per address and endpoint | check, evict | auth and admin routes |
| Pools (`pool.ts`, `schema-admin-pool.ts`) | connections, `closed` | connect, query, close | PostgreSQL |
| Start-up and shutdown (`main.ts`, `core/lifecycle.ts`) | `shuttingDown` | start, close | everything |
| Migrator (`scripts/migrate.ts`, `migrations/`) | `schema_migrations` | one migration command | PostgreSQL, the directory |
| Admin routes (`http/admin-mutation-routes.ts`, `admin-routes.ts`) | none | parameters and bodies of 22 commands | services |
| Management UI (`admin-ui/`) | token, two caches, open form, retry timer | login, navigate, load, open, edit, dry run, apply, sign out | admin routes |
| Catalogue, snapshot, role checks, configuration, errors | none | read-only queries, parsing | - |

How they interact. A route calls a service; a service of the admin lane looks
its key up in the operation log, preflights a command against the catalogue
and the served snapshot without any lock, and hands sealed plans to the
executor, whose guard statements check again under the advisory lock. After a
successful `expose` or `unexpose`, a replayed one included, the service awaits
the refresher, which rebuilds the snapshot the data service resolves aliases
in. Data requests and registration run in a transaction each, on the runtime
pool; schema commands on the admin pool. The UI holds the operator's token and
talks to the admin routes only; every form carries one idempotency key, with
which it is dry-run, applied and retried. The migration command shares nothing
with the server but the database. There are no worker threads and no timers
but those of the driver, of shutdown and of the page. All concurrency is
between awaits, between sessions of PostgreSQL, and between processes.

What makes each part hard, and what makes it correct:

- **Executor.** A driver timeout rejects an await while the server goes on; the
  answer of a COMMIT may be lost; ROLLBACK may never be sent. Correct if a key
  runs at most once, history and schema change together, nothing durable is
  `running`, a dry run leaves nothing, and each answer is true.
- **Schema commands.** Preflights, and the registry snapshot they look into,
  are stale by the time a plan runs; a used key skips them. Correct if an
  exposed table keeps its columns and its forced row security, comes by no
  foreign key that rewrites rows around row security, types change along the
  matrix only, nothing is dropped unconfirmed, and a retry is answered with its
  record.
- **Registry and refresher.** Refreshes overlap, fail, are overtaken, and read
  several rows in separate queries. Correct if the snapshot is always one whole
  state the registry had, never an older one than before, and current once all
  is quiet.
- **Start-up.** Processes race for the import; imports arrive late. Correct if
  the registry is seeded once, only from a process's own configuration, and
  never against the operator's word.
- **Data lane.** Connections are reused between users. Correct if a pooled
  connection carries nothing over, a request changes only its caller's rows, at
  one moment and as a whole, and is answered truthfully.
- **Sessions, limiter, shutdown.** The clock moves while a request waits;
  the limiter's table is full; the server closes under requests. Correct if a
  request runs as a user only in a session good when it arrived, too many
  attempts are refused and nobody else is, and shutdown cuts nobody off.
- **Migrator.** Two commands at once, a directory replaced under them, a
  refused statement, a death. Correct if each migration runs once, is recorded
  as it ran, and a run is whole or leaves nothing.
- **UI.** Answers arrive late, out of order or never, over a page that has
  moved on. Correct if nothing is applied that was not dry-run, a form changes
  the schema at most once, and the page never waits for nothing.

The full list of hazards, each at its line, is in `PROJECT.json`.

## 2. Modules

| Module | What it is |
|---|---|
| `OperationRecords` | rows of the history and `classifyExisting` |
| `PgSessions` | external: sessions, transactions, advisory lock, rows of PostgreSQL as the executor uses them |
| `SchemaDdlExecutor` | `execute()` over the two above, with pool, driver and process failures |
| `IdempotentCommands` | abstract: what the admin lane promises of a command |
| `SchemaCommands` | the 22 commands of the four schema services, over the catalogue |
| `ManagedTables` | tables, row security, policies, durable exposure, as far as the registry sees them |
| `RuntimeRegistry` | commands as calls, the refresher and the served snapshot |
| `MonotoneView` | abstract: what the snapshot promises of the registry |
| `RegistryImport` | `start()` of racing processes and the one-time import |
| `DataTransactions` | `withTransaction`, the requests of the data lane, registration |
| `AtomicRequests` | abstract: what the data lane promises of a request |
| `RateLimiter` | `InMemoryRateLimiter.check` as functions of its table |
| `AuthLane` | the auth routes behind the limiter, sessions, the clock, shutdown |
| `Migrator` | the migration command, several at once |
| `AdminContract` | forms, request bodies and routes of the 22 commands, as three tables |
| `AdminUi` | the management page and its requests in flight |
| `MC*` | constants, initial states and symmetry for TLC |
| `*Proofs` | theorems |

`SchemaDdlExecutor` extends `OperationRecords` and `PgSessions`;
`RuntimeRegistry` extends `ManagedTables`; `AuthLane` extends `RateLimiter`;
`AdminUi` extends `AdminContract`. Four refinements are stated, checked and
proved, the first as long as no ROLLBACK is dropped: `SchemaDdlExecutor`
implements `IdempotentCommands` (`KeepsPromise`), `RuntimeRegistry` implements
`MonotoneView` (`FollowsRegistry`), `DataTransactions` implements
`AtomicRequests` (`KeepsPromise`), and `SchemaCommands` implements
`ManagedTables` (`PlansAreManaged`). The first and the third are what lets
`SchemaCommands`, `RuntimeRegistry`, `AuthLane` and `AdminUi` take a command,
or the registration transaction, as one step that takes effect as a whole,
fails, or loses its answer. The last is what lets `RuntimeRegistry` run on
`ManagedTables` in place of the whole catalogue: no plan of the 22 commands
does to row security, policies, columns or exposure what `ManagedTables` has
no action for.

### Executor (`SchemaDdlExecutor`, `PgSessions`, `OperationRecords`)

`pc[c]` is the query the call awaits: `begin`, `lock` (session hardening and
`pg_advisory_xact_lock`), `claim` (`operationLog.begin`), `run` (the statement
loop, one statement per step), `succeed` and `reread` (`operationLog.succeed`
and its read back), `commit`, `rollback`. `conn`, `pool` and `inflight` are the
check-out of a connection, its state in the pool, and the query on it that the
client has given up on. A schema change is the pair of the call and the number
of the statement, so the durable `schema` shows exactly what took effect.

At every await the query may succeed, be refused by the server, time out at the
driver, lose its connection, or the process may die. A timed-out query that had
been sent stays in flight and the server finishes it (`FinishAbandoned`); what
the client sends next queues behind it, and a queued query whose own timer
fires is never sent (`QueryTimesOut`, `RollbackDropped`).

Abstracted: the hardening statements (they succeed or fail like a read), the
text of the statements, ids and timestamps of rows, and the actor fingerprint.
Plans are one sequence of `NumStatements` statements. Lock and statement
timeouts of the server are `QueryRefused`. `RollbackMayBeDropped` is the one
switch: whether a ROLLBACK may expire in the driver's queue. It can, so the
properties that need it not to are checked and proved with `FALSE`, their
failure with `TRUE` is finding 1, and those that hold anyway are checked and
proved with either.

### Schema commands (`SchemaCommands`)

A call is `LookUp` (the record under its key, before anything else),
`PreflightCommand` (the service's checks against the catalogue and `served`,
the snapshot of the registry, of whatever age), `Probe` (the second query some
commands send: is the policy there, are there rows, are there nulls), and one
of `Execute`, `ExecuteDryRun`, `FoundInLog` and `Fail`. `MayDropColumn` and its
like are the preflights of the service methods; `DropColumn` and its like are
the plans, whose first conjuncts are the guard statements compiled into them
and whose others are what PostgreSQL itself asks and does: an index goes with
its column, a policy or a foreign key forbids the drop. A used key skips the
preflight, as in the services; `FoundInLog` then compares the command with the
record. `source` is the column type a conversion is compiled from, which is
part of the command on record.

A behaviour starts where the lane does, after `start()` (`main.ts:133-163`): the
catalogue is any the operator's own migrations may have made, and the registry
lists, and the process serves, any tables of it that `buildTableRegistry`
accepts (`Verifiable`: forced row security, a policy, the primary key). It asks
nothing of their foreign keys, so an imported table may take part in one that
rewrites rows; `unchecked` remembers which do, until they are unexposed. It is a
history variable: no action reads it.

Abstracted: identifier syntax, object names (a tuple of kind, table and column
in place of `deterministicObjectName`), composite keys, default values, the
rows themselves (a probe may find either).

### Tables, exposure and the snapshot (`ManagedTables`, `RuntimeRegistry`)

`ManagedTables` keeps of the commands what the registry can tell apart, so that
`RuntimeRegistry` can afford to interleave them with refreshes read by read. It
has one action per plan (`Expose`, `Alter`, `Rename`, `DisableRls`, ...), whose
first conjuncts are the guards evaluated under the lock; `SchemaCommands`, which
has the same plans over the whole catalogue, implements it. In
`RuntimeRegistry`, `Commit` is such an action with its entry in `history`, the
exposed sets the registry has had (a ghost). A call is preflight, `Execute`,
and, for `expose` and `unexpose`, the refresh: a ticket, the registry rows, then
per table two reads of `verifyTable`, then `Install`. `done` is the set of
commands on record; a key on record for another command (`Recorded`) fails in
the preflight or in the executor, whichever meets it.

Abstracted: `execute()` is one step that takes effect as a whole, fails, or
loses its answer with the COMMIT still able to arrive. The runtime role's
grants on a table exist exactly while its row says exposed, because
`compileMarkExposed` and the grants are one plan. `verifyTable` sends eight
queries; they are two reads, what is checked before the columns and the columns
themselves. Column commands are one kind, `alter`. Policies are a set of
templates. One process serves; a second one would have a snapshot of its own and
no link to the first.

### Start-up (`RegistryImport`)

`pc[p]` follows `start()`: read the guard and the rows, validate the
configuration, read the guard again in `importInitialExposure`, call the SQL
function (one atomic step under its own lock), and read what is there; after a
failed import, compare the winner's set. An import whose caller gave up may
still be run. Commands of the operator through any process that is up are one
step each here.

### Data lane (`DataTransactions`)

The same scheme of awaits, connections and abandoned queries as the executor,
with what differs in `withTransaction`: BEGIN is inside the try, the identity
is set with `set_config(..., true)`, and a connection whose ROLLBACK fails is
destroyed. Rows have an owner and the call that wrote them last; row security
is the owner policy of migration 0004. A write waits for another transaction's
write of the same row. Registration writes an account and a session without an
identity. Abstracted: column lists, values, pagination.

### Authentication, limiter and shutdown (`AuthLane`, `RateLimiter`)

A request goes from phase to phase, one per await: a registration `hash`,
`insert`; a login `find`, `verify` (or `dummy` for an unknown email), `create`;
a logout `revoke`; a data request `lookup`, `run`. `now` is the time the
service read with `new Date()`, before it waited for a connection: a session's
expiry and the question whether it is active use that time, not the moment of
the query. The limiter is asked first, on arrival; `check` is translated in
full, with its eviction of expired entries and of the entry closest to its
reset; its table is the code's `Map`, and `nr` the order of insertion in it. A
query may fail without effect, or take effect and lose its answer; on a closed
pool it is refused. `server` follows `core/lifecycle.ts`: `app.close()` returns
once the requests in flight are answered, then the pools close.

Abstracted: the token of a session is the number of the request that issued
it, a password is right or wrong, an email or a token well-formed or not; the
registration's transaction is one step.

### Migrator

A command lists the directory (`List`, which refuses gaps: `WellNumbered`),
begins, locks, reads what is applied, and then reads each file in turn, skips
it if it is recorded with the same text, gives up if with another, and
otherwise runs and records it (`ReadFile`, `RunSql`, `Record`); one COMMIT ends
the run. A refused statement leads to ROLLBACK; a death or a lost connection
leaves the end to PostgreSQL, which may still commit a COMMIT on its way. The
operator replaces the directory at any moment, so a file may be gone or
different by the time it is read. A file is a version, a name and a text, which
is its checksum as well.

### Management UI (`AdminUi`, `AdminContract`)

The page's variables are `token`, `screen`, `route`, `content`, the two caches,
`timer`, and the open `form`; `requests` are those it awaits and those it gave
up after 15 seconds, which the server may still serve. The operator's actions
are the event handlers up to their first await, the client's the code after it;
the server answers, refuses (rate limit, then token), or loses its answer.
Another client changes tables in between. `AdminContract` holds, for each of the
22 commands, the fields of its form, the body the client builds and what the
route takes; `FormsFitRoutes` compares them over all fillings. A filling maps
each field to one of a few contents, and the body is such functions merged with
`++`.

Abstracted: markup, focus, formatting; a form's content is one entry, valid or
not; the model of a table is its exposure and its row security.

## 3. External assumptions

None of this code is in the repository; it is modelled from how it is used.

- node-pg: a query whose `query_timeout` fires while it is active is abandoned
  by the client and finished by the server; one that fires in the queue is
  removed unsent. `client.release()` without an error returns the connection to
  the pool as it is, with an error or on a broken connection it is destroyed.
  The pool takes an idle connection before it opens one.
- PostgreSQL: read committed; BEGIN inside a transaction only warns; COMMIT of
  an aborted transaction rolls back; a transaction-level advisory lock and a
  `set_config(..., true)` end with the transaction; a unique index or row lock
  makes a writer wait for an uncommitted one; a session whose client is gone is
  rolled back, unless its COMMIT was already sent. What DDL drops, rewrites or
  refuses by itself is marked in `SchemaCommands`.
- The browser: one thread, handlers run to their next await, `fetch` answers in
  any order. Fastify: `close()` waits for requests in flight and takes no new
  ones.

## 4. Runs

Every run stops where its bounds stop it (calls are one-shot, requests,
launches and crashes are counted), so deadlock is not checked, except in
`schema_commands` and `used_column`, whose end is a step of its own (`Done`).
That nothing waits for ever is what `LockAndConnectionsComeBack`, `Answered`,
`EveryRunEnds` and `NeverStuck` are for.

| Run | Instance | Shows |
|---|---|---|
| `executor` | three calls (retries of one key; one perhaps with another command, as a dry run or under another key), two connections, one statement, one process death, no dropped ROLLBACK | `KeepsPromise`: the executor implements `IdempotentCommands`, so a key takes effect once, at one moment, as a whole, never in a dry run or after a refusal, and is answered truthfully; `NoDurableRunning`; and what that comes to for the durable state, `HistoryTellsTheSchema` |
| `executor_faults` | two such calls, two connections, two statements, ROLLBACKs dropped | `AtMostOnce`, `ExclusiveWriter`, `CommittedRowsAreFinal` hold nevertheless; `LockAndConnectionsComeBack`: every call ends, its connection comes back, and no connection keeps the advisory lock |
| `leaked_dry_run` | two calls, one connection | finding 1 |
| `registry` | up to three calls that race with the exposure of one of two tables, a rename among them, one perhaps a retry or another command under the same key, one restart | `RowSecurityHolds`, `QuietMeansCurrent`, `ServedColumnsHold`, and the snapshot implements `MonotoneView` (`FollowsRegistry`) |
| `rebuild` | two calls, one policy template | finding 2 |
| `registry_import` | two processes, three launches, every configuration of two mappings, two operator commands | `DecisionsStand`, `StartsFromRegistry`, `AdoptsOnlyItsOwn` |
| `schema_commands` | three calls over two tables and a spare name: any two of the 36 requests, one perhaps sent twice, and 15 races of three; the first table imported or not, and no rewriting key, one from it or one to it | `NoCascadeAtExposed`, `ExposedIsFrozen`, `SafeConversionsOnly`, `OnlyConfirmedDrops`, `RetryIsReplayed`, `ReusedKeysAreRefused`, and the plans implement `ManagedTables` (`PlansAreManaged`) |
| `used_column` | the same | finding 3 |
| `data_lane` | two requests that meet (two users after one row, a writer and a reader, two registrations, a registration and a creation), two connections, one process death | `PooledIsClean`, `RunsAsItself`, `SeesOwnRows`, `OthersRowsAreKept`, `Answered`, and the data lane implements `AtomicRequests` (`KeepsPromise`) |
| `auth` | four requests, two in flight, one attempt a window of two ticks, room for one counter, sessions of one tick, one failing query, a shutdown | `TypeOK` (above all the bound of the limiter's table), `RunsInActiveSession`, `FewPass`, `RefusedOnlyWhenUsedUp`, `NobodyCutOff` |
| `migrator` | two commands over five directories (a release, the same edited, a later one, one with a migration put in between, one with a gap), two replacements, one refused statement, two deaths | `RanOnceAsRecorded`, `RunsAreWhole`, `EveryRunEnds` |
| `admin_ui` | two tables, two forms opened of three kinds, three requests, two awaited at once, one change by another client, from a page some time after sign-in | `FormsFitRoutes` (over all 22 commands), `AppliedWasPreviewed`, `OneChangePerForm`, `NeverStuck`, `RefusedOnlyWhenStale` |

What some of these say. `LockAndConnectionsComeBack`: a call that took a
connection lets go of it, whatever fails; where a dropped ROLLBACK leaves the
advisory lock with an idle connection, the next borrower or the pool's idle
timer ends it, so that later commands are not starved. `NoCascadeAtExposed`: no
table is exposed with, or while exposed comes by, a foreign key at either end
whose action rewrites rows, except that an imported table which had one may keep
it as long as it stays exposed; the lane does not expose it again with it.
`RunsInActiveSession`: a data request that runs was
authenticated as the owner of a session that had neither expired nor been
logged out before the request arrived. `FewPass`: fewer than twice the limit
pass within any window, which is what a fixed window promises, unless the key's
count was dropped for lack of room. `RefusedOnlyWhenUsedUp`: who is refused has
used the window up, and the Retry-After it is told is long enough.
`RunsAreWhole`: what a migration command leaves is all it had to run or
nothing. `AppliedWasPreviewed`: every command the page sends was dry-run
with the entry it now has, in the same form. `RefusedOnlyWhenStale`: the server
refuses a form for the table's exposure only if the model the form was opened
from is stale, a rewriting foreign key excepted.

**Bounds, and why they are enough.** Three calls: one to leak, fail or lose its
answer, one to borrow or race, one to observe or retry; where two are used the
properties relate at most two requests, and the third call of `executor` covers
retries. Two connections: one is enough for every leak, two for every race of
sessions; the rest of a pool only adds idle ones. `NumStatements` is 2 where a
plan may stop half-way and matter (`executor_faults`, where leaks are), 1 where
the refinement is checked: the steps before and after the one statement fail as
the second would. Two keys and commands: same key with the same and with a
different command, and an unrelated key. Two tables: one refresh can read one
before and the other after a commit, and a foreign key needs two ends. One
crash: what a second death could meet, a first has met, as nothing of the
process survives; the migrator has two, one for each command. Three launches: a
race of two and a later restart. `registry` and `schema_commands` choose which
commands meet, not in which order: `MCRaces` are sets of commands that touch
the same table, and any call may also repeat another. In `auth` one attempt a
window and room for one counter make the limiter full and used up within two
requests; a window of two ticks leaves a moment inside and one at its end; a
session of one tick expires while its request waits. In `admin_ui` a dry run,
its apply and one more request, with two awaited at once, are enough for every
answer to find a page that has moved on. Calls, connections, processes and
mappings are interchangeable in the safety runs (symmetry); runs with a
liveness property use none.

Each property has a mutant of the code it is about, a plausible slip that makes
it fail under the same bounds; the faulty variants stand before the definitions
they replace and are part of no specification.

**Fairness.** Weak fairness of `CallStep(c)` in the executor and the data lane:
a started call has a query with a timer of the driver on it (`query_timeout`,
`pool.ts:66`), so each await ends, by the answer or by the timer. Weak fairness
of the server finishing what it runs and of its cleaning up after a lost
connection, except while that waits for the advisory lock or for a row, and of
the pool's idle timer (`idleTimeoutMillis`). That PostgreSQL finishes a
statement which waits for nothing is the one assumption about it. Nothing is
assumed of arrivals, broken connections or process deaths, and `Connect` is not
fair: a call may wait for a connection until the acquire timeout. The migration
command has no timers: `Step(c)` is weakly fair because Node resumes every
await and PostgreSQL serves every statement, grants the lock when it is free
and ends the sessions of the dead. A migration whose SQL never returns is
outside that assumption.

## 5. Findings

1. **A dropped ROLLBACK makes a dry run durable** (`leaked_dry_run`).
   `rollbackQuietly` (`schema-ddl.ts:1761`) ignores every failure, and the
   `finally` releases the client without an error. If ROLLBACK expired in the
   queue behind a slow statement, the connection goes back with its transaction
   open; the next borrower's BEGIN only warns and its COMMIT commits both. The
   header says a dry run always rolls back. A failed command leaks the same
   way, with its `running` row, whose key is then "in progress" for ever;
   `NoDurableRunning` and `KeepsPromise` are therefore checked, and proved,
   only without dropped ROLLBACKs. `withTransaction` destroys the connection in
   this case.
2. **Removing the last policy stops the registry** (`rebuild`). D-034 allows
   policy removal on exposed tables; without any policy `buildTableRegistry`
   throws, for all tables, at each refresh and at the next start.
3. **A used column can be dropped or converted** (`used_column`). D-027 says a
   column used by a constraint or an index never is. `dropColumn` and
   `changeColumnType` look at the catalogue of their preflight only; an index
   committed before they have the lock goes with the column.

Other places where the code and what is said of it differ, met while reading
and modelling. They have no run of their own: each is visible in the module
named.

- Import (`SchemaCommands`): D-035 item 4 and D-036 item 1
  (`DECISIONS.md:243`, `255`) keep rewriting foreign keys and exposed tables
  apart, in `addForeignKey` and `expose`. The import of `MICROJBASE_TABLES` goes
  through neither: `verifyTable` reads no foreign key, so a table with one, such
  as the sample `public.todos` (`migrations/0004:13`), is exposed as it is. The
  decisions speak of the two commands only, so this is a gap, not a
  contradiction; `NoCascadeAtExposed` excepts such tables by name.
- Commands (`SchemaCommands`): a key reused for a different command answers 500
  or 400 when the record has no type to compile from (`recordedCommandType`),
  where `docs/admin-api.md:139` promises 409. It is refused nevertheless, never
  run and never answered with success (`ReusedKeysAreRefused`). The preflight of
  a retry may be shadowed by the race `schema-mutations.ts:12` describes: the
  record appears after the lookup, and a retry is refused for what its own first
  run did. Dry runs of constraint commands and of `unexpose` under a used key
  skip the preflight. A rename leaves the policies of the table or column under
  names that no longer derive from it, so that `removePolicy` does not find
  them.
- Registry (`RuntimeRegistry`, `RegistryImport`): a refresh that a newer one has
  overtaken returns normally without installing; if the newer one then fails,
  the caller that was told of success is not served, where
  `docs/admin-api.md:238` promises reachability at once. A process that reads
  the guard in `importInitialExposure` after another has imported the same set
  ends with CONFLICT, where D-028 has it adopted.
- Migrator: `docs/operations.md:156` speaks of each migration's own
  transaction; the whole run is one (`migrate.ts:44`). A lost answer to COMMIT
  makes a command that failed and changed the database. A renamed file runs
  again.
- Limiter: the roll-over branch of `check` (`rate-limiter.ts:68`) is never
  reached, since `evictExpired` has removed the entry by then.
- UI (`AdminUi`): Apply is enabled again after a dry run that failed
  (`app.js:574`); `AppliedWasPreviewed` holds nevertheless, since the
  submission compares the entry with the one last dry-run (`app.js:561`).
  Answers to loads are shown and cached whatever the page shows by then, after
  a sign-out too (`token-store.js:6` says otherwise). An apply that succeeds
  after the operator left the form does not drop the caches. The actions
  offered include a rewriting foreign key on an exposed table, which the
  executor refuses, and leave out policy changes it allows. The forms do not
  count list entries, the routes do. The summary of a rename's dry run reads
  "to undefined" (`app.js:497` passes the input, the summary reads the values);
  two boxes ticked for a policy's column are joined into one name
  (`render.js:576`); a default of `1e999` is sent as `null`. The last three are
  formatting and outside the model.

## 6. Proofs

Executor (`SchemaDdlExecutorProofs`), for any number of calls, keys,
connections, statements and process deaths. With ROLLBACKs dropped or not:

- `ExecutorTypeCorrect`: `TypeOK`. It needs who holds which connection
  (`ConnInv`) and that an abandoned query belongs to a call that is over with
  it (`AbandonedInv`); together `ControlInv`.
- `WritersAreExclusive` and `KeysRunAtMostOnce`: `ExclusiveWriter` and
  `AtMostOnce`. The invariant is `SafeInv`: only the holder of the lock has
  uncommitted rows or effects (`WriterInv`); an uncommitted row is of a key
  without a committed one, and no row is `failed` (`RowsInv`); an effect,
  durable or not, comes with the row of its call (`EffectsInv`); a call between
  lock and commit holds the lock and, after the claim, owns its row
  (`CallInv`); so does an abandoned query that could still write (`FlightInv`).
  `AtMostOnce` alone is not inductive: that a key is not claimed twice follows
  from the row that any effect leaves, durable or in the open transaction of
  whoever holds the lock.
- `HistoryIsFinal`: `CommittedRowsAreFinal`. A transaction that holds a row for
  a key that has a committed one does not exist (`RowsInv`), so no COMMIT
  replaces a row.

Under the hypothesis `~RollbackMayBeDropped`, which finding 1 shows is needed:

- `NothingRunningIsDurable`, `DryRunsLeaveNothing`: `NoDurableRunning` and
  `DryRunLeavesNothing`.
- `ExecutorKeepsPromise`: `Spec => KeepsPromise`, the refinement of
  `IdempotentCommands`. The invariant `PromiseInv` adds to `SafeInv` that a
  session no call uses is clean or has its ROLLBACK on the way, and that a
  COMMIT the client gave up on is of a command that ran as a whole (`ConnOK`);
  that a call's transaction holds at each point what its plan has done so far,
  and its answer is so (`CallOK`); and that each durable row has succeeded and
  is of no dry run (`HistoryInv`). A commit, answered, abandoned or of a lost
  session, is then the one step of `IdempotentCommands` in which the command
  takes effect; all others are its answers or stutter.
- `HistoryAndSchemaAgree`, `AnswersAreTrue`: `HistoryTellsTheSchema` and
  `AnswersStayTrue`, from the refinement alone. `Agreement` between bindings,
  schema and answers is inductive in `IdempotentCommands`, because a binding is
  never taken back (`EffectAgrees`, `AnswerAgrees`); so `KeepsPromise` implies
  `[]Agreement`, and the binding of a key is its row.

Registry (`RuntimeRegistryProofs`), for any number of calls, tables, commands
and deaths:

- `RegistryTypeCorrect`: `TypeOK`.
- `ExposedTablesAreSecure`: `RowSecurityHolds`. Inductive with `ForcedExist`
  (a table with forced row security exists), action by action of
  `ManagedTables`; the guards under the lock do it, the preflights are not used.
- `SnapshotFollowsRegistry`: `Spec => FollowsRegistry`, the refinement of
  `MonotoneView`. The invariant says that a refresh's rows are the state at the
  position it read, which is not older than what is served if its ticket is the
  newest (`RebuildInv`), that no two refreshes share a ticket (`TicketInv`),
  that a process that is down runs no call (`DownInv`), that the history ends in
  what is exposed and the snapshot is the state at its position
  (`HistoryInv`); each step then is a step of
  `MonotoneView` or a stutter.
- `ServedColumnsAreCurrent`: `ServedColumnsHold`. `ColumnsInv`: as long as a
  table is exposed in every state from the one read or served on (`Unbroken`),
  its columns are those a refresh has verified, or the snapshot serves. The
  guard of the column commands against exposed tables is what it rests on.
- `QuietSnapshotIsDurable`: `QuietMeansCurrent`. Every state of the history but
  the first is the effect of a command on record, and no refresh that started
  after that command has read an older one (`EffectOf`, `FreshInv`). A replayed
  command refreshes too, which is why its calls count as well (`OnRecord`).

Data lane (`DataTransactionsProofs`), for any number of calls, users, rows,
connections and deaths:

- `DataLaneTypeCorrect`, `PooledConnectionsAreClean`, `WritesAreInOwnName`,
  `ReadsAreOwnRows`: `TypeOK`, `PooledIsClean`, `RunsAsItself`, `SeesOwnRows`.
  None of the last three is inductive alone. `ConnInv` says that a held
  connection has exactly one running call; `ReadyInv` what that call relies on
  where it stands: clean at BEGIN; nothing running and its own identity at the
  statements and at COMMIT; before ROLLBACK, that the one query that may still
  run is its own and, if a statement, runs with its identity. So what the
  server finishes after the call gave up is written in the right name, and the
  connection reaches the pool only through an answered COMMIT or ROLLBACK.
- `DataLaneKeepsPromise`: `Spec => KeepsPromise`, the refinement of
  `AtomicRequests`. The invariant `PromiseInv`: no row has two uncommitted
  versions (`RowLocks`), a COMMIT the client gave up on is of a whole request
  that nobody has answered for good (`ConnOK`), and a call's transaction holds
  what its block has written so far, of rows it may change (`CallOK`). No
  hypothesis on ROLLBACK is needed: `withTransaction` destroys the connection
  whose ROLLBACK fails.
- `RowsChangeForTheirOwners`, `AnswersAreTrue`: `OthersRowsAreKept` and
  `AnswersStayTrue`, from the refinement alone: the only step of
  `AtomicRequests` that changes a row is `TakeEffect`, of a change its caller
  may make, which comes with the answer that says so or while the caller has
  none that denies it.

Schema commands (`SchemaCommandsProofs`), for any number of calls, tables,
columns and keys, any requests the routes let through, any catalogue to start
from and any verifiable tables of it imported:

- `CommandsTypeCorrect`, `NoRewritingKeyAtExposed`, `ExposedTablesAreFrozen`,
  `ConversionsAreSafe`: `TypeOK`, `NoCascadeAtExposed`, `ExposedIsFrozen`,
  `SafeConversionsOnly`. The invariant `IInv` adds to `TypeOK` that exposed
  tables exist and no rewriting key touches one of them, those apart that were
  imported with such a key and have been exposed since (`KeysApart`; every step
  leaves the others, `Checked`, as they are or adds a table `expose` has looked
  at), and that a call past its preflight, and a row of the log, of a
  type change hold a conversion the matrix has (`CallsCompiled`,
  `LogCompiled`): a retry is compiled again from the column type recorded in
  the row. Every plan but those of rename, expose and unexpose is a `Harmless`
  replacement of one table (`EveryPlan`), so that each property is argued once
  for `Harmless` and once for each of the three.
- `DropsAreConfirmed`, `RetriesAreReplayed`: `OnlyConfirmedDrops`,
  `RetryIsReplayed`. `ReplayInv`: rows of the log are well-formed and stay as
  they are (`LogInv`), and a call under way (`Underway`) that found no record is
  of a confirmed command, and one that found its own compiles from the source
  on record, so that the executor finds the same command under the key.
- `ReusedKeysConflict`: `ReusedKeysAreRefused`. The answer of a call that found
  a record is part of `ReplayInv` (`Answerable`): it is never `executed`, and
  `replayed` only if the record is of the call's own command.
- `CommandsManageTables`: `Spec => PlansAreManaged`, the refinement of
  `ManagedTables`. A `Harmless` replacement of a table is also `Manageable`: the
  table comes or goes unexposed, or changes its columns unexposed, or keeps them
  and changes row security or the templates of its policies, without losing row
  security while exposed. Each of these is an action of `ManagedTables` or a
  stutter; rename, expose and unexpose map to their own.

Accounts and sessions (`AuthLaneProofs`), for any number of accounts, addresses,
requests and failures, any session lifetime and any limit:

- `AuthTypeCorrect`: `TypeOK`.
- `UsersRunInActiveSessions`, `ShutdownCutsNobodyOff`: `RunsInActiveSession`,
  `NobodyCutOff`. The invariant says of each request what it relies on where it
  stands (`Stands`): the session it is to issue does not exist yet, the token it
  brought is of one that does, a lookup uses the time of arrival, a logout
  answered ok revoked. Sessions only grow (`Grown`: user and expiry stay,
  revoked stays revoked), so that a step of one request leaves the others their
  stand.
- `FewAttemptsPass`, `RefusalsAreDeserved`: `FewPass`, `RefusedOnlyWhenUsedUp`.
  `LimiterInv` ties the table to the attempts it has forgotten the times of: an
  entry stands for a window that began at some `s`, and counts no more than the
  attempts since (`Counts`); the last window of a key whose count was never
  dropped has let no more than `Attempts` through, and of the attempts before it
  fewer than that are within a window's length (`LastWindow`), so that any such
  stretch holds fewer than twice the limit.

Start-up (`RegistryImportProofs`), for any number of processes, mappings,
configurations, starts and commands:

- `OperatorDecisionsStand`, `ServedStateIsOfRegistry`, `NothingForeignAdopted`:
  `DecisionsStand`, `StartsFromRegistry`, `AdoptsOnlyItsOwn`. The invariant: the
  registry is empty and undecided until it is initialized, and then the last of
  its states (`HistoryInv`); what the start of each process relies on at each
  point (`StartInv`), above all that a guard read as set is set, and that rows
  adopted by a process that meant to seed are its own or decided on.

Migrator (`MigratorProofs`), for any number of commands, failures and deaths and
any directories:

- `MigrationsRunOnceAsRecorded`: `RanOnceAsRecorded`. The invariant: only the
  holder of the lock has work (`CommandInv`); what it read as applied still is;
  its work is of files behind it, none of them applied, no two of a name, and
  each is recorded but for the one it is to record (`WorkInv`). That a COMMIT
  then adds a whole is `EffectsAreWhole`.
- `MigrationRunsAreWhole`: `RunsAreWhole`. Nothing of a command that is not done
  is applied; if anything of it is, or if it was answered ok, then all that its
  files had left to run is (`RunInv`).

Management UI (`AdminUiProofs`), for any tables, values, tokens and forms, any
number of requests in flight, answers in any order or none, and any changes by
other clients:

- `AppliesArePreviewed`, `FormsChangeOnce`, `PageNeverStuck`,
  `RefusalsAreOfStaleForms`: `AppliedWasPreviewed`, `OneChangePerForm`,
  `NeverStuck`, `RefusedOnlyWhenStale`. The invariant `UiInv`: the table shown
  is the one cached, if it still is (`ContentInv`); a form is of a kind its own
  model offers (`FormsInv`); the open form remembers only dry runs of its own
  (`OpenInv`); a request carries its form's key, and an apply an entry dry-run
  in that form (`RequestsInv`); a key is of one form and on record once
  (`ServerInv`). An answer that comes late may replace what is shown and cached,
  but not a form, nor the model it was opened from.
- `FormsAreTaken`: `FormsFitRoutes`, for each of the 22 commands. What the
  tables of `AdminContract` say of a form and of a route is read off once
  (`FormsOf`, `RoutesOf`). A filling the form lets pass fills every field well
  (`PassingIsFilled`), the body built from it is one the route takes
  (`EveryFormFits`, `PathsFit`), as a dry run too (`DryRunIsTaken`), and the
  good filling passes and fills every field of the route (`GoodPasses`). The
  attempt showed two cases of `RouteParams` that overlapped, of which TLC had
  taken the first; they are disjoint now.

Assumptions: the named `ASSUME`s of the modules only, which TLC evaluates in
every run. `None` is none of the things it stands beside (queries, rows,
bindings, tokens, tables, column layouts, entries); bounds are naturals, those
of the limiter positive, as are the defaults the server runs with
(`rate-limiter.ts:46`); requests, configurations and catalogues have their type,
`id` is a column and the operator's token a token; a directory has no two files
of a name. The one hypothesis beside them is `~RollbackMayBeDropped`, in the
five theorems of the executor named above.

**Only model-checked.** Liveness, `LockAndConnectionsComeBack`, `Answered` and
`EveryRunEnds`: fairness and ENABLED are out of the prover's reach. The
properties of the findings are violated (`DryRunLeavesNothing` is proved where
no ROLLBACK is dropped). Every other property of a run is a theorem.

**Only proved.** The type invariants but that of `AuthLane`, which bounds the
limiter's table, and `AnswersStayTrue` of executor and data lane, which the
refinements checked there imply: a run of them would add nothing to the
theorems.

## 7. Plan

Done: executor, schema commands, tables and registry, import, data lane,
authentication with limiter and shutdown, migrator, management UI. Left, in
this order.

1. `DataOverRegistry`: a data request resolved in an old snapshot while the
   table is unexposed, altered or dropped. What stops it is PostgreSQL's
   grants; the module would say which answers remain possible.
2. Pure algorithms against reference definitions: `deterministicObjectName`, the
   snapshot's comparison and order, cursor pagination.
3. Two server processes over one registry, each with a snapshot of its own.

## 8. Not modelled

- Role checks at start-up, configuration and errors: reads or conversions of
  single values, without interleaving; their answers are environment here.
- The read routes, headers, static files, the error envelope: no state.
- SQL text, quoting and identifier rules of the compilers; the SQL of the
  catalogue reader, whose result is the state of `SchemaCommands`.
- `fail` of the operation log and `begin` outside a transaction, and
  `gracefulClose`: nothing in `src/` calls them so. The shutdown's deadline is
  a process death.
- Per-column grants and column lists: a table is granted or not, a request
  reads or writes a row as a whole.
- HTTP itself, TLS, password hashing and token generation are libraries; tokens
  are assumed unique.
