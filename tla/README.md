# Formal models of log-stream

TLA+ specifications of the log-stream service (`src/`), the TLC configurations
that check them on small instances, and TLAPS proofs of the central results for
every instance. Paths below are relative to the repository root; the table of
definitions and source lines is `PROJECT.json`.

## The system

log-stream is one Node.js process (more instances may share the database) and
one PostgreSQL. A process runs callbacks one at a time; whatever it awaits may
be overtaken by other callbacks, and every statement it sends runs beside it in
a backend that neither the client's query timeout nor the death of the process
stops.

| Part | State | Operations | Talks to |
|---|---|---|---|
| Batching coordinator, `modules/ingestion/batched-ingestion-repository.ts` | queue of calls, its row count, count of writes in flight, one timer, closed flag, waiters of close | `insert`, timer, end of a write, `close` | ingestion service above, insert statement below |
| Insert statement, `modules/ingestion/ingestion-repository.ts` | none in the process; `logs` and `log_minute_aggregates` in the database | group, sort, one SQL statement | PostgreSQL |
| Aggregation, `modules/aggregation/` | none | parse, choose the minute counts or the log rows, query | PostgreSQL |
| Log queries, `modules/query/` | none; the cursor travels through the client | parse, page query, cursor encode and decode | PostgreSQL |
| Retention scheduler, `modules/retention/retention-service.ts` | started, stopping, timer, active run, abort signal | `start`, timer, run, `stop` | retention run |
| Retention run, `modules/retention/retention-repository.ts` | a borrowed client, the advisory lock | lock, ensure, drop, delete, unlock, release | pool, SQL routines |
| SQL routines, `migrations/0003` | partitions of `logs` | ensure a day, drop an expired day, delete expired default rows | inserts and queries on the same tables |
| Partition plan and startup preparation, `database/partitions/` | none; an advisory lock | plan of days, prepare | PostgreSQL |
| Migrations, `database/migrations/` | history table, advisory lock | load, lock, apply, retry | PostgreSQL |
| Lifecycle, `server.ts`, `server-lifecycle.ts`, `shared/readiness.ts`, `routes/health.ts` | shutdown state, readiness, resources | start, signal, close in order, deadline, probe | everything above |
| Ingestion service, `modules/ingestion/ingestion-service.ts`, `domain/` | none | validate each entry, parse timestamps, insert, answer | coordinator |
| Load generator, `tools/loadgen/` | counters of two phases, the open loop, probe, sampler, the compose project | one managed run from first command to report | Docker, PostgreSQL, the service |
| HTTP wiring, configuration, logging, `tools/benchmark/` | none | sequential functions | - |

What is hard here: the coordinator's four kinds of callbacks share a hand-kept
counter pair and one timer; a statement outlives the client that gave it up;
an advisory lock belongs to a pooled session and outlives its borrower; several
batches raise the same counts; one question is answered from two tables that
retention treats differently; a listing is taken page by page from a table that
changes in between; a load test has to judge requests whose fate it does not
know. `PROJECT.json` lists every such hazard at its line.

What makes each part correct, in a sentence:

- coordinator: every call is answered once, an "ok" is backed by stored rows,
  nothing is lost or stored twice, limits hold, the queue is never forgotten,
  and close means drained;
- insert statement: log rows and counts change together, no increment is lost,
  concurrent batches do not deadlock;
- aggregation: both ways to answer agree with the stored rows;
- retention: one maintainer at a time, whatever dies or times out; the lock
  never stays in a pool; the scheduler neither dies out nor outlives stop;
- SQL routines and preparation: no accepted row is lost by a move, only expired
  rows go, clocks that disagree do no harm beyond a skipped run;
- ingestion service: 200 means that each entry is stored or reported, 400 and
  500 that nothing is stored, 503 that all or nothing is;
- queries: a listing returns every row that exists throughout it, once and in
  order, and nothing that was not asked for;
- migrations: each is applied once and in order, by one instance at a time,
  also over crashes and retries;
- lifecycle: resources close in order, once, within the deadline; health says
  "ok" only between start and shutdown;
- load generator: its counters balance at every moment, exit code 0 is earned,
  and whatever fails the run ends having tried to clean up.

## Modules

| Module | Contents |
|---|---|
| `DurableIngestion` | abstract: what a caller of `insert` is promised |
| `BatchedIngestion` | the coordinator and the statements it has in flight; all its safety and liveness properties |
| `BatchedIngestion_proofs` | inductive invariant, safety theorems, and proof that the coordinator implements `DurableIngestion` |
| `RetentionMaintenance` | scheduler, run, pooled sessions and advisory lock in several instances |
| `LogStore` | abstract: a set of rows from which only expired ones go |
| `PartitionStore` | insert statements against the three SQL routines and the startup preparation, with the clocks of both sides |
| `PartitionStore_proofs` | inductive invariant, and proof that the partitions implement `LogStore` |
| `MigrationRunner` | startup migration in several processes of different builds, with their sessions and transactions |
| `MigrationRunner_proofs` | inductive invariant and safety theorems |
| `ServerLifecycle` | one process from runtime start to exit: listen, readiness, probes, signals, shutdown |
| `ServerLifecycle_proofs` | inductive invariant and safety theorems |
| `LogAggregates` | concurrent insert statements over the minute counts, retention, and both forms of the aggregate query |
| `LogAggregates_proofs` | inductive invariants of the counts and of the order of locks, lemmas about sums and buckets, and the safety theorems |
| `Timestamps` | parsing, canonical form and comparison of timestamps, and what a `timestamptz` column makes of them |
| `LogEntries` | validation of an entry, normalised attributes, the split of a request |
| `QueryParameters` | the checks of a query string and the filters that result |
| `LogSearch` | `POST /logs` and `GET /logs`: requests, statements that fail together, pages and cursors |
| `LogSearch_proofs` | lemmas about timestamps, validation, filters and cursors; inductive invariant and safety theorems |
| `WriteLanes` | the coordinator with its default limits on the default pool |
| `AggregationScheduler` | the open loop of the load generator |
| `LoadGenerator` | a managed run, composed with the open loop |
| `LoadGenerator_proofs` | invariants of the open loop, of ingestion and of the judgement, lemmas about sums and batches, and the safety theorems |
| `RetentionMaintenance_proofs` | inductive invariant, safety theorems and an action property |
| `MC...` | constants for TLC; `MCLogSearch` also tests the pure operators |

### BatchedIngestion

`pending`, `queuedRows`, `activeWrites`, `scheduledFlush`, `closed` are the
variables of `createBatchedIngestionRepository`; `scheduledFlush` keeps whether
the timer is set and whether with delay 0 (`"now"`). A promise is the state of
its call in `outcome`, or of its close in `closer`. `writes` holds the batches
whose `insert` promise is open, with `stage` telling whether PostgreSQL has
stored them yet; `finishing` counts the settled ones whose `finally` callback
has still to run. `copies[r]` is how often the records of a call are in the log
table, and `orphans` are the statements that the client gave up and the database
has not.

A callback is one step, with one exception: the loop of `startAvailableWrites`
takes one step, `StartNextWrite`, per iteration, and while `starting` holds no
other callback can run. The database's steps may come between, which they may
also in reality. The step runs `takeBatch` (as the prefix of the queue after
which the loop stops), `startWrite`, and the code behind the loop when it is
left. `SettleWrite` and `FinishWrite` are separate because other callbacks may run
between a handler and its `finally` microtask (the callers whose promises settled,
for instance).

An insert fails (`WriteFails`) at any time, whatever has become of the
statement: it may be over with or without effect, or go on. A failing call is
not retried by the service.

### RetentionMaintenance

Per instance: `started`, `stop` (the one promise of `stop()`), `timerScheduled`, and
`pc`, `call`, `client` for the run in progress, with one value of `pc` per
`await`. Per session: `conn` (none, idle in its pool, used, used but broken, or
closing after it was destroyed), `queue` (statements sent, oldest running),
`reply` and `holds`, how often the session has taken the advisory lock. `Sees`
lets every await end with an error at any time (query timeout or connection
error) while the statement stays in `queue` and runs on. `Release(i, TRUE)` closes
the connection: a statement already sent to the backend is finished or not; the
lock goes with the backend (`Reap`). `Crash` closes all sessions of an instance.
`Terminate` ends a backend from outside. What the three maintenance routines do to
tables is not in this module: each answers "true" or "false" (was there work) or
fails. Other borrowers of the pool's sessions are not in it either; that is
why `NoParkedLock` speaks of every idle session.

Left out: the check of the request's shape (the scheduler builds it from a
clock that is always finite), result counters and logging, and a
`timer.schedule` that throws.

### LogAggregates

One statement is `Begin` (grouping and sort), an `Upsert` per group in that order
with the row locked until the end, and `Commit` or `Abort`. An upsert waits while
another open statement has written its row. The sort compares by `Rank`, the
order of `localeCompare`: two names may have one rank, and then the order of the
batch decides, which the model leaves open. `Expire` removes any part of the
rows before a cutoff, as drops and bounded deletes do, and leaves the counts. A
query is answered in one step because it is one statement with one snapshot.
Time is in ticks, several to a minute; a record has the time the application
reads (`sentAt`) and the time the column keeps (`storedAt`), which differ only for
timestamps with digits below the microsecond. Left out: the conversion of counts
to JSON numbers (an unsafe count is an error), column serialisation.

### Timestamps, LogEntries, QueryParameters

Pure operators, one for each function of `domain/timestamp.ts`,
`domain/log-entry-validator.ts`, `domain/attribute-normalizer.ts`,
`query-parameter-parser.ts` and `aggregation-parameter-parser.ts`. A timestamp is its components
and a sequence of fraction digits; a moment is a day number and a second, so that
no number exceeds 32 bits. Each check is an entry of a sequence and `FirstError` the first
that fails, which is the order in which the code reports. `ToTimestamptz` rounds to
microseconds as PostgreSQL's input does, `ToChar` is the text of its output.

### LogSearch

`posts[p]` is a request to add: its records after `Receive` (validation at a time of
`Horizon`, ids from `Id`), whether its statement has committed, and the status of the
answer. `Store` is the commit, also after the service gave up (`LoseAnswer`, 503).
`RefuseBatch` is a statement that PostgreSQL ends with an error that is not transient,
which `translateDatabaseError` turns into a 500 for all calls that shared it: any calls
whose rows are not stored, and any cause, a value it refuses, a deadlock (`LogAggregates`)
or a row whose partition has changed (`PartitionStore`). Only a statement with a value
PostgreSQL cannot hold (`Storable`) cannot be stored at all. A lost connection is taken
to carry one of the codes or messages that `database-errors.ts` counts as transient; with
another one the answer would be a 500 that says nothing of the rows. `listing` is a client's listing; `Begin` and `Continue` are one
statement each: filter, position of the cursor, order, one row more than the
limit. `Continue` takes any query string whose cursor check passes, so that a client
that changes its filters is in the model. Rows are added and expire at any
time in between. Left out: the encoding of a cursor as base64url JSON (a cursor is the
record it decodes to, or `Garbage`), the hash of the fingerprint (taken to be
injective), the attributes of an item, and the route's plumbing.

### LoadGenerator and AggregationScheduler

`step` is the place of `runManagedLoadGenerator`; commands that run in one `Promise.all` are
one step. `requests[w]` is what worker `w` awaits; a request is stored or not before or
after its worker gives it up (`late`). `AggregationScheduler` has the clock, the tick of
the loop and the stages of `stop()`: the loop may wake late, `stop()` does not wake
it, the drain and its grace end by timers. `Signal` is the first SIGINT, `Kill`
one that nobody listens for. `Assess` computes the failures and the verdicts from
the counters, `Publish` the exit code. A smoke run evaluates no requirement
(`Requirements`); the rest of its exit code is judged alike. Left out: other options, the contents of the workload,
latency statistics, the kinds of failed requests (all are "indeterminate" to the
counters), and what diagnostics and environment contain. The last poll of the
freshness probe may end after its deadline and still count as visible, as in the
code.

### WriteLanes

The limits `batched-ingestion-repository.ts` has without options against
`DEFAULT_POOL_MAX` of `database-config.ts`.

### PartitionStore

`contents` maps each day and the default partition to its committed rows. An
insert statement is `Open` (it sees the partitions there are, `seen`), `Store` (its
rows are routed) and `Commit` or `Abort`; a statement that is to put a row into the
default partition after its day was attached has to fail, as PostgreSQL checks
that partition's constraint again. A maintenance run is a sequence of calls;
`LockDefault`, `Move` and `Attach` are the stages of the one transaction that
makes a partition, in `ensure_log_partition` as in `preparePartition`, and
nothing of it is seen before `Attach`. `Drop` waits for every open insert because
DROP TABLE locks the parent; `LockDefault` only for those with rows in the default
partition. `Raise` is a routine that refuses its argument: a day too far from the
database's, or a cutoff ahead of it or too old (`CutoffRefused`, with `MaxCutoffDays` for
the 3651 days of the routines). `Fail` is any other end of a run.
Maintenance runs exclude each other here because they hold one advisory lock,
which `RetentionMaintenance` is about. Left out: privileges, the test that a
relation with the right name is the right partition, abort signals (like `Fail`).

### MigrationRunner

`client[p]` is the place of a process in `runMigrationsWithOwnerRetry`: the statement
it awaits, its session, what it has still to apply, and whether it has failed.
`session[s]` is a backend: the statement it was asked, the answer not yet heard, the
rows it returned, the advisory lock and its transaction. `Break` leaves an orphan,
which may still run what it was asked; `Terminate` ends a backend first. Session
locks and open transactions go with the backend (`Reap`). `schema` records which
migrations' SQL was committed, in order, `history` the rows of `schema_migrations`.
A process that failed or exited may start again. Left out: reading and
scanning files; the lock and transactions of the partition preparation, which is
one statement here (`PartitionStore` has it in full).

### ServerLifecycle

`phase` is how far `startRuntime` has come, `closing` what a shutdown is waiting
for, `cleanup` the same for the failure path of `listen`, which may run beside a
shutdown. A health check is `Probe`, `ProbeSettles` and `ProbeHandled`, so that other
checks, the pool's error event and signals come between. A request that
`Arrive`s may stay in `receiving` for ever; then it is an insert of the coordinator, or it
waits for a client of the pool and holds it. Its client may `Disconnect`: the handler
runs on, and `app.close()` no longer waits for it (`gone`). The coordinator's `close()`
waits for inserts, `pool.end()` for the clients that are held; a request that still waits
for one then waits until its timeout. What the coordinator writes is part of its inserts
here. `listen()` may still succeed while the
application closes, but not once it has closed. Without a handler a signal ends the
process (`Kill`). `Exit` is the end of a process with nothing left to wait for.

## Runs

| Run | Instance | What it shows |
|---|---|---|
| `batching` | calls with 0, 1, 2, 3 and 5 records, two closes; batches of 3, queue of 4, 2 writes | all properties of the coordinator; `KeepsPromise`: it refines `DurableIngestion`; every admitted call is answered, every close resolves |
| `retention` | 2 instances, 2 sessions, budgets of 1, 1 and 2 calls | lock never parked in a pool, maintenance exclusive, run or timer, quiet after stop, nothing sent after abort; the lock is always given back, stop resolves |
| `aggregates` | 3 statements over 2 minutes and 3 services, two of them tied in the sort; any cutoffs | exact counts, deadlocks only over tied names, exact answers over whole unexpired minutes |
| `aggregates_bounds` | same | **violated**: bounds within a minute |
| `aggregates_expired` | same | **violated**: expired rows stay counted |
| `aggregates_rounded` | a record that rounds up into the next minute | **violated**: bucket interval |
| `partitions` | statements with 2 rows and 1 row, days of 2 ticks, clocks up to a tick apart, one failure | rows are kept once until they expire (`KeepsRows`: a refinement of `LogStore`), the default partition has no row of a covered day, attaching does not fail on a row that slipped in; expired rows go |
| `migrations` | an older, a newer and an edited build, 2 backends; any number of failures and restarts | schema and history agree, plans are never stale, the runtime finds its migrations, every start ends |
| `lifecycle` | 2 requests whose clients may go away, 2 overlapping health checks | readiness is truthful, when the pool is ended only abandoned queries are left, a shutdown ends the process, a lost database is noticed |
| `search` | 3 requests with mixed, rounded and unstorable entries; 7 query strings; 3 ids | answers are true, a listing shows each wanted row once and in order, passes none over, and ends; repeating a query with its cursor is accepted |
| `loadgen` | 1 warm-up row, 3 measured rows in batches of 2, 2 workers, 1 request of the open loop in flight, 2 ticks, SIGINT | counters balance, each tick is counted, exit code 0 is earned, the run ends after an attempt to clean up |
| `lanes` | default limits | **violated**: a lane reserved for queries |

Bounds. The batching instance has a call for each case that takeBatch and the
limits tell apart: empty, several to a batch, exactly a batch, more than a
batch and than the queue; two write slots are the least at which two writes
finish in either order while a third batch waits. Retention needs two instances to
contend; with two sessions a run of one starts on the session the other has just
given up, or waits while it is closing; the delete loop goes on, ends early and
reaches its budget, and the loops of the other calls have the same form. The
proofs below cover any other numbers. In `aggregates` three statements are the
least that can wait for each other in a longer circle; services share groups
pairwise, and half-minute ticks give a timestamp, a bound and a cutoff within a
minute. In `partitions` one row lies before the first plan and the others in days that
are planned while their statements are open; the clock runs from tick 4 to 6, so
that days are planned, attached, filled, dropped and deleted. The two backends
of `migrations` are a dead process's orphan and the successor it meets; with two
migrations a plan is begun, continued and ended. In `search` the three rows that can be
stored include two of one moment, told apart by their ids alone; two query
strings ask for the same in different spellings, with different limits, and
others are refused, match by pattern characters, by attribute, or lie
outside PostgreSQL's years. `MaxId` bounds the rows ever stored, and so makes
`ListingEnds` hold: a listing may run for ever while newer rows arrive below its
cursor for ever. In `loadgen` both phases have a last batch that is smaller than the rest
or the only one, two workers share the measured batches, and `MaxClock` bounds the
time until `stop()`; the run kind is the one with verdicts, a smoke run has the same steps
without them. In `partitions` the routines take a cutoff of up to two days ago, which a
run begun by a clock that is behind exceeds when it takes long. Nothing is counted in `migrations` and `lifecycle`: faults and
restarts may go on for ever. Calls, statements and closes are finite in number
and the service may then be idle for good, so deadlock is not checked. The number of
maintenance runs is not bounded; a crashed instance stays dead, a restarted
process being like the other instance.

Fairness. `batching`: the timer, the loop and microtasks run if they stay
enabled (the event loop), and every write ends, because the pool sets
`query_timeout`. No caller is obliged to insert or close. `retention`: a run goes on,
because each await of it has a timeout; backends finish their statements and
notice closed connections. Neither a new run nor the end of a backend by hand is
assumed. `partitions`: retention is begun again and again by a clock that is right
(its timer, `RetentionMaintenance`), statements end, time passes; a run fails at most
`MaxFailures` times. `migrations`: a backend answers (the owner connection has no
query timeout: a statement that never ends would keep a start waiting), a
client goes on, the deadline comes. `lifecycle`: the event loop handles what is
due, database work ends, the deadline's timer fires, health is polled; clients and
signals are free. `search`: a client goes on with the listing it has open; nobody
is obliged to begin one. `loadgen`: every timer of the load generator expires (of
requests, commands and the wait after their kill, sleeps, drain, grace,
deadlines); the service, Docker and the user are free.

`MCLogSearch` also has assumptions that TLC evaluates before it searches: the canonical
form is the shortest of its value, fractions compare by value, day numbers follow
each other through leap years, the five-minute bound agrees with whole numbers, a
listed timestamp comes back from its cursor as the stored one, rounding is
to even at the half, and of several errors in a request the first in the code's order
is reported.

Every property of a passing run has a mutant: a definition named
`Definition_Mistake` just before the one it would replace, a plausible mistake in
the code under which TLC finds the property violated. The mutants are used
nowhere else.

### Where documentation and code differ

1. *Bounds within a minute.* README.md promises an inclusive `since` and an
   exclusive `until`; aggregates without `q` and `attr` filters compare them with
   minute starts. Rows of the first minute are missed, rows of the last counted.
2. *Expired rows.* Retention never touches the minute counts, so those aggregates
   still report removed rows, and the table of counts only grows.
3. *Lanes.* `docs/adr/0007` has up to three concurrent writes and a fourth lane
   reserved for queries; the code has five writes
   (`batched-ingestion-repository.ts:8`) on a default pool of four.
   `docker-compose.yml` raises the pool to 20.
4. *Rounding.* A timestamp such as `12:00:59.9999999Z` is counted in minute 12:00
   and stored at 12:01:00.

Smaller ones, met while modelling and not the subject of a run:

- `README.md:55` and ADR 0007 say that SQL derives the search attributes; they
  come from the application (`ingestion-repository.ts:129`).
- The README's sample shows timestamps with six digits; the service trims zeros
  down to three.
- `docs/performance/load-generator.md` says that cleanup is attempted after a signal; a
  second signal of the same kind ends the process at once (`process.once`).
- `tools/loadgen/diagnostics.ts:11` expects a pool of "4" while
  `docker-compose.yml:14` sets "20", so a managed run against that file fails
  when it captures the environment.
- A timestamp in year 0000, or shifted out of the four-digit years by its
  offset, is valid for the service and refused by PostgreSQL: every call in the
  statement is answered 500, and a `since` of that kind gives 500, not 400.

One more result has no sentence of the documentation to contradict, and is in
the form of a weaker property: the order in which batches lock their counts
comes from `localeCompare`, which returns 0 for canonically equivalent spellings
that PostgreSQL keeps apart. `DeadlockNeedsTie` shows that this is the only way to a
deadlock; that run reaches such deadlocks and their resolution by `Abort`.

## Proofs

`BatchedIngestion_proofs` proves the safety properties of the coordinator for
every set of calls and closes (infinite ones included), every assignment of
finite disjoint sets of records, and all positive limits: `RecordsAssumption`
(each record belongs to one call, since the service makes them) and
`LimitsAssumption` (`readPositiveInteger`).

The properties are not inductive one by one. The invariant `IInv` adds: the
queue holds open non-empty calls without repetition; the batches are disjoint,
non-empty, finite sets of open calls that are not queued; `finishing` writes plus
open ones are the count of active ones; a timer that is set has something to
flush or a slot to wait for; the loop runs only when it can start a write. From
it follow `TypeCorrect`, `LimitsCorrect`, `WakeupCorrect`, `CloseCorrect` and
`CustodyCorrect`. The work is in cardinalities: taking a prefix off the queue
subtracts exactly its rows because calls are disjoint, and the set of writes
changes by one element.

The same module proves that every behaviour of the coordinator is one
of `DurableIngestion`: variables `outcome` and `copies` are shared, a write that
commits is `Store`, a handler is `Acknowledge` or `GiveUp`, the rest stutters. It
needs a second invariant that ties the place of a call to its copies (a call in
the queue has none, one in a sent or given-up statement none yet, one in a
stored statement one). `AcknowledgedIsDurable` then gives the promise as a state
predicate.

`ServerLifecycle_proofs` proves the three safety properties of one process for any
number of requests and health checks in flight. They are
not inductive by themselves: that a late probe cannot make a stopping server ready needs
`readiness` to be `stopping` in every later stage, and that the pool ends quietly
needs the order of the shutdown. `IInv` therefore says what holds in each phase of
`startRuntime` (`PhaseInv`: nothing is in flight before the server is open or after
it failed) and at each stage of a shutdown (`ClosingInv`: a closed server has only
requests whose clients are gone, retention is stopped before the batches are closed, no
insert is left and none can come once the pool is being ended).

`RetentionMaintenance_proofs` proves the safety properties of retention for any number
of instances and sessions and any positive budgets, from `NobodyAssumption` (a name
for none) and `LimitsAssumption`. None of them is inductive: whether a run may unlock,
or give its client back, depends on what its session has still to do and on an
answer that may never be heard. `IInv` adds: a run and its session know each other
(`OwnInv`); what a session may have queued with or without the lock, at most one
statement of maintenance followed by an unlock (`SessionInv` with `Shape`); which of
these forms, with which answer, goes with each place of a run (`RunInv`); and that two
sessions never hold the lock. The steps fall into three groups with a lemma
each: a run sends (`Sent`), a run ends (`Released`), the database acts (`DatabaseStep`).
`AbortCorrect` is an action property: only `Send` makes a queue longer, and after `stop()` what it
sends is the unlock.

`LoadGenerator_proofs` begins with the open loop alone: its counters add up all along and each
tick due before the end is counted once (`TicksCorrect`), for any interval, limit and length of
the run. The invariant `LoopInv` relates the tick of the loop to the clock while it runs and to
the end once it is being stopped; `CountersAdd` is needed because a dispatch that finds no
room counts its tick as missed. In a managed run every step is one of the open loop, or none,
or the end of the process (`SchedulerSteps`), so `TicksOfRun` follows.

The same module proves `AccountsBalance` and `PassedIsEarned` for any number of rows,
batches, workers and signals, from `LoadAssumption` (the minima and run kinds of
`config.ts`, and a name for a request that the service has not decided). The counters of ingestion are sums
over batches that change one at a time. `Ledger` says of which batches each counter is
the sum: those started are the first of their phase, and those settled are these without
the ones in flight. It is kept only because no batch is sent or stored twice, which
takes the rest of `IngestionInv`: a batch on its way belongs to the phase that runs, and
PostgreSQL has of it what its answer says (`Custody`); no two workers have the same
(`Unique`); nothing is known of a batch that was not sent (`Unsent`); a batch that was
given up is not stored yet (`Stock`). The rows of any batch are at least one
(`RowsPositive`, division with rounding up), so a batch that is stored cannot still be
late. `LedgerComplete` then shows that a phase without rejected or indeterminate rows
has stored every batch: confirmed rows are bounded by stored ones, stored ones by the
sizes of the batches, and the two sums are equal (`TotalBelow`). `Judgement` carries
what `Assess` found to the exit code: the scheduler has stopped for good, and with all
rows stored there is nothing left to arrive. The sums are folds, treated as in
`LogAggregates_proofs`.

`LogAggregates_proofs` proves `CountsExact` for any number of concurrent statements, from
`CarriesAssumption` (batches are finite and share no record). The property says
nothing of open statements, and what a commit adds was computed when its
statement wrote the count. `RunInv` therefore says that a written count is still the
committed one plus what the batch adds, and that written and planned groups
together are all groups of the batch; it survives the commits of others because
two open statements never hold one row (`LockInv`). That the sorted plan has every group
follows from counting (`PlanComplete`); at a commit the records of a group are the
disjoint union of those committed and those of the batch (`CommittedGrows`).
`DeadlockCorrect` rests on `OrderInv`: what a statement has still to upsert is sorted
and never comes before what it has written. So who waits for `t` waits for a group before the
one `t` is at, or a tie with it; without a tie a circle of waiting statements would ascend for ever,
which `NoEndlessAscent` rules out in a finite set, and only finitely many statements run at a time.
`AnswersCorrect` proves `AnswersExact` for any records, minute, bucket widths and queries, under
one hypothesis that it states: `RoundingKeepsMinute`, that no timestamp is stored in another
minute than it was counted in. The run `aggregates_rounded` shows what happens without it. `LogsInv`
says that only rows before the cutoff are gone, so the rows wanted are all among the committed
records. `RawExact` is the arithmetic of buckets (`Floor`, `FloorUnique`): the multiple of a width
below a time is the start of the one half-open bucket it is in. `RollupIsRaw` shows that
the counts give what the rows give: a bound on whole minutes has a time and its minute on
the same side (`MinuteBound`), both are in one bucket (`MinuteBucket`), and the counts of a set of
groups add up to its records (`SumOfCounts`). The sum is a fold; its value for any
set is found by well-founded induction on subsets (`SubsetInduction`, `TotalsExist`, `TotalStep`).

`PartitionStore_proofs` proves `DefaultStaysClear` and the refinement of `LogStore` for any
inserts, sizes of days and batches, retention and skew, from `ClockAssumption` (the
database is older than one retention period), `CarriesAssumption` and
`DefaultAssumption`. Neither is inductive: an insert brings rows to the default
partition that it routed there earlier. `RouteInv` says that what an open insert saw is
still there and what it is about to commit there still has no partition; `TxnInv`
that an attach works under a lock that no such insert has passed. `Overlap` is exactly
the set of rows the new partition accepts (`DayFacts`, `DayUnique`: division by the length of a
day). In the refinement a commit is `Insert`, `Drop` and `Delete` are `Expire`, and
all else, moving rows included, is a stutter; `RowsKept` gives the promise as a state predicate.

`MigrationRunner_proofs` proves the safety properties of migrations for any number of
processes and backends and any builds. It rests on `LocalAssumption` (a build has one
file per version, `buildMigrationPlan`), `NamesAssumption`, and `GrowthAssumption`: a
build adds files only after those of the builds it follows. The last is a
convention that the code does not enforce: `findPendingMigrations` would apply a file
that was added below an applied version, and the schema would then not be in the
order of its versions. None of the properties is inductive: a migration is checked
against a history that was read statements earlier, and may be committed by a backend
whose client has gone. `Backend` says what a backend may still do by itself, above all
that a migration it may still commit `Fits` the history as it is; `Talk` what its client
knows of it before and after an answer; `Planned` that what a client has
still to apply is what its build has over the history. A commit keeps all of them for
the others because whoever reads or changes the history has the lock (`Mutex`).
`PendingPlans` and `RestPlans` show that the plan of `findPendingMigrations` and each of its
tails is complete and in order.

`LogSearch_proofs` proves the safety of `POST /logs` and `GET /logs` for any bodies, any
query strings and any number of ids, however pages interleave with rows that are
stored and that expire, and whichever query comes with a cursor. The assumptions say
what the constants stand for: a body is a sequence and a text where a timestamp belongs
is one of `AnyText` (`BodyAssumption`), each parameter comes with one value or more
(`QueryStringAssumption`), the texts outside the grammar, no filter and no cursor are
not texts inside it (`GarbageAssumption`, `NoFilterAssumption`, `CursorAssumption`), and
five minutes from now is before the last day of year 9999 (`HorizonAssumption`, without
which rounding could take an accepted entry out of the calendar).
`IInv` relates the listing to its cursor: `Position` of the cursor, decoded, is the
`(timestamp, id)` of the last row shown, and all other rows shown lie above it
(`Listing`); a row shown is in the table or has expired, so an id is not used for
another row (`Ids`). `OnceInOrder` and `NothingSkipped` are inductive relative to it:
a page is a top segment of the candidates below the cursor (`PageRows`, `PageListing`), and
a row that a later statement adds cannot become one of those the listing began with.
The rest are lemmas about operators, for all inputs:

- `RoundTrip`: the text that `to_char` writes of a column, put into a cursor, parsed
  and read by PostgreSQL again, is the same microsecond, so no row is between two
  pages or in both;
- `CanonicalEqual`, `FractionsTie`: two texts of one moment, with whatever zone and
  zeros, have one canonical form, hence `SameFilters` and `CursorsAccepted`;
- `InTime`, `Rounding`: an entry that `isParsedTimestampAfterEpochMilliseconds` lets
  through is not later than the horizon after PostgreSQL has rounded it to microseconds;
- `EntryAccepted`, `QueryValid`, `WantedMatches`: what the checks of an entry and of a
  query string, made one after another, establish together, and that the predicate of
  the statement selects what the query string asks for;
- `IdsCounted`: each entry of a body is either given one id or reported.

Every invariant, action property and refinement that a passing run checks is stated by a
theorem. Only model-checked: liveness (the prover has no fairness) and the comparison of
the calendar with a reference definition (`MCLogSearch`).

## Plan

Done: the coordinator and its lanes, retention, the counts, the partitions,
migrations, the lifecycle, requests and listings with their validation, and the load
generator. What is left, in order of importance:

1. One model of a pool shared by writes, queries, probes and retention, with the number of
   its clients, the order of its waiting requests and its connection timeouts.
   `ServerLifecycle` has what a shutdown waits for of it.
2. The statistics of the load generator against reference definitions.

## Not modelled

- HTTP wiring, limits of bodies, logging and configuration: sequential, without
  state, and delegated to Fastify or parsed once at the start.
- The encoding of a cursor, of columns and of JSON answers: no property is about
  them. The range check of counts (an unsafe integer is an error) is beyond the numbers
  TLC can use.
- Reading and scanning migration files, privileges, indexes and constraints that
  no model relies on.
- `tools/benchmark/`: sequential scripts around the service's SQL.
- Of the load generator: options, generated workload, statistics, diagnostics and
  environment capture.
