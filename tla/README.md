# A verification project for OCI_Wrapper (Data Manager)

The Data Manager is a C server that turns XML and JSON requests, dropped as files or
posted over HTTP, into statements of an Oracle or SQL Server database, with an audit
trail, sessions, permissions, caches and metrics. This directory holds TLA+ models of the
parts of it where threads, transactions and failures meet, the TLC configurations that
check them, and machine-checked proofs: every safety property that a run checks is also a
theorem, for all values of the constants (section 5).

## 1. The system

| Part | Source (under `src/src/`) | State | Operations | What makes it correct |
|---|---|---|---|---|
| Session pool | `infra/Connection_Pool.c` | slot array, `slots_open`, mutex and condition; each thread's `worker_ctx` | connect, disconnect, get, release, health check, reconnect | a session has one holder; the counter is right; a free session is clean; a sleeper is woken |
| File workers | `infra/worker.c` | per thread: context, pinned session | start, dequeue, process, repair the session, respond, exit | each request answered once; sessions stay distinct and come back; shutdown ends |
| Queue manager | `infra/queue_manager.c` | circular buffers, cursor, shutdown flag | enqueue to, enqueue excluding, dequeue, shutdown, destroy | bounded, FIFO, no lost wakeup |
| HTTP worker pool | `infra/http_worker_pool.c` | queues, threads, completion objects on the handlers' stacks | dispatch, dispatch async, worker loop, stop | own result to each client, writes in order, refusals only at capacity |
| HTTP consumer | `consumers/http/` | MHD daemon, watchdog | handle request, stop | stop order; nothing accepted is dropped |
| Dispatcher | `core/dispatcher.c` | `ctx->active_tx` | run the operations of a request inside or outside a transaction | all or nothing |
| Transaction manager | `execute/Transaction_Manager.c` | transaction handle | begin, commit with retry, rollback, standalone identity | exactly one party commits |
| Write modules | `execute/{Insert,Update,Delete}_Execute_Module.c` | locals of one call | validate, before-image, execute, audit, commit, respond, clean up | report what happened |
| Audit trail | `audit/Audit_Trail_Manager.c` | the cycle guard `audit_trail_in_progress` | before-image, insert, snapshot | every committed row audited, once |
| Caches | `infra/cache.c`, `*_cache.c` | hash table of entries with expiry time, `in_use`, table tags; `entry_count` | create, insert, lookup, release, expire, invalidate by tag, sweep, destroy | one entry per key; a checked-out entry is not freed |
| Query module | `execute/Execute_Query_Batch_Module.c` | locals of one call, resultset cache | look up, count, open, fetch (whole or in batches), store | rows of one moment; no out-of-date result from the cache |
| Sessions | `session/`, `infra/session_cache.c` | rows of OCI_SESSION, cache, touch queue | create, validate, touch, end, reconcile | an ended session is not accepted; activity reaches the table |
| File consumer | `consumers/file/`, `core/response_manager.c` | Input, Processing, Output and Error directories | scan, enqueue, rename, reject, respond, archive | each file executed once, none forgotten |
| Metrics writer | `infra/metrics_writer.c`, `infra/generic_queue.c` | two bounded queues and threads, an open batch | enqueue, collect, flush, stop, destroy | ends, loses nothing it accepted |
| SQL Server pool | `infra/MSSQL_Pool.c` | slots | as the Oracle pool | as the Oracle pool |
| Bootstrap | `app/Data_Manager_Bootstrap.c` | everything's owner | start and stop in order | each failure undoes what was done |
| Drivers, parsers, DDL, procedures, authentication, configuration, logging | rest of `src/` | mostly none | | sequential; see section 7 |

How they interact. The file consumer puts request objects into the queue manager; one
worker per queue takes them out, runs `process_xml_file()` on its pinned session and writes
the response file. MHD's handler threads put request objects into a second queue manager
and block on a completion object until the queue's worker has filled it; writes all go to
queue 0, reads go round robin over the others. `process_xml_file()` opens a transaction if
the request asks for one and calls the write modules, which call the audit trail, which
calls the insert module again, guarded by one process-wide flag. All sessions come from
the pool through the driver. SELECTs of all workers share the resultset cache, from which
the write modules expire the entries of the table they wrote. Every request names a client
session, which is validated against the session cache; file workers report its activity
through the touch queue to the Session Manager thread, which refreshes cache and table.
Everything that executes a statement hands a metrics record to two more queues. `main()`
starts these threads in one order and stops them in another.

What is hard to test is listed with source lines under `hazards` in `PROJECT.json`.

## 2. Modules

| Module | Models | Composes |
|---|---|---|
| `ConnectionPool` | the session pool | |
| `WorkerPool` | the file workers | extends `ConnectionPool`: its steps are conjunctions with the pool's actions |
| `ConnectionPoolProofs` | theorems about pool and workers | `WorkerPool` |
| `RequestService` | what HTTP clients are promised (abstract) | |
| `HttpDispatch` | handlers, queues, HTTP workers, stop sequence | `INSTANCE RequestService` with a refinement mapping |
| `HttpDispatchProofs` | theorems about it, refinement of `RequestService` | `HttpDispatch` |
| `WritePath` | transaction scoping, write modules, audit guard | |
| `WritePathProofs` | theorems about it | `WritePath` |
| `Cache` | the hash table behind all caches | |
| `CacheProofs` | theorems about it | `Cache` |
| `QueryPath` | SELECT and the cache side of writes | extends `Cache` |
| `QueryPathProofs` | theorems about it, refinement of `Cache` | `QueryPath`, `CacheProofs` |
| `Sessions` | client sessions, touch queue, crash and reconcile | extends `Cache` |
| `SessionsProofs` | theorems about them, refinement of `Cache` | `Sessions`, `CacheProofs` |
| `FileIntake` | file consumer, file workers' queues, response manager | |
| `FileIntakeProofs` | theorems about them | `FileIntake` |
| `Background` | metrics writer, Session Manager thread, `main()`'s start and stop | |
| `BackgroundProofs` | theorems about them | `Background` |
| `MC*` | instances and symmetry sets for TLC | |

Operators whose comment starts with "Mutant" are deliberately broken versions of the
definition after them; they document which bug each property would notice and are used by
no specification.

**ConnectionPool.** What `get_session()` does under the mutex up to the unlock or the wait
is one step: `get_session_free`, `get_session_grow` and `get_session_wait` are the three
ways through its loop, `validate_and_grant` their common tail. `release_session()` is two
steps, because its rollback happens outside the mutex. A slot is four booleans: has
handles, is in use, connection works, carries uncommitted work. A thread's context is
"handles set" and `pool_slot_index`; releasing zeroes it, as the `memset` does, which
matters in `WorkerPool`. `OpenMayFail` says whether the database may refuse connections,
`connection_lost` breaks any open connection at any time.

**WorkerPool.** `Borrow` serves both the start and the second half of
`OCI_Pool_reconnect_session()`; `AfterGet` is what the worker does with the result. A queue
is its length. `ProcessCrash` is the read of `ctx->ini` through a zeroed context.

**HttpDispatch.** One step per critical section. A handler holds `enqueue_mutex` over all
its probes, so `todo` is the list of queues still to probe. `comp[h]` is the completion on
the stack of handler `h`; `resp` remembers whose response was stored, so that a foreign one
would be noticed (`told = "foreign"` maps to no state of the service). `reject_request` is what
a handler turns down before it dispatches: an asynchronous SELECT that fails its validation, or
a request there is no memory for.

**RequestService.** A request is turned down with an error, refused, which happens only at
capacity, or executed exactly once and answered with the result; writes run one at a time in the order of acceptance.
The service may degrade: then requests may be left unanswered and are dropped when it
closes. `StatusOf` and `WriteOrder` compute its variables from the queues and workers,
`Degraded` says that a worker found no session at its start.

**WritePath.** A worker's session is the set of its uncommitted items, the database the set
of committed ones; an item is the business row, the audit row, or an audit row about an
audit row of one operation, or the part of its rows that a statement had written when it
failed. Neither driver takes such a part back (`mssql_dml.c:572-599` executes row by row,
`driver_oracle.c:2335` an array), and the modules roll back on their own only after a statement that
returned 0: it stays on the session unless the caller's transaction is rolled back. A failed
rollback is logged and taken for done, as in `Transaction_Manager.c:585-593`: the connection is
gone then and the database discards the work. `activeTx` is what `ctx->active_tx` points at: nothing, the
dispatcher's transaction, or a standalone identity (possibly of a call that has already
returned). Each stage of each write module is an action (`insert_validate`, `update_execute`,
`delete_commit`, ...; `audit_build_*` and `audit_write_*` for `audit_trail_insert()` before
and after it sets its guard). What the modules do alike is one operator per stage (`Validate`,
`Prepare`, `Execute`, `Commit`, `Cleanup`, ...); they differ where their code does: DELETE audits before it executes, UPDATE and DELETE fetch a before-image, INSERT leaves the
rollback to a managing caller, only DELETE ends its identity after a failed validation. A
statement changes one row; those that match none, and the texts, binds and LOBs, are
abstracted. `setting` is chosen once per behaviour: whether `active_tx` is reset before each
request (`http_worker_pool.c` does, `worker.c` only after a reconnect), and whether
validations, audits and responses may fail.

**Cache.** Every operation is one step, since each runs under the cache's lock. The heap is
a function from addresses to entries; an address is used once, so a reader that holds a
freed entry can be told from one that holds its successor. `held[r]` is the entry reader `r`
has looked up and not yet released; `cache_insert` has already freed the old entry when
there turns out to be no memory for the new one; `shared` (a ghost) collects the entries that two readers
have had at the same time since they were last unused. `AsTime` is the conversion of
`UINT64_MAX` to a signed `time_t`, with a small word.

**QueryPath.** A database table is the set of writes committed to it; `Rows` turns it into a
row count. `count_rows` and `open_cursor` are separate snapshots, as in the code; a
transaction sees its own writes (`Visible`). `store_result` caches what was fetched with the
query's tables as tags. An asynchronous batch that cannot be rendered for want of memory is
not sent, its rows count as fetched and the request succeeds (`skipped`). Writes execute, commit and invalidate in the order of their kind:
standalone writes commit first, managed ones invalidate first and commit at
`transaction_end`. Ghosts: `calm` (no write to the table overlapped the query so far) and
`trusted` (entries stored by such queries).

**Sessions.** `row` is OCI_SESSION, the cache holds the copies that `session_validate()`
consults. `session_end()` is two steps (update, then expire the entry) and `session_touch()`
three (look up, release, store), followed by the update of the table. That update commits
only while the Session Manager thread's `active_tx` is clear, which a rejected update ends for
good (`tx_left`): later touches stay uncommitted (`unsaved`), hold the rows' locks and are
reported as done. `crash` empties cache and queue, `start` reconciles. Ghosts: `overlapped` (a
touch had read the record when the session's entry was expired) and `missed` (when an update of
each session last failed).

**FileIntake.** A delivery is a number, a file name can be delivered to again once it is
free. The consumer enqueues first and renames then; a worker may run in between. `Fault`
lets a rename, `opendir()`, an allocation or a worker's `get_session()` fail, `MaxFaults` times
in all. A worker that gets no session leaves its queue, which the consumer goes on filling,
to nobody (`Stranded`); at the end `queue_manager_destroy` frees what is in such queues, once
the other workers have drained theirs. Names in `LongNames` make a path longer than its buffer and are
passed over in every pass; without a `response_body` neither response nor original is moved.
Ghosts record which deliveries could not be moved (`unmoved`), whose archiving is hopeless
(`strays`), or that a crash or the destruction of a stranded queue lost (`lost`).

**Background.** Items of the generic queues are counted, not named. `main` is the position
of `main()` in its start and stop sequence. From the metrics pool on, a failed pool, thread, input
directory, session or worker queue is an alternative of a start action, and so is the
self-test, whose operations are measured (`self_test`) and whose failure makes `main()` return
with the metrics threads running and the pools connected (`halted`). Not included: `malloc()`
failing between the creation of a queue and of its thread.

## 3. Runs

| Run | Bounds | Shows |
|---|---|---|
| `pool` | 4 threads, 1 to 3 slots | accounting, exclusion, cleanliness, signalling, fresh borrows under failing opens, lost connections, timeouts, health checks; a sleeper and a free slot meet |
| `workers` | 2 workers, 2 slots, 2 requests each, opens may fail | every queued request answered, one answer each; sessions distinct and all back at the join unless a reconnect failed; queues drained, shutdown ends |
| `http` | 3 handlers, 3 queues of depth 1, 2 writes, 1 read, 1 async, any of them turned down, workers may not start | completions alive, no lost wakeup |
| `http_live` | 2 handlers, 2 queues of depth 1, 2 writes, 1 read, 1 async that may be turned down, workers may not start | refinement of `RequestService` with fairness; unless degraded, dispatch returns and stop completes |
| `write` | 1 worker, 2 requests of up to 2 operations; `active_tx` reset or not; none, one or all of validation, audit and response failing | honest results, no leftovers but those of failed statements and deletes, audited once, transactions all or nothing, guard never left set |
| `queries` | 2 workers, 3 SELECTs of one text, an INSERT and a DELETE on its table of 2 rows, limit 2, batches of 1, expiry and sweeps, skipped batches | cached results are current, delivered rows are those of one snapshot, the table stays consistent |
| `sessions` | 1 session, 2 workers, 3 requests, the Session Manager thread with a touch queue of depth 1, a logout, a crash | ended sessions are rejected, reports reach the table |
| `files` | 3 names, one of them over-long, 2 deliveries, a writer queue and another of depth 1, a fault, a crash, a stop | executed once, nothing forgotten, originals archived, every file handled |
| `background` | both consumer types, 2 workers, queues of depth 1, batches of 2, 1 request, and 1 renewed session or measured operation of the self-test | accepted items settled, no use after free, pools outlive borrowers, the stop ends |

Three more runs (`write_dangling`, `write_shared_guard`, `sessions_readers`) each check one
statement of the code's own comments or headers that the code does not keep; TLC prints the
counterexample. They are described under `findings` in `PROJECT.json`. Section 8 lists the
disagreements that have no run of their own.

Why the bounds suffice for the cases that matter. In `pool` there are more threads than
slots, so threads sleep, steal wakeups and time out, and more slots than the minimum, so
the pool grows and shrinks. Queue depth 1 makes queues full with one request and overflow
with two; three queues make the round robin choose and overflow. Two requests on one worker are what it
takes for one to suffer from what the other left; two operations are what it takes for a
transaction to be partial. Two workers suffice to race on the guard, which is one bit, and
two readers to race on `in_use`. A limit of two rows with three in the table truncates, and
batches of one row make a result of several batches. One name that is delivered to twice is
what it takes for a file to overwrite or to be taken for its namesake; a queue of depth 1
is full with one item, and a batch of 2 can be ended by its size, its deadline or the stop.
Symmetry is used only in runs without liveness properties.

The type invariants of `WorkerPool`, `WritePath`, `Sessions` and `FileIntake` say what their
variables range over; no run lists them, the other properties are worth more.

The end of the program is an explicit stuttering action (`Terminated`, `Finished`,
`Destroyed`, `Quiescent`, `Exited`); only `files` turns deadlock checking off, because a
stopped consumer with drained queues has nothing left to do and its bounds on deliveries
are used up.

## 4. Fairness

Threads inside the code are scheduled (weak fairness of their next step). A mutex that is
free again and again is eventually granted (strong fairness of `enqueue_begin`; Linux
futexes do not starve a waiter for ever in practice, POSIX leaves it to the
implementation). `get_session()` waits until one absolute deadline, so a thread that keeps
waiting is timed out (strong fairness of `TimeOut` in `WorkerPool`); `pool` does not even
assume that. Nothing is assumed of clients, of the database, of borrowers giving
sessions back, or of anybody asking for a stop. In `Sessions` the
Session Manager thread is scheduled, in `FileIntake` the consumer and each worker, in
`Background` `main()` and each thread; whether a request comes, a session expires, a file is
delivered or the consumer's lifetime ends is left open. The safety runs of `WritePath` and
`QueryPath` assume nothing.

## 5. Proofs

TLC checks the instances of section 3; the theorems hold for every value of the constants
that satisfies the named assumption of the module: any number of threads, slots, queues,
requests, files, tables, faults and crashes, any depth, limit and batch size. Each safety
invariant of a run has its theorem, and so have the action property `BorrowedFresh` and the
safety half of `ImplementsService`. Every proof has the same plan: an inductive invariant
that contains the property, one lemma per action that preserves it, an initial-state lemma,
and a last step that puts them together. No property below is inductive by itself; each
section says what had to be added.

### Session pool and file workers (`ConnectionPoolProofs`)

Assumption: `PoolAssumption` (1 <= `PoolMin` <= `PoolMax`, finitely many threads). The code
does not check `PoolMin <= PoolMax`; it is an assumption about the configuration.

| Theorem | States |
|---|---|
| `TypeCorrect`, `Accounting` | `[]TypeOK`, `[]SlotsOpenCorrect` |
| `Exclusion` | `[](ExclusiveSessions /\ HeldSlotsInUse)` |
| `CleanPool`, `FreshBorrow` | `[]FreeSlotsClean`, `BorrowedFresh` |
| `SignalsSuffice` | `[]NoSleepBesideFreeSlot` |
| `RequestsAnsweredOnce` | `WSpec => []EveryDequeuedAnsweredOnce` |
| `WorkersPinDistinctSessions`, `SessionsBackAtJoin` | `WSpec => []PinnedSessionsDistinct`, `WSpec => []AllBackAtJoin` |

`IInv`: the type invariant bounds `slots_open` by `PoolMax`, which only holds because the
counter equals the number of open slots; exclusion needs that IN_USE marks exactly the held
slots, so that a free slot has no holder; cleanliness of a free slot needs that a slot on its
way back is clean already (`ReturningClean`), because rollback and release are two steps;
connecting and disconnecting need that nobody is inside while the pool is not up
(`QuietUnlessUp`). `GrantStep` does the work for the scan and the growth path at once.
`HealthStep` compares the open slots before and after the pass as sets. `SignalsSuffice`
compares the number of free slots with the number of woken threads: a step may use up a
wakeup only together with a free slot, and may free a slot only together with a signal.

The workers use the pool by the book until a reconnect fails, and not afterwards (section
8). So their invariant has two parts: `Ledger` (what arrived is answered, queued or in hand)
holds always; `IInv` and `Placed` (where a worker is in its loop tells whether it has a
session) hold while `~unhealed`. The lemma in between says that, while they hold, each step
of a worker is one that the pool expects of its users.

### Cache (`CacheProofs`)

Assumption: `CacheAssumption`. `CacheTypeCorrect`: `CSpec => []CTypeOK`; `CacheConsistent`:
`[]TableConsistent`; `SoleReaderProtected`: `[]SoleReaderSafe`.

`CInv` adds that addresses up to `last` have been used (`Allocated`: a new entry never takes
the address of a live one), that an entry some reader holds and that was never shared is
marked `in_use` (`CheckedOut`), and that only held or live entries are recorded as shared
(`SharingKnown`). `CheckedOut` is what fails for two readers, and with it the run
`sessions_readers`.

### Queries (`QueryPathProofs`)

Assumption: `QueryAssumption` (finitely many writes; every DELETE finds a row of its own).

| Theorem | States |
|---|---|
| `QueriesUseCache` | `QSpec => CSpec`: every step is a step of the cache or leaves it alone |
| `QueryTypeCorrect` | `[]QTypeOK`, in particular that the count stays within `query_max_record_count` |
| `ResultsetCacheConsistent`, `ResultsetReaderProtected` | the cache's theorems, carried over by the refinement |
| `CalmResultsStayCurrent` | `[]CalmResultsCurrent` |
| `SelectsDeliverSnapshot` | `[]DeliversSnapshot` |

The last two rest on `QCalm`. `CalmSelect`: while a SELECT is calm nobody writes to its table,
so that the count, the cursor and the committed table agree although they are taken at
different moments. `TrustedEntry`: a trusted result that is still a hit equals the committed
table or a committed write is about to invalidate it, *and* no announced transaction on its
table is open; without the second half the commit at `transaction_end`, which invalidates
nothing, would break the first. `clock >= 2` is there because `expiry_ts = now - 1` expires
an entry only if it is not 0, which means "never". That one batch is final when as many rows
come as were counted is the arithmetic lemma `OneFinalBatch`, for any batch size.

### Client sessions (`SessionsProofs`)

Assumption: `SessionAssumption` (there is at least one session key). `SessionsUseCache`:
`SSpec => CSpec`; `SessionsTypeCorrect`: `[]STypeOK`; `OnlyActiveSessionsAccepted`:
`[]AcceptedSessionsAreActive`; `SessionReaderProtected`: `[]SoleReaderSafe`.

`SInv` adds that a record which `session_touch()` has read and will write back belongs to an
active session or is one of the two exceptions (`TouchedActive`), and that between a crash
and the next start there is no cache and no thread (`DownIsEmpty`), so that what the
reconciliation closes nobody has cached.

### HTTP dispatch (`HttpDispatchProofs`)

`DispatchTypeCorrect`: `[]DTypeOK`; `CompletionsOutlivePointers`: `[]CompletionAlive`;
`NoWakeupLost`: `[]NoLostWakeup`; `DispatchIsService`: if `Q > 1`, `DSpec` implies
`Service!SInit /\ [][Service!SNext]_(Service!svars)`. `Q > 1` is needed: with one queue reads
are refused without any queue being full (section 8).

`DInv` numbers the places of a queue, with what its worker has in hand as place 0.
`ItemsSound`: an item's completion is that of the handler that waits for it, not yet done,
and the item has been executed exactly while the worker delivers its result; `OnePlace`: a
request is in one place at most, so that delivering one result cannot disturb another
handler's completion; `HandlersServe`, `HandlerStage`, `ClientsSound`: where a handler is, and
what a client was told, is what has happened; `WorkersSound`, `StopSound`: workers leave and
queues are destroyed only when empty, or when the worker never ran. The refinement is one
lemma per kind of step: most show nothing; a push accepts, a pop starts the oldest accepted
request of its queue, the execution finishes it, a refusal is justified by a full queue, a
request turned down by its handler was nowhere in the system (`UnsentUnknown`), and
the destruction drops asynchronous requests only if a worker never ran (the degraded service).
`StatusExclusive` is what makes the mapping a function: no two statuses of a request hold at
once.

### Write path (`WritePathProofs`)

`WritePathTypeCorrect`: `[]TypeOK`; `AuditGuardReleased`: `[]GuardReleased`;
`TransactionsAtomic`: `[]TxAllOrNothing`; `StandaloneWritesHonest`: `[]StandaloneHonest`;
`SessionsCarryFailuresOnly`: `[]LeftoversAreAttempts`; `SingleWorkerAudits`: with one worker,
`[]AuditedOnce` (with two it is false: run `write_shared_guard`).

`WInv` is a conjunction of facts about one worker each, and `Same` with its lemma shows that a
step of one worker leaves the others' alone. `Place` and `Ownership` say what the locals and
`active_tx` are at each stage, `Fresh` that nothing has been written by an operation still to
come, `TxRows` and `OwnRow` where the rows of the current operation are before and after its
commit, `Reported` that what has been reported cannot change any more (the row of a failed
operation is not in the session either, so no later commit makes it durable), `Leftover` what
may be uncommitted: audit rows and half-written rows of operations that reported a failure, and
never a row of an executed statement. `Parts` follows the half-written rows: those in the
session belong to a failed operation of this worker, and those that are durable came with a
later row of the same session. `AInv`
adds where the audit row is.

### File intake (`FileIntakeProofs`)

`FileTypeCorrect`: `[]TypeOK`; `PayloadsExecutedOnce`: `[]ExecutedOnce`;
`NoDeliveryForgotten`: `[]NothingForgotten`; `OriginalsAreArchived`: `[]OriginalsArchived`.

`FInv`: `OneRequest` says that a delivery that could be moved has one request at most, and
none while its file waits in the input directory, except between the enqueue and the rename,
which are two steps; `Scanning` that the pass does not meet the consumer's file again;
`Moving` that the request of the file being renamed is somewhere, or done; `InProcessing`
where the original of a request in work is; `Filed` that directories hold files under their
own names.

### Background threads (`BackgroundProofs`)

`BackgroundTypeCorrect`: `[]TypeOK`; `ItemsSettled`: `[]EveryItemSettled`; `QueuesFreedLast`:
`[]NoUseAfterFree`; `PoolsDisconnectedLast`: `[]PoolsOutliveBorrowers`.

`BInv` ties the stage of `main()` to the threads that exist and those that have been joined
(`StartOrder`, `StopOrder`), a queue's life to both (`QueueLife`), and counts items:
accepted = handled + queued + in hand while the queue exists (`Conserved`), where the DB
writer's batch is in hand; a thread ends only with its queue shut down and empty
(`EndsDrained`). `NothingBefore` is needed for the start that fails at the consumer: no
request has come, so the abandoned Session Manager thread has nothing to enqueue.

## 6. Only model-checked

Liveness is outside the prover's reach and stays with TLC: `FreeSlotsGetTaken`,
`QueuedRequestsAnswered`, `ShutdownCompletes`, `EveryDispatchReturns`, both `StopCompletes`,
`ReportsReachTable`, `EveryFileHandled`, `ItemsHandled`, and the fairness half of
`ImplementsService`. The three runs that expect a violation have no theorem, of course.

The invariants `IInv`, `CInv`, `QInv`, `QCalm`, `WorkersInv`, `DInv`, `WInv`, `BInv`, `FInv` and
`SInv` hold on the instances of section 3 as well (TLC); no run lists them, the theorems say more.

## 7. Not modelled

The Oracle client headers under `src/include/` (OCI, XML, JSON: declarations of a library,
most of the lines of the repository) hold no logic of this program.

Drivers (calls into OCI and ODBC, visible as outcomes), parsers and text helpers, password
hashing and LDAP, logging, response formatting. A commit whose outcome is unknown because
the connection broke during it is a failure that did not commit. `pthread_create()` of an
HTTP worker always succeeds. Chunked bodies and the lifetime watchdog of the HTTP consumer
are left out, and so are procedures and DDL, which keep no state between calls. The
metadata and permission caches are `Cache` with a loader that only reads. `MSSQL_Pool.c`
repeats `Connection_Pool.c` with small differences (the minimum is clamped, a failed
revalidation signals, a reconnect closes only the slot that the handle belongs to).

## 8. Disagreements without a run

Met while modelling, each by the code lines given. The properties above state what holds
beside them, and name the exception where there is one.

- A multi-row INSERT that fails half way (`Insert_Execute_Module.c:892-900`) goes to its cleanup with
  `rows_inserted` still 0, so that the rollback there (1354, "Rollback on any error" at 1344) is
  skipped: the rows written so far stay on the pinned session and the next commit, of whatever
  request, makes them durable, although the client was told that the INSERT failed.
  `worker.h:11-12` says "each request already commits/rolls back atomically on its own". An UPDATE
  or DELETE that fails after its statement ran leaves its rows in the same way
  (`StandaloneHonest`, `LeftoversAreAttempts`).
- A rejected touch (`Update_Execute_Module.c:558`) leaves `active_tx` set in the Session Manager
  thread for good: no later touch is committed (`session_manager_runner.c:55-57`: "each touch
  self-commits"), and an END_SESSION of a touched session waits for the row lock.
- A file worker without a session (`worker.c:62-74`) leaves its queue open: the files queued there
  wait in Processing_* and are discarded when the queues are destroyed
  (`Data_Manager_Bootstrap.c:2057`), unanswered.
- A self-test that halts (`Data_Manager_Bootstrap.c:1655-1664`) returns from `main()` with the
  metrics threads running and both pools connected; their open batch is lost.
- An asynchronous batch that cannot be rendered is skipped (`Execute_Query_Batch_Module.c:897-903`,
  926, 963) and the request ends well, possibly without a final batch.
- Failed reconnect (`worker.c:150`): the worker goes on with a zeroed context and later
  "releases" slot 0 under another worker (`unhealed` in `WorkerPool`); a request parsed
  meanwhile reads `ctx->ini`, which is NULL. `Connection_Pool.c:1138-1140` calls that result
  fatal for the thread. With validation on borrow off, a reconnect may return the same dead
  slot as a success.
- An HTTP worker without a session (`http_worker_pool.c:109`) leaves its queue open; the
  handler of a request routed there waits for ever. `queue_count = 1` refuses every read. HTTP
  workers never repair a lost session (148), and `http_worker_pool_stop()` joins a thread whose
  creation failed (249).
- The audit record of a rejected DELETE (`Delete_Execute_Module.c:584`) stays uncommitted and
  goes with the next rollback; `Delete_Execute_Module.h:45-51` promises that "the attempt is
  captured".
- The cap on cache entries is never enforced: `oldest_access` starts at `(time_t)UINT64_MAX`,
  which is -1 (`cache.c:273`), so no entry is a candidate for eviction.
- A result fetched before a write and stored after its invalidation stays until it expires;
  a managed write invalidates before it commits (`Insert_Execute_Module.c:1183`).
- `is_final` (`Connection.h:239`, "1 on the last batch only") is computed from the count: rows
  that vanish before the fetch leave no final batch, rows that appear make several. A
  synchronous result with fewer rows than counted has blank ones at its end.
- Keys are normalised to upper case with their literals: `'a'` and `'A'` share a result.
- A touch that overlaps the end of its session revives it in the cache (`overlapped`); a touch
  while a reader has the entry is dropped. Reconciliation uses CREATED_TS, although the
  comment at `Session_Manager.c:631-638` says LAST_ACTIVITY_TS. Sessions used over HTTP only are
  never touched.
- A file whose rename fails after it was enqueued is executed again by the next pass; the
  original of a namesake overwrites it in the output directory.
- If the File Consumer thread cannot be created (`Data_Manager_Bootstrap.c:1937`), the Session
  Manager thread is neither stopped nor joined before the pool is disconnected (`Abandoned`);
  with `metrics_db_fail_force_shutdown` `main()` returns without disconnecting the business
  pool (1555). A File Consumer thread that gets no session ends the whole process at once,
  where its log line says "no files will ever be processed until the process restarts".
- FAILED_ATTEMPTS (`Auth_Manager.c:362`) is read, incremented in C and written back: two
  failures at once count as one.

## 9. Plan

1. Done: all modules of section 2, with a theorem for every safety property of the runs.
2. Next: more from the same invariants. That a reported result is never taken back and that
   committed work stays committed (`WritePath`), that an executed or answered delivery stays
   so (`FileIntake`) and that the threads of the stop sequence never come back (`Background`)
   are action properties that `WInv`, `FInv` and `BInv` nearly give.
3. `MSSQL_Pool.c` as a second implementation of an abstract session pool that
   `ConnectionPool` also implements.
