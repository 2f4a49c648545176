# Verification of typed-sql

TLA+ models of the stateful parts of typed-sql, checked with TLC on small
instances, and theorems about them checked with TLAPS for every value of the
constants. Line references are to the repository's `packages/`.

1. [Inventory](#1-inventory): the system's parts, their state and what makes each correct
2. [Modules](#2-modules)
3. [Migration engine](#3-the-migration-engine)
4. [PostgreSQL transactions](#4-postgresql-transactions)
5. [SQLite runtime](#5-the-sqlite-runtime)
6. [ODBC transport and controlled execution](#6-odbc-transport-and-controlled-execution)
7. [Routed database](#7-the-routed-database)
8. [Playground runs](#8-playground-runs)
9. [Language server](#9-the-language-server)
10. [Runs and bounds](#10-runs-and-bounds)
11. [Fairness](#11-fairness)
12. [Proofs](#12-proofs)
13. [Where code and documents disagree](#13-where-code-and-documents-disagree)
14. [Not modelled](#14-not-modelled)

`PROJECT.json` lists the runs, the source lines each definition stands for, the
hazards with the properties that guard them, and for every property a mutant:
a plausible mistake in one definition that makes the property fail. The mutated
form stands before the definition it varies (`ReleaseOf_Scopes` before `ReleaseOf`).

## 1. Inventory

typed-sql turns SQL templates into typed queries at build time and runs them
over a driver at run time. Most of its lines are functions over syntax trees
(compiler, catalogs, type inference): they keep no state. State, and what is
hard about it, is in the parts below.

| part | state | operations | interacts with | hard because | correct when |
|---|---|---|---|---|---|
| migration engine `migrations/src/{engine,recovery}.ts` | one history document in the target (attempts, applied entries); per command a plan, a copy of the history, the attempt it runs | plan, apply (up/down), reconcile, baseline, inspect, resolve | migration files, a database session, operators | commands run in several processes, sessions die anywhere, COMMIT is ambiguous, files and schema change between plan and run | the history is truthful, readable, append-only; one outcome in doubt at a time |
| PostgreSQL migration session `postgres/src/migrations.ts` | advisory lock, transaction, the saved document | lock, unlock, begin, commit, rollback, execute, saveHistory, capture | the server | the backend outlives its client | the lock is always given back |
| migration inventory `migrations/src/inventory.ts` | none (files on disk) | load, check order and content | developers | files change at any time | a plan names the content it will run |
| PostgreSQL runtime `postgres/src/{runtime,stream}.ts` | a pool; per transaction the flags all its scopes share, the work on its client, savepoints | execute, all, batch, pipeline, stream, copyFrom, copyTo, transaction (nested), close | node-postgres, application callbacks, abort signals | callbacks leave work running, catch errors, nest; cancellation destroys the client; failures in clean-up | a transaction is all or nothing, its client goes back once, clean, and with nothing of it running |
| SQLite runtime `sqlite/src/runtime.ts` | one synchronous handle behind a chain of promises (`ExclusiveQueue`), open streams, savepoint depth, the child transaction | execute, batch, stream, transaction, close | `node:sqlite`, callbacks | a stream holds the handle until it is closed, a transaction until it ends, close waits for all of them; the engine may roll back by itself | one owner, no turn lost, nothing after the end, close ends |
| controlled execution `core/src/execution.ts` | per call: the cancellation error, a timer, a listener | `runControlledExecution` | every runtime's `cancel` | answer, abort and deadline race | one outcome; `cancel` at most once; nothing left behind |
| SQL Server runtime, ODBC transport `sqlserver/src/{runtime,odbc,odbc-transport,odbc-worker,odbc-native,odbc-session}.ts` | requests, epoch, phase and borrow words shared by three threads | request, cancel, close | a native driver | cancel of a finished request, freed handles, workers that exit | a cancellation hits the request it was meant for or none; every request settles |
| routed database `core/src/routing.ts` | whether the session is pinned to the primary, a cursor over replicas | execute, transaction with retries, views | primary, replicas | retry after an ambiguous COMMIT, stale reads | reads follow the session's writes; a committed transaction is not run again |
| playground run manager `playground/src/{runner,worker,pg}.ts` | runs with a status, worker processes, a leased client | submit, cancel, page, close | worker processes, a server | cancelling, deadlines, crashes and lost answers around COMMIT | a run's status is true of its effects; it ends |
| language server `language-server/src/server.ts` | open documents and their states, preloaded documents, task queues, cancellation tokens, diagnostics | didOpen, didChange, didClose, didChangeWatchedFiles, publish | the editor, the TypeScript server | asynchronous analyses of older versions finish later, refreshes run among them | at rest everything is of the current version, here, upstream and in the editor |
| build cache `build/src/engine.ts` | results by key with a byte count | transform, invalidate | bundlers | concurrent transforms of one file | the byte count is the sum of what is cached |
| MySQL and DuckDB runtimes `mysql/`, `duckdb/` | as PostgreSQL, as SQLite | | | | the same obligations |
| compiler, AST, schema, catalogs, TypeScript bridge, CLI, telemetry, conformance kit, website, editors | none worth a model | | | | |

How they interact: an application calls a runtime, directly or through a routed
database; a runtime leases a client from its driver, wraps calls that carry a
signal or a deadline in controlled execution, and gives the client back. The
CLI runs the migration engine over a session of its own, never over a
runtime. The language server and the playground sit on the compiler and share
no state with the runtimes: the playground talks to its server through `pg.ts`.

The parts' hazards, line by line, are in `PROJECT.json`; those that no property
covers carry the reason in a note.

## 2. Modules

| part | model | abstract specification | instances | theorems |
|---|---|---|---|---|
| migration engine | `MigrationHistory` (document, `validateHistory`), `MigrationRunner` (commands over sessions) | `MigrationLedger`, implemented by `MigrationRefinement` | `MCMigrationRunner` | `MigrationRunnerProofs`, `MigrationEffectsProofs` |
| PostgreSQL transactions | `PgTransaction` | | `MCPgTransaction` | `PgTransactionProofs` |
| SQLite | `SqliteDatabase` | `NestedTransactions`, implemented by `SqliteRefinement` | `MCSqliteDatabase` | `SqliteDatabaseProofs` |
| ODBC transport | `OdbcTransport` | | `MCOdbcTransport` | `OdbcTransportProofs` |
| routed database | `RoutedDatabase` | | `MCRoutedDatabase` | `RoutedDatabaseProofs` |
| playground | `PlaygroundRun` | | `MCPlaygroundRun` | `PlaygroundRunProofs` |
| language server | `LanguageServer` | | `MCLanguageServer` | `LanguageServerProofs` |

The order was what a defect would cost: durable data first (migrations,
transactions), then connections that are used again, then reads and retries,
then tools. The two abstract specifications say what the parts with durable
data promise; the models of the others state their promises as invariants.

All modules written to be proved about use no `RECURSIVE` operator. A theorem
module extends the model it is about (or its refinement) and nothing else of the
project, but for `MigrationEffectsProofs`, which builds on `MigrationRunnerProofs`.

## 3. The migration engine

### Modules

- `MigrationHistory`: constants (`Statements`, `DataOnly`, `Transactional`,
  `Reversible`, `Reconcilable`), the types of `types.ts`, the document and
  `ValidHistory` (`engine.ts:87-133`), one operator per check. An *effect* is what
  one statement of a migration leaves behind; those in `DataOnly` do not show in
  the catalog. `Catalog(rows)` is what a capture sees.
- `MigrationRunner`: one runner is one operator process. `pc[r]` is the await it
  is at in `createPlan`, `applyPlan`, `baselinePlan` or `resolveAttempt`;
  `plan[r]` is the plan document, `mem[r]` the copy of the history it works on,
  `att[r]` its attempt, `step[r]` the next statement. `txn[r]` and the advisory
  `lock` are the backend's. `ledger` and `rows` are what is committed.
- `MigrationLedger`: per migration "pending", "in doubt" or "applied"; an attempt
  starts only above everything applied (up) or at the top of it (down), only when
  nothing is in doubt, and only its own outcome settles it.
- `MigrationRefinement`: `Ledger == INSTANCE MigrationLedger WITH status <- LedgerStatus`,
  the status read off the committed document.

### State and actions

| code | action |
|---|---|
| `createPlan` (`engine.ts:301-393`) | `StartPlan` (files and history), `BuildPlan` (catalog, selection): neither under the lock |
| `applyPlan`: inputs, connect, lock (`407-427`) | `Connect`, `AcquireLock`, `GiveUp` |
| evidence under the lock (`428-466`) | `VerifyPlan`, `VerifyBaseline`, `VerifyResolution`, or `Refuse` |
| running attempt saved (`467-482`) | `Mark` |
| begin, statements, comparison, save, commit (`484-539`) | `Begin`, `Execute`, `Record`, `Commit`, `CommitRejected` |
| failure at any of them, catch block (`540-583`) | `Fail`, `Catch` |
| finally: unlock, close (`585-600`) | `Close` |
| `inspectMigrations` and the operator's decision | `Inspect`, `Attest` |

The environment: `Lose` (the process dies or the connection breaks, at any
point), `BackendEnds` (the server notices; the command that was in flight may or
may not have landed, `InFlightLands`), `ManualDdl`, `Repair` (an operator
completes or reverses a partial attempt), `EditFiles`. What a rejected COMMIT has
done is `CommitFaults`: "undone", or "done" when the response was lost.

### What is abstracted

Files and history are read by one step of `StartPlan`: nothing is decided
between them. A plan that selects nothing changes nothing and is not modelled.
Row-count and boolean checks are failures a statement may meet. Nobody repairs
effects after they were attested. `InspectWhileLocked = FALSE`: operators inspect
while no session holds the lock; with TRUE an operator may attest effects a dying
session is still changing, and `LedgerHonest` fails: the digests the resolution
compares do not see data. `UnreadableHistory = FALSE`: a runner that can save
after a failure can also read; with TRUE (and `CommitFaults` with "done") the
fallback to its own copy (`engine.ts:549`) may overwrite a durable outcome, and
`SettledStaysSettled` fails. `OneUnresolved` is proved for either value of both.
The catalog is compared before COMMIT but not locked: DDL by hand in between goes
unseen, and `HeadIsLive` is stated for targets without manual DDL.

## 4. PostgreSQL transactions

### Modules

- `PgTransaction`: one root transaction with any tree of nested ones, on one
  client. The callbacks are open: they issue work, leave some running
  (`Unawaited`), nest, return or throw at any time.
- `MCPgTransaction`: a root, `a`, `aa` nested in `a`, and `b` next to `a`; one
  query or two, a batch and a pipeline of two, a stream, a COPY.

### State and actions

`open`, `failed` are a scope's `#transactionScopeOpen` and
`#transactionOperationFailed`; `valid`, `unsafeDepth`, `discard`, `activeCopy` the
`#transactionState` all scopes share (`unsafeDepth = 0` is `unsafe: false`);
`work[w]` is one piece of work with the part it is at; `queue` the commands
node-postgres has not had answered; `conn`, `frames`, `committed` the server's
view: the transaction, its savepoint stack with the effects since each, and what
is durable. `pc[s]` is the await of the scope's transaction call:

| `pc` | waits for | code |
|---|---|---|
| opening | BEGIN, SAVEPOINT | `runtime.ts:1047`, `1096` |
| running | the callback | `1052`, `1117` |
| leaked | work left running, found after a return | `1215-1248` |
| settling | work left running, after a failure | `1250-1300` |
| ending | COMMIT, RELEASE | `1061`, `1127` |
| undoing | ROLLBACK, ROLLBACK TO | `1074-1087`, `1139-1150` |

Between two awaits the code runs alone, so an action is all of what happens from
one await to the next: an answer of the server and the continuation it resumes
are one action (`AnswerQuery`, `AnswerCommit`, ...). Three continuations are
actions of their own because they await something else: `StartCopy` (the COPY
library), `SettleStream` and `Settled` (work a scope waits for). `Cancel` is an
abort signal or a deadline of a controlled `all`: it destroys the lease at once,
while the query is answered later. `Break` loses the connection; a COMMIT the
server was working on may have landed (`torn`).

A stream is two commands, its reads and the close of its cursor; an effect is one
query of a piece of work. A savepoint's name is made of the depth alone
(`runtime.ts:1096`), so `Latest(s)` is the last frame of that depth.

### What is assumed of callbacks

`Concurrent = FALSE`: a callback waits for a nested transaction and for a COPY it
has started before it uses its own scope. With TRUE two siblings at one depth
share a savepoint name and `AllOrNothing` fails: nothing in `runtime.ts:1012-1018`
keeps them apart. `"nested" \notin Unawaited`: a nested transaction is awaited;
one that is not is no part of what `#rejectLeakedTransactionWork` looks for, and
`AllOrNothing` fails. No document promises a defence against either; both are
listed as hazards, and `LeaseOnce` is proved for any value of both constants.

## 5. The SQLite runtime

### Modules

- `SqliteDatabase`: any tree of transactions, and queries, batches and streams on
  the database and on the scopes. A statement runs in the step that issues it,
  as in the code; what interleaves are turns, the later queries of a batch, the
  closing of streams and the ends of callbacks.
- `NestedTransactions`: what callers are promised: effects nobody sees until the
  transaction commits, a nested one's in the hands of its parent, nothing left of
  an aborted one, calls outside any transaction only between transactions.
- `SqliteRefinement`: status and held effects read off `began`, `pc`, `levels` and
  `pending`.

### State and actions

`ticket`, `next`, `serving` are the chain of promises of `ExclusiveQueue`
(`runtime.ts:80-107`): a call has the handle when its place is the one served.
`open` is `#scopeOpen`, `levels` the savepoints the engine has open (their names are
made of the depth alone), `pending` the effects since each, `durable` what is
committed.

| code | action |
|---|---|
| `execute`, `batch`, first `next()` of a stream on the database; its turn | `Issue`, `Turn` |
| the same on a scope | `Use` |
| the next query of a batch, the close of a stream | `BatchGoesOn`, `EndStream`, `StreamCloses` |
| `transaction()` on the database; its turn; on a scope (`341-363`) | `IssueTransaction`, `TransactionTurn`, `Nest` |
| the callback's end, COMMIT or RELEASE, the catch block (`364-388`) | `Return`, `Throw`, `Commit`, `Undo` |
| `close()` (`393-409`) | `CloseCall`, `CloseQueues`, `CloseTurn` |

`EngineRollsBack = TRUE`: a failing statement may roll the whole transaction
back, as SQLite does on some errors. The abstract specification then marks the
open transactions "lost"; the runtime's COMMIT fails because the engine knows no
transaction, and the call throws (section 13 has the case where it does not).

### What is assumed of callbacks

They await their batches (`"batch" \notin Unawaited`, see section 13), and no call
on the database itself: one that awaits such a call waits for its own end, which
the code does not prevent and no document promises to. Nested transactions may be
left running.

## 6. ODBC transport and controlled execution

`OdbcTransport` has three threads. Main posts one command at a time to the data
worker, which runs it as a series of blocking native calls; a cancellation goes
to the control worker, which calls `SQLCancelHandle` on the statement the shared
words name. Every access of a shared word is a step of its own: the order of
`publish`, `phase`, the second check, `borrow`, the re-check and the drain is what
the module is about.

| thread | code | actions |
|---|---|---|
| main | `request()` within `runControlledExecution`, its finally, `failed()` (`odbc-transport.ts:100-200`) | `Submit`, `SubmitLate`, `Fire`, `Settle`, `Answer`, `Acknowledged`, `Failed`, `CloseWithout` |
| data | `OdbcNative.call` (`odbc-native.ts:183-203`), `OdbcSession` | `Take`, `Publish`, `Enter`, `Begin`, `BeginRefused`, `NativeReturns`, `Drained`, `CallOver`, `BetweenFails`, `Finish`, `Fail`, `FreeRefused`, `FreeChecked`, `Free` |
| control | `cancelOdbcEpoch`, `acknowledgeOdbcCancellation` (`odbc-worker.ts:15-60`) | `TakeCancel`, `Look`, `Borrow`, `Recheck`, `CancelReturns`, `Return`, `StoreAck`, `Notify` |
| environment | a worker exits, at any place but inside a native call | `DataDies`, `ControlDies` |

Controlled execution (`core/src/execution.ts`) is part of main: the alarm (`Fire`,
signal or deadline) may fire before the dispatch (`SubmitLate`), while the
operation runs, and after its answer is in and before the caller is resumed
(`pc = "answered"`); `cancel` is called once, and the operation is awaited either
way. Epochs end at `MaxId` (0x7fffffff in the code), where only clean-up goes on,
with id 0. `Mortal` says which workers may exit on their own, `ExitSeenWhile` where
main may be when it learns that the data worker has: without "awaiting" in the
passing run, with it in `odbc_exit`.

A prepared statement is used by `use` (a query on it) and by `stream` (`odbc.ts:270-300`), whose answer
names the handle the caller already has (`odbc-session.ts:265-282`). When such a start is
cancelled after its answer, main frees the handle as it frees a new one
(`odbc-transport.ts:170-180`). Only `stream.close()` cancels a start on a prepared statement
(`odbc.ts:331-350`), and all its caller does afterwards is another `streamClose`, which the session
answers at once for a handle it does not know (`odbc-session.ts:254-262`). So `ended` holds
the statements freed under a stream that its caller has closed, and `NoOrphans` says that
exactly those that were given and have not ended are allocated.

Left out: the lock of an open cursor, start-up, values and diagnostics, the
transactions of `sqlserver/src/runtime.ts`.

## 7. The routed database

`RoutedDatabase` has contexts (a pin each), views on them, a primary that is a log,
replicas that have applied a prefix of it, and calls of `transaction()` with a
retry policy.

| code (`routing.ts`) | action |
|---|---|
| `#target`, `#dispatch`, the selector (`317-347`) | `Send`, `Answer` |
| `pinPrimary()` | `PinPrimary` |
| `transaction()`: the loop, the attempt, the catch, the wait (`240-300`) | `Start`, `Begin`, `QueryFails`, `CallbackThrows`, `CallbackReturns`, `Commit`, `Wake` |
| `policy.signal` | `Abort` |
| replication | `Replicate` |

An error is its native code and the attempt whose database raised it: that is
what `databaseErrors` and the dialects' classifiers look at. A callback may keep
an error and throw it in a later attempt, or throw one that only looks like a
driver's. COMMIT succeeds, fails with nothing committed, or loses its answer
either way. `floor` and `saw` record, for each read, what its context knew when it was
issued and what it was answered from.

## 8. Playground runs

`PlaygroundRun` is one run, of a read, a write or an author's file, through four
parties: the run manager (`runner.ts`), the worker process (`worker.ts`), the
managed query with its lease (`pg.ts`), and the server.

| party | code | actions |
|---|---|---|
| manager | `#execute`, `cancel`, the deadline and kill timers, the exit (`runner.ts:480-640`) | `PrepareFails`, `StopInTime`, `Fork`, `Cancel`, `Expire`, `Kill`, `AskForPage`, `Exited`, `Removed` |
| lease | its controller, `cancel()`, the fall-back (`pg.ts:330-420`) | `DeliverCancel`, `WorkerIdle`, `LeaseExpires`, `AskBackend`, `AskFails`, `Acknowledged`, `Fallback` |
| query | `query()`, `finish()`, `normalize()` (`pg.ts`) | `Connect`, `ConnectFails`, `Opened`, `OfferPage`, `DeliverPull`, `Fetched`, `FetchFails`, `Undo`, `RolledBack`, `Committed`, `Settle` |
| worker | `worker.ts` | `StartFails`, `StartQuery`, `StartFile`, `AuthorActs`, `AuthorEnds`, `QueryEnds`, `Close`, `Leave`, `Crash` |
| server | external | `ServerAnswers`, `SignalMissed`, `ServerNotices`, `Break` |

The manager learns of the effects only from what the worker told it before it
left; `StatusIsHonest` compares the status it gives with the transaction at the
server. Preparation (checking and building the code) is assumed to end. A late
`cancel()` or deadline may overwrite a terminal status with "cancelling"
(`runner.ts:614`), and an error after COMMIT (a result that cannot be written) is
reported as "failed": the property is stated for the statuses that claim
something of the effects.

## 9. The language server

`LanguageServer` is about documents between an editor and the TypeScript server
that typed-sql drives. A document is its version; what an analysis says is left
out. A notification of the editor is noted at once (`sourceDocuments`, the
cancellation of the token before it) and queues a task on that document
(`queueDocument`); a change of the project queues a refresh (`queueWorkspace`).

| code (`server.ts`) | action |
|---|---|
| on `didOpen`, `didChange`, `didClose`, the synchronous part | `DidOpen`, `DidChange`, `DidClose` |
| their tasks, from await to await (`910-1028`) | `Open`, `Debounce`, `Change`, `Close`, `Analysed`, `Published`, `Unopened`, `Cleared` |
| the catch of `queueDocument` (`360-371`) | `Abort`, `Fail` |
| on `didChangeWatchedFiles` (`1067-1102`) | `DidChangeWatchedFiles`, `RefreshStarts` |
| `refreshOpenDocuments` (`567-605`) | `RefreshNext`, `RefreshAnalysed`, `RefreshPublished` |
| `resetVirtualDocuments`, `preloadWorkspaceDocuments` (`607-641`) | `Reset`, `ResetNext`, `Preload`, `PreloadNext`, `Preloaded`, `PreloadDone` |
| the catch of `queueWorkspace` (`389-402`) | `RefreshFails` |
| what upstream publishes (`1123-1141`) | `NativeForwarded` (of a file without a state, as it is), `NativeDiagnostics`, `NativePublished` |

`overlay` is what upstream has open, `shown` what the editor shows. A task awaits
`workspaceReady` as it is when the task starts, not as it becomes later: `ready` in
`step[u]`, and the microtasks of a finished wait run before the next message
(`AllWentOn`). Upstream may publish about any file at any time, also after a close. The
iteration of a JavaScript `Map` meets a key again that was deleted and set again, which is why `DidClose` takes the document out of `visited`.

`Editors` says how editors behave. The passing run has editors that are as quick
as they like with one document but edit and close nothing while a refresh runs,
and ask for no refresh while a close is in progress. Without these
restrictions `SettledIsCurrent` and `SettledIsShown` do not hold (section 13); with them they
are theorems (section 12).

## 10. Runs and bounds

| run | asks | instance | distinct states |
|---|---|---|---|
| `migrate_apply` | is the history truthful, readable, and a ledger, whatever dies? | 2 runners, 2 migrations (one in a transaction; one without, with a schema and a data statement), 3 attempts, 1 lost session, symmetric runners | 208,797 |
| `migrate_adopt` | is an adopted or applied head the live schema, and is applied content never replaced or reordered? | 1 runner, 3 migrations (1 changes data only, and its file appears late), objects that exist already, apply, baseline, reconcile, 2 versions, 1 manual DDL, 2 edits, 1 lost session | 2,389,741 |
| `migrate_lock` | is the lock always given back, and does a settled attempt stay so when COMMIT is rejected after it took effect? | as `migrate_apply`, nothing reversible, fair | 170,096 |
| `pg_transaction` | all or nothing, one clean release, live marks, nothing left behind, and does every call settle? | a root, `a` nested in it, `aa` in `a`, `b` next to `a`; a query that may be cancelled, a stream, a batch, a pipeline, an awaited COPY; 2 pieces of work and 2 nested transactions in one behaviour, the connection may break, fair | 565,104 |
| `pg_copy` | the same with a COPY that is not awaited | 2 scopes, a query, a COPY | violation |
| `sqlite_scopes` | one owner, nothing outlives its scope, nested transactions, and does `close()` settle? | `t2` nested in `t1`, a query on each, a stream in `t2`, a batch of two and a stream on the database, the engine may roll back, fair | 345,451 |
| `odbc_cancel` | does a cancellation hit only its own statement, is nothing left in the driver, and does every request settle? | 4 epochs, 2 native calls per request, either worker may exit, fair | 819,933 |
| `odbc_exit` | the same with a data worker that exits while an acknowledgement is awaited | 2 epochs, 1 native call, fair | violation |
| `routed` | do reads follow the session's writes, and is nothing committed run again? | 1 context with views of every preference, 1 replica, 1 transaction of 3 attempts with 1 query each, fair | 1,939,418 |
| `playground_run` | is a run's status true of its effects, and does it end? | reads, writes and author's files, 2 pages, fair | 258,256 |
| `language_server` | is everything current once the server is at rest? | 2 documents, one with queries, 3 notifications, 2 refreshes, the schema may break, upstream publishes about any file at any time | 1,276,850 |
| `language_edit` | the same with an editor that edits while a refresh runs | 2 documents, 3 notifications, 1 refresh | violation |

Why these are enough.

- *Migrations*: every rule compares two migrations, two attempts or two runners; a
  third attempt allows up, down, up again, with a failed one in between. A
  transactional migration of one statement and a non-transactional one of two give
  every partial failure. One lost session per run gives each interleaving of a
  dying backend with one other command. In `migrate_adopt` the file of migration 1
  appears after migration 2 was applied or baselined.
- *PostgreSQL*: depth 3 is the least where a failure must be passed over a level that
  is neither the root nor the failing one; two siblings the least where one's
  outcome may leak into the next; a batch and a pipeline of two have a query that
  has run and one that has not. `MaxWork` and `MaxNested` bound what one behaviour
  takes of it: every pair of kinds of work with every pair of scopes.
- *SQLite*: one level of nesting gives BEGIN and a savepoint, which differ in the code;
  the names of deeper ones follow the same rule. What only deeper trees could show is
  left to `DurabilityHolds` and, beyond its assumption, to section 13. A batch and a stream on the
  database are the root calls that hold the handle over several steps.
- *ODBC*: two epochs let a late cancellation meet the next request; two more are used
  by clean-up, and the fourth is the last, after which only clean-up may go on.
  Two native calls have a place between them.
- *Routing*: contexts share nothing but the primary; one replica is stale or not.
  Three attempts: one that fails, one that is retried, one that must not be.
- *Playground*: the second page is the first that is asked for.
- *Language server*: two documents make a refresh await one while the other changes;
  three notifications are open, change, close, or close and open again; a second
  refresh meets the overlays of the first.

The bounds are constants of the runs (`MaxAttempts`, `MaxVersion`, `MaxDrift`, `MaxEdits`,
`MaxLost`, `MaxWork`, `MaxNested`, `MaxId`, `MaxNative`, `MaximumAttempts`, `MaxQueries`, `MaxPages`,
`MaxNotices`, `MaxRefreshes`). `MaximumAttempts` and `MaxId` are limits of the code too,
which has its own action at them.

Deadlock is not checked: a bounded number of attempts, a transaction, a run, a
closed database all come to an end. That nothing stops half-way is what
`LockMovesOn`, `Settles`, `CloseEnds`, `CallEnds` and `RunEnds` say.

What each property says is written above it. In short:

- migrations: `LedgerHonest` (at rest, exactly the effects of the applied migrations
  are there), `EffectsOnce` (no data statement runs twice), `HeadIsLive` (the recorded
  head is what a capture returns), `AtMostOneUnresolved`, `SettledStaysSettled`,
  `HistoryReadable` (what `parseHistory` requires between the entries of a document, without
  its check before a save), `AppliedInOrder`, `SuccessfulContentImmutable` (the document as an
  append-only record), `Resolvable` (effects that are completely there can be
  confirmed), `ImplementsLedger`, `LockMovesOn`;
- PostgreSQL: `AllOrNothing` (a fulfilled transaction has made durable exactly the work
  fulfilled in it and its fulfilled nested ones; a rejected one nothing, unless the
  connection broke under COMMIT), `NothingLeftBehind`, `CleanReturn`, `LeaseReleasedOnce`
  (the client afterwards), `MarkIsLive` (a parent is not blocked by a failure its
  savepoint has undone, and what the server refuses is marked until it is), `Settles`;
- SQLite: `OneOwner`, `SuccessIsDurable`, `NothingAfterEnd`, `ImplementsNested`, `CloseEnds`;
- ODBC: `CancelHitsItsOwn` (`SQLCancelHandle` gets a statement that is allocated, inside the
  call that was to be cancelled), `AcknowledgedIsOver`, `NoOrphans` (no statement is left
  in the driver that nobody knows, and none is freed that a caller still uses), `Settles`;
- routing: `ReadsItsWrites`, `AtMostOnce` (what a call committed, it does not commit again),
  `RetriesAreEarned` (only an error of the attempt's own database that is known to be
  safe starts another), `CallEnds`;
- playground: `StatusIsHonest`, `RunEnds`;
- language server: `SettledIsCurrent` (documents, overlays and upstream agree with the
  editor), `SettledIsShown` (an open document shows the
  diagnostics of that analysis, a closed one at most what upstream says of the file), both for
  editors that neither edit nor close while a refresh runs, `FailureIsReal` (a failure
  of the project is reported only while there is one).

## 11. Fairness

Each is weak fairness of what the code's own scheduling runs: nobody is made to
issue a call, to cancel, to break anything.

- `MigrationRunner!Fairness`: a session's own steps, `Run(r)`. Once connected the engine
  never waits for a person; the lock is polled with a deadline
  (`postgres/src/migrations.ts:669-684`), statements time out, and the server
  notices a client that is gone.
- `PgTransaction!Fairness`: the server answers (or the broken connection makes
  node-postgres reject, which is an answer too), and a promise that can be resolved
  is: `SettleStream`, `Settled`, `StartCopy`. Callbacks are not fair: `Settles` starts where
  a callback has ended.
- `SqliteDatabase!Fairness`: continuations run and callbacks end. Nobody is made to read a
  stream to its end: `CloseEnds` rests on `close()` closing it.
- `OdbcTransport!FairSpec`: each thread goes on; native calls return, as the drivers'
  time limits and `SQLCancelHandle` make them.
- `RoutedDatabase!FairSpec`: a transaction's own steps. Replicas, views and signals are not
  fair.
- `PlaygroundRun!FairSpec`: the manager and its two timers, and the exit of a process that
  was killed. The worker, the lease, the query and the server are not fair: `RunEnds`
  rests on the deadline and the kill alone.
- `LanguageServer`: none. Its properties are about states of rest.

## 12. Proofs

For every value of the constants, under the assumptions the modules declare
(`ConstantsAssumption`, `RunnerAssumption`, ...), with no bound on scopes, work,
migrations, statements, runners, epochs, pages or environment steps.

`MigrationRunnerProofs`: what the committed document promises to whoever reads it

- `TypeCorrect`: `Spec => []TypeOK`. `TypeOK` is not inductive: a runner that saves
  builds the document from its own attempt, so the proof carries `KnowsAttempt`, that
  a working runner's attempt is recorded in its copy.
- `OneUnresolved`: `Spec => []AtMostOneUnresolved`. A runner checks its copy, not the
  committed document, and a lost session's last save may land after others have
  moved. The invariant `LedgerInv` says why this is safe: whoever is connected
  holds the lock (`LockHeld`); in the committed document one attempt at most is open
  (`Sound`), and there and in every copy an applied entry was left by a settled
  attempt (`EntriesSettled`), so that saving an entry reopens nothing; and
  `KnowsLedger`: while a runner plans or verifies, its copy has nothing open, from
  the mark to the commit its copy is the committed document with its own attempt
  as the only open one, and in the catch block nothing else is open in either.

- `ReadableForever` (`HistoryReadable`, which is what `parseHistory` requires of the entries;
  `validateHistory`, which also refuses an unresolved attempt, is a guard of planning), `InOrder` (`AppliedInOrder`), `OneContent`
  (`SuccessfulContentImmutable`), of every fault and any number of runners. A runner checks
  a copy against the files it read when it planned, and saves the whole document long
  after. `DocumentInv` carries what the checks established to that moment: `WellKept`, of the
  committed document (entries rise, each entry is of a successful up attempt of its
  content, successes of one migration agree); `PlanFits` and `AttemptFits`: from planning
  to the commit, what a plan selects lies at the top of its copy (above it for up, a
  suffix of it for down) and has the content of its successes; `Resolving`, `Adopting`: the
  same of the entry a resolution adds or removes, and of a baseline's prefix; and
  `KnowsDocument`: in the catch block the committed document is the copy, or what a
  commit wrongly reported as failed has left. `Writes(r)` names the four ways the
  document ever changes (a mark, an outcome, a save of a resolution or baseline, a catch
  block); whatever a step is, it is one of these or leaves the document alone
  (`LedgerWriters`), so each property is proved of four writes, not of twenty actions.
- `OutcomesStay`: `NoFalseFailure => (Spec => SettledStaysSettled)`. The hypothesis says that no commit
  is reported as failed after it took effect, or that the catch block can recognise
  it: its evidence (`durablyApplied`) is the entry of an up attempt, so a down
  whose commit was wrongly reported is written `unknown` over its outcome. The run
  has it under the second half; without either half it is false.
- `LedgerImplemented`: `Spec => ImplementsLedger`, the refinement, with no hypothesis: also that
  overwritten down is a legal step of the abstract ledger, its migration comes back
  into doubt at the top. Of every write: a mark is `StartUp` or `StartDown`, an outcome or a
  resolution `Settle`, a baseline `Adopt`.

`MigrationEffectsProofs`: the document tells the truth about the database

- `LedgerIsTrue`: `NoFalseDown /\ CatalogTells => (Spec => []LedgerHonest)`, and `DataChangesOnce`, the same
  of `EffectsOnce`. At rest the claim is simple; the invariant has to say where every
  effect is while somebody works. `TruthOf(ledger)`: of a migration that is not in doubt,
  what nobody touched is there exactly if it is applied; `DownsApplied`: a down in doubt
  is of an applied migration, so the document still says from where it started.
  `AttemptEffects`: what a session has executed so far is in its open transaction and
  nothing of it in place, or in place where there is none; losing the session at any
  step leaves one of the two. `Attested`: what an operator confirmed is still so when
  it is written, because the schema it rests on is compared again under the lock
  (`EvidenceCurrent`) and data cannot move: whoever could move it holds an attempt of
  its own (`Abandoned`). `MadeByHand`, `AdoptsForwards`: what is adopted was made by hand, and
  was not there before. `Moves(r)` names the five ways rows and document change
  (a mark, a statement, a commit that lands, a save, a failure saved).
- The hypotheses are the runs' own. Without `CatalogTells` an operator may attest that a
  data statement has not run while the lost session's backend is about to run it, and
  it runs again. Without `NoFalseDown` a down whose commit was wrongly reported may be
  confirmed as not applied when somebody has put one of its objects back: the
  remaining effects are gone and the document says they are there.
- `HeadStaysLive`: `NoFalseDown => (Spec => []HeadIsLive)`. This one rests on comparisons of
  catalogs alone, not on where effects are, so it needs no `CatalogTells`. `HeadInv`: with
  nothing open the recorded head is the live schema (`HeadLive`); with an attempt open, the
  schema it found is that head, and a down expects the catalog of the entry below its own
  (`StartsKnown`, `Starts`); until its transaction ends the committed schema is still the one
  it found, and at the commit a session has seen that the schema is the planned one, or
  changes no row (`HeadSession`). It is a claim about histories without manual DDL
  (`drifts = 0`), where each comparison can be taken at its word.
- `AlwaysAWayOut`: `NoFalseDown /\ CatalogTells => (Spec => []Resolvable)`. `resolveAttempt` compares the live
  schema with the catalog the attempt recorded, which was computed by replaying the
  inventory of a plan made long before (up) or taken from the entry below (down). `ContentInv` says
  that both are the same function of the document: every kept catalog is the schema of
  the identifiers applied up to its entry (`ContentKnown`), every open attempt expects the
  schema of the identifiers its success would leave (`Foreseen`), and a plan covers its
  inventory from below, so that the replay up to a migration passes exactly the applied ones
  and it (`PlanCovers`, `ReplayIs`). With `TruthOf` the live schema is that function too;
  `ForeignInv` excludes objects of nobody; `OpenAtTop` and `DownsApplied` give the migration's place.

`PgTransactionProofs`

- `TypeCorrect`: `Spec => []TypeOK`, with `WorkCounted`: only issued work is queued,
  and its current part is one of its parts, so the effect the server adds exists.
- `LeaseOnce`: `Spec => []LeaseReleasedOnce`. Three places release: a cancelled query,
  and the answers of COMMIT and ROLLBACK. `LeaseInv` says why they exclude each
  other: at most one command of the root is in the queue, and the root is waiting
  for it (`RootCommands`); once the root's callback has ended no query can start
  (`RootOver => ~ valid`) and those that run are among what it settles
  (`Busy("execute") \subseteq waits[Root]`), so none is left to be cancelled when COMMIT or
  ROLLBACK is sent; and a lease lost before marks the transaction unsafe on a
  connection that stays closed, so that no nested rollback can clear the mark and
  let the root commit. It holds for concurrent and abandoned work as well.
- `NothingLeft`: `Awaits => (Spec => []NothingLeftBehind)`, and `ReturnedClean`: the same for
  `CleanReturn`. `Awaits` says that callbacks await their COPYs and nested
  transactions; without it both fail, COPY being the finding of `pg_copy`, and a
  nested transaction that is not awaited outlives its parent. Everything else may
  be left running, and a scope may be used while a nested one runs. `QuietInv` has
  five parts: a scope that is not over is nested in one whose callback runs, so
  none is once the root's has ended (`ScopeInv`, `RootRuns`); unfinished work has a
  scope that runs or is settling it (`WorkInv`); a nested transaction awaits each of
  its commands in the queue, at most one of them (`OpsInv`); work has no more queries in
  the queue than parts left, and none once it is finished (`AskedInv`, the delicate
  one: a pipeline sends all its queries at once, a stream that is closed while it is
  read has two); and a failure spoils the client, which tells what became of the
  root (`ReturnInv`). Then, after the end of the root, no action but `Break` is possible.

- `Atomic`: `Disciplined => (Spec => []AllOrNothing)`, and `MarkLive`, the same of
  `MarkIsLive`. `Disciplined` is `Awaits` and that the nested transactions of one scope
  run one after the other. It is the run's own condition and cannot be dropped: two that run
  beside each other share a savepoint name (§13). The client never sees the server's
  state, so the invariant relates the two. `LineInv`: scopes that are not over are
  nested in one another. `FrameInv`: the server's savepoints are those of the
  entered scopes in order of depth, so that a name, which is only a depth, hits the
  scope's own savepoint (`OwnSavepoint`). `SpotInv`, `AloneInv`: a query is answered before
  its scope sends a SAVEPOINT, and a batch has no nested transaction beside it.
  `EffectInv`: each effect lies where the rollback of just the scopes around it undoes
  it, and each successful query that was not rolled back is there. `MarkInv`: an aborted
  transaction of the server is marked at the client, or the answer that will mark it is on its way
  (the second half of `MarkIsLive`);
  `TornInv` says the same of a transaction that lost a savepoint it should have. When the
  root's COMMIT is sent, what the server holds is what was promised (`AllPromised`).

`SqliteDatabaseProofs`

- `TypeCorrect`, with `PartInv`: a batch that is waiting or running has queries left, and
  `TicketInv`: who releases has a turn, so `serving` never passes `next`.
- `OneOwnerHolds`: `Spec => []OneOwner`. `TicketInv`: no two calls have one place, whoever runs
  has the place that is served, whoever waits a later one; `NewInv`: a call gets its
  place once; `ClosedInv`; `ScopeInv`: an open scope is a running callback behind its
  BEGIN or SAVEPOINT, so that a scope may be used only inside a root transaction
  that runs; `LevelInv`: the engine's savepoints are that transaction's. The root's
  COMMIT and ROLLBACK empty the levels, because a transaction cannot end after
  `close()` has settled. It holds whatever callbacks leave running.

- `DurabilityHolds`: `Disciplined => (Spec => []SuccessIsDurable)`. `Disciplined` says that
  callbacks await their batches, and that the engine rolls nothing back by itself unless
  they await their nested transactions as well; the run has it otherwise (an engine
  that rolls back, nested transactions left running) at depth 2, so the two complete
  each other. A transaction is *live* when it has begun and everything around it is
  open. `ChainInv`: the live ones are one inside the other, so the deepest of them has
  the innermost savepoint; `SavepointInv`: every savepoint is a live one's, or above one
  that will roll it back, and the engine has dropped none of a live one without all in
  it; `BatchInv`: a batch keeps its callback and has no transaction next to it, so its
  queries write into that savepoint. `HeldInv` is the heart: what a scope has
  written is in the savepoint of the transaction that will decide about it (the
  deepest around it that is not fulfilled) or in one further out, as long as that
  savepoint is there. COMMIT of a root finds its effects below it, or fails.
- `NothingAfterEndHolds`: `NoStrayBatch => (Spec => NothingAfterEnd)`, the action property.
  `NoStrayBatch`: nothing is left running, or scopes have no batches (as in the run).
  `ClosedInv` and `ScopeInv` decide about what checks its scope; a batch between its
  queries does not, and has a callback that runs (`BatchInv`), inside callbacks that all
  run (`KeptInv`).
- `NestingHolds`: `Disciplined /\ NoStrayBatch => (Spec => ImplementsNested)`, the refinement of
  `NestedTransactions`: every step begins, writes, commits or aborts there, drops all
  transactions, or is not seen. A transaction is *alive* when it has begun and neither it nor one around
  it has been fulfilled or has thrown; where callbacks leave transactions running that is more than
  live, because a scope may be closed around it. `AliveInv`: those that are alive are one inside the
  other; `BeganInv`, `UpInv`: what is around one of them is alive too, since a callback
  that returns while a child is active fails. So a statement, BEGIN or COMMIT of a scope
  that is usable and has no active child finds itself innermost, in the
  abstract specification and, by `NoneAbove` and `LevelsTogether`, in the engine, and a
  ROLLBACK takes with it exactly what is inside. `NoStrayBatch` is needed: a batch of a
  transaction that was left running goes on after the ROLLBACK of its parent, as a
  write of a transaction that has been aborted (section 13).

The tree of transactions is any finite or infinite one: its lemmas (`Shallower`,
`LinesOfLines`, `Through`, `RootOf`) follow from the
well-foundedness of depths.

`OdbcTransportProofs`

- `TypeCorrect`, `CancelHits` (`CancelHitsItsOwn`), `AcknowledgedOver` (`AcknowledgedIsOver`), from one
  invariant: `QueueType` and `FreshInv` (epochs are used once), `BorrowInv` (the borrow word
  counts the control worker), `PhaseInv` (what the words say of where the data worker is),
  `OrderInv` (between the control worker's second look and the return of the borrow, the
  data worker cannot leave the native call).
- `NothingOrphaned`: `Spec => []NoOrphans`, with no hypothesis. `Stocked` follows a statement from
  its command over the data worker and the answer to the caller, or to the clean-up of a
  cancelled request: as long as main trusts the connection (`reusable`), what is allocated
  is what callers hold (`Held`: what they were given, but for a prepared statement whose
  stream they have closed) and this one. `SpoiltInv` covers the window between the failure of
  the control worker and its report to main: a cancellation that runs on has spoilt the
  answer of its request.

`RoutedDatabaseProofs`

- `TypeCorrect`; `ReadsItsWritesHolds`, with `PinInv`: a context that knows more than a replica may
  is pinned, and a pinned one reads the primary; `CommittedOnce`, with `CommitInv` and
  `RetryInv`: a transaction that waits to retry has committed nothing;
  `RetriesEarned`, the action property.

`PlaygroundRunProofs`

- `TypeCorrect`; `HonestStatus`: `Spec => []StatusIsHonest`, with `StageInv` (which parties can
  still act), `CommandInv` (what the server is doing for the query), `ErrorInv` (where an
  error can stem from), `ToldInv` (what was told is true), `StatusInv`.

`LanguageServerProofs`

- `TypeCorrect`: `Spec => []TypeOK`, for any editor. What the refresh analyses is
  open or superseded (`TokenType`), so that it has a snapshot to analyse.
- `CurrentAtRest`: `Considerate => (Spec => []SettledIsCurrent)`, and `ShownAtRest`, the same of
  `SettledIsShown`, for any number of documents, notices and refreshes and any failure of the
  schema. `Considerate` is the editor of the run: while a refresh runs it opens
  documents and does nothing else, and every close is dealt with before it asks for a refresh.
  Each part is needed: TLC violates both as soon as it may also edit, or close, while a
  refresh runs, or ask for one with a close in progress (section 13). At rest the claims are simple; `ServerInv` says of each
  document who is still to make them true. `OrderInv`: the newest task is about the newest
  snapshot and every other one is cancelled, so a task that is not cancelled writes
  what the editor last sent. `ReadyInv`, `CloseInv`, `PassedInv`: a task does not
  begin while a refresh runs, a close is never in its way, and where it has come by,
  what a document had in hand is cancelled: the two never write one after the other with
  different bases. `OverlayInv`: what upstream has open is what the tables say, but for a
  close that has taken the document from one of them and has not told upstream yet, and the files
  a reset has already closed; `BaseInv`, `RefreshInv`: who goes on from a state finds it open
  there. `KnownInv`: after a refresh every file with queries is known upstream,
  so a close finds something to change. `CurrentInv`: an open document has a current analysis,
  or a task for its newest snapshot, or a refresh that will come to it (`WillRefresh`), or the
  schema is broken; `GoneInv`: what is left of a closed one has its close before it; `ShownInv`:
  the same of what the editor shows, with the publication under way. What upstream says of a
  file is forwarded as it is only while there is no state, so of an open document its
  analysis is still to come. `StartInv`,
  `UntouchedInv`: a start that failed is mended by a refresh, and until then nothing is
  analysed.

Each module has a lemma per action or group of actions and one for the step; the
temporal step combines them with PTL. Every invariant and every safety property of the
passing runs is a theorem. Only model-checked: `LockMovesOn`, `Settles`, `CloseEnds`,
`CallEnds` and `RunEnds`, which need fairness (liveness is beyond the prover's reach), and
the violations. No definition is recursive; where a fact
needs induction, on the depth of a transaction, a least counterexample is taken.

## 13. Where code and documents disagree

With a run:

- `pg_copy`: `#copyFrom` checks its scope, awaits its library (`runtime.ts:857`) and only
  then registers itself as `activeCopy`. A callback that does not await it and
  returns is not caught as leaked work: the transaction commits, the client is
  released, and the COPY starts on it afterwards.
- `odbc_exit`: a data worker that exits while the acknowledgement of a cancelled prepare or
  stream start is awaited is sent the clean-up all the same (`odbc-transport.ts:170`):
  nobody answers, and the request never settles.
- `language_edit`: `didChange` and `didClose` cancel the analysis a refresh awaits; that
  abort, which `queueDocument` ignores, `queueWorkspace` takes for a failure
  (`server.ts:389`), and the rest of the refresh does not happen.

Seen in the models, without a run of their own:

- After a failure the migration engine looks for durable evidence of success among
  the applied entries (`engine.ts:550`), which a committed down has never left. When
  the COMMIT of a down is rejected after it took effect, on a session that stays
  usable, the durable outcome "applied" is overwritten by "unknown" (`migrate_lock` with
  `Reversible = {1}` violates `SettledStaysSettled`), and confirm-applied is refused although
  every effect is there (`recovery.ts:225-234`).
- SQLite's `batch` awaits between its queries and looks at its scope only before the
  first (`sqlite/src/runtime.ts:246-253`), although `docs/guides/execution.md:203` says the
  adapters reject work that is left running. One that its callback does not
  await goes on after COMMIT; so does one in a nested transaction that is left
  running, after the root's ROLLBACK, and its effect is durable
  (`"batch" \in Unawaited`, or a batch owned by `t2`, violates `NothingAfterEnd`).
- When a failing statement has made SQLite roll the transaction back by itself, COMMIT
  and ROLLBACK TO fail, and the runtime relies on that (`sqlite/src/runtime.ts:374-388`).
  With three levels it may not: `t1` writes, a statement of `t2` makes the engine roll
  back, `t2` starts `t3`, whose SAVEPOINT opens a transaction of its own, leaves it
  running and throws; `t1` catches that and returns. Its COMMIT commits what `t3` has
  opened, and `t1` is fulfilled without its write, although
  `docs/dialects/sqlite.md:221` offers a transaction for what must be atomic
  (`EngineRollsBack` with `"transaction" \in Unawaited` and a third level violates
  `SuccessIsDurable`).
- Two nested PostgreSQL transactions of one parent that run at once share a savepoint
  name (`runtime.ts:1096`); no document promises a defence (`Concurrent = TRUE`).
- A terminal status of a playground run may be overwritten by "cancelling"
  (`runner.ts:614`), although `docs/guides/dev-workspace.md:176` gives every result one.
- The overlay discipline of the language server: upstream may be told to change a
  document it does not have open (a close cancels the analysis that would have
  opened it), or to open one it has (an open meets the overlay of a preload while a
  refresh runs), although `server.ts:956` says there is no overlay to change. A
  failed start of a document that is closed meanwhile stays shown. A publication of
  upstream that comes in after the document was closed, when its diagnostics have been
  cleared (`server.ts:1024`), is forwarded with its positions unmapped (`1130-1132`) and
  stays until upstream publishes again, although `docs/guides/editors.md:142` has
  diagnostics published only while their source is current: how long one may be under
  way is upstream's matter, so it is `Raw` in `SettledIsShown` and no run of its own. With editors
  that edit or close while a refresh runs, or that ask for one while a close is in
  progress, a document may stay behind its version.

## 14. Not modelled

- *Most of the lines.* The compiler, resolvers, parsers, type inference and the
  generated catalogs are functions from syntax trees and data to types and SQL.
  They keep no state and have no order of steps: a TLA+ model would be the program
  once more. Only the parts of section 1 that keep state are modelled, which is a
  small share of the repository.
- *Migrations*: parsing and formatting of the documents, path safety, the catalog
  queries, other dialects' sessions, the CLI's output.
- *PostgreSQL*: `copyTo`, operations on the pool outside a transaction, preparation and
  encoding, observers, `close` of the database; the pool is the driver's. A result
  validator or a cardinality check that rejects a query after its effect
  (`runtime.ts:416`, `532-564`, `834-840`): the statement has succeeded, nothing is marked, and the
  error is the callback's to catch or throw, as any error of its own is (`Throw`).
- *SQLite*: preparation, encoding, validation of results. *DuckDB* and *MySQL* have the
  same obligations as SQLite and PostgreSQL; their runtimes are not modelled.
- *SQL Server*: start-up, the cursor lock, the transactions of `runtime.ts`.
- *Routing*: nested routed transactions, the selection among several replicas.
- *Playground*: the preparation of a run, pages on disk, the managed database a run of an
  author's file writes to.
- *Language server*: requests and pull diagnostics, configuration, the contents of virtual
  files.
- *Build cache*: its count is adjusted in the synchronous part of one call with the entry
  it counts; there is no order of steps to check.
