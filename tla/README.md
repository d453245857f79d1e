# EntityKit: TLA+ models, model checks and proofs

EntityKit is a TypeScript object-relational mapper: a `DbContext` tracks
entities, turns their changes into SQL, and runs it on PostgreSQL, MySQL or
SQLite. This directory specifies the parts of it where several call chains, a
database that can fail at any statement, and in-memory state that must follow
the database's verdict come together. Paths are relative to the repository;
`core/` stands for `packages/core/src/`.

`PROJECT.json` lists, for every definition that models code, the lines it
stands for; the runs with their properties; the plausible bugs (mutants) each
property catches; the hazards; and the theorems. It lists no findings: every run
passes, and where the code departs from what a reader would expect is in §4.

## 1. Inventory

| component | state it keeps | operations | hard behaviour | what makes it correct |
|---|---|---|---|---|
| unit of work (`core/core/db-context-unit-of-work.ts`, `unit-of-work-saver.ts`, `unit-of-work/`, `transaction-coordinator.ts`) | depth of `transaction()`, list of deferred commit callbacks, `saveInProgress`, acceptance journal of each save, restoration failure | `saveChanges`, `transaction`, `dispose` | nested transactions, deferred acceptance, failing restorations, chains that overlap in the continuations between two settled promises | the tracker believes exactly what the database committed |
| operation guard (`core/storage/exclusive-operation-guard.ts`, `guarded-database-connection.ts`) | `activeToken`, scope chain in async local storage, `queryInProgress`, the unknown-outcome error | `query`, `stream`, `transaction`, `session` | detached continuations, streams held across awaits | one chain at a time has statements on the connection |
| provider transactions (`packages/{postgres,mysql}/src/*transaction*.ts`, `*pooled-connection*.ts`, `core/storage/enclosing-transaction-state.ts`, `transaction-usability.ts`) | active client, depth, savepoints, first failure that spoiled the root, "client unsafe" | `transaction`, `session`, savepoints, release to the pool | failing begin, rollback, release; lost commit verdicts; aborted transactions | never commit over leftovers; tell the caller what the server did; never return an unsafe client |
| client leases and cancellation (`core/storage/resource-acquisition-cancellation.ts`, `packages/postgres/src/*query*.ts`, `*stream*.ts`) | pending acquisition, cancelled, the client, the cursor | acquire, query, stream, session, abort | late delivery after a cancellation, signals in every await window, clean-up that fails | every client has one owner and is released once |
| data source (`core/storage/entity-kit-data-source.ts`, `data-source-connection-lease.ts`, `data-source-retry.ts`) | active leases, active operations, memoised disposal | `createContext`, `executeWithRetry`, `dispose` | retry against disposal, disposal that fails | nothing outlives the pool; nothing of unknown outcome is retried |
| SQLite handles and reuse (`packages/sqlite/src/`) | idle list, active count, option pragmas, native transaction | acquire, transaction, stream, release, drain | dirty handles, failing resets and closes | a reused handle carries no session state |
| migration runner (`core/migrations/runner/`) | history table, lock, plan | `update`, `apply`, `revert` | concurrent deployers, crash between statements, suppressed transactions | each migration is applied once and recorded if and only if applied |
| change tracker (`core/tracking/`) | identity map, entries, states, acceptance journals, reservations | track, detach, accept, restore | re-keyed identities, partial failure, restoring in reverse order | a failed acceptance leaves the tracker as it was |
| save plan (`core/core/save-plan/`, the detectors of `core/tracking/`) | the entries of one save, the cascades done in memory | detect, cascade, order, execute | dependency cycles, one-to-one slots, what the database does to dependents at the same time | the database accepts the plan if it would accept any order, and ends with the rows the tracker says |
| outbox (`core/core/outbox-event-tracker.ts`) | events deferred per entity, commit callbacks | plan, defer, release, clear | saves inside transactions that roll back in part, a `clearEvents()` that saves or throws | an event has one row, and is pending until it has one |
| lazy loading (`core/core/lazy-load-scheduler.ts`, `lazy-navigation-coordinator.ts`) | pending loads, tail of the chain, the count against the budget | get, schedule | duplicate and failing loads, loads awaited inside the operation that has the guard | one load at a time, none lost |
| navigation loading (`core/query/include-*`, `core/tracking/navigation-load-*`, `loaded-reference-*`) | per load: journal of graph writes, touched facts, owned registrations; per entry: navigation baselines, loaded flags | load, include, stitch, roll back | loads that overlap each other and the application's own work; statements and accessors that fail half way | a failed load takes back what it did and nothing else |
| MySQL streams (`packages/mysql/src/mysql-row-stream.ts`, `mysql-stream-lease.ts`) | driver stream, lease | next, return, abort | pause, destroy and end events in any order | a lease is released once |
| model diffing (`core/migrations/model-diff*`, `migration-*order*`, `migration-operation-renderer.ts`) | none; the database it changes | diff two snapshots, order, rebuild, invert | operations that depend on each other in both directions, cycles, renames inside rebuilds, the way down | every statement finds what it needs; up reaches the model, down the old one; rows survive |
| atomic file writes (`core/tooling/atomic-file-transaction.ts`) | temporary and back-up files, what was seen and done | stage, back up, publish, roll back, clean up | a failing step in the roll-back too, a crash between two renames, another program's files | all changes or none; old content is never lost |
| query pipeline (`core/query`, `core/sql`, the runners and filters of `core/core`) | the queryable, the cache of compiled texts, the tenant of an operation | refine, filter, compile, send, include, bulk change | two traversals of a query that must agree on its placeholders, a cached text under a key that is too coarse, chunks of an include, a tenant that changes between two statements, three dialects | the answer is what the query asks of the rows its filters let it see |
| materialization (`core/materialization`) | none | rows to entities | size | pure translation |
| model, schema, introspection, json, diagnostics, errors | metadata | build, validate | none | pure |
| CLI, NestJS, testing, examples, docs | none | wiring | I/O | none |

Interactions. `DbContext` calls the unit of work; the unit of work calls
`TransactionCoordinator.run` or the save pipeline; both call
`GuardedDatabaseConnection`, which asks the `ExclusiveOperationGuard`; that
calls the provider's connection, which takes a client from a pool and issues
`BEGIN`, `SAVEPOINT`, `COMMIT`. Answers come back as settled promises, so each
layer's `finally` runs in a continuation of its own: between two of them another
chain can run. The tracker registers commit and rollback callbacks with the
coordinator. A context gets its connection as a lease of the data source, which
counts leases and retried operations and owns the pool, or the SQLite handles,
below. The migration runner uses a connection of its own and meets other
deployers only in the database.

All of it is JavaScript on one thread. What runs between two `await`s is one
action of the models; every `await` is a place where another actor may run.

## 2. Plan

Done:

1. `UnitOfWork`, its promise `AtomicSaves`, and the proofs of types, of the
   ownership of the transaction stack, of the silence after a lost verdict, and
   that the one implements the other.
2. `PooledConnection`: what `UnitOfWork` takes for granted of a provider (a
   transaction that resolves is durable, one that rejects left nothing, or the
   outcome is unknown) is checked against the commands it sends, and proved.
3. `ClientLeases`, `DataSource`, and the proofs that every client and every SQLite
   handle has one owner, that cancellation is prompt, and that a retry applies the
   work of a careful callback at most once.
4. `MigrationRunner` with several deployers, and the proofs that a transactional
   migration is applied if and only if it is recorded, that the lock excludes, and
   that an update which succeeds has reached its target.
5. `ModelDiff`: the migrations themselves, before the runner that applies them.
6. `ChangeTracker`: the acceptance journal with re-keyed identities and the
   counts of the mutation guard, the detailed machine under the belief that
   `UnitOfWork` keeps per save.
7. `SavePlan`: the order of the statements of one save, against a database that
   checks each of them.
8. `Outbox` and `AtomicFiles`, and the proofs of their safety.
9. `OperationGuard`: the guard under forked work, with the lazy loads that queue
   for it, and the proofs that work joins the operation it was started in and no
   other, and that a connection has one query at a time.
10. `NavigationLoad`: loads and includes beside an application that goes on.
11. `SelectQueries`: queries from the first call of the queryable to the rows of
    the last include, against a database that evaluates their statements.

Left, in this order:

12. Proofs: the journals of `ChangeTracker`.
13. Streams inside transactions, SQLite savepoints, the MySQL stream.
14. Links of many-to-many relationships and several relationships in `SavePlan`;
    composite keys in `ModelDiff`; one-to-one references in `NavigationLoad`.
15. Aggregates, grouping and streams in `SelectQueries`; composite keys and
    nested includes there; writes that carry a tenant and raw SQL.

## 3. Modules

### `UnitOfWork` and `AtomicSaves`

One `DbContext`, shared by the chains in `Chains`. A save is one attempt of
`saveChanges()`. The state is that of the code plus the store below:

| variable | in the code |
|---|---|
| `depth`, `callbacks` | `contextTransactionDepth`, `afterCommitCallbacks` of `TransactionCoordinator` |
| `saveInProgress`, `poisoned`, `disposed` | the fields of the unit of work and the context state |
| `owner`, `outcomeUnknown` | `activeToken` of the guard, the remembered error of `GuardedDatabaseConnection` |
| `journal[s]` | the acceptance of save `s`: `unsaved`, `staged` (accepted, can be given back), `final`, `restored`, `broken` (giving it back failed half way) |
| `pc`, `txs`, `saving`, `flushing` | the await a chain is suspended at, and the locals of the calls it is inside of |
| `durable`, `frames`, `unusableAt` | the database: committed saves, the saves written by each open transaction or savepoint, and the frame that holds leftovers of a failed clean-up (`EnclosingTransactionState`) |

Actions follow the awaits: `BeginTransaction`, `TransactionBegun`, `WorkEnds`
(returns or throws, at any depth, with commit, lost commit, rollback, failed
rollback, savepoint release and its failures), `TransactionSettles`,
`TransactionCommitted`, `TransactionFailed`, `RunCallback`, `CallbacksDone` for
`transaction()`; `StartSave`, `SaveBegun`, `ExecuteSave`, `SaveAccepted`,
`SaveThrows`, `SaveCloses`, `SaveSettles`, `AfterCommitted`, `SavedNotified`,
`SaveFailed`, `FailureNotified` for `saveChanges()`; `Dispose`.

A transaction that was refused, was undone or lost its verdict rejects in two
continuations. The `finally` of the guard frees the connection
(`exclusive-operation-guard.ts:47`), and only the next one, the `catch` of the
connection (`guarded-database-connection.ts:86`), assigns `outcomeUnknown`,
whatever was there before. In between a chain is at `rejected`, `undone`, `lost`
or their counterparts for a save, the guard is free, and other chains may call;
`TransactionSettles` and `SaveSettles` are the `catch` (`LearnsVerdict`).

`Overlap` is FALSE for the documented use, one chain at a time, and TRUE for an
application that calls from several chains. A driver answers in a later turn of
the event loop, so `DriverMayAnswer` lets it answer only when no chain is within
the continuations of a settled promise.

`AtomicSaves` is the promise: each save has an outcome in the database (`none`,
`open`, `durable`, `gone`) and a belief in the tracker, and belief is confirmed
only after the outcome. `UnitOfWork!Promise` instantiates it with `OutcomeOf`
and `journal`; `KeepsPromise` is the refinement.

### `PooledConnection`

One chain on one pooled connection of PostgreSQL or MySQL, one action per answer
to a command. `calls` is the stack of `transaction()` and `session()`, `failure`
is `EnclosingTransactionState`, `outcomeUnknown` is `TransactionUsability`,
`activeClient` and `transactionDepth` are the fields. The server is modelled
from how the code uses it: a stack of savepoints with their names, the aborted
state of PostgreSQL whose `COMMIT` rolls back without an error, the implicit
commit and the reuse of savepoint names of MySQL, a refused command that had or
had not its effect, and a socket that dies. `verdict` records what the caller
was told of each write; `unsafe` the clients condemned by `TransactionUsability`.
A statement of MySQL may be the victim of a deadlock, which rolls the whole
transaction back, savepoints included.

### `OperationGuard`

The guards of several contexts in one process, over the one async local store
they share, and the lazy loads of one of them. `token` and `scopes` are
`activeToken` and the scope objects; `base` and `frames` say what the store holds
for a chain: what it was started in, and the guarded calls it is inside of.
`Call` is `run()` and `runQuery()`, which joins the operation it is part of
(`EntersNested`), waits for nobody, and is refused by having no action;
`Return` ends it. `Fork` starts a chain that nobody awaits and `Finish` ends one.
`OpenStream` and `CloseStream` are `stream()`, on a guard of its own or borrowed
from the scope. `MaxDepth` is at least 1, because a load is inside of one call.
`Request` is an access to a navigation: it shares the load under
way or queues one; `StartLoad`, `LoadEnds` (with or without success) and
`LoadIsRefused` are its turn. `inherited` is history: the scopes in whose work a
chain was started.

### `ClientLeases`

Buffered queries, row streams and sessions of PostgreSQL that compete for the
clients of a pool with a first-in-first-out queue. `pc` names every await: the
acquisition, the query, `BEGIN`, `DECLARE`, `FETCH`, the consumer's turn,
`CLOSE`, `COMMIT` or `ROLLBACK`. `Abort` may fire at each of them and does what
the listener that is registered there does. `stream` holds the locals of the
generator. A client that is destroyed is replaced by a new one.

### `DataSource`

The contexts and the retried operations of an application over one
`EntityKitDataSource`, with either the source of a server's pool (a commit may
lose its verdict) or the SQLite source that keeps up to `MaxIdle` native handles.
`activeLeases`, `activeOperations`, `disposal`, `idle` and `active` are the
fields; `handles` says what each native handle carries: a transaction left
behind, pragmas that were not reset, the cursor of a stream. Giving a lease
back takes up to three continuations, each an action (`ReturnLease`,
`CloseSettles`, `ReleaseLease`).

The callback of `executeWithRetry()` is any program: an attempt may take leases
one after another, run statements and transactions on them, write outside of a
transaction, go on after a commit, and settle with any verdict, also with a lease
still out. `applied` counts the attempts of an operation that left something
durable. `careful` are the operations whose callback is what the code asks for,
"retry-safe work" (`entity-kit-data-source-types.ts:44`), in the sense that
matters for a retry: one transaction per attempt, without options that SQLite has
to reset, nothing durable outside of it, its leases given back, and the verdict
of that transaction (`heard`) passed on. Which operations are careful is chosen
in the initial state, so each run has both kinds.

### `MigrationRunner`

Several deployers against one database: `CallUpdate` and `CallDirect`
(`apply()` and `revert()`), `Lock`, `Plan`, `Execute` per batch, `Release`, and
the failures `LockFails`, `ExecuteFails` (with or without effect), `PlanIsRefused`,
`ReleaseFails`, and `Crash` anywhere. Batches are what the executor builds:
statements up to one that suppresses the transaction go into one transaction,
together with the row of the history. The migrations a deployer knows are
`Project[r]`.

### `ModelDiff`

A job is a pair of model snapshots with rename hints, a form and a kind of
provider. `Statements` translates the path of the code from the snapshots to the
statements: the hints, the detectors, the ordering by phase, the table rebuilds
of a provider that cannot alter constraints (SQLite), the folding of foreign
keys into created tables, and, for the way down, the inverse of each operation.
The three forms are the three users of that path: the operations a running
program derives, the source a scaffold writes, and the script that creates a
schema from nothing. `db` is a catalogue of tables, columns, keys, checks,
indexes and sequences; every column carries the rows it was filled from.
`Applicable` is what the database asks of a statement, `Applied` what it does,
`Created` the schema a model stands for. `RunStatement` runs one statement,
`TakeBack` turns round and runs the way down.

### `ChangeTracker`

The tracker of one context under saves in nested transactions. `state`,
`original` and `live` are what the entry and the object hold, `keyOf` and
`identities` the two maps of `TrackedIdentityMap`, `temporary` the entities
whose key is still to be generated, `byEntity` and `byIdentity` the counts of
`SaveMutationGuard`. A save takes its plan when it is called (`StartSave`),
executes it (`StartExecution`, `SaveAccepted`, `SaveFails`), and its acceptance is
a journal entry that is final or undone (`RunCallback`, `UndoCallback`,
`SaveRollsBack`). `rows` and `frames` are the table and its savepoints. The
application adds, loads, edits, removes, detaches and clears between any two
steps that await the database.

### `NavigationLoad`

Explicit loads and the includes of tracking queries, over notes that refer to a
post (with the inverse collection) and posts and tags that are joined. `object`
are the objects of the application with their navigations, `entry` the tracker's
entries with their baselines and loaded flags, `queue` the links still to be
saved, `store` the rows. A load holds the tasks it still has (one per included
navigation, with the nested ones in their order), its journal of graph writes,
the facts it has touched and the registrations it owns. `BeginExplicit` and
`BeginInclude` start one, `Answer` is one statement whose rows are materialized,
`Stitch` publishes both sides of a relationship when the last one is there,
`FailQuery` is a statement that fails and `Rollback` the restoration; each ends
at an `await`, so anyone may act between them, also between the failure and the
roll-back that the rejection reaches a few microtasks later. `Attach`, `Detach`,
`RemoveEntity`, `EditTitle`, `EditForeignKey`, `AssignPost`, `AssignNotes`, `Link`,
`Unlink` and `AcceptAll` are the application, `RowMoves` another client. `refuser`
is an accessor that throws once it has taken its last value; `poisoned` is a
restoration that failed, after which the context does nothing. `mine`, `claimed`,
and in a load `before` and `foreign`, are history: what the application
assigned and claimed, how the load found the graph, and what others changed since.

### `SavePlan`

One save of `Size` entities of one type with one relationship to that type, from
any state of the tracker that the database allows. `Reject` and `Detect` are the
detectors of changed references, `Cascade` visits the dependents of each
deletion, `TakeReady` and `BreakCycle` are the topological order, `Execute` and
`Refuse` are the database with its foreign keys and unique keys, statement by
statement, and its own cascades.

### `SelectQueries`

One program that refines a queryable of one entity type, calls a terminal, and
goes on from the query it asked or from the set. The entity has a key, a tenant,
a soft-delete column, a nullable column, an optional reference to its own type
with the inverse collection, and a many-to-many relationship with it. A
statement is data: `text`, a sequence of fragments in the order in which the
builder writes them, without values; and `values`, in the order in which the
parameter bag took them. The database (`Filled`, `Selected`, `Returned`) gives
each placeholder the next value and evaluates the text in three-valued logic.
The expected answer (`Expected`, `ExpectedRelated`) is read off the query as the
program wrote it and off the rows, and shares with the statement neither filters
nor compilation.

| variable | in the code |
|---|---|
| `query` | the `QueryModel` of the queryable |
| `cache` | `SelectSqlCache` of the set: texts by the shape of their query, the latest used last |
| `op` | the terminal operation at the await it is suspended at: the query, `known` (the tenant, once the `QueryFilterOperation` has resolved it), `sent`, the includes `left` with their keys, the texts its include loader compiled (`store`), what the includes `loaded`, the `answer` |
| `tenant`, `cross`, `dialect` | the tenant provider, `allowCrossTenantAccess`, the provider |
| `rows`, `links` | the table and the join table |

`Where` to `Select` are the calls that refine; `ReadRows` is `toArray`, `first`
and `single`, `Tally` is `count` and `exists`, `ChangeRows` is `executeUpdate` and
`executeDelete`. Each adds the implicit filters (`Filtered`) to the root, to
every join and to every existence test, then takes the text from the cache with
the values collected anew (`Collected`), or compiles it (`RowParts`), and sends it.
`AskInclude` is one statement of an include: it works out how many keys fill the
parameters of a statement (`Room`), and `AnswerInclude` takes the rows of one
chunk. `AnswerRead`, `AnswerChange` and `RejectStatement` are the database.
`SwitchTenant` acts between any two of them.

### `Outbox`

`queue` is what the entities hold, `deferred` the memory of
`OutboxEventTracker`, `callbacks` and `scopes` the coordinator's list and where
each transaction started in it. A save plans what is pending, its rows become
part of the innermost transaction or durable at once, and a batch per entity is
then cleared by the application, which may fail (`ClearFails`) or save again.

### `AtomicFiles`

The transaction behind commands that write code: `Look`, `Preflight`, `Stage`,
`BackUp`, `Publish`, and the way back `Undo`, `PutBack`, `Drop`, `CleanTemp`,
`CleanBackup`, each for one path. `disk`, `temp` and `backup` are the three files
a path may have; `existed`, `backedUp` and `committed` the flags of the code.
Every call may fail, the one that writes a temporary file also when it has written
some of it; `Crash` ends the process between two calls, and `Appear` is another
program that creates a file.

## 4. What the runs show

| run | instance | what it shows |
|---|---|---|
| `sequential` | 2 chains in turns, 3 saves, nesting 3 | through every failure of begin, statement, savepoint clean-up, commit and restoration: tracker and store agree when the context is idle (`TrackerMirrorsStore`), deferred acceptances are split as the savepoints split the rows (`CallbacksFollowFrames`), the machine implements `AtomicSaves` (`KeepsPromise`), every accepted save is decided and the lock of a save is given back (`StagedIsDecided`, `SaveReleasesContext`), nothing is written after a lost verdict, from the moment it is lost on (`SilentAfterUnknownOutcome`) |
| `pooled` | 1 client, 2 writes, nesting 3, both servers | what `transaction()` tells its caller is what the server did, clients wait clean, every call gives its client back |
| `leases` | 1 client; a query, a stream, a session; all signals | no client is lost or held twice, none waits with a transaction open, cancellation waits for nobody, waiters are served |
| `data_source` | 1 context, 1 retried operation whose callback is careful or not, one lease and two uses of it for each attempt, 3 handles, 1 idle, 2 attempts | disposal waits for everyone and ends, leases own their handles and a source that was disposed of has none left (`LeasesOwnHandles`), idle handles are clean, and the work of a careful callback is applied at most once (`AppliedAtMostOnce`) |
| `migrations` | 2 deployers with files {1,2,3} and {1,3}, 2 calls each; with lock, without, with direct calls | transactional migrations are applied and recorded together; under the lock, success means the target is reached and the history is a prefix of somebody's files (`DeployersAgree`); every call ends |
| `diff` | every pair of snapshots of four families: three tables with foreign keys in any topology; the facets of one column; renames of table, key, column and join column; views | no statement runs before what it needs (`EveryStatementApplies`), up reaches the schema of the model and down the one that was found (`SchemaFollowsTheModel`), rows of surviving columns survive and what is lost was announced (`RowsSurviveOrAreAnnounced`) |
| `tracking` | 2 entities, one with a generated key, 2 keys, 2 values, 3 saves, nesting 2 | identity map, baselines and reservations stay what the database and the open acceptances make them, and no deletion is forgotten (`StagedDeletionsAreKept`) |
| `files` | 2 commands, 3 paths, 2 faults or crashes, 1 newcomer, every list of changes on every disk | all changes or none, old content survives, newcomers are left alone |
| `plan` | 3 entities in every state with every reference; many-to-one with each delete behaviour, one-to-one when required. Beside them, queries of three calls: 5 rows of 2 tenants, 5 links, 3 dialects, 4 parameters in a statement, 1 text in a cache | the database refuses a save only if it refuses every order of its statements (`RefusedOnlyWhenHopeless`); what the tracker cascaded in memory is what the database did (`StoreIsTheGraph`). A query is answered with what it asks of the rows it may see, and refused only for its own values (`AnswersAreTheOnesAsked`); an operation and its includes read one tenant (`OneTenantPerOperation`) |
| `outbox` | 3 events of 2 entities, 4 saves, nesting 3 | an event has one row, and is pending until it has one |
| `guard` | 2 contexts, 2 chains forked and not awaited, 1 stream, 2 lazy loads, 3 scopes, nesting 2, a budget of 2 | work joins the operation it was started in and no other (`WorkKeepsItsScope`), one query or stream has a connection at a time and lazy loads take turns (`OneQueryAtATime`), whoever awaits a navigation is answered (`NobodyWaitsForever`) |
| `navigation` | 2 posts, 1 note, 1 tag, 2 loads, 3 steps of begin or application; everything held or only an object not tracked yet; no setter or one that throws | the roll-back of a load leaves no trace of it and nothing of others (`RollbackIsExact`), what the application has claimed or queued stays tracked (`ClaimsStand`), a loaded reference is the one of the key (`LoadedReferencesMatchTheirKey`) |

Every property is broken by at least one plausible bug in a modelled definition
(`mutants`): a dropped guard, a splice at the wrong index, a count not lowered.

A type invariant is proved for `UnitOfWork`, `AtomicFiles` and `Outbox`; in the
other modules `TypeOK` is the first conjunct of an invariant that a run checks.

Why the bounds are enough. Nesting three deep gives a scope with a parent and a
child, so every case of "the enclosing scope was spoiled at, above or below"
occurs; three saves put one in each. Two chains suffice for the interleavings of
two continuations. One pooled client is the hardest case for queues: everyone
waits for it. Three handles are one per owner and the idle one;
an attempt may commit and then fail, and the next one find what it left. Two deployers
whose files differ in the middle migration give both a skipped migration and an
unknown one; the migrations have one batch, two batches, and a suppressed
statement. Three tables give cycles of two and three, a chain, and a table
outside the cycle; each facet of a column meets each other one of its family,
because detectors of different kinds share only the phase order. Two entities
are enough to contend for one key, three saves to have one accepted in each of
two nested transactions and one outside. Three paths are one made, one in the
making and one untouched. Two entities in a cycle, and one that waits for it, need three. Two
contexts show one guard's scopes in the other's store, three scopes one that has
ended between two that have not. Two posts are one that a note leaves and one it
joins, two loads one that fails and one that does not, and three efforts, beyond
the statements, which cost nothing, two loads and a call between them, or one
load and two calls. `plan` runs two modules that share no state from disjoint
initial states, in each of which one side rests: a behaviour is one of
`SavePlan` or one of `SelectQueries`, so the run shows of each what a run of its
own would. Three calls give every pair of refinements before a terminal, a
refinement, a terminal and a second query that hits the cache or displaces the
text in it, and a switch of the tenant in every window of a query with an
include; terminals and statements cost nothing. Four parameters are what the
filters and the page of an include leave two or three keys of, and the root has
up to five, so includes take one chunk, several, or are refused. One cached text
is hit and displaced; the dialects, which place nulls and bound offsets
differently, are one tenant-scoped each for PostgreSQL and MySQL, and SQLite
without tenants.
Every run's configuration has `CHECK_DEADLOCK FALSE`: an application may stop
calling, and the bounded counts (saves, leases, calls) run out; a migration has
a last statement and a save a last entry.

### Where the code departs, kept out of the runs

Modelling met other behaviour that contradicts a property above. It is real in
the models when the named constant is switched or the instance widened; the runs
state what holds without it.

- `sequential`, `Overlap = FALSE`: two chains on one context, which the documentation tells
  applications not to do. A `transaction()` that the guard refuses splices and
  undoes the acceptances another chain has deferred
  (`transaction-coordinator.ts:54,64`), and a save whose own transaction has
  committed reads the depth after another chain was let in and defers itself to
  that chain's transaction (`save-lifecycle.ts:59`). `CallbacksFollowFrames` and
  `TrackerMirrorsStore` are therefore checked with chains that take turns. So is
  `SilentAfterUnknownOutcome`: between the guard's `finally` and the `catch` of the
  connection (`exclusive-operation-guard.ts:47`,
  `guarded-database-connection.ts:86`) another chain may be admitted. It opens a
  transaction on a context that is about to learn that it does not know its
  outcome, and when that transaction, or a call that the guard refuses, rejects,
  the `catch` forgets the verdict, because it assigns without looking. With
  overlapping chains only `SilentOnceOutside` holds: nothing becomes durable while
  the verdict is remembered, and once nobody is inside of the connection or about
  to leave it the silence is complete and stays so.
- `pooled`, `Catches = FALSE`: on PostgreSQL a work function that catches a
  failed statement makes `COMMIT` a silent rollback, and `transaction()` resolves
  (`postgres-transaction.ts:34`). And a root transaction inside `session()` drops
  the verdict that its client must not be reused
  (`postgres-pooled-connection.ts:81`); `IdleClientsAreClean` excepts it by name.
  On MySQL, work that catches the error of a deadlock and writes again writes in
  autocommit: `transaction()` rejects, and the write is durable
  (`mysql-transaction.ts:107`).
- `leases`, `SessionSignal = FALSE`: the signal of a stream inside a session
  destroys the session's client (`postgres-row-stream.ts:28`). `Catches = FALSE`:
  a session whose work goes on after its stream failed goes on with a client in
  an aborted transaction.
- `guard`: a `transaction()` in a session joins it while a stream of the session is
  open, and shares its client (`exclusive-operation-guard.ts:31`). A nested call
  under way, or a stream that is open, when its operation ends goes on beside the
  next operation of the context; `OneQueryAtATime` counts what the operation
  that has the guard has in flight.
- `data_source`: a callback that is not careful is applied again.
  `executeWithRetry()` retries whatever transient error its callback throws
  (`entity-kit-data-source.ts:98-107`), so work is durable twice if the callback
  throws one after its transaction has committed, commits a second transaction
  that fails, or writes outside of a transaction and fails then. The callback may
  have done nothing wrong itself: on SQLite a reset of the transaction's options
  that fails after `COMMIT` is thrown as it is (`sqlite-transaction-runner.ts:91`),
  and "database is locked" is transient (`sqlite-provider-services.ts:37-48`).
  The model does all of this; `AppliedAtMostOnce` is stated of `careful`
  operations.
- `data_source`, `LeavesOpen = FALSE`: a SQLite stream opened in a transaction
  and left suspended does not hold its lease, and its cursor sits on the handle
  of the next one (`sqlite-reusable-connection-source.ts:30`).
- `diff`: scaffolded source is checked for the rebuilding provider only. For one
  that alters in place, the operations of a table that SQLite would rebuild stand
  where the rebuild stands, and the rename of a key can come after a join table
  that refers to its new name (`migration-operation-renderer.ts:69`). And the
  names in the family of renames are configured ones: a conventional name is
  computed from the new column while the database has the old one
  (`model-snapshot-property-rename.ts:85`).
- `tracking`, `RemovesEarly = FALSE`: a `remove()` between the call of
  `saveChanges()` and its first statement is taken away when the older plan is
  accepted (`change-tracker-acceptance.ts:138`).
- `plan`: with an optional one-to-one relationship, `one-to-one-ordering.ts:22`
  compares the new foreign key of one entity with the old one of another, null
  included: an entity that gives up its principal counts as moving into the slot
  of every entity that had none. With A: null -> P and B: P -> null in one save,
  the false edge A -> B meets the justified B -> A, the cycle is broken at A, and
  the unique index refuses a save that B, A would have passed.
  `tests/one-to-one-state-machine-sqlite.test.ts:123` covers the case where the
  entity that takes the slot had a principal before. The instance has required
  one-to-one relationships, and optional ones only as many-to-one.
- `plan`, queries: a page on the include of a reference is one page of the
  principals of all roots together, although the loader notes that its callers
  use a single parent's keys (`include-loader-key-batch.ts:40`;
  `include-strategy-reference.ts:81` passes those of every root): of two posts
  with two authors, `include(p => p.author, a => a.take(1))` leaves one post without
  (`GlobalWindow`). And the include of a many-to-many collection of a single root
  sends `offset` without `limit` (`include-many-to-many-batch-sql.ts:102`), which
  SQLite and MySQL reject, as `sql-dialect.ts:37` says, and which the builder of
  queries avoids with `unlimitedLimitLiteral` (`BareOffset`).
  `AnswersAreTheOnesAsked` excepts both by name.
- `navigation`: the include of a reference puts a note back into the collection
  of its principal although the application has taken it out and not saved, and
  captures that collection as the baseline (`relationship-inverse-fixup.ts:44`;
  the other direction is guarded, `include-pending-relationship.ts:10`). And the
  journal compares values, not writers. A `link()` of what a load has just
  stitched publishes an equal collection, so that the roll-back of the load takes
  it off while the link stays queued (`navigation-write-journal.ts:103`); a load
  that wrote two values to one navigation, with the application assigning the
  second in between, rolls back past the assignment, though the context is then
  poisoned. `RollbackIsExact` excepts values that the load itself has published.

### Fairness

`UnitOfWork`: weak fairness per chain on the continuations and the answers of
the driver (`TransactionStep`, `SaveStep`), and strong fairness on the end of a
work function at each depth, because a work function may call again and again
before it returns, yet returns. Nothing obliges the application to call.
`PooledConnection`: the driver answers or rejects every command, and a work
function ends (strong, at each depth, for the same reason). `ClientLeases`: the
pool serves its queue, the server answers or rejects, a consumer reads on or
leaves; no failure and no signal has to happen. `DataSource`: leased contexts
are disposed of on every path, which the documentation requires, attempts come
to a verdict, and the application shuts the source down and asks again when the
disposal was refused for active leases. `MigrationRunner`: strong fairness of
each deployer's progress, because a lock that others take and give back is free
again and again; neither a failing lock nor a failing release has to happen.
`OperationGuard`: weak fairness of each lazy load, whose statement returns and
whose turn the scheduler then passes on; nothing is asked of the application.
`ModelDiff`, `ChangeTracker`, `SavePlan`, `SelectQueries`, `Outbox`, `AtomicFiles`
and `NavigationLoad` state safety only and assume no fairness.

## 5. Proofs

TLAPS checks the following for every value of the constants that satisfies the
named assumption of the module; TLC evaluates those assumptions in each run.

| theorem | statement | argument |
|---|---|---|
| `UnitOfWorkProofs!TypeCorrect` | `Spec => []TypeOK` | `TInv`: types, and that a chain suspended inside `transaction()` has an entry in `txs`, without which its innermost entry has no type |
| `UnitOfWorkProofs!StackBelongsToOwner` | `Spec => []FramesBelongToOwner` | `GInv` adds `GuardHeld`: a chain that waits for its transaction to open is the owner, and nothing is open while nobody is. A step of a chain moves the stack and its own count together (`StoreMoves`, `GuardMoves`) and leaves the counts of the others (`OthersKeep`) |
| `UnitOfWorkProofs!OneSaveHoldsTheLock` | `Spec => []SaveHasTheLock` | `LInv`, the types and the property: a step that keeps its chain inside `saveChanges()`, or outside, leaves the lock alone (`StayingKeepsTheLock`), and each way out frees it, the deferred acceptance too (`LeavingFreesTheLock`) |
| `UnitOfWorkProofs!SilentOnceUnknown` | `~Overlap`: `Spec => SilentAfterUnknownOutcome` | `SilenceHeld` in `KInv`: from the commit that loses its verdict the guard is free and the stack is empty, the chain that lost it is the one at work until its `catch` has run, and from then on no call is admitted (`StepKeepsSilence`) |
| `UnitOfWorkProofs!SilentForOverlappingChains` | `Spec => SilentOnceOutside` | `NothingPending`: while the verdict is remembered, no open transaction holds a write, because statements are refused. What opens, closes or is rolled back then writes nothing (`EmptyStaysEmpty`, `NothingIsWritten`), and with nobody inside no action opens anything or assigns the outcome (`SilenceLasts`) |
| `UnitOfWorkProofs!TrackerMatchesStore` | `~Overlap`: `Spec => []TrackerMirrorsStore` | `KInv`: only one chain is at work (`OneAtATime`), every save is unsaved, under way, deferred or decided (`Ledger`), and of the chain at work the counts that `run()` took split the callbacks as the savepoints split the rows (`StartsInOrder`, `RowsFollow`), no save is deferred twice (`CallbacksDiffer`) and what is final, given back or open has the rows it should (`Beliefs`, `Verdicts`) |
| `UnitOfWorkProofs!CallbacksMatchFrames` | `~Overlap`: `Spec => []CallbacksFollowFrames` | `RowsFollow`, level by level |
| `UnitOfWorkProofs!PromiseIsKept` | `~Overlap`: `Spec => KeepsPromise` | under `KInv`, each of the steps of a chain is a `Write`, `Refuse`, `CommitAll`, `Undo`, `LoseVerdict`, `Confirm` or `GiveBack` of `AtomicSaves`, or leaves outcome and belief alone |
| `UnitOfWorkProofs!BeliefFollowsTheRows` | `~Overlap`: `Spec => []Promise!BeliefFollowsOutcome` | the refinement, with what the promise itself implies (`BeliefIsJustified`, from `PromiseTypes`): a belief that is final has a durable outcome, one that was given back does not, unless the verdict was lost |
| `PooledConnectionProofs!PoolStaysClean` | `Spec => []IdleClientsAreClean` | `CInv`: calls are nested as `transaction()` and `session()` allow, each at its depth (`Nesting`), and a client that no transaction is on has nothing on it or is condemned (`Cleanness`) |
| `PooledConnectionProofs!VerdictsAreTrue` | `~Catches`: `Spec => []VerdictIsTrue` | `VInv`: while nothing has failed that was not undone, the frames of the server are what the open calls have kept, level by level, but for what the command under way may have done and for the savepoint that MySQL leaves behind (`Mirror`: `Strong`, `Weak`, `Lost`); the calls answer for disjoint sets of open writes, and nothing is durable that is open or was rejected, but between COMMIT and its verdict (`Ledger`) |
| `ClientLeasesProofs!ClientsNeverLeak` | `~Catches`: `Spec => []ClientsAccounted` | `LInv`: clients are apart (`Apart`), and each step of an operation says whether it holds one (`Holds`), what may be on the server (`Commands`), what the generator remembers (`Locals`) and when a transaction may be open: only if the stream will end it or will report that it could not (`Opened`) |
| `ClientLeasesProofs!CancellationIsPrompt` | `~Catches`: `Spec => []CanceledWaitsForNobody` | `LInv`, with what the listeners of a signal that has fired have done (`Heard`) |
| `ClientLeasesProofs!WaitersAreQueued` | `Spec => []WaitersStandInTheQueue` | `Line`: most steps touch neither the queue nor who waits (`StandsStill`); one that takes somebody out of it (`RemovedAt`), served, refused or canceled before, keeps the others in their order (`LeavingTheQueue`) |
| `MigrationRunnerProofs!AppliedIffRecorded` | `Spec => []HistoryIsExact` | `RInv`: a runner is at a boundary of the batches of its step. If no statement of the step suppresses transactions there is one batch (`OneBatch`), so a step that takes effect takes all of it, history row included (`WholeStep`, `BatchIsExact`) |
| `MigrationRunnerProofs!OneDeployerAtATime` | `Spec => []RunnersExclude` | `RInv` with `RunnersExclude` is inductive: the lock is taken when free, and whoever gives it back, on any path, no longer plans or runs |
| `MigrationRunnerProofs!DeployersMeetTheirGoals` | `Runners # {}`: `Spec => []DeployersAgree` | `Agreement`: the steps of a plan that are not recorded yet lead from the history to the goal (`Leads`: they list the difference, each migration once, in order), and the history has no gap in the project of whoever runs (`Closed`). A plan leads there when it is made (`PlanLeads`); a batch records its step with its last statement and not before (`EffectsOfBatch`), and what is left still leads (`StepLeadsOn`) |
| `OutboxProofs!TypeCorrect` | `Spec => []TypeOK` | `TInv` adds that the open transactions start where the list of callbacks is at least as long, in order: a scope's start is a place in the list |
| `OutboxProofs!EventsWrittenOnce` | `Spec => []WrittenOnce` | `IInv`: the rows of each open transaction are the events of the callbacks since its start (`RowsAreCallbacks`), callbacks hold disjoint events (`Apart`), and what has a row that may not be cleared yet is remembered (`Remembered`), so a plan (`PlanIsPending`) has none of it |
| `OutboxProofs!EventsAreKept` | `Spec => []NoEventIsLost` | the same `IInv`, with `ClearsDurable`: what waits to be cleared is durable; undoing a scope forgets exactly the events whose rows go |
| `AtomicFilesProofs!TypeCorrect` | `Spec => []TypeOK` | inductive as it stands, with the bounds of `at` |
| `AtomicFilesProofs!OldContentSurvives` | `Spec => []OriginalsSurvive` | `IInv` adds that what was seen is what was there (`SeenAgrees`, `SeenBefore`) and that paths are handled in order (`InOrder`): a path not yet backed up has its content on disk, one that is has it in the back-up |
| `AtomicFilesProofs!ChangesAreAllOrNothing` | `Spec => []AllOrNothing` | `AInv`: what each path has at its place, in its temporary file and in its back-up, for every step of the loop that has reached it or not (`Progress`), forwards and back |
| `AtomicFilesProofs!NewcomersAreLeftAlone` | `Spec => NewcomersStay` | the same `AInv`: a path that is published or undone holds what the transaction itself put there |
| `DataSourceProofs!RetriesApplyOnce` | `Spec => []AppliedAtMostOnce` | `RetryInv`, for careful operations: a lease is out only while the operation is attempting (`LeasedWhileAttempting`), a transaction is open only while the attempt has heard nothing (`OneTransaction`), what an attempt left is what it heard, resolved or unknown (`LeftIsHeard`), and something is applied only if the last attempt left it (`AppliedIsLeft`); so an attempt that may be retried has applied nothing |
| `DataSourceProofs!HandlesHaveOneOwner` | `~LeavesOpen`: `Spec => []LeasesOwnHandles` | `HInv`: handles are known, apart and counted (`Known`, `Apart`, `Counted`), idle ones are clean, and a lease and what its handle carries agree at every step of giving it back (`LeaseFits`); there is always a closed handle to open, because fewer leases than handles hold one (`SomeHandleIsClosed`) |
| `OperationGuardProofs!WorkStaysInItsScope` | `Spec => []WorkKeepsItsScope` | `GInv`: each store leads, of the scopes that are active, to those in whose work it is found (`StoresTell`), be it the store of a call or one that was handed on to work nobody awaits; and a guard that is taken has an active scope (`Held`), so joining it is being inside of its operation (`JoiningIsBeingUnder`) |
| `OperationGuardProofs!OneQueryUsesAConnection` | `Spec => []OneQueryAtATime` | the same `GInv`: a guard and its holder agree (`Held`), a scope that is queried says so, also when the guard has passed on, and no two calls or streams use one (`OneUser`), of the loads only the first is in a call (`Lines`), and one that waits finds room for its scope (`Counted`) |
| `OperationGuardProofs!BudgetIsExact` | `Spec => []LoadsAreCounted` | `QInv`, the property with the finiteness of what is loaded: a request that is queued is counted (`RequestIsCounted`), one that settles leaves its place to what is loaded or gives it back (`SettledIsCounted`) |

The invariants are not inductive as they stand: `FramesBelongToOwner` says
nothing of a chain that waits to open a frame while another owns the guard,
`HistoryIsExact` nothing of a runner that resumes in the middle of a batch,
`AppliedAtMostOnce` nothing of an attempt that may still commit, `WrittenOnce`
nothing of rows whose transaction may be undone, `TrackerMirrorsStore` nothing
while a chain is at work, `VerdictIsTrue` nothing of what the savepoints of open
calls hold, `DeployersAgree` nothing of a plan half done, `ClientsAccounted`
nothing of a stream that is about to give back a client with its transaction open,
`WorkKeepsItsScope` nothing of a store whose operation has ended when its chain
forks, and `OneQueryAtATime` nothing of a query in a scope that no guard has any more.
Five of the properties are checked by no run. `FramesBelongToOwner` and
`SilentOnceOutside` matter where chains overlap, and there the proofs cover any
number of them. `SaveHasTheLock`,
`WaitersStandInTheQueue` and `LoadsAreCounted` are the safe halves of
`SaveReleasesContext`, `WaitersAreServed` and `NobodyWaitsForever`: that a lock, a
place in a queue or in a budget is held by exactly those who are to give it back.
That they do give it back is a matter of fairness, which TLC checks.

Some of the theorems have a hypothesis, a switch of the model that the run has
too: `~Overlap`, that an application awaits each call before the next, which the
documentation asks for; `~Catches`, in `ClientLeases` that a session ends when its
stream failed, in `PooledConnection` that work does not go on after a failed
statement; `~LeavesOpen`, that a stream ends before the transaction it was opened
in. Without it the property does not hold of the code, for the reasons given in
§4. That there is a deployer is all that `DeployersMeetTheirGoals` asks: with none,
the empty history is nobody's.
`ClientsNeverLeak` and `CancellationIsPrompt` do not need `SessionSignal = FALSE`,
which the run has for the sake of the session: the session loses its client, the
pool does not.

Only model-checked: every liveness property (liveness under fairness and ENABLED
are out of the prover's reach), and the properties of the modules not in the
table. `SavePlan` compares a plan with every order of its statements by a recursive
operator, which the provers do not support, and `ModelDiff` is a translation of
functions on sequences: what those compute for every input would need induction
over data, whose theorems take an operator that the provers cannot instantiate.
(Where a single fact about finite sets or sequences needs induction, as that every
finite set of ids can be sorted, `MigrationRunnerProofs` and
`PooledConnectionProofs` argue with the least element of the sizes of its
counterexamples instead: `LeastElement`, `SortedExists`. So does
`OperationGuardProofs` for the two recursive functions of its model, the path of a
scope and its nearest active parent: `PathExists` builds the first from the sets
that are closed under parents, `UpExists` the second from the first, and
`UpKeepsTheActive` says that skipping expired scopes loses no active one.)
`SavePlan` and `ModelDiff` stay with TLC, and so do `NavigationLoad`, whose
stitching is folds over the rows of a statement, and `SelectQueries`, whose
properties say that two such translations agree.
The journals of `ChangeTracker` are in reach of the provers, but not proved yet.

## 6. What is not modelled

`UnitOfWork`: a save with an empty plan; interceptors and callbacks that call
the context again; an application that rethrows an older clean-up
error; nested work that is not awaited.
`PooledConnection`: the checks of nested options; detached nested work; more than
one chain.
`OperationGuard`: what a refused call throws; the names and diagnostics of loads.
`ClientLeases`: a stream inside an explicit transaction, abandoned iterators in
a session, `transaction()` in a session while its stream is open, MySQL.
`DataSource`: nested savepoints of SQLite; streams of a server; work of one
callback that overlaps on one lease; a `shouldRetry` that overrides the
classification of errors. A callback whose `finally` throws a transient error
while it gives its lease back is not a careful one. That a server's transaction
which rejects without the unknown outcome left nothing behind is what
`PooledConnection` checks (`VerdictIsTrue`), with the exclusions it has there.
`MigrationRunner`: ids whose order under `localeCompare` differs from `<`;
`update()` in a session of the application that is cancelled late; a revert
torn by MySQL's implicit commits; SQLite's foreign-key switch; idempotent
scripts. A refused checksum, a refused loss of data and an unreadable history
are one action, `PlanIsRefused`.

`ModelDiff`: schema names; composite and alternate keys; filters, included columns
and expressions of indexes; the extension and schema operations of the builder;
hand-written migrations. Three documented limits are left out of the instances:
populated `restrict` cycles on SQLite (`docs/migrations.md:172`), a stored column
that becomes computed, which is refused on PostgreSQL
(`migration-builder-column-ops.ts:105`), and the creation script of a cyclic
model where foreign keys need their target (`schema/table-order.ts:5`).
`ChangeTracker`: a manual `acceptAllChanges()`; the reservations of an upsert;
navigations and relationship fix-up; a commit without a verdict, after which
`UnitOfWork` shows that the context is not used; an entity that is detached and
added again before the SQL of its save has started.
`SavePlan`: inserts of several rows in one statement; link and unlink of
many-to-many relationships; outbox rows; several relationships; entities that
refer to themselves; soft deletes and tenants.
`Outbox`: an event on two entities, or twice on one; events of an entity that
stops being tracked; the delivery of the rows, which is at least once by
documentation (`docs/upgrading.md:94`).
`AtomicFiles`: two commands on the same files at once; the directories that are
made for a new file and stay after a roll-back; a rename or removal that reports
an error although it happened.
`SelectQueries`: aggregates and grouping; streams; `find` through the tracker;
computed projections and the materialization of rows; `like` and the string
operators; owned columns, converters and composite keys; more than one join;
includes of includes; locks; raw SQL; the values of a statement other than small
integers and null. `OneTenantPerOperation` leaves out roots that were asked for
without the tenant filter. A page of an include on a provider without window functions.
`NavigationLoad`: one-to-one references; includes with a limit, an offset or a
filter (`SelectQueries` has their statements); includes that start at the tags;
queries without tracking; the deletion of a stale loaded flag when it is asked for; the suppression of change detection,
which no operation here uses; the refusal of an entity whose key was modified;
accessors that replace a value instead of refusing it.

The models cover the parts of the repository where order, failure and shared
state decide the outcome, which is a small share of its lines. The components
without a module are listed in `PROJECT.json` with the reason: those with state
and order are in the plan; the rest are pure translations (models, schemas,
rows to entities, text of migrations) or input and output.
