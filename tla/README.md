# Clever Dashboard in TLA+

TLA+ modules of Clever Dashboard: how orders and traffic come into its database,
how a start migrates and cleans it, what every report reads from it, and the page
that sets targets; with TLC configurations and TLAPS proofs. Paths such as `orders/service.go`
are below `src/internal/services/` unless they say otherwise.

## The system

A Go service with a REST API and a React page. It imports exports of orders
from Bitrix, fetches daily traffic and e-commerce figures from Yandex Metrika and
AppMetrica in the background, and builds reports with SQL over both. Data is in
SQLite (WAL, a pool of one connection) or PostgreSQL (a pool without a limit).

| Part | State it keeps | Operations | Talks to | Hard behaviour |
|---|---|---|---|---|
| cumulative import (`orders`) | tables `orders`, `order_items`, `raw_import`; one open transaction per request | `Import`: parse, batches, `SaveBatch`, `Complete`, `Rollback` | handlers, upload sessions, SQL | failure in the middle, overlapping files in any order, two imports at once, row locks, waiting for the pool |
| chunked upload (`importupload`) | a directory per session: `meta.json`, parts, temporaries | `Create`, `SaveChunk`, `Open`, `Close`, `Delete`, `cleanupStale` | handlers, the file system | no lock at all: requests on one session race at every file operation |
| HTTP API (`handlers`) | none | one per endpoint | all services | what is still done after an error |
| traffic sync (`trafficsync`) | `analytics_traffic_daily`, `analytics_source_revisions`, `analytics_sync_runs`; the flag `running` | `Run`, `Trigger`, `sync`, `Status` | connectors, SQL, page | timer against button, five statements that can each fail, days passing, restarts |
| e-commerce sync (`ecomsync`) | `analytics_ecommerce_daily`, its runs; a mutex | `Run`, `Sync` | connectors, SQL | as above, without a button |
| connectors | none | `Fetch` | Yandex | failure between chunks |
| purge (`ordercleanup`, `internal/container`) | the tables, backup files | `PurgeBefore` at startup | SQL, files | another process writing, interruption and repetition |
| `internal/db` | the pool, the schema | `Open`, `Migrate`, `Rebind` | all | the pool of one |
| `internal/ingestion`, `normalize` | none | `Stream`, `MapOrder`, column recognition | import | formats |
| reports (`funnel`, `metrics`, `logistics`, `acquisition`, `customeranalytics`, `internal/orderstage`) | none | aggregates | SQL | several queries per report |
| targets (`plan`, `traffic`, `goal`) | `plan_targets`, monthly traffic | get, save | SQL, page | priority of sources |
| page (`src/frontend/src`) | React state | upload, refresh, filters, plan editor | API | late responses |
| start, configuration, static files, deployment | none | `main` | all | wiring only |

What makes each part correct:

- **Import.** A file counts as a whole or not at all. Orders that it does not
  name stay. Of overlapping snapshots the newest wins in whatever order they
  come; an order and its positions stem from one snapshot; a repeated import
  changes nothing; concurrent imports do what they would do one by one; every
  request is answered.
- **Upload.** What is imported is the file that was announced; a removed session
  does not come back; temporaries are removed on every error; abandoned
  sessions go in the end.
- **Traffic sync.** One sync at a time; only days that are over; a success
  covers its whole range; a failure takes nothing away; a missing day has one
  cause only, an outage longer than the lookback; a changed query renews the
  history; a page reloads after its sync.
- **Ingestion.** Every order of an export is imported, whatever stands in its cells and
  whatever disguise the file wears; no more is paid back than was paid.
- **Migration.** An older database ends as one that was imported today, also when
  a start was interrupted.
- **Reports.** The parts of a report add up, within one statement always and between
  statements when nobody writes; reports that share a rule (ADR 0008) tell the same;
  a customer is new once.
- **Targets.** What a counter measures goes before what was typed in by hand; the page shows
  the target that is stored, and it stops loading.
- **Purge.** What is deleted is in a backup exactly as it was; all the expected
  orders or none; the service starts in the end, over a clean history.

## Modules

| Module | Models | Kind |
|---|---|---|
| `OrderSnapshots` | the SQL of one merged order: insert, conditional update, replaced items | pure operators |
| `OrderMerge` | `orders.Service.Import` and `orders.Merge`, several requests at once | state machine |
| `OrderStore` | what ADR 0009 promises: whole files, one after the other | abstract specification |
| `TrafficSync` | `trafficsync`, the button, the page that polls | state machine |
| `ImportUpload` | `importupload` and its four handlers | state machine |
| `OrderCleanup` | `ordercleanup.PurgeBefore` at startup | state machine |
| `Ingestion` | `internal/ingestion`, `internal/normalize`: the reader, token by token, and `MapOrder` | pure operators |
| `Migration` | the statements of `internal/db/migrate.go` | pure operators |
| `OrderRows` | the rows, predicates (`internal/orderstage`), filters and date ranges that reports share | pure operators |
| `FunnelReport`, `MetricsReport`, `LogisticsReport`, `GoalReport`, `AcquisitionReport`, `CustomerReport` | the statements of each report and what is made of their results | pure operators |
| `Targets` | `plan` and `traffic` | pure operators |
| `EcomSync` | `ecomsync`, statement by statement | actions, part of `Dashboard` |
| `GoalPage` | `useGoalPlan.ts`, `planCalc.ts` and the PUT it sends | actions, part of `Dashboard` |
| `Reports` | the report modules over one database | composition |
| `Dashboard` | the server from its start on: migration, imports, syncs, targets, requests for reports | state machine, composes the above and `OrderStore` |
| `MCOrderMerge`, `MCTrafficSync`, `MCImportUpload`, `MCDashboard` | instances for TLC, the refinement, symmetry sets; `OrderCleanup` needs none | model checking |
| `OrderMerge_proofs` | theorems of `OrderMerge`, and that it implements `OrderStore` | proofs |
| `TrafficSync_proofs`, `ImportUpload_proofs`, `OrderCleanup_proofs` | theorems of those modules | proofs |
| `Reports_proofs` | what the operators of the report modules return on any tables | proofs |
| `Dashboard_proofs` | the page, the traffic, the shared rules; what a step of the server does to a request | proofs |
| `Tables_proofs` | what the tables of `Dashboard` and the answers made of them hold | proofs |
| `Folds_proofs` | numbers, subsets of finite sets, folds and sums over them | proofs |

`OrderMerge` and `OrderStore` both extend `OrderSnapshots`; `OrderMerge`
instantiates `OrderStore` with its own tables, and `ImplementsOrderStore` is
`Store!Spec`. `OrderStore!ApplyFile` runs over the records of a file as a recursive
function, for the prover knows no RECURSIVE operators. `f ++ g` of `OrderRows` is `@@` of the
module `TLC`, which the prover does not know either. Definitions marked "Faulty variant" are not part of
a specification: they say what a property is sensitive to. `PROJECT.json`
maps each definition to its lines.

### OrderMerge

`orders`, `items` and `rawImport` are the committed tables; `txOrders` and
`txItems` hold what each open transaction has written and vanish with it.
`Row(i, o)` is what a statement of `i` sees at READ COMMITTED. The actions are the
steps of `Import`: `Receive`, `Begin` (the pool has a connection free),
`YieldOther`/`YieldOrder`/`RejectOld` (one record of `Stream`), `SaveOrder` and
`SkipOrder` (one turn of the loop in `SaveBatch`), `RejectEmpty`, `FlushRest`,
`Complete` (journal and commit), `Fail` (any error, so also an error of the
commit), `Crash`. The INSERT, UPDATE and DELETE of one order are one step:
nothing but the write of the row can make them wait, and nobody sees the rest
before the commit. A write waits while another open transaction holds the row
(`HeldBy`); `DeadlockAbort` is PostgreSQL breaking a cycle. Times are numbers, 0
is NULL, and `Accepts` spells out the three-valued WHERE of the UPDATE. Everything
else in an order is a `Contents` value: two snapshots differ by it. A commit
whose outcome the caller never learns is either `Complete` or `Fail`: the answer
is not part of this module's state.

### TrafficSync

One process for the goroutine of `Run` and one for each manual request, each with
a program counter through `sync`: clock, range, journal row, chunks, upsert,
revision, end of the journal row. `running` is the `atomic.Bool`, taken by
compare-and-swap. Statements are actions of their own and each can fail
(`SkipSource`, `RunFails`, `FinishFails`); `Restart` stops the process between any
two, with the same code or, after a deployment, with another `revision`. The
world outside moves: `NewDay`, and `Correct`, which changes a figure a source
has already reported. A row remembers the revision it was fetched under, which
the database does not; only properties read it. Only the latest journal row of
a source is kept, which is what `latestRuns` reports; a failed `startRun` leaves the older
one. A source that is not configured is not in `SourceList`. `Press`, `Trigger`,
`Respond`, `PollDone` and `GiveUp` are a page's refresh, with the answer of `Trigger`
read in a step of its own.

### ImportUpload

One action per file operation, because nothing else is atomic: `Mkdir`, the write
of `meta.json`, `CreateTemp`, the `Rename`, the opening of each part, and
`RemoveAll` as `Unlink` of the entries followed by `Rmdir`, which fails on a directory
that has got a new entry in between. Requests arrive in any number and order, with
any index and length, on any id that was ever given out. A part is the pair of its
index and length. `stale` says that the directory is older than 24 hours. The
import itself either commits or fails (`OrderMerge` says how).

### OrderCleanup

`PurgeBefore` statement by statement, on a SQLite file another process may write:
the instance that is being replaced. A deferred transaction sees the snapshot
of its first statement and its first write fails when someone has committed
since; `tx.seen` is that snapshot's number. `Stop` is any error and any end of the process;
`Start` is the platform starting it again with the same environment. Only
`created_at` before, after or NULL, and the version of a row, matter.

### Dashboard and the report modules

`Dashboard` starts on an empty file or on the tables of an earlier version
(`OldTables`: no stage "paid", no refunds, fewer columns), runs
`Migration!MigrationSteps` one by one, and then serves. `Stop` ends the process at any
moment; the migration runs again, the e-commerce sync starts over and the page's
requests fail.

*Writers.* `ImportDocument` is one committed import: `Ingestion` reads an export
token by token or row by row and maps its rows, and `Store!ImportFile` of
`OrderStore` applies them, which is what the runs of `OrderMerge` show an import to be.
`SyncTraffic` is in the same way one successful sync of `TrafficSync`. `EcomStep` is a
step of `EcomSync`, which has every statement and failure; `PutPlan` and `PutTraffic`
are the two PUTs.

*Readers.* A request is open, holds the results it `got`, and executes its next statement
on the tables of that moment (`Query`). Each report module gives the `Statements` of
its report in their order, what a statement returns (`Execute`; a set, for a `LIMIT`
between equals may keep either), and the `Report` made of the results. A statement
may depend on what was got before, as the range does on the bounds of the data.
`torn` says that something a request reads was written between two of its statements.
ADR 0007 says that reads stay consistent thanks to WAL: that is so for each statement,
not for a report of several. What a single statement tells (`StatementsAddUp`) is checked
in any case; what relates statements (`ReportAddsUp`) is checked when the request is not torn, and
it does fail when it is. Range ends, plan and typed traffic are looked at in any case.
A write to a table the request does not read would not change its answer and is not taken. `Reads` lists the tables
from the SQL of each report: `goal` reads orders, visits, the plan and the journal of the syncs, `acquisition` orders, visits and the steps in the
shop. The journal is compared with the answer of `acquisition` in `ReportAddsUp`, so that a sync which says success without
its rows is noticed; a step of a sync that writes only the journal does not tear that answer.

`ReportsAgree` compares the operators of five reports on the same tables, for every month
and every reachable content of the tables, instead of two requests.

*Page.* `GoalPage` has the state of the hook. A load replaces the one before it, a save is
answered in three steps (commit, read, answer), and both may fail or lose the server. Nothing cancels a PUT: when the page
gives up on one that is not committed (`SaveFails`), it stays in `lost`, and the server may commit it at any later moment (`LostCommits`), also after the
next save. Other pages write the plan through `PutPlan`. `since` is no part of the program: it notes who has written the plan since a
copy of it was read, for the load, the answer of a save and what is shown, so that `ShownTargetIsStored` can say that
what is shown is stored *until somebody writes*, and that the page's own target is among it. A load made while a save is under way is marked `mixed`:
the code lets the answer overwrite the plan of whatever report is shown then, or drops it when none is. The first conjunct of
`ShownTargetIsStored` holds for these loads too, with the year the shown plan is of; the other two, that it is the selected year and has the saved target, are
false of them, and the run `GoalPageSelected` shows the first of the two.

*Traffic.* `better` compares the priority of the source and then the time. `TrafficPriority` says which visits and source an answer may show:
in a month with counted days those of the sum over the days of one counter, or of a row that a client sent under the name of a counter that has not synced
since. The code allows that row (`traffic/service.go:95` keeps any valid source), `docs/api.md` does not: run `DashboardEntered`.

*Data.* Days are numbers in a calendar of weeks, months and years whose lengths are
constants; every month has as many days. A cell of an export is a sequence of what it is made of (words,
digits, amounts, parts of a place), so that normalisations are modelled by what they do: country, bracketed codes
and doubled names are dropped, an amount is read digit by digit, a quantity of nothing is one.
Words are in lower case: the migration compares a status with case, the import without.
Amounts have no fractions; percentages and averages are left out unless they decide something.

What the model says of the code beyond what properties state:

- `streamHTML` accepts a file that breaks off; the row that was cut is an order with the
  cells it had (`internal/ingestion/parser.go:109`). `MCDocuments` has such a file, cut behind the last cell.
- The number of paying customers counts an empty name, for AND binds closer than OR in
  its condition (`metrics/repository.go:179`); hence the `+ 1` in `MetricsReport!StatementsAddUp`.
- An order in stage "other" has no row in the funnel of `metrics`; hence `<=` there.
- `canceledNoReason` (`funnel/service.go:139`) subtracts the most frequent reasons only, and also those of
  orders that are not canceled.
- The restored refund of a full return needs its stage; a canceled order of an older database whose status is a return keeps
  refund 0. No report reads it.

## Runs

| Run | What it asks | Bounds |
|---|---|---|
| `OrderMergeSQLite` | type, items, newest snapshot, journal, no regress, untouched orders, refinement of `OrderStore`, repeated imports | 3 requests, 1 connection, 2 orders, batches of 2, 6 files, no start date |
| `OrderMergePostgres` | the refinement with interleaved statements; every request is answered | 3 requests, 2 connections, the same files, a start date |
| `OrderMergeAnyOrder` | **violated**: a creation time is kept in whatever order files come | one file after the other |
| `TrafficSyncData` | what stays in the tables, and that the lookback is caught up | the source with a revision, 4 days pass, lookback 2, backfill 3, 2 faults, 1 correction |
| `TrafficSyncRefresh` | one sync, pages that wait, syncs that end | both sources, 2 pages and the timer, 1 fault |
| `ImportUploadRaces` | whole files, owned temporaries, no resurrection | 1 session, 3 requests at once, 1 to 3 bytes in chunks of 2 |
| `ImportUploadBusy` | abandoned directories go while uploads go on | 1 session, 2 requests |
| `OrderCleanup` | positions, backup, all or none, clean start, a start in the end | any 3 orders, 2 expected, 2 foreign writes, 1 failure |
| `Dashboard` | exports read whole, migrated rows, reports that add up and agree, cohorts, priority of traffic | 4 orders in 2 exports and 3 odd ones, an older database, 10 kinds of request, 1 restart, 2 months of 4 days in a year, 2 journal rows |
| `GoalPage` | the shown target is stored; requests, loads and saves end | an empty file, 2 years, 2 loads and 2 saves, another page that writes the plan, 11 kinds of request |
| `GoalPageSelected` | **violated**: the plan shown is that of the selected year | as `GoalPage` |
| `DashboardEntered` | **violated**: what is entered does not take the place of what is counted | as `Dashboard` |

The exact values are in the `.cfg` files. Why they are enough: two
orders and two merges are the least that can lock each other out, and the six files hold
each relation between two snapshots of an order (older, newer, equal, undated,
without creation time, twice in a file) in both orders; a batch of two makes a full, a partial and
an empty last batch. A backfill of three days, a lookback of two and three midnights
make outages shorter than, as long as and longer than the lookback; one source answers a range at once, the other in
several chunks and with a revision. Three bytes in chunks of two make a file with a
full and a short part, one with a single part, and requests with every wrong
index and length. Three orders of which two are expected allow fewer, as many
and more than expected, and undated ones.

In `Dashboard` a behaviour makes requests of one kind, again and again, and what is written to tables
which that kind does not read is left out (`Reads`). The four orders
have every way an order can end (paid, canceled and later paid back, returned in full and then in part, new
without a name), with dates in three months, and the second export changes three of them. The older database of `Dashboard`
is what an earlier version made of the first export; `GoalPage` starts on an empty file, for the page has nothing to do with orders. Limits of one to three groups make
some lists cut and others not; one journal row may be left "running" and one written by the other sync. The calendar puts the
present day, a history and a comparison in different months and years.

`CHECK_DEADLOCK FALSE` is in the runs of `OrderMerge`, where each request is made
once and the system may come to rest, and in that of `OrderCleanup`, where a
service that is up, or a purge that has used its failures, has nothing left to do, and in that of
`Dashboard` and the runs beside it, where a page that has loaded may be left alone. The runs
of `TrafficSync` and `ImportUpload` check deadlock: the timer always ticks again, a
request can always arrive.

Symmetry of the requests is used in `OrderMergeSQLite` and `ImportUploadRaces`, which
have no liveness properties.

### Fairness

- `OrderMerge`: a request that runs goes on running (`WF` of its steps), and
  PostgreSQL breaks lock cycles. `Import` has no wait but the pool and row locks.
  Failures and crashes are never required.
- `TrafficSync`: the ticker ticks and goroutines go on running. Faults are
  bounded, so that they cease; no fairness on pages, days or corrections.
- `ImportUpload`: handlers run to their end and the process is not stopped for
  ever; `BusySpec` adds that people go on making uploads (strong fairness of an
  accepted create), which is the assumption the code needs and the documents do not state.
- `Dashboard`: the migration, the three steps of a save, `Query` and `Respond` go on. For the last two `WF` is written
  out as `[]<>~enabled \/ []<><<A>>_vars`, which is its definition with the enabling condition named. Nothing is
  assumed of users, imports and syncs; restarts are bounded.
- `OrderCleanup`: the platform restarts the process (`restart` policy of
  `src/docker-compose.yml`) and it goes on running.

### Disagreements with the documents

1, 5 and 6 are findings with a run of their own: `OrderMergeAnyOrder`, `GoalPageSelected`, `DashboardEntered`. 2, 3, 4 and 7
were met while modelling, with TLC on the same modules, and have no run.

1. ADR 0009 lets overlapping files be loaded in any order. The creation time depends on
   it: an older snapshot that alone carries it is skipped whole once a newer
   one without it is stored (`orders/repository.go:69`).
2. `docs/api.md:508` promises `syncing: true` when a request started no sync because one was under way. `Trigger` reads
   the flag a second time (`trafficsync/service.go:73`); when that sync has ended by then, the answer is twice false.
3. ADR 0005 promises that a changed revision renews the history. Rows and revision are
   written separately (`trafficsync/service.go:118`): a failure between them, followed
   by a return to the earlier version, leaves rows of the other revision for good.
4. ADR 0009 and `docs/import-bitrix.md` call a repeated import idempotent. With an order three times in a file it is not: first
   undated with one creation time, then dated with another, then dated later without any, the second creation time stays. When the
   file is imported again the undated row is accepted, for it counts as new as the row it meets, and brings the first creation
   time; the second row is by now too old to undo it (`orders/repository.go:69`).
5. ADR 0008 says that the page cancels an outdated request when the year or month changes. It cancels the GET only: the answer
   to a save replaces the plan of whatever year is shown by then (`useGoalPlan.ts:76`).
6. `docs/api.md:612` says that PUT always stores `source=manual` and does not overwrite what was counted. `Save` keeps a source that is
   given (`traffic/service.go:95`), and a row under the name of a counter is shown in place of its sum until it syncs again.
7. ADR 0007 and `docs/api.md` say that unfinished sessions are removed after 24 hours. Only
   `Create` removes them (`importupload/service.go:68`).

## Proofs

All are about any values of the constants that satisfy the named assumptions
(`SnapshotsAssumption`, `MergeAssumption`, `SyncAssumption`, `UploadAssumption`,
`CleanupAssumption`, `CalendarAssumption`, `LimitsAssumption`, `DashboardAssumption`, `ReportAssumption`, `ExportAssumption`), which TLC evaluates in the runs.
They give types to constants and say that `None`, `NoRow`, `NoOrder` are none of the values they stand
beside. `DashboardAssumption` says that a sync stores what one of the two counters reports, that
a request names its report, year and month, and that the rows of an earlier version come from an export; the
`SyncAssumption` of `Dashboard`, that syncs report days of the two channels and reach back to a day of the calendar. `ExportAssumption` is about the records of
an export: a number is written in digits, a date is a day or missing, a position has a name and a quantity,
and the statuses the migration calls a full return contain the word for a return and not that for a part, as
the literals in `migrate.go` do. `LimitsAssumption` says that limits are numbers and that a history has a day, `ReportAssumption` that there are
finitely many orders and that a request names days and has the filters there are.

**OrderMerge.** `TypeCorrect` first. `ItemsFollowOrders`: `ItemsMatchOrder` is not inductive, for a
commit copies what the transaction wrote; `WritesMatch` says the same of the open
transactions. `NewestWins` and `OrdersNeverRegress` rest on `MergeInv`. A commit overwrites
whole rows, so it must be known that nobody else has written them meanwhile
(`OneWriter`) and that they are newer than what is there (`WritesNewer`); that
no snapshot of the file got lost on the way (`AllAccounted`: each record read is in
the batch, or the row the transaction sees is as new); and that what it wrote stems
from the file (`BatchFromFile`, `WritesFromFile`). The delicate step is a commit of one import
while another is under way: the row that the other *sees* changes under it, but
only to a newer one, so that the records it skipped are still accounted for. `AbsentOrdersStay` follows
from `WritesFromFile`, and from `Journalled`, by which the journal row of a commit is new.
`JournalIsExact` needs `CountsInv`: what a transaction has counted as added are the rows it
wrote where none is (`Inserts`), and what it has read is counted or in the batch. A row another import
adds in between cannot be among them, for it would have waited for the row lock.

**The refinement of OrderStore** (end of `OrderMerge_proofs`). `MergesAreAtomic` shows `Spec => Store!Spec`: a commit is the step of
`OrderStore` that applies its whole file, any other step a stutter. `OrderStore` folds a file over the
tables *of the moment of the commit*, whereas a merge read and wrote in many steps while others committed.
The proof keeps, for each open transaction, a *witness run*: a function from the number
of records applied to a state of the tables, which begins with what is committed now, takes `ApplySnapshot` for
each snapshot merged so far, and ends in what the transaction sees (`Replays`); what is read beyond that waits in the batch (`Waits`). Each statement extends the
run by a record. A commit of another import changes the beginning; the run is then renewed (`Renewed`), record by
record, on the new tables: rows the transaction wrote are locked and unchanged, and records it skipped are still skipped,
for the row is at least as new. At the commit the run is over the whole file, and that it is what the
recursive function computes follows by the least number for which they would differ, as the
prover has no induction over data.

**TrafficSync.** `SyncInv` says that the flag is up exactly while one process
is under way, and that the range of that process ends before today; from it follow
`AtMostOneSync` and `OnlyClosedDays`. `NoDayIsLost` is a step property of the upsert.
`RefreshWaits` needs besides that a page that has its answer and whose sync still runs sees the flag up.
`SuccessCoversRange` and `GapsByOutage` rest on `RunInv`, which follows a sync from its clock to the journal: the range it
picked is still the one it would pick (`RangePicked`), no stored day is later than its end (`NothingNewer`), the latest journal row
of its source is its own (`Journalled`), and after its upsert every day of the range is stored (`RangeStored`). All of it needs
that no other sync is under way. `RevisionIsWhole` is proved for `~Rollbacks`, and only then it holds: with `Rollbacks`
TLC finds a counterexample in a few steps (disagreement 3). `RevisionInv` says that when a revision is about to be recorded the days of a backfill's
depth were fetched under it, and that no recorded revision is ahead of the deployed one.

**ImportUpload.** `UploadInv`: each handler serves a request of its kind on an id that has been drawn (`Serves`), a directory
without its `meta.json` is known to the create alone that made it (`NewAlone`), each part in a directory is in its
place and has the bytes its index calls for (`Placed`), and what a complete has opened are the first parts of
its file (`Opening`). So `WholeFile` holds although no lock protects a directory: parts may vanish while they are being opened, but
the size an id was created with never changes, and what is opened stays what it was. `NoReturn` is the
step property that follows from `NewAlone`: only the create of an id writes its `meta.json`, and nobody else knows the id until then.

**OrderCleanup.** `PurgeInv`: unless another process has written (`writes = version`), the
copy is the database (`CopyInv`); the transaction saw the copied version, and once it has
written, nobody else has (`TxInv`). `NothingIsLost` and `PurgesExactly` are then the case of
`Commit`; `ListensOverCleanHistory` is that and the case that nothing was found, for which the table must be finite. The snapshot rule of SQLite is needed, not only the comparison of
`data_version`: a foreign commit between the comparison and the first DELETE is stopped by it alone.

**Dashboard.** `TargetIsStored` is the invariant `PageInv`: the plan that a load has got, the plan a save has read and the plan that is shown are the stored one
as long as nobody has written since (`PlanIsFresh`), and a save that no load has met is for the selected year and has not been overlooked.
`PageAsks` ties the page to its request: one load at a time, and a new load takes what is shown away. Other writers and saves that commit late only
add to `since`. `CountersComeFirst` has two halves. `TrafficInv`: what a
request that is not torn has got is what the tables hold now, since whoever writes a table it reads tears it. And
of the tables alone (`KeepsCounted`): a row that no other is better than is a sum of a counter when there is any, or stands beside one under the name of that counter with a later time, in
whatever order the rows come. `OneSetOfRules` is about the operators: the five reports select the same orders
(`SameScope`, `EveryOrder`), count them by the same conditions (`SameStages`) and sum the same columns, so that
they agree on any tables whatever.

**Tables.** `RowsAreMigrated` is about tables that are migrated statement by statement, with a stop and a new start between any two, while
nothing tells a row that awaits its correction from one that an import has stored. `RowsInv` says what a row may
still lack at each step (`Awaits`): the stage "paid" until the last but one of the `Steps`, the refund of a full return until the last, and that
a row lacks nothing else. Starting over puts the step back to the first, which asks less. That an import
stores nothing that awaits anything needs the reader: `MapOrder` gives a row its stage, a refund of the whole sum to a full return and a piece at least to each
position (`SnapshotRead`), for an amount that is read digit by digit is a number (`MoneyType`). A file is applied as a recursive function of its
records; as in the refinement of `OrderStore` a run, each of whose states has the form of rows, takes the place of induction over the file. The folds of the community modules are defined by
CHOOSE over subsets of a finite set. `Folds_proofs` therefore shows induction over numbers and over the subsets of a finite set in the form of
sets that contain every number or every subset, from the least-number principle, and by it that a fold is defined and what its values are like.
`TypesAreKept` takes the rest of the tables together: `SyncInv` says of the two syncs and the editors that a sync of e-commerce steps knows its
source and its first day while it works, that no day is without a date, and that whatever was entered by hand is older than the clock.

**Answers.** `ReportsAddUp` and `CustomersAreNewOnce` are about answers, and an answer is made of results that were got one after the other.
`RequestInv` (theorem `RequestsAreServed`) says what is known of them together: the statements that others depend on (the range, the bounds, the day of the data)
run before them (`BasesOf`), so that what a statement was asked is still what it would be asked now; and of a request that is not torn every result is what the
tables hold. A step tears a request when it writes a table the report reads; that the other steps change no answer is a lemma for each writer and
report (`AcquiredSparesRuns`, `UnreadAnswers`), which is the proof that `Reads` is complete. `AnswersInv` adds that each result, torn or not,
is one that tables with the form of rows may give. What follows from there is about operators only, and is in `Reports_proofs`: that groups, days, channels and weeks partition the
orders of a period, and that a sum over a partition is the sum of its parts and a sum over a part at most that of the whole (`Folds_proofs`), whichever rows a LIMIT keeps.
The conjunct of the acquisition on covered days needs `ShopInv` (theorem `SyncedDaysAreStored`): a journal row that says success is written after the rows of its range,
by a sync whose range does not change meanwhile, and rows are replaced but never taken away.

**Only model-checked.**

- All liveness (`ImportsEnd`, `SyncEnds`, `CatchesUp`, `StaleRemoved`, `ServesInTheEnd`, `LoadingEnds`), which the prover cannot do.
- `ReimportIsIdempotent`: it is not true of every file (disagreement 4). The files of `OrderMergeSQLite` name no order three times.
- `ExportReadWhole` compares the reader, a recursive function over the tokens of a file, with the grids the files of the run were made from. For
  every file it would be induction over the file, and the grids are of the instance.

The inductive invariants are in the modules they are about and are in no run; each was checked with TLC while it was found.

## Not modelled

- Percentages, averages and rounding of the reports where nothing depends on them; texts and labels.
- Letters and layouts: character sets, decimal points, the layouts of dates, Excel's XML. Cells are taken apart
  into words, digits and parts before the model begins.
- `Rebind` and the SQL dialects; the CREATE statements one by one. They are idempotent and in a fixed order.
- HTTP, TLS, authentication at Yandex, sampling; the requests of the e-commerce connectors; configuration, static
  files, container build.
- `App.tsx` and the tabs, which show reports; the progress that `planCalc.ts` computes for display;
  the upload client as a process of its own (its requests arrive at `ImportUpload` in any order and number).
- Imports, syncs, the purge and reports in one state space: `Dashboard` takes imports and traffic syncs as
  one step each, which `OrderMerge` and `TrafficSync` justify, and no old orders are purged in it.

## Plan

1. (done) `OrderSnapshots`, `OrderMerge`, `OrderStore`: the import.
2. (done) `TrafficSync`: the background sync and the manual refresh.
3. (done) `ImportUpload`, `OrderCleanup`.
4. (done) `Ingestion`, `Migration`, `OrderRows`, the report modules, `Targets`, `EcomSync`, `GoalPage`,
   `Dashboard`.
5. `ImportClient`: the page's `importFile` with lost requests and responses, composed with `ImportUpload`.
6. (done) Proofs of the safety of `OrderMerge`, `TrafficSync`, `ImportUpload` and `OrderCleanup`, of the refinement of
   `OrderStore`, and of the targets, the traffic, the shared rules, the migrated rows and the types of `Dashboard`.
7. (done) Sums over sets in `Folds_proofs`, the operators of the reports, `AnswersAddUp` and `CohortsAddUp`.
