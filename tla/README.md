# A TLA+ verification of CustomDB

CustomDB is a database-as-a-service platform: an Express backend that provisions Mongo and
Postgres containers for its users, a client SDK with a Redis read cache, the "PivotDB" half
(migration, change-data-capture sync, backup, alerts, monitoring) that runs in the same process,
and a Next.js frontend. This directory models the parts whose correctness depends on
interleaving, failure and recovery, checks them with TLC and proves the central safety properties
with TLAPS.

Paths below are relative to `src/backend/src/` unless they start with `packages/`, `frontend/` or
`prisma/`.

## 1. Inventory

| Component | State | Operations | What is hard | What makes it correct |
|---|---|---|---|---|
| Database lifecycle (`routes/databases.js`, `services/provisioning.js`, `nginxManager.js`, `index.js`) | rows, containers, data dirs, route files, `tearingDown` in memory | create (+ rollback), delete (+ background teardown), start, boot reconciliation | one name is shared by successive databases; five stores, no transaction; crash at any await | a live database is never touched by another request; nothing is orphaned; requests settle but for a refused rollback; boot recovers |
| Admission (`databases.js` create, `portManager.js`, `mongoGateway.js`, `frontend/app/databases/new`) | rows with owner, name, port | look up name, count, port; insert; move to the shared port at boot | four awaits between the first look and the insert | the limit is passed, and a conflict reported, by overlap only |
| SDK read cache (`packages/client/src`) | version counters and entries in Redis, a connection and a cooldown per instance | cached read, write with bump | commit and bump are two systems; reads race writes; Redis may fail or evict | a read reflects every write that returned before it began |
| CDC data path (`pivot/jobs/cdc-sync.job.ts`, `pivot/migration/cdc`) | cursor, snapshot state, replication slot, queue in memory | capture, copy, stream, apply, persist | an attempt may end at any await; at-least-once delivery; three resumption rules | zero gap between snapshot and tail; convergence |
| CDC control (`pivot/routes/cdc-sync.ts`, same job, `Sync.tsx`) | the sync's row, its BullMQ job, the attempt, the page | create, start, pause, update, delete; pick, retry, stall | the routes and the worker share a flag and a deterministic job id; the card shows an older row | a stop takes effect, a start runs |
| Cross-engine migration (`pivot/migration/worker.ts`, `pipeline.ts`, writers) | run row, job, queue of namespaces, summary | run, cancel, delete; batches, fallbacks, finalisation | parallel lanes share one summary; a stalled run is executed again | a run that lost rows is not reported as succeeded; nothing lands twice; runs end |
| Mappers, inference, DDL | none | sample, infer, map, encode, cast | values the sample had not seen; what each engine narrows or refuses | a value arrives as it was, or is refused and counted, or falls under a named narrowing |
| Migration wizard (`Migrate.tsx`, `useMigrationSocket.ts`) | form, preview, run view | preview, create job, run, watch | answers come while the form goes on; socket and poll disagree | the job copies what was previewed; the end is shown |
| Data import (`dataImport.js`, `importRunner.js`, `importJobs.js`, two pages) | job table in memory, worker threads, files in the container | start, load, poll | shared paths; a job table lost with the process; several intervals | done means landed; the page does not stay busy |
| Legacy Mongo migration (`pivot/services/migration.service.ts`) | row, run, temporary directory | drop, dump, restore | the destination is dropped first | done means the source's databases are there |
| Backup and restore (`backup.job.ts`, `restore.job.ts`, `routes/backup.ts`, `Protect.tsx`) | rows, archives, repeatable jobs | schedule, run, retain, restore, delete | row and queue changed one after the other; retention against restores | newest archives whole; schedule as in the row |
| Exports (`export.job.ts`, `routes/export.ts`) | row, runs, files | export, download, delete | second execution into the same file | done means whole |
| Alerts and scheduler (`pivot/lib/alertEvaluator.ts`, `pivot/scheduler`, `Monitor.tsx`) | rules, events, forms | evaluate, notify, edit | overlapping sweeps; forms that send every field | status and events agree; edits stay |
| Monitoring (`monitor.service.ts`, `metrics.service.ts`, `lib/mongo.ts`) | pool of clients, snapshot cache, gauges | snapshot, explore, scrape, close | the pool is read before the dial and written after it | no client is forgotten; rates and ages are honest; one bad server does not hide the rest |
| Connection mirror (`connectionSync.js`, `profileBridge.js`) | `Database.connectionId`, managed `Connection` rows | sync, remove, backfill, account deletion | read, create, point: three awaits | mirrors and databases pair up |
| Postgres gateway (`pgGateway.js`) | reader, buffered bytes, upstream | negotiate, look up, dial, pipe | bytes arrive while it looks up and dials | a channel: every byte once, in order |
| Redis users (`redisCreds.js`, `cacheConfig.js`, `index.js`) | ACL users, memo | provision, sweep | Redis restarts under a memo | what a sweep vouches for is there |
| Sessions (`routes/auth.js`, `middleware/auth.js`, `services/cache.js`) | sessions, password, reset links, TTL cache | login, check, revoke, change, reset, delete | invalidation during a load; bcrypt between read and write | revoked sessions are refused; old passwords are out |
| Data browser (`frontend/app/browse`, `dataBrowser.js`) | selection, rows, open panel | pick, edit, delete | `ctid` names a place, not a row; the panel outlives the selection | an edit reaches the row its author saw |
| PivotDB import (`prisma/import/import-pivotdb.ts`) | users, workspaces, copied rows | import, again after a failure | no transaction; sign-ups meanwhile | rows land once, in the right workspace; an import resumes |
| Admin, settings, adapter, plugins, crypto, most pages | none | CRUD, glue | - | - |

Everything of the backend runs in one Node process, so two handlers interleave only where one
awaits. Handlers meet in the meta database (Prisma), in Docker, in files, in Redis/BullMQ and in
a few in-memory structures that a crash loses.

`PROJECT.json` lists every component with its status, every hazard at its line, and for each
modelled definition the lines it translates.

## 2. The modules

Three shapes recur. An actor (a request, a worker, an evaluator, a page) has a program counter
with one step per await: what the code does between two awaits is one action. A row, a file or a
container outlives a crash, a counter or an in-memory table does not, and the crash action of the
module says which is which. Where a property holds only outside some overlap the code leaves to
chance, a history variable (`clean`, `raced`, `late`, `crossed`, `disturbed`, `overlapped`, ...)
records that overlap, and the property names it; nothing in the actions reads it.

BullMQ, Docker, Redis, the drivers and the dump tools are external and modelled from their use:
`add` under an existing id does nothing, `remove` of an active job throws, a rejected processor
delays the job and calls the `failed` listener, the job of a dead process is handed out again.

### Databases

* **`Provisioning`** (`ProvisioningProofs`): one action per await of `POST /create`, `DELETE
  /:id`, `POST /:id/start`, `ensureContainerRunning` and `bootstrap()`. `db`, `container`,
  `running`, `dataDir`, `route` survive a crash; `tearingDown` and the counters do not. `dataDir`
  maps a name to the row whose credentials were written when the image's entrypoint ran on a
  fresh directory. `Fault` makes a Docker or nginx call reject, `Vanish` removes or stops a
  container from outside. One user: derived names are scoped by the user's id.
* **`Admission`** (`OperationsProofs`): the form of the new-database page, the name, count and port each looked up in a
  query of its own, the unique indexes the insert meets, and the pass at boot that moves older
  Mongo rows to the shared port. What follows the insert is one step; Provisioning looks into it.
* **`ConnectionMirror`** (`OperationsProofs`): sync, removal and backfill of the managed connections, the workspace
  profile, the connection routes and the deletion of the account, whose cascade ends at them.
* **`PgGateway`** (`OperationsProofs`) implements **`Channel`**. A packet is two units, its length
  and its body; units arrive in chunks of any size, into negotiation, lookup, dial or pipe.
  `Channel` says what a gateway promises: what one end sends is received from the first unit on,
  each once and in order, as many at a time as it pleases the gateway, until the connection is
  over. The mapping takes the units from the client's startup message on as what was sent and
  `upstream` as what was received.
* **`RedisAcl`** (`OperationsProofs`): `ensureAclProvisioned` with its memo, the cache-config route, the sweep, and
  restarts of Redis.
* **`PivotImport`** (`OperationsProofs`): the import script against accounts and workspaces that come to be meanwhile.

### The user's side

* **`SdkCache`** (`ClientsProofs`): one cached query, its executions and the writes of several SDK
  instances over one Redis. A result is the set of writes it reflects. `Query` and `Statement` say
  what the query depends on and what the regexes of `postgres.js` see of it.
* **`Browser`** (`ClientsProofs`): the page with its edit panel, the document routes, other clients. A Postgres row
  is named by its place, which another row may take; a Mongo document by its `_id`.
* **`Sessions`** (`SessionsProofs`): one account's login, check, revocation, password change, forgotten and reset
  passwords, and deletion, over the TTL cache with shared loads. A password is its version.

### Data that moves

* **`CdcStream`** (`CdcStreamProofs`): the source's change log, the persisted cursor and snapshot state, the queue in
  memory and the destination. Mongo resumes after a token, Postgres from a slot acknowledged on
  receipt, MySQL from the end of a binlog event whose rows may wait for a lookup. An update
  of Mongo carries what the look-up finds by then, and is dropped with its token when the document is
  gone. An attempt may end at any await. The snapshot is one upsert per row.
* **`CdcJob`** (`CdcJobProofs`): the row of one sync, its BullMQ job, the worker and the routes.
  **`SyncPage`** (also `CdcJobProofs`) puts the form and the card of `Sync.tsx` in front of it: with the page open,
  requests are those its buttons offer for the row as it was when last listed; with it closed,
  those of any client.
* **`MigrationRun`** (`TransfersProofs`): row, job, worker, the lanes that share queue and summary, the three writers
  with init, batches, chunk fallback and finalisation, and the run, cancel and delete routes.
* **`ColumnMapping`** (`TransfersProofs`): one field through sample, inference, DDL, mapper, encoding and the
  destination's cast, for the six pairs of different engines. A value is a meaning in a JavaScript
  shape; the properties compare meanings.
* **`MigrateWizard`** (`ClientsProofs`): the form with its automatic destination, previews that answer late and
  are asked for without `dropExisting`, the progress view fed by socket and poll.
* **`DataImport`** (`TransfersProofs`): both pages that start imports and poll, the routes, the job table, the worker
  threads and the loading of each kind of file.
* **`LegacyMigration`**, **`Exports`** (both `OperationsProofs`): one job each, from route to file.
* **`Backups`** (`OperationsProofs`): one backup job in row and BullMQ, its runs and archives,
  retention, restores, the boot pass. Schedules include one that is no cron pattern: the routes take
  it, `scheduleBackupJob` leaves it out. Tools may fail, statements and removals be rejected. **`ProtectPage`** (also there) extends it with the tab of `Protect.tsx`: dialogs keep what the page
  showed when they were opened.

### What watches

All four are proved about in `MonitoringProofs`.

* **`Alerts`**: one rule, its events, evaluations started by the sweep and by snapshots, the routes.
* **`AlertRules`**: the rules panel in several tabs and the routes behind it.
* **`MongoPool`**: the clients shared by the monitor and explore routes, the deletion that closes
  one, and the snapshots with their cache.
* **`MetricsScrape`**: the scrape over all connections while servers fail and connections go.

`MC*` modules instantiate them. Components that share no state (`MCClients`, `MCCdc`,
`MCTransfers`, `MCOperations`) are checked in one run each: the first state picks the *scene*, and
the behaviour moves that component only. This is the union of their state spaces, not the product,
and loses nothing, as no action reads another component's variables. Compositions that do interact
are built into the modules: `SyncPage` over `CdcJob`, `ProtectPage` over `Backups`, `PgGateway`
over `Channel`.

## 3. The runs

| Run | Question | Bounds | Answer |
|---|---|---|---|
| `prov_safety` | Can any interleaving of creates, rollbacks, teardowns, starts, boot, a crash and a fault disturb a database inserted into an untouched slot, or leave a container or route without a row? | 2 rows, 1 name, both engines, 2 requests, 1 failure; symmetry in rows and requests | No |
| `prov_live` | Do requests settle, guards drop, does boot recover? | 1 row, 2 requests, 2 failures | Yes |
| `prov_guard` | Does `tearingDown` protect the data dir of a database created during a teardown? | 2 rows, 1 request | No: the guard carries the engine, the data dir does not |
| `clients` | Is a stale read always due to a named cause? Can an edit reach a row its author did not see? Does the job copy what the preview showed, and is its end shown? Do rule and events agree, do edits of rules stay, is a Mongo client forgotten, are snapshots as fresh as claimed? | cache: 2 reads, 3 writes, 2 instances, 1 failure or eviction; browser: 2 tables, 3 rows, 2 places, 4 clicks, 2 steps of others; wizard: 2 connections, 4 changes, 2 jobs, 1 lost socket or request; alerts: 2 evaluators, 5 minutes, 1 patch, 1 abort; panel: 2 tabs, 1 rule of 2 fields, 3 clicks; pool: 2 users, 2 clients, 1 trouble | Yes, outside the named causes and overlaps |
| `outage` | Does an outage of Redis cost performance and not correctness? | as `clients`, the cache alone | No: the lost bump leaves old entries to later reads |
| `cdc` | Zero gap and convergence; does a stop take effect at the next event, does paused mean stopped, does a start run, whoever asks, page or client? | 3 changes, 2 rows, 1 failure, 3 engines, both bootstraps; 3 requests, 1 failure, names of 2 letters | Yes, for Mongo with a snapshot; yes |
| `cdc_slot` | Does a reconnect lose no event (Postgres)? | 2 changes, 1 failure | No: acknowledged on receipt |
| `transfers` | Does a run reported as succeeded lose a row, a row land twice, a field change its value, an import reported as done miss data? Do runs end and pages come to rest? | 2 namespaces of up to 3 rows in batches of 2, 2 lanes, 1 fault, 2 stalls; samples of 2; 2 imports of 2 batches, 2 missed polls | No, outside the named causes; yes |
| `operations` | Retention, schedules, exports, legacy migrations, mirrors, gateway, Redis users, PivotDB import, admission, metrics scrape: the twelve properties | 3 runs kept down to 1, 2 valid schedules and 1 that is not, 1 request beside the page, 1 restore; 2 parts; 2 databases; 1 database and 2 actors; 4 rounds and 2 queries; 2 tenants; 2 users, 2 profiles, 2 tables; 3 pages, limit 1, 2 ports, 3 forms or restarts; 2 servers, 2 outages, 3 ticks | They hold |
| `resume` | Does an import started again always resume? | as `operations`, the import alone | No: not without a profile's administrator |
| `sessions` | Is a revoked session refused, an old password out, a revocation forgotten in the end? | 2 requests, 2 sessions, 1 new password, 1 fault, TTL of 2 ticks | Yes, but for loads and logins under way |
| `bytes_copy` | Does a byte string arrive through COPY? | samples of 1 | No: it is escaped twice |

The five violation runs are the `findings` of `PROJECT.json`, each with the line it contradicts. Every
property of a passing run has a mutant: a plausible bug in one definition that makes TLC refute it
under the run's own bounds.

*Type invariants.* Each module states one. `TypeOK` of Provisioning, SdkCache and CdcJob and the
typing part of the gateway's invariant are proved; the others hold on the runs' instances but are
not among the runs' properties, which are kept for what could be wrong.

*Why these bounds are enough.* A hazard here needs two actors and the object they meet at, a fault
between two of their steps, and one more step to observe it; each instance has at least that.
One name is where databases collide, two rows an old and a new owner. A stale read needs a read that
stores, a write and a second read; three writes give one per kind of statement. In the stream three
changes are one before the capture and a binlog event of two rows after it, or an update, the delete
that its look-up meets, and one more; an attempt that fails and the one that resumes need one failure,
and for any number of them stand the theorems. Lanes share
their summary from two lanes and two namespaces on; a batch of two rows of three leaves a partial
batch, and two stalls reach BullMQ's giving up. Two imports are what shares a path. Retention needs
one run more than it keeps, and one more that restores. In admission three pages of two owners give a
pair that shares a limit and a pair that shares a port only. Cooldown and duration of an alert are
one and two minutes of five, so both are passed within a behaviour. In the import script a second
run after a failure, with users who share an address or administer a workspace that is not their
home, is every case its lookups tell apart. Constants named `Max*` bound faults, crashes, clicks,
requests and clock ticks; nothing else is bounded.

*Symmetry and initial states.* `prov_safety` permutes model values that play one role; no other run
uses symmetry. `MCClients` starts the browser from one placement of the rows per pattern, up to
renaming rows and places. `MCOperations` and `MCTransfers` fix, up to renaming, what the initial
states of a scene have in common (the first schedule, which of two users shares an address) and
give the components outside the scene one initial state.

Deadlock checking is off everywhere: every modelled system legitimately stops when its bounded
clients have nothing left to ask.

## 4. Fairness

* Provisioning: weak fairness of each request *that has started*, of each
  `ensureContainerRunning` and of bootstrap: an await settles, and nothing else blocks a handler.
  None on client requests, faults or crashes.
* CdcStream: weak fairness of the worker. BullMQ retries an attempt up to 1000 times, far beyond
  the failures of the run.
* CdcJob and SyncPage: weak fairness of the attempt's own steps, the `failed` listener, the backoff
  timer, the stalled-job check and each request that has started. None on events, the end of a
  stream, failures, calls or the page.
* MigrationRun: weak fairness of the worker's steps. DataImport: of each thread and each started
  poll, of answers and their delivery: timers fire and a fetch resolves or rejects. None on
  starting an import, a crash, a lost job table.
* Sessions: weak fairness of a load under way and of time. All other modules have safety only.

## 5. The proofs

All theorems hold for every value of the constants that satisfies the module's named assumption,
none of which bounds a set.

* `ProvisioningProofs`: `TypeCorrect` and `CleanUndisturbed`. The safety property is not inductive:
  nothing in it says why no other handler is heading for the slot. `IInv` adds that program
  counters agree with the rows they are about (`RowsNamed`, `RowStage`), that live rows of one name
  are distinct (`NamesUnique`), that only the row's own create, delete and ensure calls are at work
  on the name of a clean row (`SoleActor`), and what the slot holds at each stage of its create
  (`SlotContents`). One lemma per action.
* Also there: `NothingOrphaned`. On top of `IInv`, `Owed` says of a row that neither a start
  request nor `bootstrap()` was handed who still has to remove its container and its route: its own
  create, when it is not past that part of its rollback, or a delete that is not past that part of
  the teardown, unless the row is still there. The two hand over to each other in
  `CreateActivate`, which finds the row gone, and in `DeleteRow`, which finds it present.
* `ClientsProofs`, of the read cache: `TypeCorrect`, `FreshReads`, `CurrentFresh`. The argument orders a write's bump
  against a read's version fetch: counters only grow while nothing is evicted (`VersionsBounded`),
  so a salt that includes a bump was fetched after the commit, the load came later still, and what
  is stored under that salt contains the write (`StoredFresh`, `SaltRecent`).
* Also there, of the wizard: `JobsAreAsShown`, `EndsAreShown`. Whatever holds a form, a preview on its
  way, the one on the page, the request on its way, holds the one shown or a stirred one
  (`Previewed`); a socket that has spoken and was not lost has said, or has on the wire, how the run
  is (`Heard`).
* Also there, of the data browser: `EditsDoStay`. The page knows rows by their places, so the
  argument is about places: one comes to hold another row only as a reused place (`Shifts`), a row
  that was never moved is as it was in the beginning (`Settled`), so a document read of a place not
  reused since is either still there or nobody is, and shows the first values (`Seen`). A panel opened on
  a row that had been moved has met no document of that row at an unmoved place (`Met`), hence a request
  with no cause named asks for no column but the edited ones (`RequestOK`).
* `CdcJobProofs`: `TypeCorrect`, `StopTakesEffect`, `PausedStops`. `AtMostOneMore` strengthens the
  count: it is zero unless the attempt has not passed a check since the stop, and an attempt at its
  apply step is the one event allowed.
* Also there: `PageStopTakesEffect`, `PagePausedStops`, the same two of the sync with the page
  in front of it. Every step is a step of `CdcJob` or leaves the sync alone, but for `Submit`, which
  brings the row into being; until then it is `queued` (`Fresh`), so the submission stops nothing.
* `CdcStreamProofs`: `ZeroGapHolds`. The argument follows the position of the stream, what was
  received less what is queued and in hand (`Done`). The queue holds consecutive changes, each with
  the row's image at least as new as the change (`Consecutive`); the destination covers the
  position, and the persisted cursor is never ahead of it (`Streamed`); during the copy the rows
  copied so far cover the cursor captured before it (`CopyCovers`). Whatever ends an attempt, the
  next starts from a covered position (`Copied`). The greatest change of a row up to a position is
  shown to exist from the well-foundedness of `<`.
* `SessionsProofs`: `SessionsTypeCorrect`, `RevokedStaysOut`, `PasswordChangeSignsOut`. Sessions are
  numbered in order, so a login never revives one that was dropped; what is dropped or listed for
  dropping is dead in the table; a dropped session is out of the cache, and a load that reads it now
  does not find it live. A change excuses its own session before it revokes the others, which is
  what the second property needs of the order of the statements in `routes/auth.js`.
* `OperationsProofs`, one part per module. `SweepHeals`: what the sweep has found or made since the
  last restart is there. `ExportsAreWhole`: the worker at each step has the parts before it in the
  file. `ConflictsAreRaces`: as long as nobody inserted beside a request, its name and its port are
  as free as when it looked them up, and the name it goes in with is not used by its owner.
  `LimitHolds`: the rows of requests that were not overtaken are at most the limit, because each of
  them counted all the rows then there; the statement is about cardinalities and rests on
  `FiniteSetTheorems`. `MirrorsPaired`: connections are numbered in order; a pointer leads to a
  connection of its row; an actor that holds a connection holds one made for its database; an
  undisturbed database has one actor at most, and each stage of a sync or a removal knows what is
  left of it; a step touches its own database only (`Modest`), so the others stay as they were.
* Also there: `GatewayInvariant` and `GatewayIsAChannel`, a refinement. The initial states of
  the gateway are initial states of `Channel`, and each of its steps is a step of `Channel` or none.
  The step that matters is the one that turns the connection over to the pipe, where what the reader
  had taken, what it still holds and what arrived during the dial are written in one go. `GInv`
  places the reader: while it reads, every packet so far was a negotiation (`Reading`); once it has
  stopped for a route, the last one is the startup message (`Stopped`); so what it has taken ends
  where the channel begins, and what was written upstream is one run of numbers from there
  (`Written`). It holds for any number of negotiation rounds, packets and chunks; TLC checks four
  rounds and two queries.
* Also there, of the backups and the page in front of them: `RetentionSparesNewest`, `ScheduleIsRows`.
  Runs are numbered in order, and a run that is about to succeed has its whole
  archive; what retention set out to delete was not among the newest, and neither a success nor a
  deletion makes it one of them (`NewestShrinks`), so no crash between file and row can cost one. Unless changes of the schedule
  overlapped or failed, one is under way at most, it knows the row as it is and says what BullMQ still
  holds.
* Also there: `DoneHoldsSource`. What of the scope is not to do has been dumped into the directory of
  this very attempt, and what is restored is in the target when the row is closed; a job is never
  handed out again after its row says done.
* Also there: `ImportDoesLand`, `ImportDoesResume`. A profile is placed in the workspace that stands for
  it and placed before rows are copied (`Placed`); of the tables gone through each row landed or was
  refused, or one that it refers to was (`RowsLand`); a pointed account is in the workspace of a user
  of that e-mail, and sign-ups only move accounts that have none (`AccountsPointed`). A workspace that
  keeps an administrator's id was there when the import was started or is that of a profile placed
  since, so what refuses a new one was there before and its administrator is gone (`Resuming`). The
  module assumes that null is no e-mail and no user id.
* `MonitoringProofs`. `AlertsAgree`: an evaluation that opens or closes says at each statement what of
  rule and events it has changed, and nobody else changes them unless evaluations overlapped (`Fires`,
  `Resolves`); that a firing rule has an open event turned out to need no exemption for overlaps, and
  the property no longer has it. `ClientsAreAccounted`, `SnapshotsAreHonest`: a dial that was not
  overlapped is the only one of its connection, finds no client pooled for it, and its row is there
  (`Dials`); whatever was read was read after the request that asked for it (`Honest`).
  `ScrapeSpares`: once a scrape lasts longer than a dial may, what it waits for has accepted and is silent
  (`Troubles`). `EditsAreKept`: a form differs from the row it was opened on only where somebody typed
  (`DraftOK`), and a rule that no form crossed is as somebody chose (`RowsOK`, `ListOK`).
* `TransfersProofs`: `RunTypeCorrect`, `SucceededRunsAreWhole`, `RowsLandOnce`, `DoneImportsLand`. For
  the run, `Stages` ties row, job and lanes together (a lane has a namespace only while a worker
  runs, a run has succeeded only after its job has completed); `OneHand` says a namespace is queued or
  in one lane; `NoLoss` says at each hand-over that what is counted as clean is at the destination;
  `NoRepeat` that a row without a key that is still to be written has not been. For the import, an
  undisturbed import is alone, and its stage says how much of its file is in the target.
* Also there: `ColumnsKeepValues`. Each declared column with each value it holds is followed through
  mapper, encoding and cast to each engine, and each document's value in a column of its own type
  (`DeclaredFine`, `OwnTypeFine`); a column of text takes every document's value, one of JSON takes it
  or refuses it (`TextTakesAll`, `JsonTakesOrRefuses`). `SampledIs` ties the column to the sample, of any
  size: its type is that of every non-null value sampled, or `mixed`. What is left is finite, so the
  invariant only says which column, value and cell belong together (`MappingInv`).

Every safety property that a passing run checks is stated by a theorem. Left to TLC are the seven
liveness properties (`RequestsSettle`, `BootRecovers`, `Converges`, `StartRuns`, `RunEnds`,
`ImportReported`, `RevokedForgotten`), because liveness under fairness and ENABLED are out of the prover's
reach; and that the five refuted statements are violated, for which one behaviour is enough.

## 6. What the models show besides

Findings (`PROJECT.json`), each refuted by a run: the teardown guard and the data dir
(`databases.js:943`), the Postgres slot (`cdc-sync.job.ts:402`), bytes through COPY
(`postgres.writer.ts:287`), the outage of Redis (`cache.js:3`), the import that does not resume
(`import-pivotdb.ts:41`).

Statements of the code that the models, or the lines they translate, contradict, without a run of
their own:

* *"We check that flag between batches ... and throw a CancelledError, which ... marks the run
  `cancelled`"* (`worker.ts:82-86`). The check is behind a counter that was just incremented
  (`worker.ts:152`), and would throw inside a detached promise: a cancel of a running run has no
  effect. `MigrationRun` has it so, and `RunEnds` says no more than that the run ends.
* *"memResident / memVirtual / networkBytesIn/Out → null (skipped)"* (`scheduler/index.ts:144`, also
  113-114, and `Monitor.tsx:758-761`: rules on them *"would silently never fire"*). `adaptSqlSnapshot`
  puts 0, which the evaluator takes as a reading: a rule
  "below 1", made through the API, fires at once. Other readings contradict the panel's labels:
  `Operations/sec` is a mean since the server's start on SQL, and on MySQL adds transactions to the
  questions that contain them; `Network In (bytes/s)` (`Monitor.tsx:772-773`) is a total since the
  start; `Cache Hit (%)` is the fill of the cache on Mongo.
* *"The API refuses to let a user edit or delete them directly"* (`connectionSync.js:17-19`, of managed
  connections; *"the UI blocks editing/deleting them directly"*, `schema.prisma:245-247`). The routes
  (`connections.ts:150-157`) and the service (`connection.service.ts:135`) do not look at `managed`.
  `ConnectionMirror` has these edits and deletes, and `MirrorsPair` leaves out what they unlink.
* *"dropExisting: false"* is what the preview is computed with (`migration-v2.ts:26`: the default of a
  field that `Migrate.tsx:126-131` leaves out), while the job posts the box, ticked at first
  (`Migrate.tsx:73, 144`): the statements the preview lists never include the DROP of the tables that
  the job does drop. `JobIsWhatWasShown` compares the rest of the form.
* *"A restore is already in progress for this backup"* (`backup.ts:228-234`). A crash between the row
  and the queue, a rejected add (`backup.ts:247`) or a rejected status update (`restore.job.ts:37,
  107-117`) leaves a row queued or running that nobody works on, and every later restore of that
  archive is answered so, for good. `Backups` reaches these states; no property states what does not
  hold.

States the models reach that no line of the code promises to exclude, for whoever maintains it:

* A create whose rollback is refused its last statement swallows the error (`databases.js:247`): the
  row stays `provisioning`, is counted against the limit and blocks its name until it is deleted.
  `RequestsSettle` names it. A failing init-script write leaves its directory.
* A backup job may be given any non-empty schedule (`backup.ts:18, 28`; the page asks for five fields,
  `Protect.tsx:63-66`); one that is no pattern is active in its row and never fires
  (`scheduler/index.ts:21-24`), with a warning in the log. `ScheduleMatchesRow` says so of it.
* A delete of a backup job that dies or fails half-way leaves the job with successful runs whose
  archives are gone (`backup.ts:103-112`; `wounded` in `NewestRunsRestorable`). A restore that reads an
  archive while retention removes it fails, and nothing prevents it (`backup.job.ts:127`); a download
  of an export may read the file a second execution rewrites (`export.ts:81`). Neither is covered by
  a property.
* Two users whose ids begin with the same digits share container names, and with them a unique index
  no query looks at (`provisioning.js:22`): the later of two namesakes is told to retry, for ever.
* An empty CSV that is to replace a table leaves the table as it is (`dataImport.js:340`).
* The import inserts the workspace's id as text into a uuid column through raw SQL
  (`import-pivotdb.ts:274`): Postgres may refuse every scoped row, which the script counts and goes
  on; `ImportLands` speaks of the rows that were not refused.
* A database activated between boot's read of the rows and its rewrite of the routes has no route
  until the next boot (`index.js:275`).
* A rollback whose row was deleted and whose name was taken again removes the newer container, and
  leaves a data dir with other credentials (`databases.js:242`). Rows left `provisioning` by a crash
  stay, and count towards the limit.
* When a port range is exhausted the throw is outside every `try` of the handler and ends the
  process (`portManager.js:35`).
* Deleting an account whose database has a mirrored connection fails at the profile's cascade
  (`ON DELETE RESTRICT`) after its containers are gone (`auth.js:447`).
* A pause that removes a waiting or delayed job leaves the row tailing with `pauseRequested` set, and
  the card then offers a disabled Pause only; a stream that ends by itself leaves it tailing without
  a job; a start that meets an attempt at its end queues nothing (`cdc-sync.ts:198, 234`). The form's
  prefill copies the first letter typed and no more (`Sync.tsx:82`).
* Enter in the detail page's URL field starts a second import while one is busy; the first
  interval is forgotten and polls on, and its late answer clears the other's (`page.jsx:103`).
* A migration run whose job was never queued stays queued. A form of the rules panel writes back
  every field of a rule as it was when opened.
* A pooled client whose dial overlapped another's, or the connection's deletion, stays open; a mirror
  pointed elsewhere keeps its client on the old address (`lib/mongo.ts:6`).
* A server that accepts a connection and does not answer holds the whole scrape, so that no gauge of
  any server is collected by it; a gauge that was not refreshed keeps its old value.
* A dry run of `import-pivotdb.ts` counts none of the rows.
* The schedule dialog saves the schedule it was opened with over a newer one; the restore drawer polls
  for ever when retention removes the run it watches (`Protect.tsx:527, 669`).

## 7. Not modelled

The components with status `not_modelled`, and in each `partly` component what its note names:

* formats and I/O: dump tools, parsing of uploads, DDL text, cursors and paging of readers, mail and
  webhook transports, nginx and Prometheus configuration; what they may do to control (fail, take
  time, be cut off) is in the modules that call them;
* routes that only read, and CRUD on one row without a second store (admin, settings, catalog,
  run histories, plans, schema sampling);
* OAuth, registration and rate limits, the gateway's 30 s route cache (bounded staleness that the
  code chose), MongoDB role healing, per-port routing of rows from before the gateways;
* pages whose state is one query's answer: Explore, the rest of Monitor, Migrate's list of jobs,
  Protect's catalog and forms, settings;
* plugins, encryption and the Fastify adapter: glue and library calls.

## 8. Plan

1. Proofs of what 2 to 4 add.
2. Abstract specifications: a database slot as absent/creating/live/gone that Provisioning
   implements on clean slots; a sync as stopped/streaming that CdcJob implements.
3. Composition of ConnectionMirror with Provisioning's create and delete, and of MongoPool with
   ConnectionMirror's repointing.
4. Pure algorithms: the SQL classifier over token classes and keyset paging, each against a
   reference definition.
