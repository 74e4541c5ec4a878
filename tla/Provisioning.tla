---------------------------- MODULE Provisioning ----------------------------
(***************************************************************************)
(* The life of a customer database: the row in the platform's meta         *)
(* database, the Docker container that serves it, the data directory the   *)
(* container is bound to and (for Mongo) the nginx gateway route.          *)
(*                                                                         *)
(* One action per await of the handlers in routes/databases.js (create,    *)
(* delete, start) and of bootstrap() in index.js.  Everything runs in one  *)
(* Node process, so handlers interleave at awaits only; a crash ends them  *)
(* all and loses the in-memory set tearingDown, while rows, containers,    *)
(* data directories and route files survive it.                            *)
(*                                                                         *)
(* One user: every derived name is scoped by the user id.  A create        *)
(* request is identified with the row it inserts (the row id is minted by  *)
(* the insert), and a gateway route with its row (the hostname in its key  *)
(* is random and stored in the row).                                       *)
(***************************************************************************)
EXTENDS Naturals, FiniteSets

CONSTANTS
    Rows,        \* create requests, and the rows they insert
    Names,       \* database names a request may ask for
    Requests,    \* requests about an existing database: DELETE or POST /:id/start
    Boot,        \* the background reconciliation of bootstrap()
    None,        \* no row
    MaxFailures  \* bound on crashes, failing Docker or nginx calls, lost containers

ASSUME ProvisioningAssumption ==
    /\ None \notin Rows
    /\ Boot \notin Requests
    /\ "missing" \notin Rows
    /\ "empty" \notin Rows
    /\ MaxFailures \in Nat

VARIABLES
    param,        \* what each create request asks for: name and engine
    db,           \* status of each row of the databases table
    container,    \* container name -> row it was created for, or None
    running,      \* container names whose container is running
    dataDir,      \* name -> "missing", "empty", or the row whose credentials it holds
    route,        \* rows with a gateway map file
    tearingDown,  \* container names guarded against re-creation
    create,       \* program counter of each create request
    delete,       \* program counter of each request as a DELETE
    deleteRow,    \* the row it deletes
    ensure,       \* program counter of each ensureContainerRunning call
    ensureRow,    \* the row it is about
    boot,         \* program counter of bootstrap()
    bootRows,     \* the rows bootstrap() read, whatever happened to them since
    bootTodo,     \* those still to be reconciled in the background
    crashes,      \* crashes so far
    faults,       \* faults so far
    clean,        \* history: rows inserted when nothing else touched their slot
    underGuard    \* history: rows inserted while their data dir was being torn down

stores == <<param, db, container, running, dataDir, route>>
createVars == <<create, clean, underGuard>>
deleteVars == <<delete, deleteRow, tearingDown>>
ensureVars == <<ensure, ensureRow>>
bootVars == <<boot, bootRows, bootTodo>>
vars == <<stores, createVars, deleteVars, ensureVars, bootVars, crashes, faults>>

Engines == {"nosql", "sql"}
Ensurers == Requests \cup {Boot}
ContainerNames == Engines \X Names

\* deriveNames: the container name carries the engine, the data dir does not.
ContainerOf(r) == <<param[r].type, param[r].name>>
DirOf(r) == param[r].name

Present == {r \in Rows : db[r] # "absent"}
Active == {r \in Rows : db[r] = "active"}

CreatePcs == {"new", "checking", "prepare", "create", "start", "route", "activate",
              "rollbackContainer", "rollbackRoute", "rollbackRow", "done", "failed",
              "stranded"}
DeletePcs == {"new", "found", "respond", "container", "dataDir", "route", "done"}
EnsurePcs == {"new", "inspect", "prepare", "create", "start", "restart", "route", "done"}
BootPcs == {"read", "wipe", "write", "reconcile"}

-----------------------------------------------------------------------------

Init ==
    /\ param \in [Rows -> [name : Names, type : Engines]]
    /\ db = [r \in Rows |-> "absent"]
    /\ container = [c \in ContainerNames |-> None]
    /\ running = {}
    /\ dataDir = [n \in Names |-> "missing"]
    /\ route = {}
    /\ tearingDown = {}
    /\ create = [r \in Rows |-> "new"]
    /\ delete = [d \in Requests |-> "new"]
    /\ deleteRow = [d \in Requests |-> None]
    /\ ensure = [e \in Ensurers |-> "new"]
    /\ ensureRow = [e \in Ensurers |-> None]
    /\ boot = "read"
    /\ bootRows = {}
    /\ bootTodo = {}
    /\ crashes = 0
    /\ faults = 0
    /\ clean = {}
    /\ underGuard = {}

-----------------------------------------------------------------------------
(* Docker and the data directory, as the handlers use them.                 *)

\* A failing external call: bounded, and the step's ordinary effect is skipped.
Fault == /\ crashes + faults < MaxFailures
         /\ faults' = faults + 1

NoFault == UNCHANGED faults

\* ensureDataDir: mkdir -p.
MakeDir(n) ==
    dataDir' = [dataDir EXCEPT ![n] = IF @ = "missing" THEN "empty" ELSE @]

\* container.start(): Docker creates a missing bind source, and the image's
\* entrypoint runs the init script (the one place credentials are created)
\* only on a fresh data dir.
StartIn(c) ==
    /\ running' = running \cup {c}
    /\ dataDir' = [dataDir EXCEPT ![c[2]] =
                      IF @ \in {"missing", "empty"} THEN container[c] ELSE @]

\* stopAndRemoveContainer: by name, whoever created it; absent is no error.
RemoveContainer(c) ==
    /\ container' = [container EXCEPT ![c] = None]
    /\ running' = running \ {c}

\* It may fail before the stop or between the stop and the removal.
RemoveContainerFails(c) ==
    /\ running' \in {running, running \ {c}}
    /\ Fault
    /\ UNCHANGED container

-----------------------------------------------------------------------------
(* POST /create                                                             *)

\* Who may still act on the containers or the data dir of name n: creates past
\* their insert, deletes past the row deletion, ensure calls, and bootstrap
\* through rows it read as active.
Busy(n) ==
    \/ \E r \in Rows : /\ DirOf(r) = n
                       /\ create[r] \notin {"new", "checking", "done", "failed", "stranded"}
    \/ \E d \in Requests : /\ delete[d] \in {"respond", "container", "dataDir", "route"}
                          /\ DirOf(deleteRow[d]) = n
    \/ \E e \in Ensurers : /\ ensure[e] \notin {"new", "done"}
                           /\ DirOf(ensureRow[e]) = n
    \/ \E r \in bootTodo : DirOf(r) = n

\* Nothing left over from an earlier database of that name, nobody at work on it.
Untouched(n) ==
    /\ dataDir[n] = "missing"
    /\ \A g \in Engines : container[<<g, n>>] = None
    /\ ~Busy(n)

\* The first query of the handler: is the name taken?
CreateLookup(r) ==
    /\ create[r] = "new"
    /\ create' = [create EXCEPT ![r] =
                     IF \E q \in Present : DirOf(q) = DirOf(r) THEN "failed" ELSE "checking"]
    /\ UNCHANGED <<stores, clean, underGuard, deleteVars, ensureVars, bootVars, crashes, faults>>

\* The teardown guard, then the insert; the UNIQUE (userId, dbName) constraint
\* turns a lost race into a 409.
CreateInsert(r) ==
    /\ create[r] = "checking"
    /\ IF ContainerOf(r) \in tearingDown \/ \E q \in Present : DirOf(q) = DirOf(r)
       THEN /\ create' = [create EXCEPT ![r] = "failed"]
            /\ UNCHANGED <<db, clean, underGuard>>
       ELSE /\ create' = [create EXCEPT ![r] = "prepare"]
            /\ db' = [db EXCEPT ![r] = "provisioning"]
            /\ clean' = IF Untouched(DirOf(r)) THEN clean \cup {r} ELSE clean
            /\ underGuard' = IF \E c \in tearingDown : c[2] = DirOf(r)
                             THEN underGuard \cup {r} ELSE underGuard
    /\ UNCHANGED <<param, container, running, dataDir, route,
                   deleteVars, ensureVars, bootVars, crashes, faults>>

\* ensureImage, ensureDataDir, the init script: the first may fail before there is a
\* directory, the last after.
CreatePrepare(r) ==
    /\ create[r] = "prepare"
    /\ \/ /\ create' = [create EXCEPT ![r] = "create"]
          /\ MakeDir(DirOf(r))
          /\ NoFault
       \/ /\ create' = [create EXCEPT ![r] = "rollbackContainer"]
          /\ Fault
          /\ UNCHANGED dataDir \/ MakeDir(DirOf(r))
    /\ UNCHANGED <<param, db, container, running, route, clean, underGuard,
                   deleteVars, ensureVars, bootVars, crashes>>

\* docker.createContainer: a name in use is a conflict.
CreateContainer(r) ==
    /\ create[r] = "create"
    /\ \/ /\ container[ContainerOf(r)] = None
          /\ create' = [create EXCEPT ![r] = "start"]
          /\ container' = [container EXCEPT ![ContainerOf(r)] = r]
          /\ NoFault
       \/ /\ \/ container[ContainerOf(r)] # None /\ NoFault
             \/ Fault
          /\ create' = [create EXCEPT ![r] = "rollbackContainer"]
          /\ UNCHANGED container
    /\ UNCHANGED <<param, db, running, dataDir, route, clean, underGuard,
                   deleteVars, ensureVars, bootVars, crashes>>

\* container.start() on the container just created rejects when a teardown removed it
\* (404) and when a start request by name was quicker (304).
CreateStart(r) ==
    /\ create[r] = "start"
    /\ \/ /\ container[ContainerOf(r)] = r /\ ContainerOf(r) \notin running
          /\ create' = [create EXCEPT ![r] =
                           IF param[r].type = "nosql" THEN "route" ELSE "activate"]
          /\ StartIn(ContainerOf(r))
          /\ NoFault
       \/ /\ \/ (container[ContainerOf(r)] # r \/ ContainerOf(r) \in running) /\ NoFault
             \/ Fault
          /\ create' = [create EXCEPT ![r] = "rollbackContainer"]
          /\ UNCHANGED <<running, dataDir>>
    /\ UNCHANGED <<param, db, container, route, clean, underGuard,
                   deleteVars, ensureVars, bootVars, crashes>>

\* addStreamBlock writes the map file; reloadNginx may then fail.
CreateRoute(r) ==
    /\ create[r] = "route"
    /\ route' = route \cup {r}
    /\ \/ create' = [create EXCEPT ![r] = "activate"] /\ NoFault
       \/ create' = [create EXCEPT ![r] = "rollbackContainer"] /\ Fault
    /\ UNCHANGED <<param, db, container, running, dataDir, clean, underGuard,
                   deleteVars, ensureVars, bootVars, crashes>>

\* Mutant: the missing row is not noticed (updateMany instead of update).
CreateActivateMutant(r) ==
    /\ create[r] = "activate"
    /\ create' = [create EXCEPT ![r] = "done"]
    /\ db' = [db EXCEPT ![r] = IF @ = "absent" THEN @ ELSE "active"]
    /\ UNCHANGED <<param, container, running, dataDir, route, clean, underGuard,
                   deleteVars, ensureVars, bootVars, crashes, faults>>

\* The row may have been deleted while it was being provisioned, or the update be
\* refused: it then throws and the request rolls back.
CreateActivate(r) ==
    /\ create[r] = "activate"
    /\ \/ /\ db[r] # "absent"
          /\ create' = [create EXCEPT ![r] = "done"]
          /\ db' = [db EXCEPT ![r] = "active"]
          /\ NoFault
       \/ /\ \/ db[r] = "absent" /\ NoFault
             \/ Fault
          /\ create' = [create EXCEPT ![r] = "rollbackContainer"]
          /\ UNCHANGED db
    /\ UNCHANGED <<param, container, running, dataDir, route, clean, underGuard,
                   deleteVars, ensureVars, bootVars, crashes>>

\* The rollback is by container name, best effort, and leaves the data dir.
RollbackContainer(r) ==
    /\ create[r] = "rollbackContainer"
    /\ create' = [create EXCEPT ![r] =
                     IF param[r].type = "nosql" THEN "rollbackRoute" ELSE "rollbackRow"]
    /\ \/ RemoveContainer(ContainerOf(r)) /\ NoFault
       \/ RemoveContainerFails(ContainerOf(r))
    /\ UNCHANGED <<param, db, dataDir, route, clean, underGuard,
                   deleteVars, ensureVars, bootVars, crashes>>

RollbackRoute(r) ==
    /\ create[r] = "rollbackRoute"
    /\ create' = [create EXCEPT ![r] = "rollbackRow"]
    /\ route' = route \ {r}
    /\ UNCHANGED <<param, db, container, running, dataDir, clean, underGuard,
                   deleteVars, ensureVars, bootVars, crashes, faults>>

\* Mutant: the failed row is left behind in status provisioning.
RollbackRowMutant(r) ==
    /\ create[r] = "rollbackRow"
    /\ create' = [create EXCEPT ![r] = "failed"]
    /\ UNCHANGED <<stores, clean, underGuard, deleteVars, ensureVars, bootVars, crashes, faults>>

\* The delete of the row may be refused as well, and its error is swallowed: the request
\* ends and its row stays in status provisioning.
RollbackRow(r) ==
    /\ create[r] = "rollbackRow"
    /\ \/ /\ create' = [create EXCEPT ![r] = "failed"]
          /\ db' = [db EXCEPT ![r] = "absent"]
          /\ NoFault
       \/ /\ create' = [create EXCEPT ![r] = "stranded"]
          /\ Fault
          /\ UNCHANGED db
    /\ UNCHANGED <<param, container, running, dataDir, route, clean, underGuard,
                   deleteVars, ensureVars, bootVars, crashes>>

Create(r) ==
    \/ CreateLookup(r) \/ CreateInsert(r) \/ CreatePrepare(r) \/ CreateContainer(r)
    \/ CreateStart(r) \/ CreateRoute(r) \/ CreateActivate(r)
    \/ RollbackContainer(r) \/ RollbackRoute(r) \/ RollbackRow(r)

-----------------------------------------------------------------------------
(* DELETE /:id: the row first, the response, then a background teardown.     *)

DeleteLookup(d) ==
    /\ delete[d] = "new" /\ ensure[d] = "new"
    /\ \E r \in Present :
          /\ delete' = [delete EXCEPT ![d] = "found"]
          /\ deleteRow' = [deleteRow EXCEPT ![d] = r]
    /\ UNCHANGED <<stores, tearingDown, createVars, ensureVars, bootVars, crashes, faults>>

\* Mutant: a row that is already gone does not end the request (deleteMany).
DeleteRowMutant(d) ==
    /\ delete[d] = "found"
    /\ delete' = [delete EXCEPT ![d] = "respond"]
    /\ db' = [db EXCEPT ![deleteRow[d]] = "absent"]
    /\ UNCHANGED <<param, container, running, dataDir, route, deleteRow, tearingDown,
                   createVars, ensureVars, bootVars, crashes, faults>>

\* prisma.database.delete throws when another request deleted the row.
DeleteRow(d) ==
    /\ delete[d] = "found"
    /\ IF db[deleteRow[d]] = "absent"
       THEN /\ delete' = [delete EXCEPT ![d] = "done"]
            /\ UNCHANGED db
       ELSE /\ delete' = [delete EXCEPT ![d] = "respond"]
            /\ db' = [db EXCEPT ![deleteRow[d]] = "absent"]
    /\ UNCHANGED <<param, container, running, dataDir, route, deleteRow, tearingDown,
                   createVars, ensureVars, bootVars, crashes, faults>>

\* The response, then the guard, then setImmediate.
DeleteRespond(d) ==
    /\ delete[d] = "respond"
    /\ delete' = [delete EXCEPT ![d] = "container"]
    /\ tearingDown' = tearingDown \cup {ContainerOf(deleteRow[d])}
    /\ UNCHANGED <<stores, deleteRow, createVars, ensureVars, bootVars, crashes, faults>>

\* Errors of a teardown step are logged and the next step runs.
TeardownContainer(d) ==
    /\ delete[d] = "container"
    /\ delete' = [delete EXCEPT ![d] = "dataDir"]
    /\ \/ RemoveContainer(ContainerOf(deleteRow[d])) /\ NoFault
       \/ RemoveContainerFails(ContainerOf(deleteRow[d]))
    /\ UNCHANGED <<param, db, dataDir, route, deleteRow, tearingDown,
                   createVars, ensureVars, bootVars, crashes>>

TeardownDataDir(d) ==
    /\ delete[d] = "dataDir"
    /\ delete' = [delete EXCEPT ![d] = "route"]
    /\ \/ dataDir' = [dataDir EXCEPT ![DirOf(deleteRow[d])] = "missing"] /\ NoFault
       \/ UNCHANGED dataDir /\ Fault
    /\ UNCHANGED <<param, db, container, running, route, deleteRow, tearingDown,
                   createVars, ensureVars, bootVars, crashes>>

\* removeStreamBlock for a Mongo row; finally, the guard is dropped.
TeardownRoute(d) ==
    /\ delete[d] = "route"
    /\ delete' = [delete EXCEPT ![d] = "done"]
    /\ route' = route \ {deleteRow[d]}
    /\ tearingDown' = tearingDown \ {ContainerOf(deleteRow[d])}
    /\ UNCHANGED <<param, db, container, running, dataDir, deleteRow,
                   createVars, ensureVars, bootVars, crashes, faults>>

Delete(d) ==
    \/ DeleteLookup(d) \/ DeleteRow(d) \/ DeleteRespond(d)
    \/ TeardownContainer(d) \/ TeardownDataDir(d) \/ TeardownRoute(d)

-----------------------------------------------------------------------------
(* ensureContainerRunning, called by POST /:id/start on a row it just read   *)
(* and by bootstrap() on the rows it read before the background pass.        *)

StartLookup(s) ==
    /\ delete[s] = "new" /\ ensure[s] = "new"
    /\ \E r \in Active :
          /\ ensure' = [ensure EXCEPT ![s] = "inspect"]
          /\ ensureRow' = [ensureRow EXCEPT ![s] = r]
    /\ UNCHANGED <<stores, createVars, deleteVars, bootVars, crashes, faults>>

\* Where an ensure call goes once the container runs: only the start route
\* re-adds the gateway route, and only for Mongo.
AfterRunning(e) ==
    IF e # Boot /\ param[ensureRow[e]].type = "nosql" THEN "route" ELSE "done"

\* Mutant: State.Running is not looked at.
EnsureInspectMutant(e) ==
    /\ ensure[e] = "inspect"
    /\ LET c == ContainerOf(ensureRow[e]) IN
         ensure' = [ensure EXCEPT ![e] =
                       IF container[c] = None THEN "prepare" ELSE AfterRunning(e)]
    /\ UNCHANGED <<stores, createVars, deleteVars, ensureRow, bootVars, crashes, faults>>

\* inspectContainer is by name: absent, stopped or running.
EnsureInspect(e) ==
    /\ ensure[e] = "inspect"
    /\ LET c == ContainerOf(ensureRow[e]) IN
         ensure' = [ensure EXCEPT ![e] =
                       IF container[c] = None THEN "prepare"
                       ELSE IF c \in running THEN AfterRunning(e) ELSE "restart"]
    /\ UNCHANGED <<stores, createVars, deleteVars, ensureRow, bootVars, crashes, faults>>

\* A stopped container is started by name; removed meanwhile is an error.
EnsureRestart(e) ==
    /\ ensure[e] = "restart"
    /\ LET c == ContainerOf(ensureRow[e]) IN
         IF container[c] = None
         THEN /\ ensure' = [ensure EXCEPT ![e] = "done"]
              /\ UNCHANGED <<running, dataDir>>
         ELSE /\ ensure' = [ensure EXCEPT ![e] = AfterRunning(e)]
              /\ StartIn(c)
    /\ UNCHANGED <<param, db, container, route, createVars, deleteVars, ensureRow,
                   bootVars, crashes, faults>>

\* An absent container is recreated as at create time, but nothing is rolled
\* back when a step fails.
EnsurePrepare(e) ==
    /\ ensure[e] = "prepare"
    /\ \/ ensure' = [ensure EXCEPT ![e] = "create"] /\ NoFault
       \/ ensure' = [ensure EXCEPT ![e] = "done"] /\ Fault
    /\ MakeDir(DirOf(ensureRow[e]))
    /\ UNCHANGED <<param, db, container, running, route, createVars, deleteVars, ensureRow,
                   bootVars, crashes>>

EnsureCreate(e) ==
    /\ ensure[e] = "create"
    /\ LET c == ContainerOf(ensureRow[e]) IN
         IF container[c] = None
         THEN /\ ensure' = [ensure EXCEPT ![e] = "start"]
              /\ container' = [container EXCEPT ![c] = ensureRow[e]]
         ELSE /\ ensure' = [ensure EXCEPT ![e] = "done"]
              /\ UNCHANGED container
    /\ UNCHANGED <<param, db, running, dataDir, route, createVars, deleteVars, ensureRow,
                   bootVars, crashes, faults>>

EnsureStart(e) ==
    /\ ensure[e] = "start"
    /\ LET c == ContainerOf(ensureRow[e]) IN
         IF container[c] = ensureRow[e] /\ c \notin running
         THEN /\ ensure' = [ensure EXCEPT ![e] = AfterRunning(e)]
              /\ StartIn(c)
         ELSE /\ ensure' = [ensure EXCEPT ![e] = "done"]
              /\ UNCHANGED <<running, dataDir>>
    /\ UNCHANGED <<param, db, container, route, createVars, deleteVars, ensureRow,
                   bootVars, crashes, faults>>

\* A failing Docker call ends the ensure call with an error; what the earlier
\* calls did stays.
EnsureFail(e) ==
    /\ ensure[e] \in {"inspect", "restart", "prepare", "create", "start"}
    /\ ensure' = [ensure EXCEPT ![e] = "done"]
    /\ Fault
    /\ UNCHANGED <<stores, createVars, deleteVars, ensureRow, bootVars, crashes>>

StartRoute(s) ==
    /\ ensure[s] = "route"
    /\ ensure' = [ensure EXCEPT ![s] = "done"]
    /\ route' = route \cup {ensureRow[s]}
    /\ UNCHANGED <<param, db, container, running, dataDir, createVars, deleteVars, ensureRow,
                   bootVars, crashes, faults>>

Ensure(e) ==
    \/ EnsureInspect(e) \/ EnsureRestart(e) \/ EnsurePrepare(e)
    \/ EnsureCreate(e) \/ EnsureStart(e) \/ EnsureFail(e)

-----------------------------------------------------------------------------
(* bootstrap(): runs after the server listens, so beside the requests above. *)

BootRead ==
    /\ boot = "read"
    /\ boot' = "wipe"
    /\ bootRows' = Present
    /\ bootTodo' = Active
    /\ UNCHANGED <<stores, createVars, deleteVars, ensureVars, crashes, faults>>

\* syncFromDatabaseRows removes every route file ...
BootWipe ==
    /\ boot = "wipe"
    /\ boot' = "write"
    /\ route' = {}
    /\ UNCHANGED <<param, db, container, running, dataDir, createVars, deleteVars, ensureVars,
                   bootRows, bootTodo, crashes, faults>>

\* ... and rewrites those of the rows it was given.
BootWrite ==
    /\ boot = "write"
    /\ boot' = "reconcile"
    /\ route' = route \cup {r \in bootRows : param[r].type = "nosql"}
    /\ UNCHANGED <<param, db, container, running, dataDir, createVars, deleteVars, ensureVars,
                   bootRows, bootTodo, crashes, faults>>

BootReconcile ==
    /\ boot = "reconcile"
    /\ ensure[Boot] \in {"new", "done"}
    /\ \E r \in bootTodo :
          /\ bootTodo' = bootTodo \ {r}
          /\ ensure' = [ensure EXCEPT ![Boot] = "inspect"]
          /\ ensureRow' = [ensureRow EXCEPT ![Boot] = r]
    /\ UNCHANGED <<stores, createVars, deleteVars, boot, bootRows, crashes, faults>>

Bootstrap == BootRead \/ BootWipe \/ BootWrite \/ BootReconcile

-----------------------------------------------------------------------------
(* Failures.                                                                 *)

\* The process dies and restarts: every handler is lost, tearingDown is empty,
\* a request not yet started is served by the new process.
Crash ==
    /\ crashes + faults < MaxFailures
    /\ crashes' = crashes + 1
    /\ create' = [r \in Rows |-> IF create[r] \in {"new", "done", "stranded"} THEN create[r]
                                 ELSE "failed"]
    /\ delete' = [d \in Requests |-> IF delete[d] = "new" THEN "new" ELSE "done"]
    /\ ensure' = [e \in Ensurers |-> IF ensure[e] = "new" THEN "new" ELSE "done"]
    /\ tearingDown' = {}
    /\ boot' = "read"
    /\ bootRows' = {}
    /\ bootTodo' = {}
    /\ UNCHANGED <<stores, clean, underGuard, deleteRow, ensureRow, faults>>

\* A host reboot or a manual docker rm/stop: the container is gone or stopped.
Vanish(c) ==
    /\ container[c] # None
    /\ Fault
    /\ \/ RemoveContainer(c)
       \/ running' = running \ {c} /\ UNCHANGED container
    /\ UNCHANGED <<param, db, dataDir, route, createVars, deleteVars, ensureVars, bootVars,
                   crashes>>

Next ==
    \/ \E r \in Rows : Create(r)
    \/ \E d \in Requests : Delete(d)
    \/ \E s \in Requests : StartLookup(s) \/ StartRoute(s)
    \/ \E e \in Ensurers : Ensure(e)
    \/ Bootstrap
    \/ Crash
    \/ \E c \in ContainerNames : Vanish(c)

\* Each await settles: a request that has started runs to its end, and so does
\* bootstrap.  Nothing obliges a client to send a request (CreateLookup,
\* DeleteLookup, StartLookup) nor the environment to fail.
Fairness ==
    /\ \A r \in Rows : WF_vars(create[r] # "new" /\ Create(r))
    /\ \A d \in Requests : WF_vars(delete[d] # "new" /\ Delete(d))
    /\ \A e \in Ensurers : WF_vars(Ensure(e))
    /\ \A s \in Requests : WF_vars(StartRoute(s))
    /\ WF_vars(Bootstrap)

Spec == Init /\ [][Next]_vars

FairSpec == Spec /\ Fairness

-----------------------------------------------------------------------------
(* Properties.                                                               *)

\* Every variable stays in its domain (the shape of the rows, containers, data
\* directories and program counters above).
TypeOK ==
    /\ param \in [Rows -> [name : Names, type : Engines]]
    /\ db \in [Rows -> {"absent", "provisioning", "active"}]
    /\ container \in [ContainerNames -> Rows \cup {None}]
    /\ running \subseteq {c \in ContainerNames : container[c] # None}
    /\ dataDir \in [Names -> Rows \cup {"missing", "empty"}]
    /\ route \subseteq Rows
    /\ tearingDown \subseteq ContainerNames
    /\ create \in [Rows -> CreatePcs]
    /\ delete \in [Requests -> DeletePcs]
    /\ deleteRow \in [Requests -> Rows \cup {None}]
    /\ ensure \in [Ensurers -> EnsurePcs]
    /\ ensureRow \in [Ensurers -> Rows \cup {None}]
    /\ boot \in BootPcs
    /\ bootRows \subseteq Rows
    /\ bootTodo \subseteq bootRows
    /\ crashes \in Nat
    /\ faults \in Nat
    /\ clean \subseteq Rows
    /\ underGuard \subseteq Rows

\* A database whose row was inserted into an untouched slot (no data dir, no
\* container of either engine, nobody at work on the name) serves its own
\* credentials for as long as its row is active: no other request, rollback,
\* teardown, restart or crash recovery reaches its data dir or its container,
\* and without failures the container is up.
CleanDatabaseUndisturbed ==
    \A r \in clean \cap Active :
        /\ dataDir[DirOf(r)] = r
        /\ \A c \in ContainerNames :
              c[2] = DirOf(r) => container[c] \in (IF c = ContainerOf(r) THEN {r, None} ELSE {None})
        /\ faults = 0 => ContainerOf(r) \in running

\* When every request about a row has ended, the row is gone, and it was never
\* handed to the start route or to bootstrap, no container and no route of it
\* is left: create's rollback and the background teardown cover each other,
\* whichever of them sees the other's half.
NoOrphans ==
    \A r \in Rows :
        /\ create[r] \in {"done", "failed"}
        /\ db[r] = "absent"
        /\ \A d \in Requests : deleteRow[d] = r => delete[d] = "done"
        /\ \A s \in Requests : ensureRow[s] # r
        /\ r \notin bootRows
        /\ crashes = 0 /\ faults = 0
        => /\ \A c \in ContainerNames : container[c] # r
           /\ r \notin route

\* The comment on tearingDown: creation is blocked while a teardown of the same
\* data dir runs, so that the teardown cannot "wipe its fresh data dir".  A
\* live database inserted while the guard was up keeps the data dir that holds
\* its credentials.
TeardownSparesNewDatabase ==
    [][\A r \in underGuard \cap Present :
          dataDir[DirOf(r)] = r => dataDir'[DirOf(r)] = r]_vars

\* Nothing is left half way for good: whatever else fails, a row leaves status
\* provisioning (the request activates it, rolls it back, or finds it deleted) unless the
\* process dies or the database refuses the very statement of the rollback that deletes
\* the row; and every guard raised by a DELETE is dropped, whichever step of the teardown
\* fails.
RequestsSettle ==
    /\ \A r \in Rows :
         (db[r] = "provisioning")
             ~> (db[r] # "provisioning" \/ create[r] = "stranded" \/ crashes > 0)
    /\ \A c \in ContainerNames : (c \in tearingDown) ~> (c \notin tearingDown)

\* Once nothing fails any more, every active database that bootstrap() still
\* has to reconcile gets a running container, or is deleted first.
BootRecovers ==
    \A r \in Rows :
        (r \in bootTodo /\ db[r] = "active" /\ crashes + faults = MaxFailures)
            ~> (ContainerOf(r) \in running \/ db[r] = "absent")

=============================================================================
