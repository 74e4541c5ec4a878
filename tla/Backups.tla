------------------------------ MODULE Backups ------------------------------
(***************************************************************************)
(* One backup job: its row, its repeatable in BullMQ, the runs and archives *)
(* of backup.job.ts, the restores of restore.job.ts, the routes of          *)
(* routes/backup.ts, and the scheduler's start-up pass.                     *)
(*                                                                         *)
(* Both workers run one job at a time.  A schedule is a value; an archive   *)
(* is missing, partial or whole.  The dump, pack and restore tools are      *)
(* external: they succeed or fail.                                          *)
(***************************************************************************)
EXTENDS Integers, FiniteSets

CONSTANTS
    Schedules,         \* patterns a job may be given, any non-empty string
    CronValid,         \* those cron.validate accepts
    Keep,              \* successful runs retention keeps (3 in the code)
    MaxRuns,           \* bound on runs, which are numbered in order of startedAt
    Requests,          \* PATCH and DELETE requests, each made once
    RestoreRequests,   \* POST .../restore requests, each made once
    MaxBreaks          \* bound on failing tools, rejected statements and crashes

ASSUME BackupsAssumption ==
    /\ Schedules # {} /\ CronValid \subseteq Schedules
    /\ Keep \in Nat \ {0} /\ MaxRuns \in Nat /\ MaxBreaks \in Nat

VARIABLES
    backupJob,    \* row: [present, active, schedule]
    repeatables,  \* schedules BullMQ fires the job at
    waiting,      \* number of 'run' jobs in the queue
    runs,         \* BackupRun rows: [status, file]
    archive,      \* what is on disk of each run
    backup,       \* the backup worker: [pc, run, doomed]
    admin,        \* per request: [pc, schedule, active, files]
    booter,       \* startScheduler: the same
    asks,         \* per restore request: [pc, run]
    restores,     \* RestoreRun rows: [status, run]
    restoreQueue, \* restore jobs in BullMQ
    restorer,     \* the restore worker: [pc, ask]
    breaks,
    raced,        \* history: schedule changes overlapped, failed or died since the last clean boot
    wounded       \* history: a delete of the job ended or died half-way

backupVars == <<backupJob, repeatables, waiting, runs, archive, backup, admin, booter, asks,
                restores, restoreQueue, restorer, breaks, raced, wounded>>

Runs == 1..MaxRuns
NoAdmin == [pc |-> "unused", schedule |-> CHOOSE s \in Schedules : TRUE, active |-> FALSE,
            files |-> {}]
NoBackup == [pc |-> "idle", run |-> 0, doomed |-> {}]
NoRun == [status |-> "none", file |-> FALSE]

\* scheduleBackupJob leaves out a pattern that is not one.
Fires(schedule) == {schedule} \cap CronValid

BackupsInit ==
    /\ \E s \in Schedules :
         /\ backupJob = [present |-> TRUE, active |-> TRUE, schedule |-> s]
         /\ repeatables = Fires(s)
    /\ waiting = 0
    /\ runs = [r \in Runs |-> NoRun]
    /\ archive = [r \in Runs |-> "none"]
    /\ backup = NoBackup
    /\ admin = [q \in Requests |-> NoAdmin]
    /\ booter = [NoAdmin EXCEPT !.pc = "done"]
    /\ asks = [q \in RestoreRequests |-> [pc |-> "unused", run |-> 0]]
    /\ restores = [q \in RestoreRequests |-> [status |-> "none", run |-> 0]]
    /\ restoreQueue = {}
    /\ restorer = [pc |-> "idle", ask |-> {}]
    /\ breaks = 0 /\ raced = FALSE /\ wounded = FALSE

Break == /\ breaks < MaxBreaks
         /\ breaks' = breaks + 1

scheduleVars == <<backupJob, repeatables, admin, booter, raced, wounded>>
runVars == <<waiting, runs, archive, backup>>
restoreVars == <<asks, restores, restoreQueue, restorer>>

-----------------------------------------------------------------------------
(* The schedule: PATCH, DELETE and start-up.                                 *)

AdminsInFlight == {q \in Requests : admin[q].pc \notin {"unused", "done"}}
BooterInFlight == booter.pc # "done"
Races == AdminsInFlight # {} \/ BooterInFlight

\* PATCH /jobs/:id: the row is updated, whatever the pattern, then reloadBackupJob works on
\* the updated copy.
PatchTo(q, s, active) ==
    /\ admin[q].pc = "unused" /\ backupJob.present
    /\ backupJob' = [backupJob EXCEPT !.active = active, !.schedule = s]
    /\ admin' = [admin EXCEPT ![q] = [pc |-> "unschedule", schedule |-> s,
                                      active |-> active, files |-> {}]]
    /\ raced' = (raced \/ Races)
    /\ UNCHANGED <<repeatables, booter, wounded, runVars, restoreVars, breaks>>

PatchJob(q) == \E s \in Schedules, active \in BOOLEAN : PatchTo(q, s, active)

\* unscheduleBackupJob removes every repeatable of the job.
Unschedule(q) ==
    /\ admin[q].pc \in {"unschedule", "unscheduleDelete"}
    /\ repeatables' = {}
    /\ admin' = [admin EXCEPT ![q].pc = IF @ = "unscheduleDelete" THEN "row"
                                        ELSE IF admin[q].active THEN "add" ELSE "done"]
    /\ UNCHANGED <<backupJob, booter, raced, wounded, runVars, restoreVars, breaks>>

AddRepeatable(q) ==
    /\ admin[q].pc = "add"
    /\ repeatables' = repeatables \cup Fires(admin[q].schedule)
    /\ admin' = [admin EXCEPT ![q].pc = "done"]
    /\ UNCHANGED <<backupJob, booter, raced, wounded, runVars, restoreVars, breaks>>

\* DELETE /jobs/:id lists the runs with a file, removes the files, then the rest.
DeleteList(q) ==
    /\ admin[q].pc = "unused" /\ backupJob.present
    /\ admin' = [admin EXCEPT ![q].pc = "files",
                              ![q].files = {r \in Runs : runs[r].file}]
    /\ raced' = (raced \/ Races)
    /\ UNCHANGED <<backupJob, repeatables, booter, wounded, runVars, restoreVars, breaks>>

Remove(files) == archive' = [r \in Runs |-> IF r \in files THEN "none" ELSE archive[r]]

DeleteFiles(q) ==
    /\ admin[q].pc = "files"
    /\ Remove(admin[q].files)
    /\ admin' = [admin EXCEPT ![q].pc = "unscheduleDelete"]
    /\ UNCHANGED <<backupJob, repeatables, booter, raced, wounded, waiting, runs, backup,
                   restoreVars, breaks>>

Deleting == {"files", "unscheduleDelete", "row"}

\* A statement, or the removal of a file, that fails ends the request where it is.
ChangeFails(q) ==
    /\ admin[q].pc \in Deleting \cup {"unschedule", "add"}
    /\ Break
    /\ \E files \in SUBSET admin[q].files :
          IF admin[q].pc = "files" THEN Remove(files) ELSE UNCHANGED archive
    /\ admin' = [admin EXCEPT ![q] = [NoAdmin EXCEPT !.pc = "done"]]
    /\ raced' = TRUE
    /\ wounded' = (wounded \/ admin[q].pc \in Deleting)
    /\ UNCHANGED <<backupJob, repeatables, booter, waiting, runs, backup, restoreVars>>

Gone(row) == [row EXCEPT !.status = IF @ = "none" THEN "none" ELSE "deleted"]

\* The delete of the row cascades to the runs and their restores.
DeleteJobRow(q) ==
    /\ admin[q].pc = "row"
    /\ backupJob' = [backupJob EXCEPT !.present = FALSE]
    /\ runs' = [r \in Runs |-> [Gone(runs[r]) EXCEPT !.file = FALSE]]
    /\ restores' = [a \in RestoreRequests |-> Gone(restores[a])]
    /\ admin' = [admin EXCEPT ![q].pc = "done"]
    /\ UNCHANGED <<repeatables, booter, raced, wounded, waiting, archive, backup,
                   asks, restoreQueue, restorer, breaks>>

BootListMutant ==
    /\ booter.pc = "list"
    /\ booter' = [pc |-> "prune", schedule |-> backupJob.schedule,
                  active |-> backupJob.present, files |-> {}]
    /\ raced' = (AdminsInFlight # {})
    /\ UNCHANGED <<backupJob, repeatables, admin, wounded, runVars, restoreVars, breaks>>

\* startScheduler reads the active rows, prunes the repeatables of the others, and
\* schedules the ones it read.  The routes already serve requests.
BootList ==
    /\ booter.pc = "list"
    /\ booter' = [pc |-> "prune", schedule |-> backupJob.schedule,
                  active |-> backupJob.present /\ backupJob.active, files |-> {}]
    /\ raced' = (AdminsInFlight # {})
    /\ UNCHANGED <<backupJob, repeatables, admin, wounded, runVars, restoreVars, breaks>>

BootPrune ==
    /\ booter.pc = "prune"
    /\ repeatables' = {}
    /\ booter' = [booter EXCEPT !.pc = IF booter.active THEN "add" ELSE "done"]
    /\ UNCHANGED <<backupJob, admin, raced, wounded, runVars, restoreVars, breaks>>

BootAdd ==
    /\ booter.pc = "add"
    /\ repeatables' = repeatables \cup Fires(booter.schedule)
    /\ booter' = [booter EXCEPT !.pc = "done"]
    /\ UNCHANGED <<backupJob, admin, raced, wounded, runVars, restoreVars, breaks>>

BootFails ==
    /\ BooterInFlight /\ Break
    /\ booter' = [NoAdmin EXCEPT !.pc = "done"]
    /\ raced' = TRUE
    /\ UNCHANGED <<backupJob, repeatables, admin, wounded, runVars, restoreVars>>

-----------------------------------------------------------------------------
(* The backup worker.                                                        *)

started == Cardinality({r \in Runs : runs[r].status # "none"})

\* A repeatable fires, or POST /jobs/:id/run enqueues a run of its own.
Trigger ==
    /\ repeatables # {} \/ backupJob.present
    /\ waiting = 0 /\ started < MaxRuns
    /\ waiting' = 1
    /\ UNCHANGED <<scheduleVars, runs, archive, backup, restoreVars, breaks>>

\* A job whose row is gone is stale and ignored.
BackupFind ==
    /\ backup.pc = "idle" /\ waiting > 0
    /\ waiting' = waiting - 1
    /\ backup' = IF backupJob.present THEN [NoBackup EXCEPT !.pc = "create"] ELSE NoBackup
    /\ UNCHANGED <<scheduleVars, runs, archive, restoreVars, breaks>>

\* The insert fails when the row was deleted meanwhile.
BackupCreate ==
    /\ backup.pc = "create"
    /\ IF backupJob.present /\ started < MaxRuns
         THEN /\ runs' = [runs EXCEPT ![started + 1] = [status |-> "running", file |-> FALSE]]
              /\ backup' = [backup EXCEPT !.pc = "dump", !.run = started + 1]
         ELSE /\ backup' = NoBackup
              /\ UNCHANGED runs
    /\ UNCHANGED <<scheduleVars, waiting, archive, restoreVars, breaks>>

\* The dump tool ends and the archive file is opened for writing.
BackupDump ==
    /\ backup.pc = "dump"
    /\ \/ /\ archive' = [archive EXCEPT ![backup.run] = "partial"]
          /\ backup' = [backup EXCEPT !.pc = "pack"]
          /\ UNCHANGED breaks
       \/ /\ Break
          /\ backup' = [backup EXCEPT !.pc = "fail"]
          /\ UNCHANGED archive
    /\ UNCHANGED <<scheduleVars, waiting, runs, restoreVars>>

\* A failing pipeline leaves the partial archive, which no row names.
BackupPack ==
    /\ backup.pc = "pack"
    /\ \/ /\ archive' = [archive EXCEPT ![backup.run] = "whole"]
          /\ backup' = [backup EXCEPT !.pc = "success"]
          /\ UNCHANGED breaks
       \/ /\ Break
          /\ backup' = [backup EXCEPT !.pc = "fail"]
          /\ UNCHANGED archive
    /\ UNCHANGED <<scheduleVars, waiting, runs, restoreVars>>

Present(r) == runs[r].status \notin {"none", "deleted"}

\* A statement that throws here, or after the run was recorded, fails the run.
Rejected ==
    /\ Break
    /\ backup' = [backup EXCEPT !.pc = "fail"]
    /\ UNCHANGED runs

BackupSuccess ==
    /\ backup.pc = "success"
    /\ \/ /\ Present(backup.run)
          /\ runs' = [runs EXCEPT ![backup.run] = [status |-> "success", file |-> TRUE]]
          /\ backup' = [backup EXCEPT !.pc = "retain"]
          /\ UNCHANGED breaks
       \/ /\ ~Present(backup.run)
          /\ backup' = NoBackup
          /\ UNCHANGED <<runs, breaks>>
       \/ Rejected
    /\ UNCHANGED <<scheduleVars, waiting, archive, restoreVars>>

\* This update may be rejected as well, and leaves the row as it is.
BackupFail ==
    /\ backup.pc = "fail"
    /\ \/ /\ runs' = [runs EXCEPT ![backup.run].status = IF Present(backup.run) THEN "failed" ELSE @]
          /\ UNCHANGED breaks
       \/ Break /\ UNCHANGED runs
    /\ backup' = NoBackup
    /\ UNCHANGED <<scheduleVars, waiting, archive, restoreVars>>

Successes == {r \in Runs : runs[r].status = "success"}
Newest(S) == {r \in S : Cardinality({n \in S : n > r}) < Keep}

ExpendableMutant(S) == {r \in S : Cardinality({n \in S : n < r}) >= Keep}

\* What retention takes of the successful runs.
Expendable(S) == S \ Newest(S)

\* Retention reads the successful runs, newest first, and takes what follows the first Keep.
Retain ==
    /\ backup.pc = "retain"
    /\ \/ /\ backup' = [backup EXCEPT !.pc = "file", !.doomed = Expendable(Successes)]
          /\ UNCHANGED <<runs, breaks>>
       \/ Rejected
    /\ UNCHANGED <<scheduleVars, waiting, archive, restoreVars>>

RetainFile ==
    /\ backup.pc = "file"
    /\ IF backup.doomed = {}
         THEN /\ backup' = NoBackup
              /\ UNCHANGED archive
         ELSE \E r \in backup.doomed :
                /\ archive' = [archive EXCEPT ![r] = "none"]
                /\ backup' = [backup EXCEPT !.pc = "delrow", !.run = r]
    /\ UNCHANGED <<scheduleVars, waiting, runs, restoreVars, breaks>>

\* The delete of a run cascades to its restores; that it failed goes unnoticed.
RetainRow ==
    /\ backup.pc = "delrow"
    /\ \/ /\ runs' = [runs EXCEPT ![backup.run] = [Gone(@) EXCEPT !.file = FALSE]]
          /\ restores' = [a \in RestoreRequests |->
                            IF restores[a].run = backup.run THEN Gone(restores[a]) ELSE restores[a]]
          /\ UNCHANGED breaks
       \/ Break /\ UNCHANGED <<runs, restores>>
    /\ backup' = [backup EXCEPT !.pc = "file", !.doomed = @ \ {backup.run}]
    /\ UNCHANGED <<scheduleVars, waiting, archive, asks, restoreQueue, restorer>>

-----------------------------------------------------------------------------
(* Restores.                                                                 *)

\* POST /runs/:runId/restore checks the run, its file and that none is in progress.
AskRestore(q, r) ==
    /\ asks[q].pc = "unused"
    /\ r \in Successes /\ archive[r] # "none"
    /\ ~\E a \in RestoreRequests : restores[a].run = r
                                   /\ restores[a].status \in {"queued", "running"}
    /\ asks' = [asks EXCEPT ![q] = [pc |-> "create", run |-> r]]
    /\ UNCHANGED <<scheduleVars, runVars, restores, restoreQueue, restorer, breaks>>

CreateRestore(q) ==
    /\ asks[q].pc = "create"
    /\ IF Present(asks[q].run)
         THEN /\ restores' = [restores EXCEPT ![q] = [status |-> "queued", run |-> asks[q].run]]
              /\ asks' = [asks EXCEPT ![q].pc = "add"]
         ELSE /\ asks' = [asks EXCEPT ![q].pc = "done"]
              /\ UNCHANGED restores
    /\ UNCHANGED <<scheduleVars, runVars, restoreQueue, restorer, breaks>>

\* The add may be rejected, which leaves the row queued.
EnqueueRestore(q) ==
    /\ asks[q].pc = "add"
    /\ \/ restoreQueue' = restoreQueue \cup {q} /\ UNCHANGED breaks
       \/ Break /\ UNCHANGED restoreQueue
    /\ asks' = [asks EXCEPT ![q].pc = "done"]
    /\ UNCHANGED <<scheduleVars, runVars, restores, restorer>>

Settle(q, status) ==
    restores' = [restores EXCEPT ![q].status = IF @ = "deleted" THEN @ ELSE status]

\* concurrency 1.  The first update may be rejected, which ends the job and leaves the row.
PickRestore ==
    /\ restorer.pc = "idle"
    /\ \E q \in restoreQueue :
         /\ restoreQueue' = restoreQueue \ {q}
         /\ \/ /\ restores[q].status = "deleted"
               /\ UNCHANGED <<restores, restorer, breaks>>
            \/ /\ restores[q].status # "deleted"
               /\ Settle(q, "running")
               /\ restorer' = [pc |-> "read", ask |-> {q}]
               /\ UNCHANGED breaks
            \/ Break /\ UNCHANGED <<restores, restorer>>
    /\ UNCHANGED <<scheduleVars, runVars, asks>>

\* A missing or damaged archive, a failing tool or a rejected update fails the restore; when
\* that cannot be recorded the row stays as it is.
EndRestore ==
    /\ restorer.pc = "read"
    /\ \E q \in restorer.ask :
         \/ /\ archive[restores[q].run] = "whole"
            /\ Settle(q, "success")
            /\ UNCHANGED breaks
         \/ /\ archive[restores[q].run] # "whole"
            /\ Settle(q, "failed")
            /\ UNCHANGED breaks
         \/ Break /\ (Settle(q, "failed") \/ UNCHANGED restores)
    /\ restorer' = [pc |-> "idle", ask |-> {}]
    /\ UNCHANGED <<scheduleVars, runVars, asks, restoreQueue>>

-----------------------------------------------------------------------------
\* What becomes of a restore request when the process dies: BullMQ hands out the job it
\* was executing once more, and fails it the second time.
AskAfterCrash(q) ==
    [asks[q] EXCEPT !.pc =
        CASE @ \in {"create", "add"} -> "done"
          [] @ = "done" /\ q \in restorer.ask -> "stalled"
          [] OTHER -> @]

\* The process dies.
BackupsCrash ==
    /\ Break
    /\ waiting' = IF backup.pc = "idle" THEN waiting ELSE 1
    /\ backup' = NoBackup
    /\ wounded' = (wounded \/ \E q \in Requests : admin[q].pc \in Deleting)
    /\ admin' = [q \in Requests |-> IF admin[q].pc = "unused" THEN admin[q]
                                    ELSE [NoAdmin EXCEPT !.pc = "done"]]
    /\ asks' = [q \in RestoreRequests |-> AskAfterCrash(q)]
    /\ restoreQueue' = restoreQueue \cup {q \in restorer.ask : asks[q].pc # "stalled"}
    /\ restorer' = [pc |-> "idle", ask |-> {}]
    /\ booter' = [NoAdmin EXCEPT !.pc = "list"]
    /\ raced' = TRUE
    /\ UNCHANGED <<backupJob, repeatables, runs, archive, restores>>

\* What goes on once a request, a schedule or the process has been started.
BackupsWork ==
    \/ \E q \in Requests : Unschedule(q) \/ AddRepeatable(q) \/ DeleteFiles(q) \/ DeleteJobRow(q)
    \/ BootList \/ BootPrune \/ BootAdd
    \/ Trigger \/ BackupFind \/ BackupCreate \/ BackupDump \/ BackupPack \/ BackupSuccess
    \/ BackupFail \/ Retain \/ RetainFile \/ RetainRow
    \/ \E q \in RestoreRequests : CreateRestore(q) \/ EnqueueRestore(q)
    \/ PickRestore \/ EndRestore

BackupsNext ==
    \/ BackupsWork
    \/ \E q \in Requests : PatchJob(q) \/ DeleteList(q)
    \/ \E q \in RestoreRequests, r \in Runs : AskRestore(q, r)
    \/ \E q \in Requests : ChangeFails(q)
    \/ BootFails \/ BackupsCrash

-----------------------------------------------------------------------------
BackupsTypeOK ==
    /\ backupJob \in [present : BOOLEAN, active : BOOLEAN, schedule : Schedules]
    /\ repeatables \subseteq Schedules /\ waiting \in {0, 1}
    /\ runs \in [Runs -> [status : {"none", "running", "success", "failed", "deleted"},
                          file : BOOLEAN]]
    /\ archive \in [Runs -> {"none", "partial", "whole"}]
    /\ backup.run \in 0..MaxRuns /\ backup.doomed \subseteq Runs
    /\ restores \in [RestoreRequests -> [status : {"none", "queued", "running", "success",
                                                   "failed", "deleted"}, run : 0..MaxRuns]]
    /\ restoreQueue \subseteq RestoreRequests /\ restorer.ask \subseteq RestoreRequests
    /\ \A r \in Runs : runs[r].file => runs[r].status \in {"success", "failed"}

\* While a job exists and nobody is deleting it or has broken off deleting it, each of its
\* newest Keep successful runs has its whole archive on disk: retention, which removes the
\* file before the row and can die in between, never takes one of them (backup.job.ts, step 8).
NewestRunsRestorable ==
    (/\ backupJob.present /\ ~wounded
     /\ \A q \in Requests : admin[q].pc \notin {"unscheduleDelete", "row"})
        => \A r \in Newest(Successes) : archive[r] = "whole"

\* BullMQ fires the job at its row's schedule when the row is active and the schedule is a
\* pattern, and not at all otherwise, once no request is in flight, unless two schedule
\* changes overlapped, or one failed or died, since the last start of the process:
\* reloadBackupJob works on a copy of the row.
ScheduleMatchesRow ==
    (~Races /\ ~raced)
        => repeatables = IF backupJob.present /\ backupJob.active
                           THEN Fires(backupJob.schedule) ELSE {}

=============================================================================
