------------------------------ MODULE Exports ------------------------------
(***************************************************************************)
(* One export job: its row, its BullMQ job, the worker of export.job.ts     *)
(* with the Mongo and SQL writers, and the create, download and delete      *)
(* routes.  A file is a number of parts written of the Parts it has; a      *)
(* database export stages its parts and packs them into an archive.         *)
(*                                                                         *)
(* BullMQ is external: one attempt, handed out once more after a crash.     *)
(***************************************************************************)
EXTENDS Integers, Sequences

CONSTANTS
    Parts,            \* documents, tables or collections of an export
    MaxExportFaults,  \* bound on failing reads, writes and statements
    MaxExportCrashes  \* bound on crashes of the process

ASSUME ExportsAssumption ==
    /\ Parts \in Nat \ {0}
    /\ MaxExportFaults \in Nat /\ MaxExportCrashes \in Nat

VARIABLES
    exportJob,    \* row: [status, named], named when fileKey is set; "deleted" without one
    whole,        \* exportType: a whole database or schema, or one collection or table
    jobRuns,      \* statuses of its JobRun rows, the latest last
    exportState,  \* state of the BullMQ job
    exporter,     \* the worker: [pc, staged]
    file,         \* parts in the file under export_<id>; -1 when there is none
    download,     \* GET /:jobId/download: [pc, got]
    exportFaults, exportCrashes

exportVars == <<exportJob, whole, jobRuns, exportState, exporter, file, download,
                exportFaults, exportCrashes>>

IdleExporter == [pc |-> "idle", staged |-> 0]

ExportsInit ==
    /\ exportJob = [status |-> "pending", named |-> FALSE]
    /\ whole \in BOOLEAN
    /\ jobRuns = <<>>
    /\ exportState = "none"
    /\ exporter = IdleExporter
    /\ file = -1
    /\ download = [pc |-> "idle", got |-> 0]
    /\ exportFaults = 0 /\ exportCrashes = 0

ExportThere == exportJob.status # "deleted"

\* POST /, after the row's insert.
EnqueueExport ==
    /\ exportState = "none"
    /\ exportState' = "waiting"
    /\ UNCHANGED <<exportJob, whole, jobRuns, exporter, file, download, exportFaults,
                   exportCrashes>>

\* DELETE /:jobId removes the row and leaves the file.
DeleteExport ==
    /\ ExportThere
    /\ exportJob' = [status |-> "deleted", named |-> FALSE]
    /\ UNCHANGED <<whole, jobRuns, exportState, exporter, file, download, exportFaults,
                   exportCrashes>>

\* Finding or updating a deleted row outside the try fails the job.
ExportMarkMutant ==
    /\ exportState = "waiting" /\ exporter.pc = "idle"
    /\ IF ExportThere
         THEN /\ exportState' = "active"
              /\ exporter' = [pc |-> "run", staged |-> 0]
         ELSE /\ exportState' = "failed"
              /\ UNCHANGED exporter
    /\ UNCHANGED <<exportJob, whole, jobRuns, file, download, exportFaults, exportCrashes>>

ExportMark ==
    /\ exportState = "waiting" /\ exporter.pc = "idle"
    /\ IF ExportThere
         THEN /\ exportJob' = [exportJob EXCEPT !.status = "running"]
              /\ exportState' = "active"
              /\ exporter' = [pc |-> "run", staged |-> 0]
         ELSE /\ exportState' = "failed"
              /\ UNCHANGED <<exportJob, exporter>>
    /\ UNCHANGED <<whole, jobRuns, file, download, exportFaults, exportCrashes>>

ExportRunRow ==
    /\ exporter.pc = "run"
    /\ IF ExportThere
         THEN /\ jobRuns' = Append(jobRuns, "running")
              /\ exporter' = [exporter EXCEPT !.pc = IF whole THEN "stage" ELSE "open"]
              /\ UNCHANGED exportState
         ELSE /\ exportState' = "failed"
              /\ exporter' = IdleExporter
              /\ UNCHANGED jobRuns
    /\ UNCHANGED <<exportJob, whole, file, download, exportFaults, exportCrashes>>

\* A database export writes its parts to a directory of its own first.
ExportStage ==
    /\ exporter.pc = "stage"
    /\ exporter' = IF exporter.staged < Parts
                     THEN [exporter EXCEPT !.staged = @ + 1]
                     ELSE [exporter EXCEPT !.pc = "open"]
    /\ UNCHANGED <<exportJob, whole, jobRuns, exportState, file, download, exportFaults,
                   exportCrashes>>

\* createWriteStream truncates what an earlier execution wrote under the same name.
ExportOpen ==
    /\ exporter.pc = "open"
    /\ file' = 0
    /\ exporter' = [exporter EXCEPT !.pc = "write"]
    /\ UNCHANGED <<exportJob, whole, jobRuns, exportState, download, exportFaults,
                   exportCrashes>>

ExportWrite ==
    /\ exporter.pc = "write"
    /\ IF file < Parts
         THEN /\ file' = file + 1
              /\ UNCHANGED exporter
         ELSE /\ exporter' = [exporter EXCEPT !.pc = "done"]
              /\ UNCHANGED file
    /\ UNCHANGED <<exportJob, whole, jobRuns, exportState, download, exportFaults,
                   exportCrashes>>

\* The statements of the catch throw as well when the row is gone.
ExportFail ==
    /\ exporter.pc \notin {"idle", "run", "fail", "failrun"}
    /\ exportFaults < MaxExportFaults
    /\ exportFaults' = exportFaults + 1
    /\ exporter' = [exporter EXCEPT !.pc = "fail"]
    /\ UNCHANGED <<exportJob, whole, jobRuns, exportState, file, download, exportCrashes>>

ExportCatch ==
    /\ exporter.pc = "fail"
    /\ exportJob' = [exportJob EXCEPT !.status = IF ExportThere THEN "failed" ELSE @]
    /\ jobRuns' = [jobRuns EXCEPT ![Len(jobRuns)] = IF ExportThere THEN "failed" ELSE @]
    /\ exportState' = "failed"
    /\ exporter' = IdleExporter
    /\ UNCHANGED <<whole, file, download, exportFaults, exportCrashes>>

ExportDone ==
    /\ exporter.pc = "done"
    /\ IF ExportThere
         THEN /\ exportJob' = [status |-> "done", named |-> TRUE]
              /\ exporter' = [exporter EXCEPT !.pc = "success"]
         ELSE /\ exporter' = [exporter EXCEPT !.pc = "fail"]
              /\ UNCHANGED exportJob
    /\ UNCHANGED <<whole, jobRuns, exportState, file, download, exportFaults, exportCrashes>>

\* The run is closed after the job: a rejected update turns a finished export into a
\* failed one, by way of the catch.
ExportSuccess ==
    /\ exporter.pc = "success"
    /\ IF ExportThere
         THEN /\ jobRuns' = [jobRuns EXCEPT ![Len(jobRuns)] = "success"]
              /\ exportState' = "completed"
              /\ exporter' = IdleExporter
         ELSE /\ exporter' = [exporter EXCEPT !.pc = "fail"]
              /\ UNCHANGED <<jobRuns, exportState>>
    /\ UNCHANGED <<exportJob, whole, file, download, exportFaults, exportCrashes>>

\* GET /:jobId/download checks the row and the file, and then streams the file.
DownloadCheck ==
    /\ download.pc = "idle"
    /\ exportJob.status = "done" /\ exportJob.named /\ file # -1
    /\ download' = [pc |-> "stream", got |-> 0]
    /\ UNCHANGED <<exportJob, whole, jobRuns, exportState, exporter, file, exportFaults,
                   exportCrashes>>

DownloadStream ==
    /\ download.pc = "stream"
    /\ download' = IF download.got < file THEN [download EXCEPT !.got = @ + 1]
                   ELSE [download EXCEPT !.pc = "ended"]
    /\ UNCHANGED <<exportJob, whole, jobRuns, exportState, exporter, file, exportFaults,
                   exportCrashes>>

\* The process dies: BullMQ hands out an active job once more.
ExportsCrash ==
    /\ exportCrashes < MaxExportCrashes
    /\ exportCrashes' = exportCrashes + 1
    /\ exportState' = IF exporter.pc = "idle" THEN exportState
                      ELSE IF exportCrashes = 0 THEN "waiting" ELSE "failed"
    /\ exporter' = IdleExporter
    /\ download' = [pc |-> "idle", got |-> 0]
    /\ UNCHANGED <<exportJob, whole, jobRuns, file, exportFaults>>

ExportsNext ==
    \/ EnqueueExport \/ DeleteExport
    \/ ExportMark \/ ExportRunRow \/ ExportStage \/ ExportOpen \/ ExportWrite
    \/ ExportFail \/ ExportCatch \/ ExportDone \/ ExportSuccess
    \/ DownloadCheck \/ DownloadStream
    \/ ExportsCrash

-----------------------------------------------------------------------------
ExportsTypeOK ==
    /\ exportJob \in [status : {"pending", "running", "done", "failed", "deleted"},
                      named : BOOLEAN]
    /\ whole \in BOOLEAN
    /\ jobRuns \in Seq({"running", "success", "failed"})
    /\ exportState \in {"none", "waiting", "active", "completed", "failed"}
    /\ exporter.staged \in 0..Parts /\ file \in -1..Parts /\ download.got \in 0..Parts

\* An export shown as done, and so offered for download, has every part in its file, also
\* when the process died right after it was marked and the job is executed anew, which
\* rewrites the file under the same name (export.job.ts marks the row running before it
\* opens the file).  A download that ran to its end got every part, unless such a second
\* execution truncated the file under it.
DoneExportIsWhole ==
    /\ exportJob.status = "done" => file = Parts
    /\ download.pc = "ended" /\ Len(jobRuns) < 2 => download.got = Parts

=============================================================================
