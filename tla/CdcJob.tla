------------------------------- MODULE CdcJob -------------------------------
(***************************************************************************)
(* The control of one change-data-capture sync: its row (cdcSyncJob), its   *)
(* BullMQ job (whose id cdc-<id> is the same for every attempt), the worker *)
(* of pivot/jobs/cdc-sync.job.ts and the start, pause, update and delete    *)
(* routes of pivot/routes/cdc-sync.ts.                                      *)
(*                                                                         *)
(* One action per await.  The routes and the worker share only the row and  *)
(* the queue: a pause is a flag the worker reads between two events and     *)
(* clears when it ends, a resume is a new job under the old id.  What the   *)
(* worker copies and applies meanwhile is module CdcStream.                 *)
(*                                                                         *)
(* BullMQ is external: a job is waiting, delayed, active, completed or      *)
(* gone; add() under an existing id does nothing; remove() of an active job *)
(* throws; a job whose process died stays active until the stalled check.   *)
(***************************************************************************)
EXTENDS Naturals, FiniteSets

CONSTANTS
    SyncRequests,    \* requests to the routes
    Creator,         \* the request that created the sync, about to enqueue it
    MaxSyncFailures  \* bound on failed attempts and crashes

ASSUME CdcJobAssumption ==
    /\ Creator \in SyncRequests
    /\ MaxSyncFailures \in Nat

VARIABLES
    sync,       \* the row: [present, enabled, pauseRequested, copied, status]
    job,        \* state of the BullMQ job, "none" if there is none
    workerPc,   \* program counter of the attempt
    seenStop,   \* what the attempt read last: pausedOrDisabled
    errors,     \* the attempt counted a rejected event
    reporting,  \* the 'failed' listener has still to run
    request,    \* program counter of each request
    kind,       \* what each request asks for
    jobFailures,
    sinceStop   \* history: events applied since the row last said stop

attempt == <<workerPc, seenStop, errors>>
requestVars == <<request, kind>>
syncVars == <<sync, job, attempt, reporting, requestVars, jobFailures, sinceStop>>

SyncStatuses == {"queued", "bootstrapping", "tailing", "paused", "failed"}
JobStates == {"none", "waiting", "delayed", "active", "completed"}
Kinds == {"start", "pause", "update", "delete"}
Streaming == {"stream", "check", "apply"}
WorkerPcs == {"idle", "load", "pauseAtTop", "begin", "copy", "ending", "final", "returned"}
                 \cup Streaming
RequestPcs == {"idle", "row", "state", "remove", "add", "drop", "done", "lost"}

\* What the worker looks for before an event: !fresh || !enabled || pauseRequested.
Stop == ~sync.present \/ ~sync.enabled \/ sync.pauseRequested

SyncInit ==
    /\ sync = [present |-> TRUE, enabled |-> TRUE, pauseRequested |-> FALSE,
               copied |-> FALSE, status |-> "queued"]
    /\ job = "none"
    /\ workerPc = "idle"
    /\ seenStop = FALSE
    /\ errors = FALSE
    /\ reporting = FALSE
    /\ request = [q \in SyncRequests |-> IF q = Creator THEN "add" ELSE "idle"]
    /\ kind = [q \in SyncRequests |-> "start"]
    /\ jobFailures = 0
    /\ sinceStop = 0

\* A write of the row: the count of events starts over when it begins to say stop.
SetRow(row) ==
    /\ sync' = row
    /\ sinceStop' = IF ~Stop /\ (~row.present \/ ~row.enabled \/ row.pauseRequested)
                    THEN 0 ELSE sinceStop

JobFailure == /\ jobFailures < MaxSyncFailures
           /\ jobFailures' = jobFailures + 1

-----------------------------------------------------------------------------
(* The worker.                                                               *)

\* A rejected promise ends the attempt: BullMQ delays the job for its backoff
\* and calls the 'failed' listener.
Rejected ==
    /\ workerPc' = "idle"
    /\ job' = "delayed"
    /\ reporting' = TRUE

Pick ==
    /\ job = "waiting" /\ workerPc = "idle"
    /\ job' = "active"
    /\ workerPc' = "load"
    /\ errors' = FALSE
    /\ UNCHANGED <<sync, seenStop, reporting, requestVars, jobFailures, sinceStop>>

\* The checks at the top of every attempt.
Load ==
    /\ workerPc = "load"
    /\ workerPc' = IF ~sync.present \/ ~sync.enabled THEN "returned"
                 ELSE IF sync.pauseRequested THEN "pauseAtTop" ELSE "begin"
    /\ UNCHANGED <<sync, job, seenStop, errors, reporting, requestVars, jobFailures, sinceStop>>

\* Every update of the row throws when it has been deleted.
PauseAtTop ==
    /\ workerPc = "pauseAtTop"
    /\ IF sync.present
       THEN /\ SetRow([sync EXCEPT !.status = "paused", !.pauseRequested = FALSE])
            /\ workerPc' = "returned"
            /\ UNCHANGED <<job, reporting>>
       ELSE Rejected /\ UNCHANGED <<sync, sinceStop>>
    /\ UNCHANGED <<seenStop, errors, requestVars, jobFailures>>

\* Mutant: the status is written with the snapshot only.
BeginMutant ==
    /\ workerPc = "begin"
    /\ IF sync.present
       THEN /\ IF sync.copied THEN UNCHANGED <<sync, sinceStop>>
               ELSE SetRow([sync EXCEPT !.status = "bootstrapping"])
            /\ workerPc' = IF sync.copied THEN "stream" ELSE "copy"
            /\ UNCHANGED <<job, reporting>>
       ELSE Rejected /\ UNCHANGED <<sync, sinceStop>>
    /\ UNCHANGED <<seenStop, errors, requestVars, jobFailures>>

\* The run row and the status; then the snapshot, unless it was already taken.
Begin ==
    /\ workerPc = "begin"
    /\ IF sync.present
       THEN /\ SetRow([sync EXCEPT !.status = IF sync.copied THEN "tailing" ELSE "bootstrapping"])
            /\ workerPc' = IF sync.copied THEN "stream" ELSE "copy"
            /\ UNCHANGED <<job, reporting>>
       ELSE Rejected /\ UNCHANGED <<sync, sinceStop>>
    /\ UNCHANGED <<seenStop, errors, requestVars, jobFailures>>

CopyEnds ==
    /\ workerPc = "copy"
    /\ IF sync.present
       THEN /\ SetRow([sync EXCEPT !.status = "tailing", !.copied = TRUE])
            /\ workerPc' = "stream"
            /\ UNCHANGED <<job, reporting>>
       ELSE Rejected /\ UNCHANGED <<sync, sinceStop>>
    /\ UNCHANGED <<seenStop, errors, requestVars, jobFailures>>

\* failRun, then the error is thrown again.
CopyFails ==
    /\ workerPc = "copy"
    /\ JobFailure
    /\ IF sync.present THEN SetRow([sync EXCEPT !.status = "failed"])
       ELSE UNCHANGED <<sync, sinceStop>>
    /\ Rejected
    /\ UNCHANGED <<seenStop, errors, requestVars>>

Event ==
    /\ workerPc = "stream"
    /\ workerPc' = "check"
    /\ UNCHANGED <<sync, job, seenStop, errors, reporting, requestVars, jobFailures, sinceStop>>

\* Mutant: the row is looked at for a pause only.
CheckMutant ==
    /\ workerPc = "check"
    /\ workerPc' = IF sync.present /\ sync.pauseRequested THEN "ending" ELSE "apply"
    /\ UNCHANGED <<sync, job, seenStop, errors, reporting, requestVars, jobFailures, sinceStop>>

Check ==
    /\ workerPc = "check"
    /\ workerPc' = IF Stop THEN "ending" ELSE "apply"
    /\ UNCHANGED <<sync, job, seenStop, errors, reporting, requestVars, jobFailures, sinceStop>>

\* The event is applied or rejected, which the row is told; when it has been
\* deleted meanwhile, telling it throws once more.
ApplyEvent ==
    /\ workerPc = "apply"
    /\ sinceStop' = IF Stop THEN sinceStop + 1 ELSE sinceStop
    /\ errors' \in {errors, TRUE}
    /\ IF sync.present
       THEN workerPc' = "stream" /\ UNCHANGED <<job, reporting>>
       ELSE Rejected
    /\ UNCHANGED <<sync, seenStop, requestVars, jobFailures>>

\* The source ends the stream, or (below) its connection drops.
StreamEnds ==
    /\ workerPc = "stream"
    /\ workerPc' = "ending"
    /\ UNCHANGED <<sync, job, seenStop, errors, reporting, requestVars, jobFailures, sinceStop>>

\* Any await of the attempt may reject.
AttemptFails ==
    /\ workerPc # "idle"
    /\ JobFailure
    /\ Rejected
    /\ UNCHANGED <<sync, seenStop, errors, requestVars, sinceStop>>

Ending ==
    /\ workerPc = "ending"
    /\ workerPc' = "final"
    /\ seenStop' = Stop
    /\ UNCHANGED <<sync, job, errors, reporting, requestVars, jobFailures, sinceStop>>

\* The final status, from what was read before; the flag is cleared even if it
\* was raised, and the status replaced even if a start set it, since.
Final ==
    /\ workerPc = "final"
    /\ IF sync.present
       THEN /\ SetRow([sync EXCEPT !.pauseRequested = FALSE,
                                   !.status = IF seenStop THEN "paused"
                                              ELSE IF errors THEN "failed" ELSE "tailing"])
            /\ workerPc' = "returned"
            /\ UNCHANGED <<job, reporting>>
       ELSE Rejected /\ UNCHANGED <<sync, sinceStop>>
    /\ UNCHANGED <<seenStop, errors, requestVars, jobFailures>>

\* The processor has returned; BullMQ moves the job.
Completed ==
    /\ workerPc = "returned"
    /\ workerPc' = "idle"
    /\ job' = "completed"
    /\ UNCHANGED <<sync, seenStop, errors, reporting, requestVars, jobFailures, sinceStop>>

\* The listener of 'failed': status tailing while retries remain (attempts: 1000).
FailedListener ==
    /\ reporting
    /\ reporting' = FALSE
    /\ IF sync.present THEN SetRow([sync EXCEPT !.status = "tailing"])
       ELSE UNCHANGED <<sync, sinceStop>>
    /\ UNCHANGED <<job, attempt, requestVars, jobFailures>>

BackoffOver ==
    /\ job = "delayed"
    /\ job' = "waiting"
    /\ UNCHANGED <<sync, attempt, reporting, requestVars, jobFailures, sinceStop>>

\* Stalled: active, and no process renews its lock.
Stalled ==
    /\ job = "active" /\ workerPc = "idle"
    /\ job' = "waiting"
    /\ UNCHANGED <<sync, attempt, reporting, requestVars, jobFailures, sinceStop>>

Worker ==
    \/ Pick \/ Load \/ PauseAtTop \/ Begin \/ CopyEnds \/ Check \/ ApplyEvent
    \/ Ending \/ Final \/ Completed

Queue == FailedListener \/ BackoffOver \/ Stalled

-----------------------------------------------------------------------------
(* The routes.                                                               *)

GoOn(q, pc) == request' = [request EXCEPT ![q] = pc]

\* The lookup of the row; a missing one is a 404.
Receive(q) ==
    /\ request[q] = "idle"
    /\ sync.present
    /\ \E k \in Kinds :
          /\ kind' = [kind EXCEPT ![q] = k]
          /\ GoOn(q, IF k = "delete" THEN "state" ELSE "row")
    /\ UNCHANGED <<sync, job, attempt, reporting, jobFailures, sinceStop>>

\* The update of the row: what each route writes.
Written(k) ==
    CASE k = "start"  -> {[sync EXCEPT !.enabled = TRUE, !.pauseRequested = FALSE,
                                       !.status = "queued"]}
      [] k = "pause"  -> {[sync EXCEPT !.pauseRequested = TRUE]}
      [] k = "update" -> {[sync EXCEPT !.enabled = e] : e \in BOOLEAN}
      [] k = "delete" -> {[sync EXCEPT !.enabled = FALSE, !.pauseRequested = TRUE]}

WriteRow(q) ==
    /\ request[q] = "row"
    /\ IF sync.present
       THEN /\ \E row \in Written(kind[q]) : SetRow(row)
            /\ GoOn(q, CASE kind[q] = "delete" -> "drop"
                         [] kind[q] = "update" -> "done"
                         [] OTHER              -> "state")
       ELSE GoOn(q, "done") /\ UNCHANGED <<sync, sinceStop>>
    /\ UNCHANGED <<job, attempt, reporting, kind, jobFailures>>

\* Mutant: start does not remove the completed job.
ReadJobMutant(q) ==
    /\ request[q] = "state"
    /\ GoOn(q, IF kind[q] # "start" /\ job \in {"waiting", "delayed"} THEN "remove"
               ELSE CASE kind[q] = "start" -> "add"
                      [] kind[q] = "pause" -> "done"
                      [] OTHER             -> "row")
    /\ UNCHANGED <<sync, job, attempt, reporting, kind, jobFailures, sinceStop>>

\* getJob, getState.
ReadJob(q) ==
    /\ request[q] = "state"
    /\ LET removes == IF kind[q] = "start" THEN {"completed"} ELSE {"waiting", "delayed"} IN
       GoOn(q, IF job \in removes THEN "remove"
               ELSE CASE kind[q] = "start" -> "add"
                      [] kind[q] = "pause" -> "done"
                      [] OTHER             -> "row")
    /\ UNCHANGED <<sync, job, attempt, reporting, kind, jobFailures, sinceStop>>

\* remove() throws if the job became active, which the delete route lets through.
RemoveJob(q) ==
    /\ request[q] = "remove"
    /\ job' = IF job = "active" THEN job ELSE "none"
    /\ GoOn(q, CASE kind[q] = "start" -> "add"
                 [] kind[q] = "pause" -> "done"
                 [] OTHER             -> IF job = "active" THEN "done" ELSE "row")
    /\ UNCHANGED <<sync, attempt, reporting, kind, jobFailures, sinceStop>>

\* enqueueCdcSync: a job that exists, in any state, is not added again.
AddJob(q) ==
    /\ request[q] = "add"
    /\ job' = IF job = "none" THEN "waiting" ELSE job
    /\ GoOn(q, "done")
    /\ UNCHANGED <<sync, attempt, reporting, kind, jobFailures, sinceStop>>

DropRow(q) ==
    /\ request[q] = "drop"
    /\ SetRow([sync EXCEPT !.present = FALSE])
    /\ GoOn(q, "done")
    /\ UNCHANGED <<job, attempt, reporting, kind, jobFailures>>

\* A connection of the sync is deleted: its syncs are stopped and, by cascade,
\* deleted, in one transaction; the queue is left alone.
ConnectionDeleted ==
    /\ sync.present
    /\ SetRow([sync EXCEPT !.enabled = FALSE, !.pauseRequested = TRUE, !.present = FALSE])
    /\ UNCHANGED <<job, attempt, reporting, requestVars, jobFailures>>

Serve(q) == WriteRow(q) \/ ReadJob(q) \/ RemoveJob(q) \/ AddJob(q) \/ DropRow(q)

InFlight(q) == request[q] \notin {"idle", "done", "lost"}

\* The process dies: the attempt, the listener and the requests are gone, the
\* row and the queue stay.
SyncCrash ==
    /\ JobFailure
    /\ workerPc' = "idle"
    /\ reporting' = FALSE
    /\ request' = [q \in SyncRequests |-> IF InFlight(q) THEN "lost" ELSE request[q]]
    /\ UNCHANGED <<sync, job, seenStop, errors, kind, sinceStop>>

SyncNext ==
    \/ Worker
    \/ CopyFails \/ Event \/ StreamEnds \/ AttemptFails
    \/ Queue
    \/ \E q \in SyncRequests : Receive(q) \/ Serve(q)
    \/ ConnectionDeleted
    \/ SyncCrash

SyncSpec == SyncInit /\ [][SyncNext]_syncVars

\* An attempt goes on while it waits for nothing but its own steps, BullMQ picks,
\* retries and checks jobs, a request that has started runs to its end.  Nothing
\* makes an event arrive, a stream end, a client call or anything fail.
SyncFairSpec ==
    /\ SyncSpec
    /\ WF_syncVars(Worker)
    /\ WF_syncVars(FailedListener)
    /\ WF_syncVars(BackoffOver)
    /\ WF_syncVars(Stalled)
    /\ \A q \in SyncRequests : WF_syncVars(Serve(q))

-----------------------------------------------------------------------------
(* Properties.                                                               *)

\* Every variable stays in its domain.
SyncTypeOK ==
    /\ sync \in [present : BOOLEAN, enabled : BOOLEAN, pauseRequested : BOOLEAN,
                 copied : BOOLEAN, status : SyncStatuses]
    /\ job \in JobStates
    /\ workerPc \in WorkerPcs
    /\ seenStop \in BOOLEAN
    /\ errors \in BOOLEAN
    /\ reporting \in BOOLEAN
    /\ request \in [SyncRequests -> RequestPcs]
    /\ kind \in [SyncRequests -> Kinds]
    /\ jobFailures \in Nat
    /\ sinceStop \in Nat

\* A pause, a disable and a deletion each take effect at the next event: while
\* the row says stop, at most the one event already past its check is applied,
\* however attempts fail, crash and retry and whatever else is requested.
StopsAtNextEvent == Stop => sinceStop <= 1

\* A sync shown as paused is not streaming and not about to apply anything.
PausedMeansStopped ==
    sync.present /\ sync.status = "paused" => workerPc \notin Streaming

Alone(q) == \A p \in SyncRequests \ {q} : ~InFlight(p)

\* A start that finds no attempt running, with no other request beside it, gets
\* the sync copying or streaming again, through failed attempts, retries and
\* crashes, unless somebody calls again or the process dies before it is answered.
StartRuns ==
    \A q \in SyncRequests :
        (kind[q] = "start" /\ request[q] = "state" /\ job # "active" /\ Alone(q))
            ~> (workerPc \in {"copy"} \cup Streaming \/ ~Alone(q) \/ request[q] = "lost" \/ Stop)

=============================================================================
