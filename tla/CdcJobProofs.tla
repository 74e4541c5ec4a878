---------------------------- MODULE CdcJobProofs ----------------------------
(***************************************************************************)
(* Proofs about CdcJob, for any number of requests, failed attempts and     *)
(* crashes: type correctness, that a stop takes effect at the next event,   *)
(* and that a sync shown as paused is not streaming.                        *)
(***************************************************************************)
EXTENDS SyncPage, TLAPS

\* One event at most since the row says stop, and none while the attempt has
\* still to apply the event it checked.
AtMostOneMore ==
    /\ sinceStop <= 1
    /\ workerPc = "apply" /\ Stop => sinceStop = 0

IInv == SyncTypeOK /\ AtMostOneMore /\ PausedMeansStopped

RowType == [present : BOOLEAN, enabled : BOOLEAN, pauseRequested : BOOLEAN,
            copied : BOOLEAN, status : SyncStatuses]

-----------------------------------------------------------------------------

\* A write of the row keeps the type of row and count and the bound, whoever
\* writes and whatever the attempt is doing.
LEMMA SetRowKeeps ==
  ASSUME NEW row \in RowType, SyncTypeOK, AtMostOneMore, SetRow(row)
  PROVE  /\ sync' \in RowType
         /\ sync' = row
         /\ sinceStop' \in Nat
         /\ sinceStop' <= 1
         /\ workerPc = "apply" /\ Stop' => sinceStop' = 0
  BY DEF SetRow, SyncTypeOK, AtMostOneMore, Stop, RowType

\* What a route writes is a row; none writes status paused.
LEMMA WrittenIsRow ==
  ASSUME SyncTypeOK, NEW k \in Kinds, NEW row \in Written(k)
  PROVE  row \in RowType /\ row.status \in {sync.status, "queued"}
  <1>1. CASE k = "start"
    BY <1>1 DEF Written, SyncTypeOK, RowType, SyncStatuses
  <1>2. CASE k = "pause"
    BY <1>2 DEF Written, SyncTypeOK, RowType
  <1>3. CASE k = "update"
    <2>1. PICK e \in BOOLEAN : row = [sync EXCEPT !.enabled = e]
      BY <1>3 DEF Written
    <2> QED
      BY <2>1 DEF SyncTypeOK, RowType
  <1>4. CASE k = "delete"
    BY <1>4 DEF Written, SyncTypeOK, RowType
  <1> QED
    BY <1>1, <1>2, <1>3, <1>4 DEF Kinds

\* The initial state satisfies the invariant.
LEMMA InitIInv == ASSUME CdcJobAssumption, SyncInit PROVE IInv
  <1>1. sync \in RowType
    BY DEF SyncInit, RowType, SyncStatuses
  <1>2. request \in [SyncRequests -> RequestPcs] /\ kind \in [SyncRequests -> Kinds]
    BY DEF SyncInit, RequestPcs, Kinds
  <1>3. SyncTypeOK
    BY <1>1, <1>2 DEF CdcJobAssumption, SyncInit, SyncTypeOK, RowType, JobStates, WorkerPcs
  <1> QED
    BY <1>3 DEF SyncInit, IInv, AtMostOneMore, PausedMeansStopped, Streaming

USE DEF attempt, requestVars

\* The steps of the attempt.
LEMMA WorkerKeeps == ASSUME IInv, Worker PROVE IInv'
  <1> USE DEF IInv
  <1>1. CASE Pick
    BY <1>1 DEF Pick, SyncTypeOK, AtMostOneMore, PausedMeansStopped, Stop, WorkerPcs, JobStates, Streaming
  <1>2. CASE Load
    BY <1>2 DEF Load, SyncTypeOK, AtMostOneMore, PausedMeansStopped, Stop, WorkerPcs, JobStates, Streaming
  <1>3. CASE PauseAtTop
    <2>1. CASE sync.present
      <3> DEFINE row == [sync EXCEPT !.status = "paused", !.pauseRequested = FALSE]
      <3>1. row \in RowType /\ SetRow(row)
        BY <1>3, <2>1 DEF PauseAtTop, SyncTypeOK, RowType, SyncStatuses
      <3>2. sync' \in RowType /\ sinceStop' \in Nat /\ sinceStop' <= 1
        BY <3>1, SetRowKeeps
      <3> QED
        BY <1>3, <2>1, <3>2 DEF PauseAtTop, SyncTypeOK, RowType, AtMostOneMore, PausedMeansStopped,
           WorkerPcs, Streaming
    <2>2. CASE ~sync.present
      BY <1>3, <2>2 DEF PauseAtTop, Rejected, SyncTypeOK, AtMostOneMore, PausedMeansStopped, Stop,
         WorkerPcs, JobStates, Streaming
    <2> QED BY <2>1, <2>2
  <1>4. CASE Begin
    <2>1. CASE sync.present
      <3> DEFINE row == [sync EXCEPT !.status = IF sync.copied THEN "tailing" ELSE "bootstrapping"]
      <3>1. row \in RowType /\ SetRow(row) /\ row.status # "paused"
        BY <1>4, <2>1 DEF Begin, SyncTypeOK, RowType, SyncStatuses
      <3>2. sync' \in RowType /\ sync' = row /\ sinceStop' \in Nat /\ sinceStop' <= 1
        BY <3>1, SetRowKeeps
      <3> HIDE DEF row
      <3> QED
        BY <1>4, <2>1, <3>1, <3>2 DEF Begin, SyncTypeOK, RowType, AtMostOneMore, PausedMeansStopped,
           WorkerPcs, Streaming
    <2>2. CASE ~sync.present
      BY <1>4, <2>2 DEF Begin, Rejected, SyncTypeOK, AtMostOneMore, PausedMeansStopped, Stop,
         WorkerPcs, JobStates, Streaming
    <2> QED BY <2>1, <2>2
  <1>5. CASE CopyEnds
    <2>1. CASE sync.present
      <3> DEFINE row == [sync EXCEPT !.status = "tailing", !.copied = TRUE]
      <3>1. row \in RowType /\ SetRow(row) /\ row.status # "paused"
        BY <1>5, <2>1 DEF CopyEnds, SyncTypeOK, RowType, SyncStatuses
      <3>2. sync' \in RowType /\ sync' = row /\ sinceStop' \in Nat /\ sinceStop' <= 1
        BY <3>1, SetRowKeeps
      <3> HIDE DEF row
      <3> QED
        BY <1>5, <2>1, <3>1, <3>2 DEF CopyEnds, SyncTypeOK, RowType, AtMostOneMore,
           PausedMeansStopped, WorkerPcs, Streaming
    <2>2. CASE ~sync.present
      BY <1>5, <2>2 DEF CopyEnds, Rejected, SyncTypeOK, AtMostOneMore, PausedMeansStopped, Stop,
         WorkerPcs, JobStates, Streaming
    <2> QED BY <2>1, <2>2
  <1>6. CASE Check
    BY <1>6 DEF Check, SyncTypeOK, AtMostOneMore, PausedMeansStopped, Stop, WorkerPcs, Streaming
  <1>7. CASE ApplyEvent
    <2>1. sinceStop' \in Nat /\ sinceStop' <= 1
      BY <1>7 DEF ApplyEvent, SyncTypeOK, AtMostOneMore
    <2>2. errors' \in BOOLEAN /\ reporting' \in BOOLEAN /\ job' \in JobStates
      BY <1>7, Zenon DEF ApplyEvent, Rejected, SyncTypeOK, JobStates
    <2>3. workerPc' \in {"idle", "stream"}
      BY <1>7 DEF ApplyEvent, Rejected
    <2>4. /\ sync' = sync
          /\ sync.status = "paused" => ~sync.present
      BY <1>7 DEF ApplyEvent, PausedMeansStopped, Streaming
    <2> QED
      BY <1>7, <2>1, <2>2, <2>3, <2>4 DEF ApplyEvent, SyncTypeOK, AtMostOneMore, PausedMeansStopped,
         WorkerPcs, Streaming
  <1>8. CASE Ending
    BY <1>8 DEF Ending, SyncTypeOK, AtMostOneMore, PausedMeansStopped, Stop, WorkerPcs, Streaming
  <1>9. CASE Final
    <2>1. CASE sync.present
      <3> DEFINE row == [sync EXCEPT !.pauseRequested = FALSE,
                                     !.status = IF seenStop THEN "paused"
                                                ELSE IF errors THEN "failed" ELSE "tailing"]
      <3>1. row \in RowType /\ SetRow(row)
        BY <1>9, <2>1 DEF Final, SyncTypeOK, RowType, SyncStatuses
      <3>2. sync' \in RowType /\ sinceStop' \in Nat /\ sinceStop' <= 1
        BY <3>1, SetRowKeeps
      <3> HIDE DEF row
      <3> QED
        BY <1>9, <2>1, <3>2 DEF Final, SyncTypeOK, RowType, AtMostOneMore, PausedMeansStopped,
           WorkerPcs, Streaming
    <2>2. CASE ~sync.present
      BY <1>9, <2>2 DEF Final, Rejected, SyncTypeOK, AtMostOneMore, PausedMeansStopped, Stop,
         WorkerPcs, JobStates, Streaming
    <2> QED BY <2>1, <2>2
  <1>10. CASE Completed
    BY <1>10 DEF Completed, SyncTypeOK, AtMostOneMore, PausedMeansStopped, Stop, WorkerPcs, JobStates,
       Streaming
  <1> QED
    BY <1>1, <1>2, <1>3, <1>4, <1>5, <1>6, <1>7, <1>8, <1>9, <1>10 DEF Worker

\* What the source, BullMQ and failures make of an attempt.
LEMMA EnvironmentKeeps ==
  ASSUME IInv, CopyFails \/ Event \/ StreamEnds \/ AttemptFails \/ Queue \/ SyncCrash
  PROVE  IInv'
  <1> USE DEF IInv
  <1>1. CASE CopyFails
    <2>1. workerPc' = "idle" /\ job' = "delayed" /\ reporting' = TRUE /\ jobFailures' \in Nat
      BY <1>1 DEF CopyFails, Rejected, JobFailure, SyncTypeOK
    <2>2. sync' \in RowType /\ sinceStop' \in Nat /\ sinceStop' <= 1
      <3>1. CASE sync.present
        <4>1. [sync EXCEPT !.status = "failed"] \in RowType
          BY DEF SyncTypeOK, RowType, SyncStatuses
        <4> QED BY <1>1, <3>1, <4>1, SetRowKeeps DEF CopyFails
      <3>2. CASE ~sync.present
        BY <1>1, <3>2 DEF CopyFails, SyncTypeOK, RowType, AtMostOneMore
      <3> QED BY <3>1, <3>2
    <2> QED
      BY <1>1, <2>1, <2>2 DEF CopyFails, SyncTypeOK, RowType, AtMostOneMore, PausedMeansStopped,
         WorkerPcs, JobStates, Streaming
  <1>2. CASE Event
    BY <1>2 DEF Event, SyncTypeOK, AtMostOneMore, PausedMeansStopped, Stop, WorkerPcs, Streaming
  <1>3. CASE StreamEnds
    BY <1>3 DEF StreamEnds, SyncTypeOK, AtMostOneMore, PausedMeansStopped, Stop, WorkerPcs, Streaming
  <1>4. CASE AttemptFails
    BY <1>4 DEF AttemptFails, Rejected, JobFailure, SyncTypeOK, AtMostOneMore, PausedMeansStopped, Stop,
       WorkerPcs, JobStates, Streaming
  <1>5. CASE FailedListener
    <2>1. CASE sync.present
      <3> DEFINE row == [sync EXCEPT !.status = "tailing"]
      <3>1. row \in RowType /\ SetRow(row) /\ row.status # "paused"
        BY <1>5, <2>1 DEF FailedListener, SyncTypeOK, RowType, SyncStatuses
      <3>2. /\ sync' \in RowType /\ sync' = row /\ sinceStop' \in Nat /\ sinceStop' <= 1
            /\ workerPc = "apply" /\ Stop' => sinceStop' = 0
        BY <3>1, SetRowKeeps
      <3> HIDE DEF row
      <3> QED
        BY <1>5, <3>1, <3>2 DEF FailedListener, SyncTypeOK, RowType, AtMostOneMore, PausedMeansStopped
    <2>2. CASE ~sync.present
      BY <1>5, <2>2 DEF FailedListener, SyncTypeOK, AtMostOneMore, PausedMeansStopped, Stop
    <2> QED BY <2>1, <2>2
  <1>6. CASE BackoffOver \/ Stalled
    BY <1>6 DEF BackoffOver, Stalled, SyncTypeOK, AtMostOneMore, PausedMeansStopped, Stop, JobStates
  <1>7. CASE SyncCrash
    <2>1. request' \in [SyncRequests -> RequestPcs]
      BY <1>7 DEF SyncCrash, SyncTypeOK, RequestPcs
    <2>2. jobFailures' \in Nat /\ workerPc' = "idle" /\ reporting' = FALSE
      BY <1>7 DEF SyncCrash, JobFailure, SyncTypeOK
    <2>3. SyncTypeOK'
      BY <1>7, <2>1, <2>2 DEF SyncCrash, SyncTypeOK, WorkerPcs
    <2> QED
      BY <1>7, <2>2, <2>3 DEF SyncCrash, AtMostOneMore, PausedMeansStopped, Streaming
  <1> QED
    BY <1>1, <1>2, <1>3, <1>4, <1>5, <1>6, <1>7 DEF Queue

\* The steps of a request, and the deletion of a connection.
LEMMA RoutesKeep ==
  ASSUME IInv, (\E q \in SyncRequests : Receive(q) \/ Serve(q)) \/ ConnectionDeleted
  PROVE  IInv'
  <1> USE DEF IInv, GoOn
  <1>1. ASSUME NEW q \in SyncRequests, Receive(q) PROVE IInv'
    BY <1>1 DEF Receive, SyncTypeOK, AtMostOneMore, PausedMeansStopped, Stop, RequestPcs, Kinds
  <1>2. ASSUME NEW q \in SyncRequests, WriteRow(q) PROVE IInv'
    <2>1. kind[q] \in Kinds
      BY DEF SyncTypeOK
    <2>2. request' \in [SyncRequests -> RequestPcs]
      BY <1>2, <2>1 DEF WriteRow, SyncTypeOK, RequestPcs, Kinds
    <2>3. CASE sync.present
      <3>1. PICK row \in Written(kind[q]) : SetRow(row)
        BY <1>2, <2>3 DEF WriteRow
      <3>2. row \in RowType /\ row.status \in {sync.status, "queued"}
        BY <2>1, WrittenIsRow
      <3>3. /\ sync' \in RowType /\ sync' = row /\ sinceStop' \in Nat /\ sinceStop' <= 1
            /\ workerPc = "apply" /\ Stop' => sinceStop' = 0
        BY <3>1, <3>2, SetRowKeeps
      <3>4. sync'.present /\ sync'.status = "paused" => sync.status = "paused"
        BY <3>2, <3>3
      <3> QED
        BY <1>2, <2>2, <2>3, <3>3, <3>4 DEF WriteRow, SyncTypeOK, RowType, AtMostOneMore,
           PausedMeansStopped
    <2>4. CASE ~sync.present
      BY <1>2, <2>2, <2>4 DEF WriteRow, SyncTypeOK, AtMostOneMore, PausedMeansStopped, Stop
    <2> QED BY <2>3, <2>4
  <1>3. ASSUME NEW q \in SyncRequests, ReadJob(q) \/ RemoveJob(q) \/ AddJob(q) PROVE IInv'
    <2>1. kind[q] \in Kinds /\ job' \in JobStates
      BY <1>3 DEF ReadJob, RemoveJob, AddJob, SyncTypeOK, JobStates
    <2>2. request' \in [SyncRequests -> RequestPcs]
      BY <1>3, <2>1 DEF ReadJob, RemoveJob, AddJob, SyncTypeOK, RequestPcs, Kinds
    <2> QED
      BY <1>3, <2>1, <2>2 DEF ReadJob, RemoveJob, AddJob, SyncTypeOK, AtMostOneMore,
         PausedMeansStopped, Stop
  <1>4. ASSUME NEW q \in SyncRequests, DropRow(q) PROVE IInv'
    <2> DEFINE row == [sync EXCEPT !.present = FALSE]
    <2>1. row \in RowType /\ SetRow(row) /\ ~row.present
      BY <1>4 DEF DropRow, SyncTypeOK, RowType
    <2>2. /\ sync' \in RowType /\ sync' = row /\ sinceStop' \in Nat /\ sinceStop' <= 1
          /\ workerPc = "apply" /\ Stop' => sinceStop' = 0
      BY <2>1, SetRowKeeps
    <2> HIDE DEF row
    <2> QED
      BY <1>4, <2>1, <2>2 DEF DropRow, SyncTypeOK, RowType, AtMostOneMore, PausedMeansStopped,
         RequestPcs
  <1>5. CASE ConnectionDeleted
    <2> DEFINE row == [sync EXCEPT !.enabled = FALSE, !.pauseRequested = TRUE, !.present = FALSE]
    <2>1. row \in RowType /\ SetRow(row) /\ ~row.present
      BY <1>5 DEF ConnectionDeleted, SyncTypeOK, RowType
    <2>2. /\ sync' \in RowType /\ sync' = row /\ sinceStop' \in Nat /\ sinceStop' <= 1
          /\ workerPc = "apply" /\ Stop' => sinceStop' = 0
      BY <2>1, SetRowKeeps
    <2> HIDE DEF row
    <2> QED
      BY <1>5, <2>1, <2>2 DEF ConnectionDeleted, SyncTypeOK, RowType, AtMostOneMore,
         PausedMeansStopped
  <1> QED
    BY <1>1, <1>2, <1>3, <1>4, <1>5 DEF Serve

\* Every step preserves the invariant.
LEMMA NextIInv == ASSUME IInv, [SyncNext]_syncVars PROVE IInv'
  <1>1. CASE UNCHANGED syncVars
    BY <1>1 DEF syncVars, IInv, SyncTypeOK, AtMostOneMore, PausedMeansStopped, Stop
  <1> QED
    BY <1>1, WorkerKeeps, EnvironmentKeeps, RoutesKeep DEF SyncNext

\* The conjunction is invariant in every behaviour.
THEOREM Invariance == SyncSpec => []IInv
  <1>1. SyncInit => IInv
    BY InitIInv, CdcJobAssumption
  <1>2. IInv /\ [SyncNext]_syncVars => IInv'
    BY NextIInv
  <1> QED
    BY <1>1, <1>2, PTL DEF SyncSpec

\* Type correctness of every reachable state.
THEOREM TypeCorrect == SyncSpec => []SyncTypeOK
  <1>1. IInv => SyncTypeOK
    BY DEF IInv
  <1> QED
    BY <1>1, Invariance, PTL

\* A pause, a disable or a deletion lets at most one further event be applied,
\* whatever requests, failed attempts, retries and crashes come in between.
THEOREM StopTakesEffect == SyncSpec => []StopsAtNextEvent
  <1>1. IInv => StopsAtNextEvent
    BY DEF IInv, AtMostOneMore, StopsAtNextEvent
  <1> QED
    BY <1>1, Invariance, PTL

\* A sync shown as paused is neither streaming nor about to apply an event.
THEOREM PausedStops == SyncSpec => []PausedMeansStopped
  <1>1. IInv => PausedMeansStopped
    BY DEF IInv
  <1> QED
    BY <1>1, Invariance, PTL

-----------------------------------------------------------------------------
(* With the page in front of it: its steps are steps of CdcJob, but for the  *)
(* submission of the form, which brings a row that never ran, and the steps  *)
(* of the form and the list, which leave the sync alone.                     *)


\* The form stands before a sync that was never started.
Fresh == tab = "wizard" => sync.status = "queued"

PInv == IInv /\ Fresh

-----------------------------------------------------------------------------

\* The closed page and the page with its empty form satisfy the invariant.
LEMMA PageInitInv == ASSUME CdcJobAssumption, SyncPageAssumption, PageInit PROVE PInv
  <1>1. sync \in RowType /\ sync.status = "queued"
    BY DEF PageInit, RowType, SyncStatuses
  <1>2. request \in [SyncRequests -> RequestPcs] /\ kind \in [SyncRequests -> Kinds]
    BY DEF PageInit, RequestPcs, Kinds
  <1>3. jobFailures \in Nat
    BY DEF PageInit, CdcJobAssumption, SyncPageAssumption
  <1>4. SyncTypeOK
    BY <1>1, <1>2, <1>3 DEF PageInit, SyncTypeOK, RowType, JobStates, WorkerPcs
  <1> QED
    BY <1>1, <1>4 DEF PageInit, PInv, Fresh, IInv, AtMostOneMore, PausedMeansStopped, Streaming

\* The submitted form brings a row into being whose status is queued.
LEMMA SubmitKeeps == ASSUME PInv, Submit PROVE PInv'
  <1> DEFINE row == [sync EXCEPT !.present = TRUE]
  <1>1. row \in RowType /\ SetRow(row) /\ row.status = "queued" /\ SyncTypeOK /\ AtMostOneMore
    BY DEF Submit, PInv, Fresh, IInv, SyncTypeOK, RowType, SyncStatuses
  <1>2. /\ sync' \in RowType /\ sync' = row /\ sinceStop' \in Nat /\ sinceStop' <= 1
        /\ workerPc = "apply" /\ Stop' => sinceStop' = 0
    BY <1>1, SetRowKeeps
  <1> HIDE DEF row
  <1>3. request' \in [SyncRequests -> RequestPcs]
    BY <1>1 DEF Submit, GoOn, SyncTypeOK, RequestPcs
  <1>4. UNCHANGED <<job, workerPc, seenStop, errors, reporting, kind, jobFailures>> /\ tab' = "active"
    BY DEF Submit, attempt
  <1>5. SyncTypeOK'
    BY <1>1, <1>2, <1>3, <1>4 DEF SyncTypeOK, RowType
  <1>6. AtMostOneMore' /\ PausedMeansStopped'
    BY <1>1, <1>2, <1>4 DEF AtMostOneMore, PausedMeansStopped
  <1> QED
    BY <1>4, <1>5, <1>6 DEF PInv, Fresh, IInv

\* Every other step of the page is a step of CdcJob or leaves it alone.
LEMMA PageStep ==
  ASSUME [PageNext]_<<syncVars, pageVars>>, ~Submit
  PROVE  [SyncNext]_syncVars /\ (tab' = "wizard" => tab = "wizard" /\ UNCHANGED syncVars)
  <1>1. CASE UNCHANGED <<syncVars, pageVars>>
    BY <1>1 DEF pageVars
  <1>2. CASE tab = "closed" /\ (\E q \in SyncRequests : Receive(q)) /\ UNCHANGED pageVars
    BY <1>2 DEF SyncNext, pageVars
  <1>3. CASE tab # "wizard" /\ Server /\ UNCHANGED pageVars
    BY <1>3 DEF Server, SyncNext, pageVars
  <1>4. CASE Choose \/ Type \/ ListJobs
    BY <1>4 DEF Choose, Type, ListJobs
  <1>5. ASSUME NEW q \in SyncRequests, Press(q)
        PROVE  [SyncNext]_syncVars /\ (tab' = "wizard" => tab = "wizard" /\ UNCHANGED syncVars)
    BY <1>5 DEF Press, SyncNext, pageVars
  <1> QED
    BY <1>1, <1>2, <1>3, <1>4, <1>5 DEF PageNext

\* Every step of the page and of the server behind it preserves the invariant.
LEMMA PageStepInv == ASSUME PInv, [PageNext]_<<syncVars, pageVars>> PROVE PInv'
  <1>1. CASE Submit
    BY <1>1, SubmitKeeps
  <1>2. CASE ~Submit
    <2>1. [SyncNext]_syncVars /\ (tab' = "wizard" => tab = "wizard" /\ UNCHANGED syncVars)
      BY <1>2, PageStep
    <2>2. IInv'
      BY <2>1, NextIInv DEF PInv
    <2>3. Fresh'
      BY <2>1 DEF PInv, Fresh, syncVars
    <2> QED
      BY <2>2, <2>3 DEF PInv
  <1> QED
    BY <1>1, <1>2

\* The invariant of CdcJob holds with the page in front of it.
THEOREM PageInvariance == PageSpec => []PInv
  <1>1. PageInit => PInv
    BY PageInitInv, CdcJobAssumption, SyncPageAssumption
  <1>2. PInv /\ [PageNext]_<<syncVars, pageVars>> => PInv'
    BY PageStepInv
  <1> QED
    BY <1>1, <1>2, PTL DEF PageSpec

\* Whatever is pressed on a card that shows the sync as it was some time ago, at most one event
\* is applied after the row says stop (pivot/jobs/cdc-sync.job.ts:307).
THEOREM PageStopTakesEffect == PageSpec => []StopsAtNextEvent
  <1>1. PInv => StopsAtNextEvent
    BY DEF PInv, IInv, AtMostOneMore, StopsAtNextEvent
  <1> QED
    BY <1>1, PageInvariance, PTL

\* Nor is a sync the page created streaming while its status is paused.
THEOREM PagePausedStops == PageSpec => []PausedMeansStopped
  <1>1. PInv => PausedMeansStopped
    BY DEF PInv, IInv
  <1> QED
    BY <1>1, PageInvariance, PTL

=============================================================================
