---------------------------- MODULE MigrationRun ----------------------------
(***************************************************************************)
(* One run of a cross-engine migration: its row (migrationRunV2), its       *)
(* BullMQ job, the worker of pivot/migration/worker.ts, the pipeline of     *)
(* pipeline.ts with its parallel lanes, the three writers, and the run,     *)
(* cancel and delete routes of pivot/routes/migration-v2.ts.                *)
(*                                                                         *)
(* The lanes are async functions of one process: they share the queue of    *)
(* namespaces and the summary, and interleave at their awaits.  A row is a  *)
(* number; what matters of the destination is how often a row has landed    *)
(* and whether a row with its key was there before.                         *)
(*                                                                         *)
(* BullMQ is external: the job has one attempt; the job of a process that   *)
(* died is handed out again once, and fails the second time.                *)
(***************************************************************************)
EXTENDS Integers, FiniteSets

CONSTANTS
    Namespaces,  \* tables or collections of the source
    Size,        \* number of rows of each
    BatchSize,   \* job.batchSize
    Lanes,       \* job.parallelism async workers
    MaxFaults,   \* bound on rejected rows and thrown errors, in events
    MaxStalls    \* bound on deaths of the process

ASSUME MigrationRunAssumption ==
    /\ Size \in [Namespaces -> Nat]
    /\ BatchSize \in Nat \ {0}
    /\ Lanes # {}
    /\ MaxFaults \in Nat /\ MaxStalls \in Nat

VARIABLES
    run,      \* the row: [present, phase, cancelRequested]
    plan,     \* what the job asks for: [writer, dropExisting, keyed, dryRun]
    job,      \* state of the BullMQ job
    worker,   \* program counter of runMigrationJob
    queue,    \* namespaces no lane has taken
    lane,     \* what each lane does
    summary,  \* MigrationSummary of the attempt
    dest,     \* per row of each namespace: [old, copies]
    faults, stalls

vars == <<run, plan, job, worker, queue, lane, summary, dest, faults, stalls>>

Writers == {"postgres", "mysql", "mongo"}
Terminal == {"succeeded", "partial", "failed"}
Phases == {"queued", "running"} \cup Terminal
Jobs == {"none", "waiting", "active", "completed", "failed"}
WorkerPcs == {"idle", "find", "mark", "plan", "list", "lanes", "flush", "finish", "fail"}
LanePcs == {"idle", "infer", "init", "write", "finalize"}

RowsOf(n) == 1..Size[n]
Missing == [copies |-> 0, old |-> 0]
NoLane == [pc |-> "idle", ns |-> {}, next |-> 1, written |-> 0, failed |-> 0,
           writtenBefore |-> 0, failedBefore |-> 0]
NoSummary == [succeeded |-> 0, failed |-> 0, totalWritten |-> 0, totalFailed |-> 0,
              errors |-> {}]

\* The run has been created; the destination is empty or holds every row of one namespace.
Init ==
    /\ run = [present |-> TRUE, phase |-> "queued", cancelRequested |-> FALSE]
    /\ plan \in [writer : Writers, dropExisting : BOOLEAN, keyed : BOOLEAN, dryRun : BOOLEAN]
    /\ plan.writer = "mongo" => plan.keyed
    /\ job = "none"
    /\ worker = "idle"
    /\ queue = {}
    /\ lane = [l \in Lanes |-> NoLane]
    /\ summary = NoSummary
    /\ \E filled \in {{}} \cup {{n} : n \in Namespaces} :
         dest = [n \in Namespaces |-> [r \in RowsOf(n) |->
                    [old |-> IF n \in filled THEN 1 ELSE 0, copies |-> 0]]]
    /\ faults = 0 /\ stalls = 0

Fault == /\ faults < MaxFaults
         /\ faults' = faults + 1

-----------------------------------------------------------------------------
(* The routes.                                                               *)

\* POST /jobs/:id/run, after the row was created.
Enqueue ==
    /\ job = "none" /\ run.phase = "queued" /\ run.present
    /\ job' = "waiting"
    /\ UNCHANGED <<run, plan, worker, queue, lane, summary, dest, faults, stalls>>

\* A run in phase partial is not refused: the route's list of final phases lacks it.
Cancel ==
    /\ run.present /\ run.phase \notin {"succeeded", "failed", "cancelled"}
    /\ run' = [run EXCEPT !.cancelRequested = TRUE]
    /\ UNCHANGED <<plan, job, worker, queue, lane, summary, dest, faults, stalls>>

\* DELETE /jobs/:id cascades to the runs; the BullMQ job stays.
DeleteJob ==
    /\ run.present
    /\ run' = [run EXCEPT !.present = FALSE]
    /\ UNCHANGED <<plan, job, worker, queue, lane, summary, dest, faults, stalls>>

-----------------------------------------------------------------------------
(* The worker.                                                               *)

Ends(state) == /\ worker' = "idle"
               /\ job' = state

Pick ==
    /\ job = "waiting" /\ worker = "idle"
    /\ job' = "active"
    /\ worker' = "find"
    /\ UNCHANGED <<run, plan, queue, lane, summary, dest, faults, stalls>>

\* findUniqueOrThrow.
Find ==
    /\ worker = "find"
    /\ IF run.present THEN worker' = "mark" /\ UNCHANGED job ELSE Ends("failed")
    /\ UNCHANGED <<run, plan, queue, lane, summary, dest, faults, stalls>>

\* Outside the try: an update of a deleted row fails the job.
MarkRunning ==
    /\ worker = "mark"
    /\ IF run.present
       THEN /\ run' = [run EXCEPT !.phase = "running"]
            /\ worker' = "plan"
            /\ UNCHANGED job
       ELSE Ends("failed") /\ UNCHANGED run
    /\ UNCHANGED <<plan, queue, lane, summary, dest, faults, stalls>>

\* A missing job, connection or engine pair ends in the fail path.
BuildPlan ==
    /\ worker = "plan"
    /\ \/ run.present /\ worker' = "list" /\ UNCHANGED faults
       \/ ~run.present /\ worker' = "fail" /\ UNCHANGED faults
       \/ Fault /\ worker' = "fail"
    /\ UNCHANGED <<run, plan, job, queue, lane, summary, dest, stalls>>

ListNamespaces ==
    /\ worker = "list"
    /\ \/ /\ worker' = "lanes"
          /\ queue' = Namespaces
          /\ summary' = NoSummary
          /\ UNCHANGED faults
       \/ Fault /\ worker' = "fail" /\ UNCHANGED <<queue, summary>>
    /\ lane' = [l \in Lanes |-> NoLane]
    /\ UNCHANGED <<run, plan, job, dest, stalls>>

-----------------------------------------------------------------------------
(* A lane: runOne and migrateNamespace.                                      *)

Busy == worker = "lanes"

Take(l) ==
    /\ Busy /\ lane[l].pc = "idle"
    /\ \E n \in queue :
         /\ queue' = queue \ {n}
         /\ lane' = [lane EXCEPT ![l] = [NoLane EXCEPT !.pc = "infer", !.ns = {n},
                         !.writtenBefore = summary.totalWritten,
                         !.failedBefore = summary.totalFailed]]
    /\ UNCHANGED <<run, plan, job, worker, summary, dest, faults, stalls>>

\* The counters of a namespace that did not throw: the differences include what other
\* lanes added to the totals meanwhile.
Counted(l, s) ==
    LET rowsFailed == s.totalFailed - lane[l].failedBefore
        rowsWritten == s.totalWritten - lane[l].writtenBefore
    IN  IF rowsFailed > 0
        THEN [IF rowsWritten = 0 THEN [s EXCEPT !.failed = @ + 1]
                                 ELSE [s EXCEPT !.succeeded = @ + 1]
              EXCEPT !.errors = @ \cup lane[l].ns]
        ELSE [s EXCEPT !.succeeded = @ + 1]

\* A dry run stops after the schema.
Infer(l) ==
    /\ Busy /\ lane[l].pc = "infer"
    /\ IF plan.dryRun
       THEN /\ summary' = Counted(l, summary)
            /\ lane' = [lane EXCEPT ![l] = NoLane]
       ELSE /\ lane' = [lane EXCEPT ![l].pc = "init"]
            /\ UNCHANGED summary
    /\ UNCHANGED <<run, plan, job, worker, queue, dest, faults, stalls>>

\* Mutant: IF NOT EXISTS alone.
InitDestinationMutant(l) ==
    /\ Busy /\ lane[l].pc = "init"
    /\ lane' = [lane EXCEPT ![l].pc = "write"]
    /\ UNCHANGED <<run, plan, job, worker, queue, summary, dest, faults, stalls>>

\* writer.init: DROP when asked, CREATE IF NOT EXISTS otherwise.
InitDestination(l) ==
    /\ Busy /\ lane[l].pc = "init"
    /\ dest' = IF plan.dropExisting
               THEN [n \in Namespaces |-> IF n \in lane[l].ns
                        THEN [r \in RowsOf(n) |-> Missing] ELSE dest[n]]
               ELSE dest
    /\ lane' = [lane EXCEPT ![l].pc = "write"]
    /\ UNCHANGED <<run, plan, job, worker, queue, summary, faults, stalls>>

\* The rows of the batch the lane flushes next.
Batch(l) == {r \in UNION {RowsOf(n) : n \in lane[l].ns} :
                lane[l].next <= r /\ r < lane[l].next + BatchSize}

Present(n, r) == dest[n][r].old + dest[n][r].copies > 0

\* What lands of a batch of n when the server objects to the rows `bad`, beside those
\* whose key is taken: COPY is all or nothing, MySQL inserts in chunks (of one row
\* here), insertMany is unordered.
Lands(n, batch, bad) ==
    LET refused == bad \cup {r \in batch : plan.keyed /\ Present(n, r)}
    IN  IF plan.writer = "postgres" /\ refused # {} THEN {} ELSE batch \ refused

\* Mongo counts a taken key as skipped.
Lost(n, batch, bad) ==
    IF plan.writer = "mongo" THEN bad \ {r \in batch : Present(n, r)}
    ELSE batch \ Lands(n, batch, bad)

\* runOne's catch: counts of the namespace so far are dropped with the stack.
Thrown(l) == /\ summary' = [summary EXCEPT !.failed = @ + 1, !.errors = @ \cup lane[l].ns]
             /\ lane' = [lane EXCEPT ![l] = NoLane]

\* One flush.  The MySQL writer throws when no row of the batch landed.
WriteBatch(l) ==
    /\ Busy /\ lane[l].pc = "write" /\ Batch(l) # {}
    /\ \E n \in lane[l].ns, bad \in SUBSET Batch(l) :
         LET in == Lands(n, Batch(l), bad)
             lost == Lost(n, Batch(l), bad)
         IN  /\ IF bad = {} THEN UNCHANGED faults ELSE Fault
             /\ dest' = [dest EXCEPT ![n] = [r \in RowsOf(n) |->
                           IF r \in in THEN [dest[n][r] EXCEPT !.copies = @ + 1] ELSE dest[n][r]]]
             /\ IF plan.writer = "mysql" /\ in = {}
                THEN Thrown(l)
                ELSE /\ lane' = [lane EXCEPT ![l].next = @ + BatchSize,
                                   ![l].written = @ + Cardinality(in),
                                   ![l].failed = @ + Cardinality(lost)]
                     /\ UNCHANGED summary
    /\ UNCHANGED <<run, plan, job, worker, queue, stalls>>

Finalize(l) ==
    /\ Busy /\ lane[l].pc = "write" /\ Batch(l) = {}
    /\ lane' = [lane EXCEPT ![l].pc = "finalize"]
    /\ UNCHANGED <<run, plan, job, worker, queue, summary, dest, faults, stalls>>

\* Only now do the namespace's counts reach the totals.
CountNamespace(l) ==
    /\ Busy /\ lane[l].pc = "finalize"
    /\ summary' = Counted(l, [summary EXCEPT
                        !.totalWritten = @ + lane[l].written,
                        !.totalFailed = @ + lane[l].failed])
    /\ lane' = [lane EXCEPT ![l] = NoLane]
    /\ UNCHANGED <<run, plan, job, worker, queue, dest, faults, stalls>>

\* Any await of a namespace may reject.
Throw(l) ==
    /\ Busy /\ lane[l].pc \in {"infer", "init", "write", "finalize"}
    /\ Fault
    /\ Thrown(l)
    /\ UNCHANGED <<run, plan, job, worker, queue, dest, stalls>>

-----------------------------------------------------------------------------
(* The end of the run.                                                       *)

AllLanesDone ==
    /\ Busy /\ queue = {} /\ \A l \in Lanes : lane[l].pc = "idle"
    /\ worker' = "flush"
    /\ UNCHANGED <<run, plan, job, queue, lane, summary, dest, faults, stalls>>

\* Mutant: only namespaces that threw count.
PhaseOfMutant(s) ==
    IF s.failed = s.succeeded + s.failed /\ s.failed > 0 THEN "failed"
    ELSE IF s.failed > 0 THEN "partial" ELSE "succeeded"

PhaseOf(s) ==
    IF s.failed = s.succeeded + s.failed /\ s.failed > 0 THEN "failed"
    ELSE IF s.failed > 0 \/ s.errors # {} \/ s.totalFailed > 0 THEN "partial"
    ELSE "succeeded"

\* persistProgress swallows its errors.
FlushProgress ==
    /\ worker = "flush"
    /\ worker' = "finish"
    /\ UNCHANGED <<run, plan, job, queue, lane, summary, dest, faults, stalls>>

\* The catch path finalises as failed, and fails the job when that is rejected too.
Finalise ==
    /\ worker = "finish"
    /\ \/ /\ run.present
          /\ run' = [run EXCEPT !.phase = PhaseOf(summary)]
          /\ Ends("completed")
          /\ UNCHANGED faults
       \/ ~run.present /\ worker' = "fail" /\ UNCHANGED <<run, job, faults>>
       \/ Fault /\ worker' = "fail" /\ UNCHANGED <<run, job>>
    /\ UNCHANGED <<plan, queue, lane, summary, dest, stalls>>

\* Mutant: a rejected update is swallowed, as persistProgress does.
FinaliseFailedMutant ==
    /\ worker = "fail"
    /\ \/ /\ run.present
          /\ run' = [run EXCEPT !.phase = "failed"]
          /\ UNCHANGED faults
       \/ ~run.present /\ UNCHANGED <<run, faults>>
       \/ Fault /\ UNCHANGED run
    /\ Ends("completed")
    /\ UNCHANGED <<plan, queue, lane, summary, dest, stalls>>

FinaliseFailed ==
    /\ worker = "fail"
    /\ \/ /\ run.present
          /\ run' = [run EXCEPT !.phase = "failed"]
          /\ Ends("completed")
          /\ UNCHANGED faults
       \/ ~run.present /\ Ends("failed") /\ UNCHANGED <<run, faults>>
       \/ Fault /\ Ends("failed") /\ UNCHANGED run
    /\ UNCHANGED <<plan, queue, lane, summary, dest, stalls>>

\* The process dies; BullMQ finds the job stalled: once it waits again, then it fails.
Stall ==
    /\ stalls < MaxStalls /\ job = "active"
    /\ stalls' = stalls + 1
    /\ Ends(IF stalls = 0 THEN "waiting" ELSE "failed")
    /\ queue' = {}
    /\ lane' = [l \in Lanes |-> NoLane]
    /\ UNCHANGED <<run, plan, summary, dest, faults>>

LaneStep(l) ==
    \/ Take(l) \/ Infer(l) \/ InitDestination(l) \/ WriteBatch(l)
    \/ Finalize(l) \/ CountNamespace(l)

WorkerStep ==
    \/ Pick \/ Find \/ MarkRunning \/ BuildPlan \/ ListNamespaces
    \/ AllLanesDone \/ FlushProgress \/ Finalise \/ FinaliseFailed
    \/ \E l \in Lanes : LaneStep(l)

Next ==
    \/ Enqueue \/ Cancel \/ DeleteJob
    \/ WorkerStep
    \/ \E l \in Lanes : Throw(l)
    \/ Stall

Spec == Init /\ [][Next]_vars

\* Awaits settle; one process serves the queue.
MigrationFairness == WF_vars(WorkerStep)

-----------------------------------------------------------------------------
TypeOK ==
    /\ run \in [present : BOOLEAN, phase : Phases, cancelRequested : BOOLEAN]
    /\ plan \in [writer : Writers, dropExisting : BOOLEAN, keyed : BOOLEAN, dryRun : BOOLEAN]
    /\ job \in Jobs
    /\ worker \in WorkerPcs
    /\ queue \subseteq Namespaces
    /\ \A l \in Lanes : /\ lane[l].pc \in LanePcs
                        /\ lane[l].ns \subseteq Namespaces
                        /\ lane[l].next \in Nat
                        /\ lane[l].written \in Nat /\ lane[l].failed \in Nat
    /\ summary.errors \subseteq Namespaces
    /\ faults \in 0..MaxFaults /\ stalls \in 0..MaxStalls

\* A run reported as succeeded lost nothing: every row of every namespace has landed, or
\* (Mongo only) was skipped because its key was in the destination before the run.  The
\* losses have to survive five hand-overs: writer result, lane counters, totals, the
\* differences taken by parallel lanes, and the phase.
SucceededLostNothing ==
    run.phase = "succeeded" /\ ~plan.dryRun =>
        \A n \in Namespaces : \A r \in RowsOf(n) :
            \/ dest[n][r].copies > 0
            \/ plan.writer = "mongo" /\ dest[n][r].old > 0

\* A row lands twice only where nothing identifies it: in a table without a key, not
\* dropped first, after the job of a dead process was handed out again.
CopiedOnce ==
    plan.keyed \/ plan.dropExisting \/ stalls = 0 =>
        \A n \in Namespaces : \A r \in RowsOf(n) : dest[n][r].copies <= 1

\* A run that was enqueued ends: its row in a final phase, or its job failed (the row
\* was deleted, the database refused, or the process died twice).
RunEnds == job = "waiting" ~> (run.phase \in Terminal \/ job = "failed")

=============================================================================
