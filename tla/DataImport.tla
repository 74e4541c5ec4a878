----------------------------- MODULE DataImport -----------------------------
(***************************************************************************)
(* Importing data into one database: the wizard of app/import/page.jsx and  *)
(* the Import tab of app/databases/[id]/page.jsx, the import and status     *)
(* routes of routes/databases.js, the job table of importJobs.js, the       *)
(* worker threads of importRunner.js, and the importers of dataImport.js,   *)
(* which either page may start again on the same target.                    *)
(*                                                                         *)
(* The two pages poll in the same way: an interval for each import, of      *)
(* which the page remembers the last and clears no other.  The tab's field  *)
(* for a source's URL takes the Enter key also while an import is busy.     *)
(*                                                                         *)
(* An import's file is a number of batches; a kind says how it is loaded:   *)
(* json and csv documents are appended, a csv table and a copied collection *)
(* are dropped and filled, a mongodump archive and a pg_dump are copied to  *)
(* one path of the container and loaded from there.  A json or csv file     *)
(* without a record is a kind of its own.                                   *)
(***************************************************************************)
EXTENDS Integers, FiniteSets

CONSTANTS
    MaxImports,       \* bound on the imports started, numbered in that order
    Batches,          \* batches of a file
    MaxMisses,        \* consecutive failing polls a page tolerates
    MaxImportFaults   \* bound, for each page, on failing statements, lost answers and crashes

Forms == {"wizard", "tab"}

ASSUME DataImportAssumption ==
    /\ MaxImports \in Nat \ {0} /\ Batches \in Nat \ {0}
    /\ MaxMisses \in Nat \ {0} /\ MaxImportFaults \in [Forms -> Nat]

VARIABLES
    kind,         \* how the files are loaded
    jobTable,     \* status of each import's entry in the job table
    crew,         \* the worker thread of each: [pc, next]
    table,        \* the target: [there, rows], rows <<import, batch>>; import 0 was there
    staged,       \* what is at the container's path: {} nothing, {0} empty, {i} i's file
    form,         \* the page in use: "wizard" or "tab"
    wizard,       \* its state: [last, busy, posting, ticking, current, misses, shown]
    polls,        \* status requests in flight: [of, answer]
    importFaults,
    disturbed     \* history: imports that ran while or before another one did

importVars == <<kind, form, jobTable, crew, table, staged, wizard, polls, importFaults, disturbed>>

Imports == 1..MaxImports
Kinds == {"append", "table", "copy", "zip", "sql", "empty"}
Replacing == {"table", "copy", "zip"}
RowsOfImport(i) == IF kind = "empty" THEN {} ELSE {i} \X (1..Batches)
OldRows == {<<0, 1>>}

FirstStep == CASE kind \in {"append", "empty"} -> "insert" [] kind \in {"table", "copy"} -> "drop"
               [] kind = "zip" -> "clear" [] kind = "sql" -> "stage"

ImportInit ==
    /\ kind \in Kinds
    /\ jobTable = [i \in Imports |-> "none"]
    /\ crew = [i \in Imports |-> [pc |-> "idle", next |-> 1]]
    /\ table = [there |-> TRUE, rows |-> OldRows]
    /\ staged = {}
    /\ form \in Forms
    /\ wizard = [last |-> 0, busy |-> FALSE, posting |-> {}, ticking |-> {}, current |-> 0,
                 misses |-> [i \in Imports |-> 0], shown |-> "none"]
    /\ polls = {}
    /\ importFaults = 0 /\ disturbed = {}

ImportFault == /\ importFaults < MaxImportFaults[form]
               /\ importFaults' = importFaults + 1

-----------------------------------------------------------------------------
(* The pages and the routes.                                                 *)

Begun(i) == [wizard EXCEPT !.last = i, !.busy = TRUE, !.posting = @ \cup {i}, !.shown = "none"]

\* onImport of the wizard: the button is there whenever no import is busy, also after
\* "Import another", "Start over" and "Back".
StartImport ==
    /\ form = "wizard" /\ ~wizard.busy /\ wizard.last < MaxImports
    /\ wizard' = Begun(wizard.last + 1)
    /\ UNCHANGED <<kind, form, jobTable, crew, table, staged, polls, importFaults, disturbed>>

\* onImport of the tab: its button is disabled while an import is busy.
Upload ==
    /\ form = "tab" /\ kind # "copy" /\ ~wizard.busy /\ wizard.last < MaxImports
    /\ wizard' = Begun(wizard.last + 1)
    /\ UNCHANGED <<kind, form, jobTable, crew, table, staged, polls, importFaults, disturbed>>

\* onMongoUrlImport: its button is disabled then, the Enter key is not.
PasteUrl ==
    /\ form = "tab" /\ kind = "copy" /\ wizard.last < MaxImports
    /\ wizard' = Begun(wizard.last + 1)
    /\ UNCHANGED <<kind, form, jobTable, crew, table, staged, polls, importFaults, disturbed>>

Running == {i \in Imports : crew[i].pc # "idle"}

\* POST /:id/import: a job is created and a worker thread spawned; nothing is awaited.
AcceptImport(i) ==
    /\ i \in wizard.posting /\ jobTable[i] = "none"
    /\ jobTable' = [jobTable EXCEPT ![i] = "running"]
    /\ crew' = [crew EXCEPT ![i] = [pc |-> FirstStep, next |-> 1]]
    /\ disturbed' = disturbed \cup {j \in Imports : jobTable[j] # "none"}
                              \cup (IF Running = {} THEN {} ELSE {i})
    /\ UNCHANGED <<kind, form, table, staged, wizard, polls, importFaults>>

\* The answer names the job; the page starts an interval that polls it.  An interval that
\* is still there goes on: the page has forgotten how to clear it.
TrackImport(i) ==
    /\ i \in wizard.posting /\ jobTable[i] # "none"
    /\ wizard' = [wizard EXCEPT !.posting = @ \ {i}, !.ticking = @ \cup {i}, !.current = i]
    /\ UNCHANGED <<kind, form, jobTable, crew, table, staged, polls, importFaults, disturbed>>

\* The request is refused, or its answer is lost while the import may be running.
LoseImport(i) ==
    /\ i \in wizard.posting
    /\ ImportFault
    /\ wizard' = [wizard EXCEPT !.posting = @ \ {i}, !.busy = FALSE, !.shown = "error"]
    /\ UNCHANGED <<kind, form, jobTable, crew, table, staged, polls, disturbed>>

\* An interval fires every second, whether or not its last poll was answered.
SendPoll(i) ==
    /\ i \in wizard.ticking /\ Cardinality(polls) < 2
    /\ [of |-> i, answer |-> "awaited"] \notin polls
    /\ polls' = polls \cup {[of |-> i, answer |-> "awaited"]}
    /\ UNCHANGED <<kind, form, jobTable, crew, table, staged, wizard, importFaults, disturbed>>

\* GET /:id/import/:jobId/status, or a request that fails on the way.
AnswerPoll ==
    /\ \E p \in polls :
         /\ p.answer = "awaited"
         /\ \/ /\ polls' = (polls \ {p}) \cup {[p EXCEPT !.answer = jobTable[p.of]]}
               /\ UNCHANGED importFaults
            \/ /\ polls' = (polls \ {p}) \cup {[p EXCEPT !.answer = "miss"]}
               /\ ImportFault
    /\ UNCHANGED <<kind, form, jobTable, crew, table, staged, wizard, disturbed>>

\* The interval that is cleared is the page's current one, whichever import was polled.
Stopped(shown) ==
    [wizard EXCEPT !.ticking = @ \ {wizard.current}, !.busy = FALSE, !.shown = shown]

\* An answer is handled also when the interval that asked has been cleared meanwhile; every
\* interval counts its own misses.
DeliverPoll ==
    /\ \E p \in polls :
         /\ p.answer # "awaited"
         /\ polls' = polls \ {p}
         /\ LET missed == wizard.misses[p.of] + 1 IN
            wizard' =
              CASE p.answer = "done" -> Stopped("result")
                [] p.answer \in {"error", "gone"} \/ (p.answer = "miss" /\ missed = MaxMisses) ->
                     Stopped("error")
                [] p.answer = "running" -> [wizard EXCEPT !.misses[p.of] = 0]
                [] p.answer = "miss" /\ missed < MaxMisses -> [wizard EXCEPT !.misses[p.of] = missed]
    /\ UNCHANGED <<kind, form, jobTable, crew, table, staged, importFaults, disturbed>>

-----------------------------------------------------------------------------
(* A worker thread.                                                          *)

Advance(i, pc) == crew' = [crew EXCEPT ![i].pc = pc]

\* The pc of a failing importer: psql's cleans the path it was given, once the copy is there.
Failed(i) == IF kind = "sql" /\ crew[i].pc # "stage" THEN "wipeFailed" ELSE "error"

DropTarget(i) ==
    /\ crew[i].pc = "drop"
    /\ table' = [there |-> FALSE, rows |-> {}]
    /\ Advance(i, IF kind = "table" THEN "create" ELSE "insert")
    /\ UNCHANGED <<kind, form, jobTable, staged, wizard, polls, importFaults, disturbed>>

\* CREATE TABLE fails when another import has created it in between.
CreateTarget(i) ==
    /\ crew[i].pc = "create"
    /\ IF table.there
         THEN /\ Advance(i, Failed(i))
              /\ UNCHANGED table
         ELSE /\ Advance(i, "insert")
              /\ table' = [table EXCEPT !.there = TRUE]
    /\ UNCHANGED <<kind, form, jobTable, staged, wizard, polls, importFaults, disturbed>>

\* A Mongo collection is created by the first insert; a copied batch has the _ids of the
\* source, which another copy may have inserted; a table must be there.
Accepts(i) ==
    /\ kind = "table" => table.there
    /\ kind = "copy" => ~\E j \in Imports : <<j, crew[i].next>> \in table.rows

\* Also the csv that would replace a table leaves it as it is.
FindNothing(i) ==
    /\ crew[i].pc = "insert" /\ kind = "empty"
    /\ Advance(i, "done")
    /\ UNCHANGED <<kind, form, jobTable, table, staged, wizard, polls, importFaults, disturbed>>

InsertBatch(i) ==
    /\ crew[i].pc = "insert" /\ kind # "empty"
    /\ IF ~Accepts(i)
         THEN /\ Advance(i, Failed(i))
              /\ UNCHANGED table
         ELSE /\ table' = [there |-> TRUE, rows |-> table.rows \cup {<<i, crew[i].next>>}]
              /\ crew' = [crew EXCEPT ![i].next = @ + 1,
                                      ![i].pc = IF crew[i].next = Batches THEN "done" ELSE @]
    /\ UNCHANGED <<kind, form, jobTable, staged, wizard, polls, importFaults, disturbed>>

\* rm -rf and mkdir of the directory all archive imports share.
ClearStage(i) ==
    /\ crew[i].pc = "clear"
    /\ staged' = {0}
    /\ Advance(i, "stage")
    /\ UNCHANGED <<kind, form, jobTable, table, wizard, polls, importFaults, disturbed>>

\* docker cp.
StageFile(i) ==
    /\ crew[i].pc = "stage"
    /\ staged' = {i}
    /\ Advance(i, "load")
    /\ UNCHANGED <<kind, form, jobTable, table, wizard, polls, importFaults, disturbed>>

StagedRows == UNION {RowsOfImport(j) : j \in staged \ {0}}

LoadStagedMutant(i) ==
    /\ crew[i].pc = "load"
    /\ table' = [there |-> TRUE, rows |-> table.rows \cup StagedRows]
    /\ Advance(i, "wipe")
    /\ UNCHANGED <<kind, form, jobTable, staged, wizard, polls, importFaults, disturbed>>

\* mongorestore --drop, or psql, of whatever is at the path now.
LoadStaged(i) ==
    /\ crew[i].pc = "load"
    /\ IF StagedRows = {}
         THEN /\ Advance(i, Failed(i))
              /\ UNCHANGED table
         ELSE /\ table' = [there |-> TRUE,
                           rows |-> IF kind = "zip" THEN StagedRows
                                    ELSE table.rows \cup StagedRows]
              /\ Advance(i, "wipe")
    /\ UNCHANGED <<kind, form, jobTable, staged, wizard, polls, importFaults, disturbed>>

\* That the path could not be removed goes unnoticed.
WipeStage(i) ==
    /\ crew[i].pc \in {"wipe", "wipeFailed"}
    /\ \/ staged' = {} /\ UNCHANGED importFaults
       \/ ImportFault /\ UNCHANGED staged
    /\ Advance(i, IF crew[i].pc = "wipe" THEN "done" ELSE "error")
    /\ UNCHANGED <<kind, form, jobTable, table, wizard, polls, disturbed>>

\* A statement or tool fails, or the thread dies of its heap limit.
BreakImport(i) ==
    /\ crew[i].pc \notin {"idle", "done", "error", "wipeFailed"}
    /\ ImportFault
    /\ \/ Advance(i, Failed(i))
       \/ Advance(i, "exit")
    /\ UNCHANGED <<kind, form, jobTable, table, staged, wizard, polls, disturbed>>

ReportImportMutant(i) ==
    /\ crew[i].pc \in {"done", "error", "exit"}
    /\ jobTable' = [jobTable EXCEPT ![i] = IF crew[i].pc = "exit" THEN @ ELSE crew[i].pc]
    /\ Advance(i, "idle")
    /\ UNCHANGED <<kind, form, table, staged, wizard, polls, importFaults, disturbed>>

\* The thread's message, or its exit code, settles the job.
ReportImport(i) ==
    /\ crew[i].pc \in {"done", "error", "exit"}
    /\ jobTable' = [jobTable EXCEPT ![i] = IF crew[i].pc = "done" THEN "done" ELSE "error"]
    /\ Advance(i, "idle")
    /\ UNCHANGED <<kind, form, table, staged, wizard, polls, importFaults, disturbed>>

\* scheduleCleanup removes a settled job ten minutes later.
ExpireImport(i) ==
    /\ jobTable[i] \in {"done", "error"}
    /\ jobTable' = [jobTable EXCEPT ![i] = "gone"]
    /\ UNCHANGED <<kind, form, crew, table, staged, wizard, polls, importFaults, disturbed>>

\* The process dies with its job table and its threads; what was asked of it fails.
ImportCrash ==
    /\ ImportFault
    /\ jobTable' = [i \in Imports |-> IF i <= wizard.last THEN "gone" ELSE "none"]
    /\ crew' = [i \in Imports |-> [pc |-> "idle", next |-> 1]]
    /\ polls' = {p \in polls : p.answer # "awaited"}
    /\ wizard' = IF wizard.posting = {} THEN wizard
                 ELSE [wizard EXCEPT !.posting = {}, !.busy = FALSE, !.shown = "error"]
    /\ UNCHANGED <<kind, form, table, staged, disturbed>>

ImportStep(i) ==
    \/ AcceptImport(i) \/ TrackImport(i)
    \/ DropTarget(i) \/ CreateTarget(i) \/ FindNothing(i) \/ InsertBatch(i) \/ ClearStage(i)
    \/ StageFile(i) \/ LoadStaged(i) \/ WipeStage(i) \/ ReportImport(i)

ImportNext ==
    \/ StartImport \/ Upload \/ PasteUrl \/ AnswerPoll \/ DeliverPoll \/ ImportCrash
    \/ \E i \in Imports : \/ ImportStep(i) \/ SendPoll(i) \/ LoseImport(i) \/ BreakImport(i)
                          \/ ExpireImport(i)

\* The threads run, requests are answered, timers fire.
ImportFairness ==
    /\ \A i \in Imports : WF_importVars(ImportStep(i)) /\ WF_importVars(SendPoll(i))
    /\ WF_importVars(AnswerPoll) /\ WF_importVars(DeliverPoll)

-----------------------------------------------------------------------------
ImportTypeOK ==
    /\ kind \in Kinds
    /\ jobTable \in [Imports -> {"none", "running", "done", "error", "gone"}]
    /\ crew \in [Imports -> [pc : {"idle", "drop", "create", "insert", "clear", "stage", "load",
                                   "wipe", "wipeFailed", "done", "error", "exit"},
                             next : 1..(Batches + 1)]]
    /\ table.rows \subseteq OldRows \cup (Imports \X (1..Batches))
    /\ staged \in {{}} \cup {{i} : i \in 0..MaxImports}
    /\ form \in Forms
    /\ wizard \in [last : 0..MaxImports, busy : BOOLEAN, posting : SUBSET Imports,
                   ticking : SUBSET Imports, current : 0..MaxImports,
                   misses : [Imports -> 0..(MaxMisses - 1)], shown : {"none", "result", "error"}]

\* An import reported as done has left every batch of its file in the target, alone when
\* its kind replaces the target and beside what was there when it appends, unless another
\* import ran at the same time or was started since (dataImport.js: nothing keeps two
\* imports of one database apart, and two of them share a path in its container).
DoneImportLanded ==
    \A i \in Imports :
        jobTable[i] = "done" /\ i \notin disturbed
            => /\ RowsOfImport(i) \subseteq table.rows
               /\ IF kind \in Replacing THEN table.rows = RowsOfImport(i)
                  ELSE OldRows \subseteq table.rows

\* The page does not stay busy: it ends with a result or an error, whatever becomes of the
\* import, of its worker thread, of the process that ran it, of the polls, and of the
\* intervals of other imports that the page has forgotten.
ImportReported == wizard.busy ~> ~wizard.busy

=============================================================================
