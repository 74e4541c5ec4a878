---------------------------- MODULE ProtectPage ----------------------------
(***************************************************************************)
(* The Backup Jobs tab of Protect.tsx over module Backups: the buttons of a *)
(* job's card, and the dialogs they open, each of which covers the page.    *)
(*                                                                         *)
(* A dialog keeps what the page showed when it was opened: the schedule     *)
(* being edited, the run to restore, which retention or another client may  *)
(* have changed since.  A restore that was accepted is watched in a drawer, *)
(* whose query stops asking once it has seen the restore end.  A dialog     *)
(* cancelled while its request is under way is only hidden: the drawer      *)
(* opens when the answer comes, over whatever was opened meanwhile.         *)
(*                                                                         *)
(* With the page closed the requests are those of any other client.  The    *)
(* list, the run history, the catalog and downloads read only.              *)
(***************************************************************************)
EXTENDS Backups

VARIABLES
    pageOpen,
    dialog,    \* what covers the page: [name, schedule, run, sure]
    starting,  \* restore requests the page waits for
    drawer     \* the restore that is watched: [ask, seen]

protectVars == <<pageOpen, dialog, starting, drawer>>

Dialogs == {"none", "schedule", "delete", "restore"}
NoDialog == [name |-> "none", schedule |-> NoAdmin.schedule, run |-> 0, sure |-> FALSE]
NoDrawer == [ask |-> {}, seen |-> "none"]
Ended == {"success", "failed"}

ProtectInit ==
    /\ BackupsInit
    /\ pageOpen \in BOOLEAN
    /\ dialog = NoDialog /\ starting = {} /\ drawer = NoDrawer

Shows(name) == pageOpen /\ dialog.name = name
Clear == Shows("none") /\ drawer = NoDrawer

-----------------------------------------------------------------------------
(* The card of the job; it lists the newest successful runs, the history all.  *)

\* The button is disabled while the row says that the last run is running.
RunNow ==
    /\ Clear /\ backupJob.present
    /\ \A r \in Runs : runs[r].status # "running"
    /\ Trigger
    /\ UNCHANGED protectVars

\* The PATCH names the status only.
TogglePause(q) ==
    /\ Clear /\ backupJob.present
    /\ PatchTo(q, backupJob.schedule, ~backupJob.active)
    /\ UNCHANGED protectVars

OpenDialog ==
    /\ Clear /\ backupJob.present
    /\ dialog' \in
         {[NoDialog EXCEPT !.name = "schedule", !.schedule = backupJob.schedule],
          [NoDialog EXCEPT !.name = "delete"]}
         \cup {[NoDialog EXCEPT !.name = "restore", !.run = r] : r \in Successes}
    /\ UNCHANGED <<pageOpen, starting, drawer, backupVars>>

CloseDialog ==
    /\ pageOpen
    /\ IF drawer # NoDrawer THEN drawer' = NoDrawer /\ UNCHANGED dialog
       ELSE dialog.name # "none" /\ dialog' = NoDialog /\ UNCHANGED drawer
    /\ UNCHANGED <<pageOpen, starting, backupVars>>

-----------------------------------------------------------------------------
(* The dialogs.                                                              *)

\* What is not five fields cannot be saved; five fields need not be a pattern.
EditSchedule ==
    /\ Shows("schedule")
    /\ dialog' \in {[dialog EXCEPT !.schedule = s] : s \in Schedules \ {dialog.schedule}}
    /\ UNCHANGED <<pageOpen, starting, drawer, backupVars>>

\* The PATCH names the schedule and the days; its answer, which nothing waits for, closes
\* the dialog.
SaveSchedule(q) ==
    /\ Shows("schedule")
    /\ PatchTo(q, dialog.schedule, backupJob.active)
    /\ dialog' = NoDialog
    /\ UNCHANGED <<pageOpen, starting, drawer>>

DeleteJob(q) ==
    /\ Shows("delete")
    /\ DeleteList(q)
    /\ dialog' = NoDialog
    /\ UNCHANGED <<pageOpen, starting, drawer>>

Understand ==
    /\ Shows("restore")
    /\ dialog' = [dialog EXCEPT !.sure = ~@]
    /\ UNCHANGED <<pageOpen, starting, drawer, backupVars>>

\* The route refuses a run that is gone or is being restored, and the dialog stays.
RestoreNow(q) ==
    /\ Shows("restore") /\ dialog.sure /\ starting = {}
    /\ AskRestore(q, dialog.run)
    /\ starting' = {q}
    /\ UNCHANGED <<pageOpen, dialog, drawer>>

\* The route's answer: the drawer opens on the new restore, or the dialog shows the error.
RestoreAnswered(q) ==
    /\ q \in starting /\ asks[q].pc = "done"
    /\ starting' = {}
    /\ IF restores[q].status = "none" THEN UNCHANGED <<dialog, drawer>>
       ELSE /\ drawer' = [ask |-> {q}, seen |-> "none"]
            /\ dialog' = IF dialog.name = "restore" THEN NoDialog ELSE dialog
    /\ UNCHANGED <<pageOpen, backupVars>>

\* Every two seconds until an end was seen; a restore deleted with its run is a 404, which
\* leaves what was seen before.
WatchRestore(q) ==
    /\ q \in drawer.ask /\ drawer.seen \notin Ended
    /\ restores[q].status \notin {"deleted", drawer.seen}
    /\ drawer' = [drawer EXCEPT !.seen = restores[q].status]
    /\ UNCHANGED <<pageOpen, dialog, starting, backupVars>>

-----------------------------------------------------------------------------
\* While the page is open no tool fails and the process does not die.
ProtectNext ==
    \/ ~pageOpen /\ BackupsNext /\ UNCHANGED protectVars
    \/ pageOpen /\ BackupsWork /\ breaks' = breaks /\ UNCHANGED protectVars
    \/ RunNow \/ OpenDialog \/ CloseDialog \/ EditSchedule \/ Understand
    \/ \E q \in Requests : TogglePause(q) \/ SaveSchedule(q) \/ DeleteJob(q)
    \/ \E q \in RestoreRequests : RestoreNow(q) \/ RestoreAnswered(q) \/ WatchRestore(q)

-----------------------------------------------------------------------------
ProtectTypeOK ==
    /\ pageOpen \in BOOLEAN
    /\ dialog.name \in Dialogs /\ dialog.schedule \in Schedules
    /\ dialog.run \in 0..MaxRuns /\ dialog.sure \in BOOLEAN
    /\ starting \subseteq RestoreRequests /\ drawer.ask \subseteq RestoreRequests
    /\ drawer.seen \in {"none", "queued", "running"} \cup Ended

=============================================================================
