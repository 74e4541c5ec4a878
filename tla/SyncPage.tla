------------------------------ MODULE SyncPage ------------------------------
(***************************************************************************)
(* The page of Sync.tsx in front of one sync: the form that creates it and  *)
(* the card of the list, over the routes and the worker of module CdcJob.   *)
(*                                                                         *)
(* The list asks for the syncs every three seconds and after each answered  *)
(* request, so the card shows the row as it was some time ago, and its      *)
(* buttons follow what it shows.  With the page closed the requests are     *)
(* those of any other client.                                               *)
(*                                                                         *)
(* A database's name is a number of letters typed: the form copies the      *)
(* source's name to the destination's, which the user may also type.        *)
(***************************************************************************)
EXTENDS CdcJob

CONSTANTS
    Letters,       \* letters of the name of the source's database
    PageFailures   \* bound on failures while the page is open, at most MaxSyncFailures

ASSUME SyncPageAssumption ==
    /\ Letters \in Nat \ {0} /\ PageFailures \in 0..MaxSyncFailures

VARIABLES
    tab,    \* closed, wizard or active
    fields, \* the form: [src, dst, srcDb, dstDb]
    card    \* what the list said last: [there, status, pauseRequested]

pageVars == <<tab, fields, card>>

Unset == "none"
Own == Letters + 1      \* a name of the user's own choice
Ends == {"mongodb", "postgres", "mysql"}

BlankForm == [src |-> Unset, dst |-> Unset, srcDb |-> 0, dstDb |-> 0]
NoCard == [there |-> FALSE, status |-> "queued", pauseRequested |-> FALSE]

\* With the page open the sync does not exist yet.
PageInit ==
    /\ tab \in {"closed", "wizard"}
    /\ fields = BlankForm
    /\ card = NoCard
    /\ jobFailures = IF tab = "closed" THEN 0 ELSE MaxSyncFailures - PageFailures
    /\ sync = [present |-> tab = "closed", enabled |-> TRUE, pauseRequested |-> FALSE,
               copied |-> FALSE, status |-> "queued"]
    /\ job = "none" /\ workerPc = "idle" /\ seenStop = FALSE /\ errors = FALSE
    /\ reporting = FALSE
    /\ request = [q \in SyncRequests |-> IF q = Creator /\ tab = "closed" THEN "add" ELSE "idle"]
    /\ kind = [q \in SyncRequests |-> "start"]
    /\ sinceStop = 0

-----------------------------------------------------------------------------
(* The form.                                                                 *)

\* The effect that runs after every change: an empty name of a relational destination is
\* given the source's name as far as it has been typed.
Prefilled(f) ==
    IF f.dst \notin {Unset, "mongodb"} /\ f.dstDb = 0 /\ f.srcDb > 0
      THEN [f EXCEPT !.dstDb = f.srcDb] ELSE f

Choose ==
    /\ tab = "wizard"
    /\ \E e \in Ends :
         \/ fields' = Prefilled([fields EXCEPT !.src = e])
         \/ fields' = Prefilled([fields EXCEPT !.dst = e])
    /\ UNCHANGED <<tab, card, syncVars>>

Type ==
    /\ tab = "wizard"
    /\ \/ fields.srcDb < Letters /\ fields' = Prefilled([fields EXCEPT !.srcDb = @ + 1])
       \/ fields' = Prefilled([fields EXCEPT !.dstDb = Own])
       \/ fields' = Prefilled([fields EXCEPT !.dstDb = 0])
    /\ UNCHANGED <<tab, card, syncVars>>

\* There is one connection of each engine.
CanSubmit ==
    /\ fields.src # Unset /\ fields.dst # Unset /\ fields.src # fields.dst
    /\ fields.src # "mongodb" => fields.srcDb > 0
    /\ fields.dst # "mongodb" => fields.dstDb > 0

\* The row is created, and the route goes on to enqueue it; its answer brings up the list,
\* and the form is gone.
Submit ==
    /\ tab = "wizard" /\ CanSubmit
    /\ tab' = "active" /\ fields' = BlankForm
    /\ SetRow([sync EXCEPT !.present = TRUE])
    /\ GoOn(Creator, "add")
    /\ UNCHANGED <<card, job, attempt, reporting, kind, jobFailures>>

-----------------------------------------------------------------------------
(* The card.                                                                 *)

\* The query's interval, or its invalidation after a request.
ListJobs ==
    /\ tab = "active"
    /\ card' = IF sync.present
                 THEN [there |-> TRUE, status |-> sync.status, pauseRequested |-> sync.pauseRequested]
                 ELSE NoCard
    /\ card' # card
    /\ UNCHANGED <<tab, fields, syncVars>>

\* Start and Pause share a place on the card; Pause is disabled once it was asked for.
Buttons ==
    IF ~card.there THEN {}
    ELSE {"delete"} \cup (IF card.status \in {"paused", "failed"} THEN {"start"}
                          ELSE IF card.pauseRequested THEN {} ELSE {"pause"})

Press(q) ==
    /\ tab = "active" /\ q # Creator
    /\ Receive(q) /\ kind'[q] \in Buttons
    /\ UNCHANGED pageVars

-----------------------------------------------------------------------------
\* The server's side: what CdcJob does but for the arrival of requests.
Server ==
    \/ Worker \/ CopyFails \/ Event \/ StreamEnds \/ AttemptFails \/ Queue
    \/ \E q \in SyncRequests : Serve(q)
    \/ ConnectionDeleted \/ SyncCrash

PageNext ==
    \/ tab = "closed" /\ (\E q \in SyncRequests : Receive(q)) /\ UNCHANGED pageVars
    \/ tab # "wizard" /\ Server /\ UNCHANGED pageVars
    \/ Choose \/ Type \/ Submit \/ ListJobs
    \/ \E q \in SyncRequests : Press(q)

\* The fairness of CdcJob; nobody has to press a button.
PageSpec ==
    /\ PageInit /\ [][PageNext]_<<syncVars, pageVars>>
    /\ WF_syncVars(Worker) /\ WF_syncVars(FailedListener) /\ WF_syncVars(BackoffOver) /\ WF_syncVars(Stalled)
    /\ \A q \in SyncRequests : WF_syncVars(Serve(q))

-----------------------------------------------------------------------------
PageTypeOK ==
    /\ tab \in {"closed", "wizard", "active"}
    /\ fields \in [src : Ends \cup {Unset}, dst : Ends \cup {Unset}, srcDb : 0..Letters, dstDb : 0..Own]
    /\ card \in [there : BOOLEAN, status : SyncStatuses, pauseRequested : BOOLEAN]

=============================================================================
