---------------------------- MODULE MigrateWizard ----------------------------
(***************************************************************************)
(* The migration wizard of components/operate/pages/Migrate.tsx against the *)
(* preview, job and run routes of routes/migration-v2.ts: the form and its  *)
(* automatic destination, the answers that come while the user goes on, and *)
(* the progress view, fed by the socket of useMigrationSocket.ts and by a   *)
(* poll of the run's row.                                                   *)
(***************************************************************************)
EXTENDS Integers, Sequences

CONSTANTS
    Conns,          \* the profile's connections
    NoConn,
    Engine,         \* Engine[c] \in {"mongodb", "postgres", "mysql"}
    Names,          \* databases and schemas
    NoName,         \* the empty string
    Public,         \* the default schema of Postgres
    MaxChoices,     \* bound on the user's changes of the form
    MaxJobs,        \* bound on the jobs the wizard creates
    MaxDrops        \* bound on lost sockets and failing requests

ASSUME MigrateWizardAssumption ==
    /\ NoConn \notin Conns /\ NoName \notin Names /\ Public \in Names
    /\ Engine \in [Conns -> {"mongodb", "postgres", "mysql"}]
    /\ MaxChoices \in Nat /\ MaxJobs \in Nat /\ MaxDrops \in Nat

VARIABLES
    step,         \* 0: source and destination, 1: preview, 2: run
    form,         \* [src, dst, sdb, ddb, drop]
    preview,      \* the request whose preview is on the page
    previewing,   \* the request for a preview that is on its way
    creating,     \* the form and stage of "Run Migration": job, then run
    jobs,         \* the jobs created: their form, and history
    run,          \* the row's phase, "none" before it exists
    watched,      \* the page shows the run's progress
    socket,       \* "down", "up", "joined"
    wire,         \* phase events on their way to the page
    live,         \* live.phase
    polled,       \* runRow.phase as of the last poll
    choices, drops,
    stirred,      \* history: the form was changed while its preview was on its way
    dropped       \* history: the socket was lost after the page had seen the run start

wizardVars == <<step, form, preview, previewing, creating, jobs, run, watched, socket, wire,
                live, polled, choices, drops, stirred, dropped>>

formVars == <<step, form, preview, previewing, creating, jobs, choices, stirred>>
runVars == <<run, watched, socket, wire, live, polled, dropped>>

NoForm == [src |-> NoConn, dst |-> NoConn, sdb |-> NoName, ddb |-> NoName, drop |-> TRUE]
Idle == [stage |-> "none"]
Terminal == {"succeeded", "partial", "failed", "cancelled"}

WizardInit ==
    /\ step = 0 /\ form = NoForm /\ preview = NoForm /\ previewing = NoForm
    /\ creating = Idle /\ jobs = <<>>
    /\ run = "none" /\ watched = FALSE /\ socket = "down" /\ wire = <<>>
    /\ live = "none" /\ polled = "none"
    /\ choices = 0 /\ drops = 0
    /\ stirred = FALSE /\ dropped = FALSE

\* The progress view is unmounted, and its socket closed.
CloseView ==
    /\ watched' = FALSE /\ socket' = "down" /\ wire' = <<>>
    /\ UNCHANGED <<run, live, polled, dropped>>

Fault == drops < MaxDrops /\ drops' = drops + 1

-----------------------------------------------------------------------------
(* The form.                                                                *)

EngineOf(c) == IF c = NoConn THEN "none" ELSE Engine[c]

\* The effect that runs when the source database or the destination changes: it fills an
\* empty destination database, and never a full one.
DefaultDest(f) ==
    LET from == EngineOf(f.src)  to == EngineOf(f.dst)
    IN CASE to = "none" -> NoName
         [] to = "postgres" -> IF from = "postgres" THEN f.sdb ELSE Public
         [] from = "postgres" -> NoName
         [] OTHER -> f.sdb

Filled(f) == IF f.ddb = NoName THEN [f EXCEPT !.ddb = DefaultDest(f)] ELSE f

Choice ==
    /\ step = 0 /\ choices < MaxChoices
    /\ choices' = choices + 1
    /\ stirred' = (stirred \/ previewing # NoForm)
    /\ UNCHANGED <<step, preview, previewing, creating, jobs, drops, runVars>>

\* The destinations offered leave the source out; nothing clears the other fields.
ChooseSource(c) == Choice /\ c # form.src /\ form' = [form EXCEPT !.src = c]

ChooseDest(c) == /\ Choice /\ c \notin {form.src, form.dst}
                 /\ form' = Filled([form EXCEPT !.dst = c])

ChooseDatabase(d) == /\ Choice /\ d # form.sdb
                     /\ form' = Filled([form EXCEPT !.sdb = d])

TypeDest(d) == Choice /\ d # form.ddb /\ form' = [form EXCEPT !.ddb = d]

ToggleDrop == Choice /\ form' = [form EXCEPT !.drop = ~@]

\* The request for a preview leaves dropExisting out, and the server takes it as FALSE.
ForPreview(f) == [f EXCEPT !.drop = FALSE]

\* The button needs a pair, a source database and no preview under way; the fields stay
\* open meanwhile.
AskPreview ==
    /\ step = 0 /\ previewing = NoForm
    /\ NoConn \notin {form.src, form.dst} /\ form.src # form.dst /\ form.sdb # NoName
    /\ previewing' = ForPreview(form) /\ stirred' = FALSE
    /\ UNCHANGED <<step, form, preview, creating, jobs, choices, drops, runVars>>

PreviewAnswerMutant ==
    /\ previewing # NoForm /\ step' = 1
    /\ preview' = IF preview = NoForm THEN previewing ELSE preview
    /\ previewing' = NoForm
    /\ CloseView
    /\ UNCHANGED <<form, creating, jobs, choices, drops, stirred>>

\* The answer shows the schemas and statements of the request that was sent, also to a user who has gone on
\* to the progress of a run meanwhile.
PreviewAnswer ==
    /\ previewing # NoForm /\ step' = 1
    /\ preview' = previewing /\ previewing' = NoForm
    /\ CloseView
    /\ UNCHANGED <<form, creating, jobs, choices, drops, stirred>>

PreviewFails ==
    /\ previewing # NoForm /\ Fault
    /\ previewing' = NoForm
    /\ UNCHANGED <<step, form, preview, creating, jobs, choices, stirred, runVars>>

Back ==
    /\ step = 1 /\ step' = 0
    /\ UNCHANGED <<form, preview, previewing, creating, jobs, choices, drops, stirred, runVars>>

\* "Run Migration" posts the form as it is now, first for a job and then for its run.
AskRun ==
    /\ step = 1 /\ creating = Idle /\ Len(jobs) < MaxJobs
    /\ creating' = [stage |-> "job", form |-> form, shown |-> preview, stirred |-> stirred]
    /\ UNCHANGED <<step, form, preview, previewing, jobs, choices, drops, stirred, runVars>>

\* POST /jobs looks both connections up.
Known(f) == NoConn \notin {f.src, f.dst}

CreateJob ==
    /\ creating.stage = "job" /\ Known(creating.form)
    /\ creating' = [creating EXCEPT !.stage = "run"]
    /\ jobs' = Append(jobs, [form |-> creating.form, shown |-> creating.shown,
                             stirred |-> creating.stirred])
    /\ UNCHANGED <<step, form, preview, previewing, choices, drops, stirred, runVars>>

\* Either request fails: the job stays when it was the second.
RunFails ==
    /\ creating # Idle
    /\ \/ Fault
       \/ ~Known(creating.form) /\ UNCHANGED drops
    /\ creating' = Idle
    /\ UNCHANGED <<step, form, preview, previewing, jobs, choices, stirred, runVars>>

\* POST /jobs/:id/run is answered: the page opens the progress of the new run, wherever
\* the user is.  A view that was open is unmounted and its socket closed.
RunAnswer ==
    /\ creating.stage = "run"
    /\ creating' = Idle /\ step' = 2
    /\ run' = "queued" /\ watched' = TRUE
    /\ socket' = "down" /\ wire' = <<>> /\ live' = "none" /\ polled' = "none"
    /\ dropped' = FALSE
    /\ UNCHANGED <<form, preview, previewing, jobs, choices, drops, stirred>>

\* "Start a new migration", or "Run in background": everything but the drop box is cleared.
Reset ==
    /\ step = 2 /\ step' = 0
    /\ form' = [NoForm EXCEPT !.drop = form.drop] /\ preview' = NoForm
    /\ stirred' = (stirred \/ previewing # NoForm)
    /\ UNCHANGED <<previewing, creating, jobs, choices, drops>>
    /\ CloseView

FormNext ==
    \/ \E c \in Conns : ChooseSource(c) \/ ChooseDest(c)
    \/ \E d \in Names : ChooseDatabase(d) \/ TypeDest(d)
    \/ ToggleDrop \/ AskPreview \/ PreviewAnswer \/ PreviewFails \/ Back
    \/ AskRun \/ CreateJob \/ RunFails \/ RunAnswer \/ Reset

-----------------------------------------------------------------------------
(* The progress view.                                                       *)

\* The worker's phases: it updates the row, then emits to the run's room.
Emit(p) == wire' = IF socket = "joined" THEN Append(wire, p) ELSE wire

WorkerRuns ==
    /\ run = "queued"
    /\ run' = "running" /\ Emit("running")
    /\ UNCHANGED <<formVars, watched, socket, live, polled, drops, dropped>>

WorkerEnds(p) ==
    /\ run = "running"
    /\ run' = p /\ Emit(p)
    /\ UNCHANGED <<formVars, watched, socket, live, polled, drops, dropped>>

\* socket.on('connect') subscribes, also after a reconnection; the server joins the room.
Connect ==
    /\ watched /\ socket = "down"
    /\ socket' = "up"
    /\ UNCHANGED <<formVars, run, watched, wire, live, polled, drops, dropped>>

Subscribe ==
    /\ socket = "up"
    /\ socket' = "joined"
    /\ UNCHANGED <<formVars, run, watched, wire, live, polled, drops, dropped>>

\* The socket is lost, and the events on it.  What live.phase said stays.
LoseSocket ==
    /\ socket # "down" /\ Fault
    /\ socket' = "down" /\ wire' = <<>>
    /\ dropped' = (dropped \/ live # "none" \/ wire # <<>>)
    /\ UNCHANGED <<formVars, run, watched, live, polled>>

Deliver ==
    /\ wire # <<>>
    /\ live' = Head(wire) /\ wire' = Tail(wire)
    /\ UNCHANGED <<formVars, run, watched, socket, polled, drops, dropped>>

\* The poll goes on, once a second, until it has seen the end.
Poll ==
    /\ watched /\ polled \notin Terminal /\ polled # run
    /\ polled' = run
    /\ UNCHANGED <<formVars, run, watched, socket, wire, live, drops, dropped>>

ShownMutant == IF live # "none" THEN live ELSE "queued"

\* The phase on the page: the socket's if it has said anything, else the row's.
Shown == IF live # "none" THEN live ELSE IF polled # "none" THEN polled ELSE "queued"

RunNext ==
    \/ WorkerRuns \/ Connect \/ Subscribe \/ LoseSocket \/ Deliver \/ Poll
    \/ \E p \in Terminal : WorkerEnds(p)

WizardNext == FormNext \/ RunNext

-----------------------------------------------------------------------------
WizardTypeOK ==
    /\ step \in 0..2 /\ Len(jobs) <= MaxJobs
    /\ {form, preview, previewing} \subseteq
         [src : Conns \cup {NoConn}, dst : Conns \cup {NoConn}, sdb : Names \cup {NoName},
          ddb : Names \cup {NoName}, drop : BOOLEAN]
    /\ socket \in {"down", "up", "joined"} /\ Len(wire) <= 2
    /\ {run, live, polled} \subseteq {"none", "queued", "running"} \cup Terminal

\* A job copies what the preview on the page was computed for, from where and to where,
\* except what the user changed while that preview was being computed, when the fields stay
\* open, and a reset clears them.  Whether the job drops the tables that are there the preview
\* does not know (Migrate.tsx:126-131): it has been computed for a job that does not.
JobIsWhatWasShown ==
    \A i \in DOMAIN jobs : ForPreview(jobs[i].form) = jobs[i].shown \/ jobs[i].stirred

\* Once the poll has seen the end of the run, and no event is on its way, the page shows
\* that end, even when its socket subscribed too late to hear of it (Migrate.tsx:594-595);
\* only a socket lost after it had spoken keeps its last word on the page.
EndIsShown ==
    watched /\ polled \in Terminal /\ wire = <<>> => Shown = run \/ dropped

=============================================================================
