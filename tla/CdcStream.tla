------------------------------ MODULE CdcStream ------------------------------
(***************************************************************************)
(* The data path of a change-data-capture sync: the worker in               *)
(* pivot/jobs/cdc-sync.job.ts copies the source once, then applies the      *)
(* source's change log to the destination, one event at a time, persisting  *)
(* a cursor after each.  Attempts end in errors and crashes, and the next   *)
(* attempt resumes from what was persisted.                                 *)
(*                                                                         *)
(* The three sources differ in where a new stream starts and in how events  *)
(* reach the worker (pivot/migration/cdc): Mongo resumes after the token    *)
(* persisted; Postgres from its replication slot, which the client          *)
(* acknowledges as it receives; MySQL from the end of the binlog event      *)
(* persisted, and rows of tables whose primary key is not cached wait for a *)
(* lookup of their own.                                                     *)
(*                                                                         *)
(* The value of a row is the number of the change that produced it, a       *)
(* delete included: the writers upsert and delete by key.                   *)
(***************************************************************************)
EXTENDS Naturals, Sequences, FiniteSets, FiniteSetsExt, SequencesExt

CONSTANTS
    Engines,      \* source engines: a subset of mongodb, postgres, mysql
    Rows,         \* rows of the source
    TableOf,      \* the table of each row
    None,         \* no cursor, no slot
    MaxChanges,   \* bound on the changes of the source
    MaxFailures   \* bound on rejected events, failed updates, ended streams

ASSUME CdcStreamAssumption ==
    /\ Engines \subseteq {"mongodb", "postgres", "mysql"}
    /\ None \notin Nat \cup [n : Nat, value : Nat]
    /\ MaxChanges \in Nat
    /\ MaxFailures \in Nat

VARIABLES
    engine,
    bootstrap,  \* "snapshot" or "tail"
    log,        \* the source's changes: [row, op, end], end the last change of the same event
    slot,       \* Postgres: the position acknowledged, or None
    dest,       \* the value of each row at the destination
    cursor,     \* cdcSyncJob.cursor: a position in log, or None
    copied,     \* cdcSyncJob.snapshotState = 'done'
    worker,     \* "idle", "copy", "open" or "stream"
    toCopy,     \* rows the snapshot has still to copy
    received,   \* position up to which the stream has been received
    lookups,    \* MySQL: events waiting for the primary key of their table
    pkCache,    \* MySQL: tables whose primary key is cached
    queue,      \* events not yet handed to the worker: [n, value]
    hand,       \* the event the worker is at, or None
    step,       \* "apply" or "persist"
    failures,
    origin,     \* history: the position replication began at, or None
    settled,    \* history: changes applied
    rejected,   \* history: changes whose applyChange threw
    skipped     \* history: changes a later stream started behind of, never applied

jobVars == <<cursor, copied>>
streamVars == <<received, lookups, pkCache, queue, hand, step>>
history == <<origin, settled, rejected, skipped>>
vars == <<engine, bootstrap, log, slot, dest, jobVars, worker, toCopy, streamVars,
          failures, history>>

Position == 0 .. MaxChanges

\* The last change of row r up to position p, 0 if there is none.
LastUpTo(r, p) == Max({0} \cup {n \in 1 .. p : log[n].row = r})
Latest(r) == LastUpTo(r, Len(log))

Init ==
    /\ engine \in Engines
    /\ bootstrap \in {"snapshot", "tail"}
    /\ log = <<>>
    /\ slot = None
    /\ dest = [r \in Rows |-> 0]
    /\ cursor = None
    /\ copied = FALSE
    /\ worker = "idle"
    /\ toCopy = {}
    /\ received = 0
    /\ lookups = {}
    /\ pkCache = {}
    /\ queue = <<>>
    /\ hand = None
    /\ step = "apply"
    /\ failures = 0
    /\ origin = None
    /\ settled = {}
    /\ rejected = {}
    /\ skipped = {}

Failure == /\ failures < MaxFailures
           /\ failures' = failures + 1

-----------------------------------------------------------------------------
(* The source.                                                               *)

\* Every row exists at first; only for Mongo does the kind of a change matter.
Gone(r) == Latest(r) # 0 /\ log[Latest(r)].op = "delete"

\* An insert or a replacement writes the whole row, an update and a delete need one.
OpsOn(r) ==
    IF engine # "mongodb" \/ Gone(r) THEN {"put"} ELSE {"put", "update", "delete"}

\* A statement changes one row, or (one MySQL binlog event) two of a table.
SourceChange ==
    /\ \E rows \in {<<r>> : r \in Rows} \cup {s \in Rows \X Rows : /\ engine = "mysql"
                                                                  /\ s[1] # s[2]
                                                                  /\ TableOf[s[1]] = TableOf[s[2]]} :
          LET last == Len(log) + Len(rows) IN
          /\ last <= MaxChanges
          /\ \E op \in OpsOn(rows[1]) :
                log' = log \o [i \in DOMAIN rows |-> [row |-> rows[i], op |-> op, end |-> last]]
    /\ UNCHANGED <<engine, bootstrap, slot, dest, jobVars, worker, toCopy, streamVars,
                   failures, history>>

-----------------------------------------------------------------------------
(* An attempt of the worker.                                                 *)

NeedsSnapshot == bootstrap = "snapshot" /\ ~copied

\* captureStartCursor: for Postgres it creates the slot unless it exists.
Capture ==
    /\ slot' = IF engine = "postgres" /\ slot = None THEN Len(log) ELSE slot
    /\ origin' = IF origin = None THEN Len(log) ELSE origin

\* Mutant: the start cursor is taken once the copy is over.
AttemptMutant ==
    /\ worker = "idle"
    /\ IF NeedsSnapshot
       THEN worker' = "copy" /\ toCopy' = Rows
       ELSE worker' = "open" /\ UNCHANGED toCopy
    /\ UNCHANGED <<engine, bootstrap, log, dest, slot, jobVars, streamVars, failures, history>>

\* With a snapshot to take, the cursor is captured and persisted before the
\* copy, and a retry keeps the one already there.
Attempt ==
    /\ worker = "idle"
    /\ IF NeedsSnapshot
       THEN /\ worker' = "copy"
            /\ toCopy' = Rows
            /\ IF cursor = None
               THEN Capture /\ cursor' = Len(log)
               ELSE UNCHANGED <<slot, origin, cursor>>
       ELSE /\ worker' = "open"
            /\ UNCHANGED <<toCopy, slot, origin, cursor>>
    /\ UNCHANGED <<engine, bootstrap, log, dest, copied, streamVars, failures,
                   settled, rejected, skipped>>

\* runMigration reads row by row while the source goes on changing.
Copy(r) ==
    /\ worker = "copy"
    /\ r \in toCopy
    /\ toCopy' = toCopy \ {r}
    /\ dest' = [dest EXCEPT ![r] = Latest(r)]
    /\ UNCHANGED <<engine, bootstrap, log, slot, jobVars, worker, streamVars, failures, history>>

CopyDone ==
    /\ worker = "copy"
    /\ toCopy = {}
    /\ worker' = "open"
    /\ copied' = TRUE
    /\ UNCHANGED <<engine, bootstrap, log, slot, dest, cursor, toCopy, streamVars,
                   failures, history>>

\* Where a new stream starts.  Without a cursor Mongo and MySQL tail from now;
\* Postgres never starts before what its slot has acknowledged.
StartAt ==
    CASE engine = "postgres" -> Max({slot', IF cursor = None THEN 0 ELSE cursor})
      [] cursor # None       -> cursor
      [] OTHER               -> Len(log)

Open ==
    /\ worker = "open"
    /\ Capture
    /\ worker' = "stream"
    /\ received' = StartAt
    /\ lookups' = {}
    /\ pkCache' = {}
    /\ queue' = <<>>
    /\ hand' = None
    /\ step' = "apply"
    /\ skipped' = skipped \cup ((origin' + 1 .. StartAt) \ (settled \cup rejected))
    /\ UNCHANGED <<engine, bootstrap, log, dest, jobVars, toCopy, failures, settled, rejected>>

\* An update of Mongo carries no document: updateLookup reads the one there is by then.
LooksUp(n) == engine = "mongodb" /\ log[n].op = "update"

\* mapEvent drops an update whose document was deleted meanwhile; neither is it applied nor
\* its cursor persisted.  Postgres' client acknowledges what it receives (acknowledge.auto).
ReceiveOne ==
    /\ worker = "stream"
    /\ engine # "mysql"
    /\ received < Len(log)
    /\ LET n == received + 1  row == log[n].row IN
       /\ received' = n
       /\ queue' = IF LooksUp(n) /\ Gone(row) THEN queue
                   ELSE Append(queue, [n |-> n, value |-> IF LooksUp(n) THEN Latest(row) ELSE n])
       /\ slot' = IF engine = "postgres" THEN n ELSE slot
    /\ UNCHANGED <<engine, bootstrap, log, dest, jobVars, worker, toCopy, lookups, pkCache,
                   hand, step, failures, history>>

\* The rows of a binlog event.
EventRows(from, to) == [i \in 1 .. (to - from) |-> [n |-> from + i, value |-> from + i]]

\* getPkCols is asynchronous: with a cached key the rows are queued at once.
ReceiveBinlog ==
    /\ worker = "stream"
    /\ engine = "mysql"
    /\ received < Len(log)
    /\ LET to == log[received + 1].end
           table == TableOf[log[to].row] IN
       /\ received' = to
       /\ IF table \in pkCache
          THEN queue' = queue \o EventRows(received, to) /\ UNCHANGED lookups
          ELSE lookups' = lookups \cup {[from |-> received, to |-> to]} /\ UNCHANGED queue
    /\ UNCHANGED <<engine, bootstrap, log, slot, dest, jobVars, worker, toCopy, pkCache,
                   hand, step, failures, history>>

\* The lookups answer in any order.
LookupAnswered(e) ==
    /\ worker = "stream"
    /\ lookups' = lookups \ {e}
    /\ pkCache' = pkCache \cup {TableOf[log[e.to].row]}
    /\ queue' = queue \o EventRows(e.from, e.to)
    /\ UNCHANGED <<engine, bootstrap, log, slot, dest, jobVars, worker, toCopy, received,
                   hand, step, failures, history>>

Take ==
    /\ worker = "stream"
    /\ hand = None
    /\ queue # <<>>
    /\ hand' = Head(queue)
    /\ queue' = Tail(queue)
    /\ step' = "apply"
    /\ UNCHANGED <<engine, bootstrap, log, slot, dest, jobVars, worker, toCopy, received,
                   lookups, pkCache, failures, history>>

\* Mutant: the cursor is persisted before the change is applied.
ApplyMutant ==
    /\ worker = "stream" /\ hand # None /\ step = "apply"
    /\ cursor' = log[hand.n].end
    /\ step' = "persist"
    /\ UNCHANGED <<engine, bootstrap, log, slot, dest, copied, worker, toCopy, received,
                   lookups, pkCache, queue, hand, failures, history>>

\* applyChange; when it throws the worker logs it and goes on with the next event.
Apply ==
    /\ worker = "stream" /\ hand # None /\ step = "apply"
    /\ \/ /\ dest' = [dest EXCEPT ![log[hand.n].row] = hand.value]
          /\ settled' = settled \cup {hand.n}
          /\ step' = "persist"
          /\ UNCHANGED <<hand, failures, rejected>>
       \/ /\ Failure
          /\ rejected' = rejected \cup {hand.n}
          /\ hand' = None
          /\ UNCHANGED <<dest, settled, step>>
    /\ UNCHANGED <<engine, bootstrap, log, slot, jobVars, worker, toCopy, received, lookups,
                   pkCache, queue, origin, skipped>>

\* A failing update lands in the same catch: the next event persists past it.
Persist ==
    /\ worker = "stream" /\ hand # None /\ step = "persist"
    /\ hand' = None
    /\ \/ cursor' = log[hand.n].end /\ UNCHANGED failures
       \/ UNCHANGED cursor /\ Failure
    /\ UNCHANGED <<engine, bootstrap, log, slot, dest, copied, worker, toCopy, received,
                   lookups, pkCache, queue, step, history>>

\* The attempt ends in an error (the copy fails, the connection drops) or with
\* the process, and BullMQ begins a new one.  A pause ends an attempt in the same
\* way, at the event in hand; when it may be resumed is not this module's matter.
AttemptEnds ==
    /\ worker # "idle"
    /\ Failure
    /\ worker' = "idle"
    /\ hand' = None
    /\ queue' = <<>>
    /\ lookups' = {}
    /\ pkCache' = {}
    /\ toCopy' = {}
    /\ received' = 0
    /\ step' = "apply"
    /\ UNCHANGED <<engine, bootstrap, log, slot, dest, jobVars, history>>

Work ==
    \/ Attempt \/ CopyDone \/ Open \/ ReceiveOne \/ ReceiveBinlog
    \/ Take \/ Apply \/ Persist
    \/ \E r \in Rows : Copy(r)
    \/ \E e \in lookups : LookupAnswered(e)

Next == SourceChange \/ Work \/ AttemptEnds

Spec == Init /\ [][Next]_vars

\* BullMQ runs the job again (attempts: 1000), and a streaming worker goes on;
\* nothing obliges the source to change or an attempt to fail.
FairSpec == Spec /\ WF_vars(Work)

-----------------------------------------------------------------------------
(* Properties.                                                               *)

\* Every variable stays in its domain.
TypeOK ==
    /\ engine \in Engines
    /\ bootstrap \in {"snapshot", "tail"}
    /\ log \in Seq([row : Rows, op : {"put", "update", "delete"}, end : 1 .. MaxChanges]) /\ Len(log) <= MaxChanges
    /\ slot \in Position \cup {None}
    /\ dest \in [Rows -> Position]
    /\ cursor \in Position \cup {None}
    /\ copied \in BOOLEAN
    /\ worker \in {"idle", "copy", "open", "stream"}
    /\ toCopy \subseteq Rows
    /\ received \in Position
    /\ lookups \subseteq [from : Position, to : Position]
    /\ pkCache \subseteq Range(TableOf)
    /\ queue \in Seq([n : Position, value : Position])
    /\ hand \in [n : Position, value : Position] \cup {None}
    /\ step \in {"apply", "persist"}
    /\ failures \in Nat
    /\ origin \in Position \cup {None}
    /\ settled \subseteq Position
    /\ rejected \subseteq Position
    /\ skipped \subseteq Position

\* The last change of r up to p was an update, and the source deleted the row after p.
DeletedSince(r, p) ==
    /\ LastUpTo(r, p) # 0 /\ log[LastUpTo(r, p)].op = "update"
    /\ \E n \in p + 1 .. Len(log) : log[n].row = r /\ log[n].op = "delete"

\* The zero-gap guarantee for a Mongo source with a snapshot: once the copy is
\* over, the destination is at least as new as the persisted cursor, row by
\* row, however often attempts end in the middle of the copy or of an event.
\* Two exceptions are the code's own: a row whose change was rejected, and an update
\* whose document the look-up no longer found, as long as the delete is still to come.
DestCoversCursor ==
    (engine = "mongodb" /\ bootstrap = "snapshot" /\ copied) =>
        \A r \in Rows :
            \/ dest[r] >= LastUpTo(r, cursor)
            \/ DeletedSince(r, cursor)
            \/ \E n \in rejected : log[n].row = r

\* Once the source is quiet and attempts stop failing, a Mongo destination ends
\* up equal to the source, unless a change was rejected.
Converges ==
    (engine = "mongodb" /\ bootstrap = "snapshot") =>
        <>[](rejected # {} \/ \A r \in Rows : dest[r] = Latest(r))

\* "The reconnect after backoff will resume from the server-side slot, so no
\* events are lost" (cdc-sync.job.ts): a Postgres stream never starts behind of
\* a change that was neither applied nor rejected.
SlotLosesNothing == engine = "postgres" => skipped = {}

=============================================================================
