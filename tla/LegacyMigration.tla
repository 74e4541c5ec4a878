-------------------------- MODULE LegacyMigration --------------------------
(***************************************************************************)
(* One same-engine Mongo migration: its row, its run, the worker of         *)
(* migration.job.ts and runMigration in migration.service.ts, which drops   *)
(* the destination, dumps the source into a temporary directory and         *)
(* restores it from there.  A temporary directory left by a crash stays:    *)
(* nothing calls cleanupStaleMigrationDirs.                                 *)
(*                                                                         *)
(* The route accepts a destination that is the source; only the preflight   *)
(* objects.  mongodump and mongorestore are external: a dump holds the      *)
(* databases that were there, a restore adds the dumped ones.               *)
(***************************************************************************)
EXTENDS Integers, FiniteSets

CONSTANTS
    Databases,       \* non-system databases of the source
    MaxLegacyFaults, \* bound on failing tools and statements
    MaxLegacyCrashes \* bound on crashes of the process

ASSUME LegacyAssumption ==
    /\ Databases # {} /\ IsFiniteSet(Databases)
    /\ MaxLegacyFaults \in Nat /\ MaxLegacyCrashes \in Nat

VARIABLES
    wish,        \* the job: [scope, drop, same]; same: source and destination are one
    migration,   \* its row: [status, temp], temp the directory it names or 0
    legacyRuns,  \* statuses of its MigrationRun rows, one per attempt
    legacyState, \* state of the BullMQ job
    mover,       \* runMigration: [pc, todo, temp]
    source,      \* databases that hold the source's data
    target,      \* databases of the destination that hold a copy of it
    tempDirs,    \* directories on disk: [of, holds], of the attempt that made it
    legacyFaults, legacyCrashes

legacyVars == <<wish, migration, legacyRuns, legacyState, mover, source, target, tempDirs,
                legacyFaults, legacyCrashes>>

IdleMover == [pc |-> "idle", todo |-> {}, temp |-> 0]
Attempts == 1..(MaxLegacyCrashes + 1)

LegacyInit ==
    /\ wish \in [scope : SUBSET Databases \ {{}}, drop : BOOLEAN, same : BOOLEAN]
    /\ migration = [status |-> "pending", temp |-> 0]
    /\ legacyRuns = [a \in Attempts |-> "none"]
    /\ legacyState = "waiting"
    /\ mover = IdleMover
    /\ source = Databases /\ target = {}
    /\ tempDirs = {}
    /\ legacyFaults = 0 /\ legacyCrashes = 0

\* Databases that the tools read from the source, whatever became of them as destination.
Readable == IF wish.same THEN source \cup target ELSE source
DirOfAttempt(t) == {d \in tempDirs : d.of = t}
Dumped(t) == UNION {d.holds : d \in DirOfAttempt(t)}

StillWaiting == legacyState = "waiting" /\ mover.pc = "idle"

\* mkdtemp, then the row names the directory.  An earlier attempt's name is overwritten.
LegacyBegin ==
    /\ StillWaiting
    /\ LET t == legacyCrashes + 1 IN
         /\ tempDirs' = tempDirs \cup {[of |-> t, holds |-> {}]}
         /\ migration' = [status |-> "running", temp |-> t]
         /\ legacyRuns' = [legacyRuns EXCEPT ![t] = "running"]
         /\ mover' = [pc |-> IF wish.drop THEN "drop" ELSE "dump", todo |-> wish.scope,
                      temp |-> t]
    /\ legacyState' = "active"
    /\ UNCHANGED <<wish, source, target, legacyFaults, legacyCrashes>>

\* The destination's databases in scope are dropped one by one before anything is dumped.
LegacyDrop ==
    /\ mover.pc = "drop"
    /\ IF mover.todo = {}
         THEN /\ mover' = [mover EXCEPT !.pc = "dump", !.todo = wish.scope]
              /\ UNCHANGED <<source, target>>
         ELSE \E d \in mover.todo :
                /\ mover' = [mover EXCEPT !.todo = @ \ {d}]
                /\ target' = target \ {d}
                /\ source' = IF wish.same THEN source \ {d} ELSE source
    /\ UNCHANGED <<wish, migration, legacyRuns, legacyState, tempDirs, legacyFaults,
                   legacyCrashes>>

\* Dumping a database that is not there succeeds and writes nothing.
LegacyDump ==
    /\ mover.pc = "dump"
    /\ IF mover.todo = {}
         THEN /\ mover' = [mover EXCEPT !.pc = "restore"]
              /\ UNCHANGED tempDirs
         ELSE \E d \in mover.todo :
                /\ mover' = [mover EXCEPT !.todo = @ \ {d}]
                /\ tempDirs' = (tempDirs \ DirOfAttempt(mover.temp)) \cup
                     {[of |-> mover.temp, holds |-> Dumped(mover.temp) \cup ({d} \cap Readable)]}
    /\ UNCHANGED <<wish, migration, legacyRuns, legacyState, source, target, legacyFaults,
                   legacyCrashes>>

LegacyRestore ==
    /\ mover.pc = "restore"
    /\ target' = target \cup Dumped(mover.temp)
    /\ mover' = [mover EXCEPT !.pc = "cleanup"]
    /\ UNCHANGED <<wish, migration, legacyRuns, legacyState, source, tempDirs, legacyFaults,
                   legacyCrashes>>

LegacyCleanup ==
    /\ mover.pc = "cleanup"
    /\ tempDirs' = tempDirs \ DirOfAttempt(mover.temp)
    /\ mover' = [mover EXCEPT !.pc = "closerun"]
    /\ UNCHANGED <<wish, migration, legacyRuns, legacyState, source, target, legacyFaults,
                   legacyCrashes>>

LegacyCloseRun ==
    /\ mover.pc = "closerun"
    /\ legacyRuns' = [legacyRuns EXCEPT ![mover.temp] = "done"]
    /\ mover' = [mover EXCEPT !.pc = "close"]
    /\ UNCHANGED <<wish, migration, legacyState, source, target, tempDirs, legacyFaults,
                   legacyCrashes>>

LegacyClose ==
    /\ mover.pc = "close"
    /\ migration' = [status |-> "done", temp |-> 0]
    /\ legacyState' = "completed"
    /\ mover' = IdleMover
    /\ UNCHANGED <<wish, legacyRuns, source, target, tempDirs, legacyFaults, legacyCrashes>>

\* A tool exits with another code than 0, or a statement is rejected.
LegacyFailMutant ==
    /\ mover.pc \in {"drop", "dump", "restore", "cleanup", "closerun", "close"}
    /\ legacyFaults < MaxLegacyFaults
    /\ legacyFaults' = legacyFaults + 1
    /\ mover' = [mover EXCEPT !.pc = CASE @ = "drop" -> "dump" [] @ = "dump" -> "restore"
                                       [] @ = "restore" -> "cleanup" [] OTHER -> "close"]
    /\ UNCHANGED <<wish, migration, legacyRuns, legacyState, source, target, tempDirs,
                   legacyCrashes>>

LegacyFail ==
    /\ mover.pc \in {"drop", "dump", "restore", "cleanup", "closerun", "close"}
    /\ legacyFaults < MaxLegacyFaults
    /\ legacyFaults' = legacyFaults + 1
    /\ mover' = [mover EXCEPT !.pc = "catch"]
    /\ UNCHANGED <<wish, migration, legacyRuns, legacyState, source, target, tempDirs,
                   legacyCrashes>>

LegacyCatch ==
    /\ mover.pc = "catch"
    /\ tempDirs' = tempDirs \ DirOfAttempt(mover.temp)
    /\ legacyRuns' = [legacyRuns EXCEPT ![mover.temp] = "failed"]
    /\ migration' = [status |-> "failed", temp |-> 0]
    /\ legacyState' = "failed"
    /\ mover' = IdleMover
    /\ UNCHANGED <<wish, source, target, legacyFaults, legacyCrashes>>

\* The process dies: its job is handed out again, once.
LegacyCrash ==
    /\ legacyCrashes < MaxLegacyCrashes
    /\ legacyCrashes' = legacyCrashes + 1
    /\ legacyState' = IF mover.pc = "idle" THEN legacyState
                      ELSE IF legacyCrashes = 0 THEN "waiting" ELSE "failed"
    /\ mover' = IdleMover
    /\ UNCHANGED <<wish, migration, legacyRuns, source, target, tempDirs, legacyFaults>>

LegacyNext ==
    \/ LegacyBegin \/ LegacyDrop \/ LegacyDump \/ LegacyRestore \/ LegacyCleanup
    \/ LegacyCloseRun \/ LegacyClose \/ LegacyFail \/ LegacyCatch \/ LegacyCrash

-----------------------------------------------------------------------------
LegacyTypeOK ==
    /\ migration \in [status : {"pending", "running", "done", "failed"}, temp : 0..(MaxLegacyCrashes + 1)]
    /\ legacyRuns \in [Attempts -> {"none", "running", "done", "failed"}]
    /\ source \subseteq Databases /\ target \subseteq Databases
    /\ tempDirs \subseteq [of : Attempts, holds : SUBSET Databases]

\* A migration reported as done has put every database in its scope on the destination,
\* although the destination was dropped first and an attempt may have died half-way, unless
\* source and destination are the same server; and a server that is not the destination
\* keeps its data.
LegacyDoneHoldsSource ==
    /\ migration.status = "done" /\ ~wish.same => wish.scope \subseteq target
    /\ ~wish.same => source = Databases

=============================================================================
