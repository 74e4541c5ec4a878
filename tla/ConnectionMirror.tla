-------------------------- MODULE ConnectionMirror --------------------------
(***************************************************************************)
(* The managed connections that mirror one account's databases:             *)
(* connectionSync.js (sync, removal, boot backfill), the workspace profile  *)
(* of profileBridge.js, the connection routes that reach the same rows, and *)
(* the deletion of the account (routes/auth.js), whose cascade ends at them.*)
(*                                                                         *)
(* Every actor awaits the database between its steps; two actors may work   *)
(* on one row.                                                              *)
(***************************************************************************)
EXTENDS Integers, FiniteSets

CONSTANTS
    Dbs,              \* the account's databases: rows come and go
    NoDb,
    Actors,           \* the requests served at a time, and
    Backfill,         \*   the background job of a boot
    MaxConnections,   \* bound on the connections created
    MaxMirrorFaults   \* bound on failing statements and crashes

ASSUME ConnectionMirrorAssumption ==
    /\ NoDb \notin Dbs /\ Backfill \notin Actors
    /\ MaxConnections \in Nat \ {0} /\ MaxMirrorFaults \in Nat

VARIABLES
    owner,        \* the user: [there, profile], profile: none, made, pointed
    dbRow,        \* the database rows: [there, container, mirror]
    conn,         \* the connection rows: [status, of], of NoDb: added by the user
    actor,        \* [pc, db, mirror, torn]
    backlog,      \* databases the backfill has still to visit
    mirrorFaults,
    disturbed,    \* history: databases that two actors, a failure or a crash touched
    unlinked      \* history: databases whose connection the user deleted

mirrorVars == <<owner, dbRow, conn, actor, backlog, mirrorFaults, disturbed, unlinked>>

ConnIds == 1..MaxConnections
Everyone == Actors \cup {Backfill}
AtRest == [pc |-> "idle", db |-> NoDb, mirror |-> 0, torn |-> {}]
NoRow == [there |-> FALSE, container |-> FALSE, mirror |-> 0]

MirrorInit ==
    /\ owner = [there |-> TRUE, profile |-> "none"]
    /\ dbRow = [d \in Dbs |-> NoRow]
    /\ conn = [c \in ConnIds |-> [status |-> "none", of |-> NoDb]]
    /\ actor = [a \in Everyone |-> AtRest]
    /\ backlog = {} /\ mirrorFaults = 0 /\ disturbed = {} /\ unlinked = {}

Exists(c) == conn[c].status = "there"
NextConn == Cardinality({c \in ConnIds : conn[c].status # "none"}) + 1

MirrorFault == /\ mirrorFaults < MaxMirrorFaults
               /\ mirrorFaults' = mirrorFaults + 1

Stands(a, pc) == actor[a].pc = pc
Proceed(a, pc) == actor' = [actor EXCEPT ![a].pc = pc]
Finish(a) == actor' = [actor EXCEPT ![a] = AtRest]
Busy(d) == {a \in Everyone : actor[a].db = d}

\* a begins to work on d: if somebody else does too, d is disturbed.
Begin(a, d, pc) ==
    /\ Stands(a, "idle")
    /\ actor' = [actor EXCEPT ![a] = [AtRest EXCEPT !.pc = pc, !.db = d]]
    /\ disturbed' = IF Busy(d) = {} THEN disturbed ELSE disturbed \cup {d}

Unlogged == UNCHANGED <<backlog, mirrorFaults, disturbed, unlinked>>

-----------------------------------------------------------------------------
(* syncConnectionForDatabase.                                                *)

\* The end of POST /databases: the row is active and its container runs.
CreateDatabase(a, d) ==
    /\ a \in Actors /\ owner.there /\ ~dbRow[d].there
    /\ dbRow' = [dbRow EXCEPT ![d] = [there |-> TRUE, container |-> TRUE, mirror |-> 0]]
    /\ Begin(a, d, "sync")
    /\ unlinked' = unlinked \ {d}
    /\ UNCHANGED <<owner, conn, backlog, mirrorFaults>>

\* backfillManagedConnections visits a database that had no mirror when it listed them.
Visit(d) ==
    /\ d \in backlog
    /\ Begin(Backfill, d, "sync")
    /\ backlog' = backlog \ {d}
    /\ UNCHANGED <<owner, dbRow, conn, mirrorFaults, unlinked>>

SyncRead(a) ==
    /\ Stands(a, "sync")
    /\ IF ~dbRow[actor[a].db].there THEN Finish(a)
       ELSE actor' = [actor EXCEPT ![a].pc = "profile",
                                   ![a].mirror = dbRow[actor[a].db].mirror]
    /\ UNCHANGED <<owner, dbRow, conn>> /\ Unlogged

\* ensureProfileForUser: a workspace is made once (ownerUserId is unique; concurrent
\* callers share the load, the loser of a race reads the winner's), then pointed at,
\* also one that an earlier call had made and not pointed at.
EnsureProfile(a) ==
    /\ Stands(a, "profile")
    /\ CASE ~owner.there -> Finish(a) /\ UNCHANGED owner
         [] owner.there /\ owner.profile = "pointed" -> Proceed(a, "check") /\ UNCHANGED owner
         [] owner.there /\ owner.profile = "made" ->
              Proceed(a, "check") /\ owner' = [owner EXCEPT !.profile = "pointed"]
         [] owner.there /\ owner.profile = "none" ->
              owner' = [owner EXCEPT !.profile = "made"] /\ UNCHANGED actor
    /\ UNCHANGED <<dbRow, conn>> /\ Unlogged

\* A mirror that is there is refreshed; the pointer read before may be stale by now.
SyncCheck(a) ==
    /\ Stands(a, "check")
    /\ LET m == actor[a].mirror IN
       IF m # 0 /\ Exists(m) THEN Finish(a) ELSE Proceed(a, "create")
    /\ UNCHANGED <<owner, dbRow, conn>> /\ Unlogged

SyncCreate(a) ==
    /\ Stands(a, "create") /\ owner.there
    /\ \E c \in ConnIds :
         /\ c = NextConn
         /\ conn' = [conn EXCEPT ![c] = [status |-> "there", of |-> actor[a].db]]
         /\ actor' = [actor EXCEPT ![a].pc = "point", ![a].mirror = c]
    /\ UNCHANGED <<owner, dbRow>> /\ Unlogged

\* The update fails if the row, or the connection, was deleted meanwhile.
SyncPoint(a) ==
    /\ Stands(a, "point")
    /\ LET d == actor[a].db  c == actor[a].mirror IN
       IF dbRow[d].there /\ Exists(c)
         THEN /\ dbRow' = [dbRow EXCEPT ![d].mirror = c]
              /\ unlinked' = unlinked \ {d}
         ELSE UNCHANGED <<dbRow, unlinked>>
    /\ Finish(a)
    /\ UNCHANGED <<owner, conn, backlog, mirrorFaults, disturbed>>

-----------------------------------------------------------------------------
(* DELETE /databases/:id.                                                    *)

DeleteDatabase(a, d) ==
    /\ a \in Actors /\ dbRow[d].there
    /\ Begin(a, d, "remove")
    /\ UNCHANGED <<owner, dbRow, conn, backlog, mirrorFaults, unlinked>>

\* removeConnectionForDatabase reads the pointer, pauses the syncs of that connection,
RemoveRead(a) ==
    /\ Stands(a, "remove")
    /\ LET m == dbRow[actor[a].db].mirror IN
       actor' = [actor EXCEPT ![a].mirror = m, ![a].pc = IF m = 0 THEN "erase" ELSE "unpoint"]
    /\ UNCHANGED <<owner, dbRow, conn>> /\ Unlogged

\* clears the pointer,
RemoveUnpoint(a) ==
    /\ Stands(a, "unpoint")
    /\ dbRow' = [dbRow EXCEPT ![actor[a].db].mirror = 0]
    /\ Proceed(a, "drop")
    /\ UNCHANGED <<owner, conn>> /\ Unlogged

\* and deletes the connection with the jobs and rules that hang on it.
Unpointed(c) == [d \in Dbs |-> IF dbRow[d].mirror = c THEN [dbRow[d] EXCEPT !.mirror = 0]
                               ELSE dbRow[d]]

RemoveDropMutant(a) ==
    /\ Stands(a, "drop")
    /\ Proceed(a, "erase")
    /\ UNCHANGED <<owner, conn, dbRow>> /\ Unlogged

RemoveDrop(a) ==
    /\ Stands(a, "drop")
    /\ conn' = [conn EXCEPT ![actor[a].mirror].status = "gone"]
    /\ dbRow' = Unpointed(actor[a].mirror)
    /\ Proceed(a, "erase")
    /\ UNCHANGED owner /\ Unlogged

\* The row goes; the container is torn down behind it.
EraseRow(a) ==
    /\ Stands(a, "erase")
    /\ dbRow' = [dbRow EXCEPT ![actor[a].db] = NoRow]
    /\ Finish(a)
    /\ UNCHANGED <<owner, conn>> /\ Unlogged

-----------------------------------------------------------------------------
(* The user's connections, and the account.                                  *)

AddConnection ==
    /\ owner.there /\ owner.profile = "pointed"
    /\ \E c \in ConnIds :
         /\ c = NextConn
         /\ conn' = [conn EXCEPT ![c] = [status |-> "there", of |-> NoDb]]
    /\ UNCHANGED <<owner, dbRow, actor>> /\ Unlogged

\* DELETE /connections/:id looks at the workspace and not at `managed`.
DropConnection(c) ==
    /\ Exists(c)
    /\ conn' = [conn EXCEPT ![c].status = "gone"]
    /\ dbRow' = Unpointed(c)
    /\ unlinked' = IF conn[c].of = NoDb THEN unlinked ELSE unlinked \cup {conn[c].of}
    /\ UNCHANGED <<owner, actor, backlog, mirrorFaults, disturbed>>

\* DELETE /me lists the databases,
CloseAccount(a) ==
    /\ a \in Actors /\ owner.there /\ Stands(a, "idle")
    /\ actor' = [actor EXCEPT ![a] = [AtRest EXCEPT !.pc = "close",
                                      !.torn = {d \in Dbs : dbRow[d].there}]]
    /\ UNCHANGED <<owner, dbRow, conn>> /\ Unlogged

\* removes the container and the data of each,
CloseContainer(a) ==
    /\ Stands(a, "close")
    /\ \E d \in actor[a].torn :
         /\ dbRow' = [dbRow EXCEPT ![d].container = FALSE]
         /\ actor' = [actor EXCEPT ![a].torn = @ \ {d}]
    /\ UNCHANGED <<owner, conn>> /\ Unlogged

\* and deletes the user. Databases go with it; so would the workspace, but a connection
\* keeps it (connections_profileId_fkey is RESTRICT), and the delete fails.
Kept == \E c \in ConnIds : Exists(c)

CloseDelete(a) ==
    /\ Stands(a, "close") /\ actor[a].torn = {}
    /\ IF Kept THEN UNCHANGED <<owner, dbRow>>
       ELSE /\ owner' = [there |-> FALSE, profile |-> "none"]
            /\ dbRow' = [d \in Dbs |-> NoRow]
    /\ Finish(a)
    /\ UNCHANGED conn /\ Unlogged

-----------------------------------------------------------------------------
\* A statement fails. A sync ends; a removal goes on, its errors are caught.
Stumble(a) ==
    /\ actor[a].db # NoDb
    /\ MirrorFault
    /\ disturbed' = disturbed \cup {actor[a].db}
    /\ CASE Stands(a, "unpoint") -> Proceed(a, "drop")
         [] Stands(a, "drop") \/ Stands(a, "remove") -> Proceed(a, "erase")
         [] OTHER -> Finish(a)
    /\ UNCHANGED <<owner, dbRow, conn, backlog, unlinked>>

\* The process dies and boots: it lists the databases without a mirror.
Reboot ==
    /\ MirrorFault
    /\ disturbed' = disturbed \cup {d \in Dbs : Busy(d) # {}}
                       \cup UNION {actor[a].torn : a \in Actors}
    /\ actor' = [a \in Everyone |-> AtRest]
    /\ backlog' = {d \in Dbs : dbRow[d].there /\ dbRow[d].mirror = 0}
    /\ UNCHANGED <<owner, dbRow, conn, unlinked>>

MirrorStep(a) ==
    \/ \E d \in Dbs : CreateDatabase(a, d) \/ DeleteDatabase(a, d)
    \/ SyncRead(a) \/ EnsureProfile(a) \/ SyncCheck(a) \/ SyncCreate(a) \/ SyncPoint(a)
    \/ RemoveRead(a) \/ RemoveUnpoint(a) \/ RemoveDrop(a) \/ EraseRow(a)
    \/ CloseAccount(a) \/ CloseContainer(a) \/ CloseDelete(a) \/ Stumble(a)

MirrorNext ==
    \/ \E a \in Everyone : MirrorStep(a)
    \/ \E d \in Dbs : Visit(d)
    \/ \E c \in ConnIds : DropConnection(c)
    \/ AddConnection \/ Reboot

-----------------------------------------------------------------------------
MirrorTypeOK ==
    /\ owner \in [there : BOOLEAN, profile : {"none", "made", "pointed"}]
    /\ dbRow \in [Dbs -> [there : BOOLEAN, container : BOOLEAN, mirror : 0..MaxConnections]]
    /\ conn \in [ConnIds -> [status : {"none", "there", "gone"}, of : Dbs \cup {NoDb}]]
    /\ actor \in [Everyone ->
         [pc : {"idle", "sync", "profile", "check", "create", "point", "remove", "unpoint",
                "drop", "erase", "close"},
          db : Dbs \cup {NoDb}, mirror : 0..MaxConnections, torn : SUBSET Dbs]]
    /\ backlog \subseteq Dbs /\ disturbed \subseteq Dbs /\ unlinked \subseteq Dbs

\* Mirrors and databases pair up: when nobody works on a database, its managed
\* connection is the one its row points at and the row is there, and a row without one
\* has lost it to the user's deletion, which connectionSync.js:17-19 says the API refuses and
\* nothing refuses.  Besides, only what the code leaves to chance is excepted: databases on
\* which two actors worked at once, and those a failing statement or a crash interrupted
\* (connectionSync.js:116-134, 153-162).
MirrorsPair ==
    \A d \in Dbs \ disturbed : Busy(d) = {} =>
        /\ \A c \in ConnIds : Exists(c) /\ conn[c].of = d =>
                                dbRow[d].there /\ dbRow[d].mirror = c
        /\ dbRow[d].there /\ dbRow[d].mirror = 0 => d \in unlinked \cup backlog

=============================================================================
