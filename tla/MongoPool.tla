------------------------------ MODULE MongoPool ------------------------------
(***************************************************************************)
(* The pool of Mongo clients (lib/mongo.ts) that the monitor and explore    *)
(* routes share, the deletion of a connection, which closes its client, and *)
(* the snapshots of monitor.service.ts with their three-second cache.       *)
(*                                                                         *)
(* What a snapshot reads of a server is the time it was read at, which is   *)
(* also the server's operation counter: it does one operation a tick.  A    *)
(* server is up, down, or stalled: it accepts connections and does not      *)
(* answer.                                                                  *)
(***************************************************************************)
EXTENDS Integers, FiniteSets

CONSTANTS
    MongoConns,    \* ids of connections to MongoDB servers
    PoolUsers,     \* requests served at a time
    SnapshotTtl,   \* 3 s, in ticks
    MaxClock,      \* bound on the ticks
    MaxClients,    \* bound on the pooled clients made
    MaxTroubles    \* bound on the changes of a server's health

ASSUME MongoPoolAssumption ==
    /\ MongoConns # {} /\ SnapshotTtl \in Nat \ {0}
    /\ MaxClock \in Nat /\ MaxClients \in Nat /\ MaxTroubles \in Nat

VARIABLES
    connRow,     \* new, there or gone
    health,      \* up, down or stalled
    pool,        \* the pooled client of a connection, or 0
    clients,     \* open clients of getMongoClient: [id, conn]
    made,        \* how many there were
    asker,       \* [pc, conn, snap, at, client, read, extra]
    counted,     \* lastOpcounters: [at, read]
    snapshots,   \* snapshotCache: [at, read]
    shown,       \* the last snapshot answered: [asked, read, extra]
    closing,     \* closeMongoClient after a connection was deleted: no, row or client
    clock, troubles,
    overlapped   \* history: clients whose dial overlapped another or the deletion

poolVars == <<connRow, health, pool, clients, made, asker, counted, snapshots, shown, closing,
              clock, troubles, overlapped>>

Never == -1
IdleAsker == [pc |-> "idle", conn |-> CHOOSE c \in MongoConns : TRUE, snap |-> FALSE, at |-> 0,
              client |-> 0, read |-> Never, extra |-> 0]

PoolInit ==
    /\ connRow \in [MongoConns -> {"new", "there"}]
    /\ health = [c \in MongoConns |-> "up"]
    /\ pool = [c \in MongoConns |-> 0] /\ clients = {} /\ made = 0
    /\ asker = [a \in PoolUsers |-> IdleAsker]
    /\ counted = [c \in MongoConns |-> [at |-> 0, read |-> Never]]
    /\ snapshots = [c \in MongoConns |-> [at |-> Never - SnapshotTtl, read |-> Never, extra |-> 0]]
    /\ shown = [asked |-> 0, read |-> 0, extra |-> 0]
    /\ closing = [c \in MongoConns |-> "no"]
    /\ clock = 0 /\ troubles = 0 /\ overlapped = {}

Open(k) == \E n \in clients : n.id = k
Dialling(c) == {asker[a].client : a \in {b \in PoolUsers : asker[b].pc = "dial" /\ asker[b].conn = c}}
UnchangedWorld == UNCHANGED <<connRow, health, clock, troubles>>
UnchangedClients == UNCHANGED <<pool, clients, made, closing, overlapped>>

-----------------------------------------------------------------------------
(* A request: a snapshot, or another command through the pool.               *)

\* getSnapshot takes the time before it awaits anything; a recent snapshot is the answer.
AskSnapshot(a, c) ==
    /\ asker[a].pc = "idle"
    /\ LET hit == clock - snapshots[c].at < SnapshotTtl IN
         asker' = [asker EXCEPT ![a] =
                     [pc |-> IF hit THEN "serve" ELSE "row", conn |-> c, snap |-> TRUE,
                      at |-> clock, client |-> 0,
                      read |-> IF hit THEN snapshots[c].read ELSE Never,
                      extra |-> IF hit THEN snapshots[c].extra ELSE 0]]
    /\ UNCHANGED <<counted, snapshots, shown>>
    /\ UnchangedWorld /\ UnchangedClients

\* The other routes: lists, queries and commands that change nothing of ours.
AskOther(a, c) ==
    /\ asker[a].pc = "idle"
    /\ asker' = [asker EXCEPT ![a] = [IdleAsker EXCEPT !.pc = "row", !.conn = c]]
    /\ UNCHANGED <<counted, snapshots, shown>>
    /\ UnchangedWorld /\ UnchangedClients

\* getClientForConnection: the row is read, and is gone.
ReadRow(a) ==
    /\ asker[a].pc = "row"
    /\ asker' = IF connRow[asker[a].conn] = "there" THEN [asker EXCEPT ![a].pc = "pool"]
                ELSE [asker EXCEPT ![a] = IdleAsker]
    /\ UNCHANGED <<counted, snapshots, shown>>
    /\ UnchangedWorld /\ UnchangedClients

\* getMongoClient: the pooled client, or a new one is dialled.
UsePool(a) ==
    LET c == asker[a].conn IN
    /\ asker[a].pc = "pool"
    /\ \/ /\ pool[c] # 0
          /\ asker' = [asker EXCEPT ![a].pc = "command", ![a].client = pool[c]]
          /\ UNCHANGED <<clients, made, overlapped>>
       \/ /\ pool[c] = 0 /\ made < MaxClients
          /\ made' = made + 1
          /\ clients' = clients \cup {[id |-> made + 1, conn |-> c]}
          /\ asker' = [asker EXCEPT ![a].pc = "dial", ![a].client = made + 1]
          /\ overlapped' = IF Dialling(c) # {} \/ connRow[c] = "gone"
                           THEN overlapped \cup Dialling(c) \cup {made + 1} ELSE overlapped
    /\ UNCHANGED <<pool, closing, counted, snapshots, shown>>
    /\ UnchangedWorld

DialledMutant(a) ==
    LET c == asker[a].conn IN
    /\ asker[a].pc = "dial" /\ health[c] # "down"
    /\ asker' = [asker EXCEPT ![a].pc = "command"]
    /\ UNCHANGED <<counted, snapshots, shown>>
    /\ UnchangedWorld /\ UnchangedClients

Dialled(a) ==
    LET c == asker[a].conn IN
    /\ asker[a].pc = "dial" /\ health[c] # "down"
    /\ pool' = [pool EXCEPT ![c] = asker[a].client]
    /\ asker' = [asker EXCEPT ![a].pc = "command"]
    /\ UNCHANGED <<clients, made, closing, overlapped, counted, snapshots, shown>>
    /\ UnchangedWorld

\* The driver gives up and closes what it had opened.
DialFails(a) ==
    /\ asker[a].pc = "dial" /\ health[asker[a].conn] = "down"
    /\ clients' = {n \in clients : n.id # asker[a].client}
    /\ asker' = [asker EXCEPT ![a] = IdleAsker]
    /\ UNCHANGED <<pool, made, closing, overlapped, counted, snapshots, shown>>
    /\ UnchangedWorld

Answers(a) == asker[a].pc = "command" /\ Open(asker[a].client) /\ health[asker[a].conn] = "up"

\* serverStatus is read, and its counters compared with those read before: extra is what
\* the rate counts more than one operation a tick.  The counters are kept with the time at
\* which the request came.
ReadStatus(a) ==
    LET c == asker[a].conn
        last == counted[c]
        ticks == LET gap == asker[a].at - last.at IN IF gap > 1 THEN gap ELSE 1 IN
    /\ Answers(a) /\ asker[a].snap
    /\ asker' = [asker EXCEPT ![a].pc = "store", ![a].read = clock,
                              ![a].extra = IF last.read = Never \/ clock - last.read <= ticks THEN 0
                                           ELSE clock - last.read - ticks]
    /\ counted' = [counted EXCEPT ![c] = [at |-> asker[a].at, read |-> clock]]
    /\ UNCHANGED <<snapshots, shown>>
    /\ UnchangedWorld /\ UnchangedClients

\* Lists and statistics are read one after the other; those refused are left out.
Answer(a) ==
    /\ Answers(a) /\ ~asker[a].snap
    /\ asker' = [asker EXCEPT ![a] = IdleAsker]
    /\ UNCHANGED <<counted, snapshots, shown>>
    /\ UnchangedWorld /\ UnchangedClients

CommandFails(a) ==
    /\ asker[a].pc = "command"
    /\ ~Open(asker[a].client) \/ health[asker[a].conn] = "down"
    /\ asker' = [asker EXCEPT ![a] = IdleAsker]
    /\ UNCHANGED <<counted, snapshots, shown>>
    /\ UnchangedWorld /\ UnchangedClients

StoreMutant(a) ==
    /\ asker[a].pc = "store"
    /\ snapshots' = [snapshots EXCEPT ![asker[a].conn] = [at |-> clock, read |-> asker[a].read, extra |-> asker[a].extra]]
    /\ asker' = [asker EXCEPT ![a].pc = "serve"]
    /\ UNCHANGED <<counted, shown>>
    /\ UnchangedWorld /\ UnchangedClients

\* The replica set and the alerts were asked for as well: the entry has the time at which
\* the request came.  A slower request overwrites the entry of a later one.
Store(a) ==
    /\ asker[a].pc = "store"
    /\ snapshots' = [snapshots EXCEPT ![asker[a].conn] =
                       [at |-> asker[a].at, read |-> asker[a].read, extra |-> asker[a].extra]]
    /\ asker' = [asker EXCEPT ![a].pc = "serve"]
    /\ UNCHANGED <<counted, shown>>
    /\ UnchangedWorld /\ UnchangedClients

\* The route answers; what it does to the exported samples is in MetricsScrape.
Serve(a) ==
    /\ asker[a].pc = "serve"
    /\ shown' = [asked |-> asker[a].at, read |-> asker[a].read, extra |-> asker[a].extra]
    /\ asker' = [asker EXCEPT ![a] = IdleAsker]
    /\ UNCHANGED <<counted, snapshots>>
    /\ UnchangedWorld /\ UnchangedClients

-----------------------------------------------------------------------------
(* Connections come and go, servers fail and recover.                        *)

\* createConnection, after its probe.
CreateRow(c) ==
    /\ connRow[c] = "new" /\ health[c] = "up"
    /\ connRow' = [connRow EXCEPT ![c] = "there"]
    /\ UNCHANGED <<health, clock, troubles, asker, counted, snapshots, shown>>
    /\ UnchangedClients

\* deleteConnection commits, then calls closeMongoClient.
DeleteRow(c) ==
    /\ connRow[c] = "there"
    /\ connRow' = [connRow EXCEPT ![c] = "gone"]
    /\ closing' = [closing EXCEPT ![c] = "row"]
    /\ overlapped' = overlapped \cup Dialling(c)
    /\ UNCHANGED <<health, clock, troubles, pool, clients, made, asker, counted, snapshots, shown>>

CloseClient(c) ==
    /\ closing[c] = "row"
    /\ clients' = {n \in clients : n.id # pool[c]}
    /\ closing' = [closing EXCEPT ![c] = IF pool[c] = 0 THEN "no" ELSE "client"]
    /\ UNCHANGED <<pool, made, overlapped, asker, counted, snapshots, shown>>
    /\ UnchangedWorld

\* close() was awaited: whatever client is in the pool by now is dropped from it.
ClientClosed(c) ==
    /\ closing[c] = "client"
    /\ pool' = [pool EXCEPT ![c] = 0]
    /\ closing' = [closing EXCEPT ![c] = "no"]
    /\ UNCHANGED <<clients, made, overlapped, asker, counted, snapshots, shown>>
    /\ UnchangedWorld

Trouble(c) ==
    /\ troubles < MaxTroubles /\ troubles' = troubles + 1
    /\ \E h \in {"up", "down", "stalled"} \ {health[c]} : health' = [health EXCEPT ![c] = h]
    /\ UNCHANGED <<connRow, clock, asker, counted, snapshots, shown>>
    /\ UnchangedClients

PoolTick ==
    /\ clock < MaxClock /\ clock' = clock + 1
    /\ UNCHANGED <<connRow, health, troubles, asker, counted, snapshots, shown>>
    /\ UnchangedClients

PoolNext ==
    \/ \E a \in PoolUsers, c \in MongoConns : AskSnapshot(a, c) \/ AskOther(a, c)
    \/ \E a \in PoolUsers :
         \/ ReadRow(a) \/ UsePool(a) \/ Dialled(a) \/ DialFails(a) \/ ReadStatus(a)
         \/ Answer(a) \/ CommandFails(a) \/ Store(a) \/ Serve(a)
    \/ \E c \in MongoConns :
         CreateRow(c) \/ DeleteRow(c) \/ CloseClient(c) \/ ClientClosed(c) \/ Trouble(c)
    \/ PoolTick

-----------------------------------------------------------------------------
PoolTypeOK ==
    /\ pool \in [MongoConns -> 0..MaxClients]
    /\ clients \subseteq [id : 1..MaxClients, conn : MongoConns]
    /\ overlapped \subseteq 1..MaxClients
    /\ \A c \in MongoConns : snapshots[c].read \in Never..clock

\* No client is forgotten: one that is open is being dialled, or is the pooled client of its
\* connection, and of a connection that is there or whose deletion has not closed it yet;
\* unless its dial ran while another request dialled the same server, or while the
\* connection was being deleted (mongo.ts:6-14, 19-23: the pool is read before one await and
\* written after another).
ClientsAccounted ==
    \A n \in clients :
        \/ n.id \in Dialling(n.conn)
        \/ pool[n.conn] = n.id /\ (connRow[n.conn] = "there" \/ closing[n.conn] = "row")
        \/ n.id \in overlapped

\* A snapshot that is answered was read off the server less than the cache's lifetime before
\* the request came, however long the other questions took, and its rate counts no more than
\* one operation too many for each tick that passed between a request and its reading
\* (monitor.service.ts:90, 98-126, 211): a rate is over the truth only by what was slow.
SnapshotHonest ==
    /\ shown.asked - shown.read < SnapshotTtl
    /\ \A a \in PoolUsers : asker[a].pc = "store" => asker[a].extra <= asker[a].read - asker[a].at

=============================================================================
