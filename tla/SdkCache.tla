------------------------------ MODULE SdkCache ------------------------------
(***************************************************************************)
(* The read cache of the client SDK (packages/client): CacheLayer over a    *)
(* shared Redis, as CustomDBMongo and CustomDBPostgres use it.              *)
(*                                                                         *)
(* One cached query, read by several readers, and writes to the tables it   *)
(* may depend on.  A read first fetches the version counter of every tag    *)
(* it knows it depends on, then looks up the key salted with those          *)
(* versions, and on a miss queries the database and stores the result; a    *)
(* write commits, then increments the counter of one tag.  Every Redis      *)
(* command is a step of its own and may fail, and so may the connection.    *)
(*                                                                         *)
(* A result is the set of writes it reflects.  A Mongo collection is the    *)
(* case of one plain reference and writes whose target is parsed.           *)
(***************************************************************************)
EXTENDS Naturals, FiniteSets

CONSTANTS
    Readers,      \* executions of the cached query
    Writers,      \* writes to the database
    Clients,      \* SDK instances, one CacheLayer each
    ClientOf,     \* the instance of each reader and writer
    Query,        \* the tables of the query: [table, seen], seen by the regex or not
    Statement,    \* of each write: [touches, target], the target None if not parsed
    All,          \* the tag "__all__"
    None,
    MaxFailures   \* bound on failing connects, commands and commits, and evicted counters

ASSUME SdkCacheAssumption ==
    /\ ClientOf \in [Readers \cup Writers -> Clients]
    /\ MaxFailures \in Nat

\* extractTablesFromSelect, and the tag __all__ that every SELECT is keyed by.
SelectTags == {All} \cup {ref.table : ref \in {q \in Query : q.seen}}

\* _bumpForWrite: the one table the pattern captured, or __all__.
WriteTag(w) == IF Statement[w].target = None THEN All ELSE Statement[w].target

\* Does the write change what the query returns, and does its bump reach it?
Affects(w) == \E ref \in Query : ref.table \in Statement[w].touches
Reached(w) == WriteTag(w) \in SelectTags

Tags == SelectTags \cup {WriteTag(w) : w \in Writers}

VARIABLES
    committed,  \* writes the database has applied
    counter,    \* tag -> version counter in Redis, 0 if there is none
    entries,    \* cached results: [salt, value]
    link,       \* client -> "none", "up" or "cooldown"
    read,       \* program counter of each read
    unread,     \* tags whose version a read has not fetched yet
    salt,       \* tag versions a read has fetched
    result,     \* what a read returns
    write,      \* program counter of each write
    failures,
    evictions,
    before,     \* history: the writes that had returned when a read began
    blind,      \* history: reads that took a version as 0 without seeing it
    bumpNo      \* history: the counter value a write's bump produced, or 0

readVars == <<read, unread, salt, result, before, blind>>
writeVars == <<committed, write, bumpNo>>
vars == <<readVars, writeVars, counter, entries, link, failures, evictions>>

Returned == {w \in Writers : write[w] = "done"}

Init ==
    /\ committed = {}
    /\ counter = [t \in Tags |-> 0]
    /\ entries = {}
    /\ link = [c \in Clients |-> "none"]
    /\ read = [r \in Readers |-> "idle"]
    /\ unread = [r \in Readers |-> SelectTags]
    /\ salt = [r \in Readers |-> [t \in SelectTags |-> 0]]
    /\ result = [r \in Readers |-> {}]
    /\ write = [w \in Writers |-> "idle"]
    /\ failures = 0
    /\ evictions = 0
    /\ before = [r \in Readers |-> {}]
    /\ blind = {}
    /\ bumpNo = [w \in Writers |-> 0]

-----------------------------------------------------------------------------
(* The connection, as each cache operation begins: _ensureConnected.         *)

Failure == /\ failures + evictions < MaxFailures
           /\ failures' = failures + 1

NoFailure == UNCHANGED failures

\* The Redis connection is, or now gets, open.
Connected(c) ==
    /\ link[c] \in {"none", "up"}
    /\ link' = [link EXCEPT ![c] = "up"]

\* A command that succeeds, and one that fails.
Served(c) == Connected(c) /\ NoFailure
Broken(c) == Connected(c) /\ Failure

\* Connecting fails, or failed less than RECONNECT_COOLDOWN_MS ago.
Unavailable(c) ==
    \/ link[c] = "cooldown" /\ UNCHANGED link /\ NoFailure
    \/ link[c] = "none" /\ link' = [link EXCEPT ![c] = "cooldown"] /\ Failure

CooldownOver(c) ==
    /\ link[c] = "cooldown"
    /\ link' = [link EXCEPT ![c] = "none"]
    /\ UNCHANGED <<readVars, writeVars, counter, entries, failures, evictions>>

-----------------------------------------------------------------------------
(* A read: _cached (Mongo), query (Postgres).                                *)

ReadStart(r) ==
    /\ read[r] = "idle"
    /\ read' = [read EXCEPT ![r] = "tags"]
    /\ before' = [before EXCEPT ![r] = Returned]
    /\ UNCHANGED <<unread, salt, result, blind, writeVars, counter, entries, link,
                   failures, evictions>>

\* getTagVersion: any error reads as version 0.
ReadTag(r, t) ==
    /\ read[r] = "tags"
    /\ t \in unread[r]
    /\ unread' = [unread EXCEPT ![r] = @ \ {t}]
    /\ \/ /\ Served(ClientOf[r])
          /\ salt' = [salt EXCEPT ![r][t] = counter[t]]
          /\ UNCHANGED blind
       \/ /\ Unavailable(ClientOf[r]) \/ Broken(ClientOf[r])
          /\ blind' = blind \cup {r}
          /\ UNCHANGED salt
    /\ UNCHANGED <<read, result, before, writeVars, counter, entries, evictions>>

\* getOrSet: a hit is returned, anything else goes to the database, and to the
\* cache afterwards unless there was no connection to begin with.
ReadCache(r) ==
    /\ read[r] = "tags" /\ unread[r] = {}
    /\ \/ \E e \in entries :
             /\ Served(ClientOf[r])
             /\ e.salt = salt[r]
             /\ result' = [result EXCEPT ![r] = e.value]
             /\ read' = [read EXCEPT ![r] = "done"]
       \/ /\ \/ Served(ClientOf[r]) /\ \A e \in entries : e.salt # salt[r]
             \/ Broken(ClientOf[r])
          /\ read' = [read EXCEPT ![r] = "load"]
          /\ UNCHANGED result
       \/ /\ Unavailable(ClientOf[r])
          /\ read' = [read EXCEPT ![r] = "loadOnly"]
          /\ UNCHANGED result
    /\ UNCHANGED <<unread, salt, before, blind, writeVars, counter, entries, evictions>>

ReadLoad(r) ==
    /\ read[r] \in {"load", "loadOnly"}
    /\ read' = [read EXCEPT ![r] = IF @ = "load" THEN "set" ELSE "done"]
    /\ result' = [result EXCEPT ![r] = committed]
    /\ UNCHANGED <<unread, salt, before, blind, writeVars, counter, entries, link,
                   failures, evictions>>

\* Mutant: the result is stored under the versions current at that moment.
ReadStoreMutant(r) ==
    /\ read[r] = "set"
    /\ read' = [read EXCEPT ![r] = "done"]
    /\ Served(ClientOf[r])
    /\ LET now == [t \in SelectTags |-> counter[t]] IN
         entries' = {e \in entries : e.salt # now} \cup {[salt |-> now, value |-> result[r]]}
    /\ UNCHANGED <<unread, salt, result, before, blind, writeVars, counter, evictions>>

\* SET key value EX ttl, under the versions fetched before the query.
ReadStore(r) ==
    /\ read[r] = "set"
    /\ read' = [read EXCEPT ![r] = "done"]
    /\ \/ /\ Served(ClientOf[r])
          /\ entries' = {e \in entries : e.salt # salt[r]}
                           \cup {[salt |-> salt[r], value |-> result[r]]}
       \/ Broken(ClientOf[r]) /\ UNCHANGED entries
    /\ UNCHANGED <<unread, salt, result, before, blind, writeVars, counter, evictions>>

Read(r) ==
    \/ ReadStart(r) \/ ReadCache(r) \/ ReadLoad(r) \/ ReadStore(r)
    \/ \E t \in SelectTags : ReadTag(r, t)

-----------------------------------------------------------------------------
(* A write: the database first, then the tag.                                *)

WriteCommit(w) ==
    /\ write[w] = "idle"
    /\ write' = [write EXCEPT ![w] = "bump"]
    /\ committed' = committed \cup {w}
    /\ UNCHANGED <<readVars, bumpNo, counter, entries, link, failures, evictions>>

\* The driver throws although the write was applied, wholly or in part (a lost
\* acknowledgement, a bulk write that fails midway): the tag is not bumped.
WriteThrows(w) ==
    /\ write[w] = "idle"
    /\ write' = [write EXCEPT ![w] = "failed"]
    /\ committed' = committed \cup {w}
    /\ Failure
    /\ UNCHANGED <<readVars, bumpNo, counter, entries, link, evictions>>

\* bumpTag: an error, or no connection, is not reported to the caller.
WriteBump(w) ==
    /\ write[w] = "bump"
    /\ write' = [write EXCEPT ![w] = "done"]
    /\ \/ /\ Served(ClientOf[w])
          /\ counter' = [counter EXCEPT ![WriteTag(w)] = @ + 1]
          /\ bumpNo' = [bumpNo EXCEPT ![w] = counter[WriteTag(w)] + 1]
       \/ /\ Unavailable(ClientOf[w]) \/ Broken(ClientOf[w])
          /\ UNCHANGED <<counter, bumpNo>>
    /\ UNCHANGED <<readVars, committed, entries, evictions>>

Write(w) == WriteCommit(w) \/ WriteThrows(w) \/ WriteBump(w)

-----------------------------------------------------------------------------
(* Redis: an entry expires or is evicted at any time; under allkeys-lru a    *)
(* version counter can be evicted as well.                                   *)

EntryGone(e) ==
    /\ entries' = entries \ {e}
    /\ UNCHANGED <<readVars, writeVars, counter, link, failures, evictions>>

EvictCounter(t) ==
    /\ failures + evictions < MaxFailures
    /\ evictions' = evictions + 1
    /\ counter[t] # 0
    /\ counter' = [counter EXCEPT ![t] = 0]
    /\ UNCHANGED <<readVars, writeVars, entries, link, failures>>

Next ==
    \/ \E r \in Readers : Read(r)
    \/ \E w \in Writers : Write(w)
    \/ \E c \in Clients : CooldownOver(c)
    \/ \E e \in entries : EntryGone(e)
    \/ \E t \in Tags : EvictCounter(t)

Spec == Init /\ [][Next]_vars

-----------------------------------------------------------------------------
(* Properties.                                                               *)

\* Every variable stays in its domain.
TypeOK ==
    /\ committed \subseteq Writers
    /\ counter \in [Tags -> Nat]
    /\ entries \subseteq [salt : [SelectTags -> Nat], value : SUBSET Writers]
    /\ link \in [Clients -> {"none", "up", "cooldown"}]
    /\ read \in [Readers -> {"idle", "tags", "load", "loadOnly", "set", "done"}]
    /\ unread \in [Readers -> SUBSET SelectTags]
    /\ salt \in [Readers -> [SelectTags -> Nat]]
    /\ result \in [Readers -> SUBSET Writers]
    /\ write \in [Writers -> {"idle", "bump", "done", "failed"}]
    /\ failures \in Nat
    /\ evictions \in Nat
    /\ before \in [Readers -> SUBSET Writers]
    /\ blind \subseteq Readers
    /\ bumpNo \in [Writers -> Nat]

Missed(r, w) == Affects(w) /\ w \in before[r] /\ w \notin result[r]

\* A read that began after a write returned reflects that write, whoever stored
\* what it hits and however reads and writes interleaved in between, except for
\* these causes: the write's bump was skipped or failed, or the read could not see
\* a version (which OutageKeepsReadsFresh, the promise of cache.js, denies), Redis
\* evicted a counter, or the write's tag is not among those the query is keyed by.
ReadsFresh ==
    \A r \in Readers, w \in Writers :
        read[r] = "done" /\ Missed(r, w) =>
            \/ bumpNo[w] = 0
            \/ r \in blind
            \/ evictions > 0
            \/ ~Reached(w)

\* "A Redis outage degrades performance, not correctness": failing connections and
\* commands leave every read fresh that the write's tag reaches.
OutageKeepsReadsFresh ==
    evictions = 0 =>
        \A r \in Readers, w \in Writers : read[r] = "done" /\ Missed(r, w) => ~Reached(w)

\* What is stored under the versions now current reflects every write that
\* bumped one of them: the next reader to see these versions may use it.
CurrentEntryFresh ==
    evictions = 0 =>
        \A e \in entries :
            (e.salt = [t \in SelectTags |-> counter[t]]) =>
                \A w \in Writers : bumpNo[w] # 0 /\ Reached(w) => w \in e.value

=============================================================================
