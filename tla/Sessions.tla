------------------------------ MODULE Sessions ------------------------------
(***************************************************************************)
(* One account's sign-in: routes/auth.js (login, password change, forgotten *)
(* and reset passwords, revocation, account deletion), the session check of *)
(* middleware/auth.js, and the cache of services/cache.js that it reads the *)
(* session rows through.  Requests run concurrently: each awaits the        *)
(* database, bcrypt, or another request's load.                             *)
(*                                                                         *)
(* A password is its version.  Requests and sessions are reused or bounded; *)
(* the time a cache entry has left is counted in ticks.                     *)
(***************************************************************************)
EXTENDS Integers, FiniteSets

CONSTANTS
    Callers,          \* requests the process serves at a time
    NoCaller,
    MaxSessions,      \* bound on the sessions created
    MaxPasswords,     \* bound on the passwords set after the first
    Ttl,              \* SESSION_CACHE_TTL_MS, in ticks
    MaxAuthFaults     \* bound on failing database calls and crashes

ASSUME SessionsAssumption ==
    /\ NoCaller \notin Callers
    /\ MaxSessions \in Nat \ {0} /\ MaxPasswords \in Nat
    /\ Ttl \in Nat \ {0} /\ MaxAuthFaults \in Nat

VARIABLES
    account,      \* [there, password]
    row,          \* the session rows: status and the password it was created with
    resetLink,    \* the newest reset token: the earlier ones are used
    entry,        \* the cache: [val, left] per session
    inflight,     \* the caller whose load is registered for a session
    load,         \* the load a caller has started: [on, val]
    caller,       \* [pc, sid, on, knows, listed]
    authFaults,
    dropped,      \* history: revoked sessions that invalidateSession was called for
    raced,        \* history: those of which a load had read the row before
    excused       \* history: sessions whose password was replaced under their login,
                  \*   that changed the password, or that a failed change did not reach

sessionVars == <<account, row, resetLink, entry, inflight, load, caller, authFaults,
                 dropped, raced, excused>>

SessionIds == 1..MaxSessions
Empty == [val |-> "none", left |-> 0]
NoLoad == [on |-> 0, val |-> "none"]
IdleCaller == [pc |-> "idle", sid |-> 0, on |-> NoCaller, knows |-> 0, listed |-> {}]

SessionsInit ==
    /\ account = [there |-> TRUE, password |-> 0]
    /\ row = [s \in SessionIds |-> [status |-> "none", proof |-> 0]]
    /\ resetLink = "none"
    /\ entry = [s \in SessionIds |-> Empty]
    /\ inflight = [s \in SessionIds |-> NoCaller]
    /\ load = [c \in Callers |-> NoLoad]
    /\ caller = [c \in Callers |-> IdleCaller]
    /\ authFaults = 0 /\ dropped = {} /\ raced = {} /\ excused = {}

AuthFault == /\ authFaults < MaxAuthFaults
             /\ authFaults' = authFaults + 1

Created == {s \in SessionIds : row[s].status # "none"}
LiveRows == {s \in SessionIds : row[s].status = "live"}

At(c, pc) == caller[c].pc = pc
Goto(c, pc) == caller' = [caller EXCEPT ![c].pc = pc]
Respond(c) == caller' = [caller EXCEPT ![c] = IdleCaller]

UnchangedAuth == UNCHANGED <<authFaults, dropped, raced, excused>>
UnchangedCache == UNCHANGED <<entry, inflight, load>>

-----------------------------------------------------------------------------
(* requireAuth, reading the session through getOrLoad.                       *)

ArriveMutant(c, s) ==
    /\ At(c, "idle") /\ load[c] = NoLoad
    /\ s \in Created
    /\ LET asks == [IdleCaller EXCEPT !.sid = s] IN
       \/ /\ entry[s].val = "live"
          /\ caller' = [caller EXCEPT ![c] = [asks EXCEPT !.pc = "granted"]]
          /\ entry' = [entry EXCEPT ![s].left = Ttl]
          /\ UNCHANGED <<inflight, load>>
       \/ /\ entry[s].val # "live" /\ inflight[s] = NoCaller
          /\ caller' = [caller EXCEPT ![c] = [asks EXCEPT !.pc = "joined", !.on = c]]
          /\ inflight' = [inflight EXCEPT ![s] = c]
          /\ load' = [load EXCEPT ![c] = [on |-> s, val |-> "awaited"]]
          /\ UNCHANGED entry
    /\ UNCHANGED <<account, row, resetLink>> /\ UnchangedAuth

\* A request with session s: a valid entry answers at once (a cached row is a live one:
\* others are dropped when read), a registered load is joined, else a load is started.
Arrive(c, s) ==
    /\ At(c, "idle") /\ load[c] = NoLoad
    /\ s \in Created
    /\ LET asks == [IdleCaller EXCEPT !.sid = s] IN
       \/ /\ entry[s].val = "live"
          /\ caller' = [caller EXCEPT ![c] = [asks EXCEPT !.pc = "granted"]]
          /\ UNCHANGED <<inflight, load>>
       \/ /\ entry[s].val # "live" /\ inflight[s] # NoCaller
          /\ caller' = [caller EXCEPT ![c] = [asks EXCEPT !.pc = "joined",
                                                          !.on = inflight[s]]]
          /\ UNCHANGED <<inflight, load>>
       \/ /\ entry[s].val # "live" /\ inflight[s] = NoCaller
          /\ caller' = [caller EXCEPT ![c] = [asks EXCEPT !.pc = "joined", !.on = c]]
          /\ inflight' = [inflight EXCEPT ![s] = c]
          /\ load' = [load EXCEPT ![c] = [on |-> s, val |-> "awaited"]]
    /\ UNCHANGED <<account, row, resetLink, entry>> /\ UnchangedAuth

\* session.findUnique in the database.
LoadRead(c) ==
    /\ load[c].val = "awaited"
    /\ load' = [load EXCEPT ![c].val = row[load[c].on].status]
    /\ UNCHANGED <<account, row, resetLink, entry, inflight, caller>> /\ UnchangedAuth

\* The callers awaiting the load of c go on, granted or refused.
Resumed(c, granted) ==
    [d \in Callers |->
        IF ~(caller[d].pc = "joined" /\ caller[d].on = c) THEN caller[d]
        ELSE IF granted THEN [caller[d] EXCEPT !.pc = "granted", !.on = NoCaller]
        ELSE IdleCaller]

\* The load's value is cached whatever happened since it was read, and the registration
\* of the key is dropped, be it of a newer load; a session that is not live is dropped.
LoadDone(c) ==
    /\ load[c].val \in {"live", "revoked", "gone"}
    /\ LET s == load[c].on  live == load[c].val = "live" IN
       /\ entry' = [entry EXCEPT ![s] = IF live THEN [val |-> "live", left |-> Ttl]
                                        ELSE Empty]
       /\ inflight' = [inflight EXCEPT ![s] = NoCaller]
       /\ caller' = Resumed(c, live)
    /\ load' = [load EXCEPT ![c] = NoLoad]
    /\ UNCHANGED <<account, row, resetLink>> /\ UnchangedAuth

\* The query fails: nothing is cached and every caller of the load gets a 401.
LoadFail(c) ==
    /\ load[c].val = "awaited"
    /\ AuthFault
    /\ inflight' = [inflight EXCEPT ![load[c].on] = NoCaller]
    /\ caller' = Resumed(c, FALSE)
    /\ load' = [load EXCEPT ![c] = NoLoad]
    /\ UNCHANGED <<account, row, resetLink, entry, dropped, raced, excused>>

-----------------------------------------------------------------------------
(* The handlers.                                                             *)

LoginRead(c) ==
    /\ At(c, "idle") /\ load[c] = NoLoad /\ account.there
    /\ caller' = [caller EXCEPT ![c] = [IdleCaller EXCEPT !.pc = "login",
                                                          !.knows = account.password]]
    /\ UNCHANGED <<account, row, resetLink>> /\ UnchangedCache /\ UnchangedAuth

\* createSession, after bcrypt compared the password with the hash read before.
LoginCreate(c) ==
    /\ At(c, "login")
    /\ IF ~account.there
         THEN UNCHANGED <<row, excused>>
         ELSE \E s \in SessionIds :
                /\ s = Cardinality(Created) + 1
                /\ row' = [row EXCEPT ![s] = [status |-> "live", proof |-> caller[c].knows]]
                /\ excused' = IF caller[c].knows = account.password THEN excused
                              ELSE excused \cup {s}
    /\ Respond(c)
    /\ UNCHANGED <<account, resetLink, authFaults, dropped, raced>> /\ UnchangedCache

\* DELETE /sessions/:id of any session of the account.
Revoke(c) ==
    /\ At(c, "granted") /\ account.there
    /\ \E t \in LiveRows :
         /\ row' = [row EXCEPT ![t].status = "revoked"]
         /\ caller' = [caller EXCEPT ![c].pc = "drop", ![c].listed = {t}]
    /\ UNCHANGED <<account, resetLink>> /\ UnchangedCache /\ UnchangedAuth

\* POST /password: the current password is compared with the row read here.
ChangeRead(c) ==
    /\ At(c, "granted") /\ account.there
    /\ Goto(c, "change")
    /\ UNCHANGED <<account, row, resetLink>> /\ UnchangedCache /\ UnchangedAuth

ChangeWrite(c) ==
    /\ At(c, "change") /\ account.there /\ account.password < MaxPasswords
    /\ account' = [account EXCEPT !.password = @ + 1]
    /\ Goto(c, "list")
    /\ excused' = excused \cup {caller[c].sid}
    /\ UNCHANGED <<row, resetLink, authFaults, dropped, raced>> /\ UnchangedCache

\* The sessions to be dropped from the cache are listed before they are revoked.
ChangeList(c) ==
    /\ At(c, "list")
    /\ caller' = [caller EXCEPT ![c].pc = "kick",
                                ![c].listed = LiveRows \ {caller[c].sid}]
    /\ UNCHANGED <<account, row, resetLink>> /\ UnchangedCache /\ UnchangedAuth

RevokeRows(S) == [s \in SessionIds |->
                    IF s \in S /\ row[s].status = "live"
                      THEN [row[s] EXCEPT !.status = "revoked"] ELSE row[s]]

ChangeKickMutant(c) ==
    /\ At(c, "kick")
    /\ row' = RevokeRows({s \in SessionIds : row[s].proof = account.password})
    /\ Goto(c, "drop")
    /\ UNCHANGED <<account, resetLink>> /\ UnchangedCache /\ UnchangedAuth

ChangeKick(c) ==
    /\ At(c, "kick")
    /\ row' = RevokeRows(SessionIds \ {caller[c].sid})
    /\ Goto(c, "drop")
    /\ UNCHANGED <<account, resetLink>> /\ UnchangedCache /\ UnchangedAuth

\* A statement after the password's update fails: the request ends there.
ChangeFail(c) ==
    /\ At(c, "list") \/ At(c, "kick")
    /\ AuthFault
    /\ excused' = excused \cup LiveRows
    /\ Respond(c)
    /\ UNCHANGED <<account, row, resetLink, dropped, raced>> /\ UnchangedCache

DropCachedMutant(c) ==
    /\ At(c, "drop")
    /\ inflight' = [s \in SessionIds |-> IF s \in caller[c].listed THEN NoCaller
                                         ELSE inflight[s]]
    /\ dropped' = dropped \cup caller[c].listed
    /\ raced' = raced \cup {s \in caller[c].listed :
                              \E d \in Callers : load[d] = [on |-> s, val |-> "live"]}
    /\ Respond(c)
    /\ UNCHANGED <<account, row, resetLink, entry, load, authFaults, excused>>

\* invalidateSession of the listed sessions: entry and registration go, loads go on.
DropCached(c) ==
    /\ At(c, "drop")
    /\ LET S == caller[c].listed IN
       /\ entry' = [s \in SessionIds |-> IF s \in S THEN Empty ELSE entry[s]]
       /\ inflight' = [s \in SessionIds |-> IF s \in S THEN NoCaller ELSE inflight[s]]
       /\ dropped' = dropped \cup S
       /\ raced' = raced \cup {s \in S : \E d \in Callers :
                                            load[d] = [on |-> s, val |-> "live"]}
    /\ Respond(c)
    /\ UNCHANGED <<account, row, resetLink, load, authFaults, excused>>

\* POST /forgot-password: one transaction uses up the older tokens and adds a fresh one.
Forgot(c) ==
    /\ At(c, "idle") /\ account.there
    /\ resetLink' = "fresh"
    /\ UNCHANGED <<account, row, caller>> /\ UnchangedCache /\ UnchangedAuth

\* A token is good for an hour.
ExpireLink ==
    /\ resetLink = "fresh"
    /\ resetLink' = "none"
    /\ UNCHANGED <<account, row, caller>> /\ UnchangedCache /\ UnchangedAuth

\* POST /reset-password: the token is looked up, the new password hashed, the sessions
\* listed, and only then does a transaction use the token, whatever became of it.
ResetRead(c) ==
    /\ At(c, "idle") /\ load[c] = NoLoad /\ account.there
    /\ resetLink = "fresh"
    /\ caller' = [caller EXCEPT ![c] = [IdleCaller EXCEPT !.pc = "resetting"]]
    /\ UNCHANGED <<account, row, resetLink>> /\ UnchangedCache /\ UnchangedAuth

ResetList(c) ==
    /\ At(c, "resetting")
    /\ caller' = [caller EXCEPT ![c].pc = "reset", ![c].listed = LiveRows]
    /\ UNCHANGED <<account, row, resetLink>> /\ UnchangedCache /\ UnchangedAuth

ResetCommit(c) ==
    /\ At(c, "reset") /\ account.there /\ account.password < MaxPasswords
    /\ account' = [account EXCEPT !.password = @ + 1]
    /\ resetLink' = "none"
    /\ row' = RevokeRows(SessionIds)
    /\ Goto(c, "drop")
    /\ UnchangedCache /\ UnchangedAuth

\* DELETE /me: the rows go with the account and nothing is dropped from the cache.
Close(c) ==
    /\ At(c, "granted") /\ account.there
    /\ account' = [account EXCEPT !.there = FALSE]
    /\ row' = [s \in SessionIds |-> IF s \in Created THEN [row[s] EXCEPT !.status = "gone"]
                                    ELSE row[s]]
    /\ resetLink' = "none"
    /\ Respond(c)
    /\ UnchangedCache /\ UnchangedAuth

\* Any other request, a wrong password, a row that is gone: nothing of this changes.
Refuse(c) ==
    /\ \/ At(c, "granted") \/ At(c, "login") \/ At(c, "change")
       \/ At(c, "resetting") \/ At(c, "reset")
    /\ Respond(c)
    /\ UNCHANGED <<account, row, resetLink>> /\ UnchangedCache /\ UnchangedAuth

\* Time passes: entries get older, whether or not they are read.
Tick ==
    /\ \E s \in SessionIds : entry[s].left > 0
    /\ entry' = [s \in SessionIds |-> IF entry[s].left <= 1 THEN Empty
                                      ELSE [entry[s] EXCEPT !.left = @ - 1]]
    /\ UNCHANGED <<account, row, resetLink, inflight, load, caller>> /\ UnchangedAuth

\* The process dies: the cache and what it was doing are gone.
AuthCrash ==
    /\ AuthFault
    /\ excused' = IF \E c \in Callers : At(c, "list") \/ At(c, "kick")
                    THEN excused \cup LiveRows ELSE excused
    /\ entry' = [s \in SessionIds |-> Empty]
    /\ inflight' = [s \in SessionIds |-> NoCaller]
    /\ load' = [c \in Callers |-> NoLoad]
    /\ caller' = [c \in Callers |-> IdleCaller]
    /\ UNCHANGED <<account, row, resetLink, dropped, raced>>

SessionsStep(c) ==
    \/ \E s \in SessionIds : Arrive(c, s)
    \/ LoginRead(c) \/ LoginCreate(c) \/ Revoke(c)
    \/ ChangeRead(c) \/ ChangeWrite(c) \/ ChangeList(c) \/ ChangeKick(c) \/ ChangeFail(c)
    \/ DropCached(c) \/ Forgot(c) \/ ResetRead(c) \/ ResetList(c) \/ ResetCommit(c)
    \/ Close(c) \/ Refuse(c)

SessionsNext ==
    \/ \E c \in Callers : SessionsStep(c) \/ LoadRead(c) \/ LoadDone(c) \/ LoadFail(c)
    \/ ExpireLink \/ Tick \/ AuthCrash

\* The database answers and time passes.
SessionsFairness ==
    /\ \A c \in Callers : WF_sessionVars(LoadRead(c)) /\ WF_sessionVars(LoadDone(c))
    /\ WF_sessionVars(Tick)

-----------------------------------------------------------------------------
Statuses == {"none", "live", "revoked", "gone"}

SessionsTypeOK ==
    /\ account \in [there : BOOLEAN, password : 0..MaxPasswords]
    /\ row \in [SessionIds -> [status : Statuses, proof : 0..MaxPasswords]]
    /\ resetLink \in {"none", "fresh"}
    /\ entry \in [SessionIds -> [val : {"none", "live"}, left : 0..Ttl]]
    /\ inflight \in [SessionIds -> Callers \cup {NoCaller}]
    /\ load \in [Callers -> [on : 0..MaxSessions, val : Statuses \cup {"awaited"}]]
    /\ \A c \in Callers :
         /\ caller[c].pc \in {"idle", "joined", "granted", "login", "change", "list", "kick",
                              "drop", "resetting", "reset"}
         /\ caller[c].sid \in 0..MaxSessions
         /\ caller[c].on \in Callers \cup {NoCaller} /\ caller[c].knows \in 0..MaxPasswords
         /\ caller[c].listed \subseteq SessionIds

Served(s) == entry[s].val = "live" \/ \E c \in Callers : load[c] = [on |-> s, val |-> "live"]

\* Once invalidateSession was called for a revoked session no request is let in with it
\* again (middleware/auth.js:28), unless a load had read its row before the revocation:
\* the entry that load leaves is served for a TTL (cache.js:58).
RevokedRefused == \A s \in dropped \ raced : ~Served(s)

\* A password change signs out every session made with an earlier password, but the one
\* that asked for it: what is left once no change is under way are logins that had read
\* the account before the change, and sessions a failing change did not reach.
OldPasswordOut ==
    (\A c \in Callers : ~At(c, "list") /\ ~At(c, "kick"))
        => \A s \in LiveRows : row[s].proof < account.password => s \in excused

\* A revoked or deleted session is refused for good in the end, also one whose cache
\* entry nobody dropped: no entry outlives its TTL, however often it is read.
RevokedForgotten ==
    \A s \in SessionIds : row[s].status \in {"revoked", "gone"} ~> [](~Served(s))

=============================================================================
