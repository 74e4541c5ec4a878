--------------------------- MODULE SessionsProofs ---------------------------
(***************************************************************************)
(* Proofs about Sessions, for any number of requests at a time, sessions    *)
(* and passwords, any TTL and any failures: a revoked session that was      *)
(* dropped from the cache is refused, and a password change leaves no       *)
(* session of an earlier password.                                          *)
(***************************************************************************)
EXTENDS Sessions, FiniteSetTheorems, TLAPS

SessionsSpec == SessionsInit /\ [][SessionsNext]_sessionVars

CallerPcs == {"idle", "joined", "granted", "login", "change", "list", "kick",
              "drop", "resetting", "reset"}
Caller == [pc : CallerPcs, sid : 0..MaxSessions, on : Callers \cup {NoCaller},
           knows : 0..MaxPasswords, listed : SUBSET SessionIds]

CallerT == caller \in [Callers -> Caller]
LoadT == /\ load \in [Callers -> [on : 0..MaxSessions, val : Statuses \cup {"awaited"}]]
         /\ \A c \in Callers : load[c].val # "none" => load[c].on \in SessionIds
CacheT == /\ entry \in [SessionIds -> [val : {"none", "live"}, left : 0..Ttl]]
          /\ inflight \in [SessionIds -> Callers \cup {NoCaller}]
RowT == /\ account \in [there : BOOLEAN, password : 0..MaxPasswords]
        /\ row \in [SessionIds -> [status : Statuses, proof : 0..MaxPasswords]]
        /\ resetLink \in {"none", "fresh"}
Typed == CallerT /\ LoadT /\ CacheT /\ RowT

\* Sessions are numbered as they are created, so a login never reuses a number.
InOrder == \E k \in 0..MaxSessions : Created = 1..k

Dead == {s \in SessionIds : row[s].status \in {"revoked", "gone"}}

\* What a request is about to do is safe: it drops dead sessions only, it lists sessions
\* that were created, a change does not list its own, which is excused.
CallerSafe(c) ==
    /\ At(c, "drop") => caller[c].listed \subseteq Dead
    /\ At(c, "kick") => /\ caller[c].listed \subseteq Created
                        /\ caller[c].sid \notin caller[c].listed
    /\ At(c, "reset") => caller[c].listed \subseteq Created
    /\ At(c, "list") \/ At(c, "kick") => caller[c].sid \in excused

DroppedIsDead == dropped \subseteq Dead

SInv == /\ Typed /\ InOrder /\ DroppedIsDead
        /\ \A c \in Callers : CallerSafe(c)
        /\ RevokedRefused /\ OldPasswordOut

-----------------------------------------------------------------------------
(* What a step may do to each part of the state.                             *)

\* A request that is answered is a request.
LEMMA IdleIsCaller == SessionsAssumption => IdleCaller \in Caller /\ IdleCaller.pc = "idle"
  <1>1. SessionsAssumption => 0 \in 0..MaxSessions /\ 0 \in 0..MaxPasswords
    BY DEF SessionsAssumption
  <1> QED BY <1>1 DEF IdleCaller, Caller, CallerPcs

\* Requests other than those in hand stand still; the others come to rest or are let in.
LEMMA Frame ==
  ASSUME SInv, RowT', Created \subseteq Created', Dead \subseteq Dead', excused \subseteq excused',
         caller' \in [Callers -> Caller],
         \A d \in Callers : caller'[d] = caller[d] \/ CallerSafe(d)'
  PROVE  CallerT' /\ \A d \in Callers : CallerSafe(d)'
  BY DEF SInv, CallerT, CallerSafe, At

\* No row comes or goes.
LEMMA SameRows ==
  ASSUME SInv, UNCHANGED <<account, row, resetLink>>
  PROVE  RowT' /\ InOrder' /\ Created' = Created /\ Dead' = Dead /\ LiveRows' = LiveRows
  BY DEF SInv, Typed, RowT, InOrder, Created, Dead, LiveRows

\* The cache is left alone, and so is what was dropped from it.
LEMMA SameCache ==
  ASSUME SInv, UNCHANGED <<entry, inflight, load, dropped, raced>>
  PROVE  LoadT' /\ CacheT' /\ RevokedRefused'
  BY DEF SInv, Typed, LoadT, CacheT, RevokedRefused, Served

\* No password change is cut short, and no session comes to life.
LEMMA StillOut ==
  ASSUME SInv, account'.password = account.password, excused \subseteq excused',
         LiveRows' \subseteq LiveRows, \A s \in LiveRows' : row'[s].proof = row[s].proof,
         \A d \in Callers : At(d, "list") \/ At(d, "kick") => At(d, "list")' \/ At(d, "kick")'
  PROVE  OldPasswordOut'
  BY DEF SInv, OldPasswordOut

\* Rows that are revoked are dead from then on, and were created.
LEMMA Revoking ==
  ASSUME SInv, NEW S \in SUBSET SessionIds, row' = RevokeRows(S),
         account' \in [there : BOOLEAN, password : 0..MaxPasswords], resetLink' \in {"none", "fresh"}
  PROVE  /\ RowT' /\ InOrder' /\ Created' = Created /\ Dead' = Dead \cup (S \cap Created)
         /\ LiveRows' = LiveRows \ S
         /\ \A s \in SessionIds : row'[s].proof = row[s].proof
  <1>1. /\ row' \in [SessionIds -> [status : Statuses, proof : 0..MaxPasswords]]
        /\ \A s \in SessionIds : /\ row'[s].proof = row[s].proof
                                 /\ row'[s].status = IF s \in S /\ row[s].status = "live" THEN "revoked"
                                                     ELSE row[s].status
    BY DEF SInv, Typed, RowT, RevokeRows, Statuses
  <1>2. \A s \in SessionIds : row[s].status \in {"none", "live", "revoked", "gone"}
    BY DEF SInv, Typed, RowT, Statuses
  <1>3. Created' = Created
    BY <1>1 DEF Created
  <1> QED
    BY <1>1, <1>2, <1>3 DEF RowT, SInv, InOrder, Dead, LiveRows, Created

-----------------------------------------------------------------------------
(* Requests that only read.                                                  *)

\* They leave rows, cache and history alone, and list live sessions at most.
LEMMA ReadersKeep ==
  ASSUME SessionsAssumption, SInv, NEW c \in Callers,
         \/ LoginRead(c) \/ ChangeRead(c) \/ ChangeList(c) \/ ResetRead(c) \/ ResetList(c)
         \/ Refuse(c) \/ Forgot(c)
  PROVE  SInv'
  <1>1. UNCHANGED <<account, row>> /\ resetLink' \in {resetLink, "none", "fresh"}
        /\ UNCHANGED <<entry, inflight, load, authFaults, dropped, raced, excused>>
    BY DEF LoginRead, ChangeRead, ChangeList, ResetRead, ResetList, Refuse, Forgot,
           UnchangedAuth, UnchangedCache
  <1>2. RowT' /\ InOrder' /\ Created' = Created /\ Dead' = Dead /\ LiveRows' = LiveRows
    BY <1>1 DEF SInv, Typed, RowT, InOrder, Created, Dead, LiveRows
  <1>3. /\ caller' \in [Callers -> Caller]
        /\ \A d \in Callers \ {c} : caller'[d] = caller[d]
        /\ caller'[c] = caller[c] \/ CallerSafe(c)'
        /\ At(c, "list") \/ At(c, "kick") => At(c, "list")' \/ At(c, "kick")'
    <2>1. CASE Forgot(c)
      BY <2>1 DEF Forgot, SInv, Typed, CallerT, At
    <2>2. CASE LoginRead(c)
      <3> DEFINE x == [IdleCaller EXCEPT !.pc = "login", !.knows = account.password]
      <3>1. x \in Caller /\ x.pc = "login"
        <4>1. account.password \in 0..MaxPasswords /\ 0 \in 0..MaxSessions
          BY DEF SInv, Typed, RowT, SessionsAssumption
        <4> QED BY <4>1 DEF Caller, CallerPcs, IdleCaller
      <3>2. caller' = [caller EXCEPT ![c] = x] /\ At(c, "idle")
        BY <2>2 DEF LoginRead
      <3> HIDE DEF x
      <3> QED BY <3>1, <3>2 DEF SInv, Typed, CallerT, At, CallerSafe
    <2>3. CASE ChangeRead(c)
      BY <2>3 DEF ChangeRead, Goto, SInv, Typed, CallerT, Caller, CallerPcs, At, CallerSafe
    <2>4. CASE ChangeList(c)
      <3> DEFINE L == LiveRows \ {caller[c].sid}
      <3>1. L \in SUBSET SessionIds /\ L \subseteq Created
        BY DEF LiveRows, Created
      <3>2. caller' = [caller EXCEPT ![c].pc = "kick", ![c].listed = L] /\ At(c, "list")
        BY <2>4 DEF ChangeList
      <3>3. caller \in [Callers -> Caller] /\ CallerSafe(c)
        BY DEF SInv, Typed, CallerT
      <3>4. /\ caller' \in [Callers -> Caller] /\ (\A d \in Callers \ {c} : caller'[d] = caller[d])
            /\ caller'[c].pc = "kick" /\ caller'[c].listed = L /\ caller'[c].sid = caller[c].sid
        BY <3>1, <3>2, <3>3 DEF Caller, CallerPcs
      <3> QED BY <1>1, <1>2, <3>1, <3>2, <3>3, <3>4 DEF At, CallerSafe
    <2>5. CASE ResetRead(c)
      BY <2>5 DEF ResetRead, SInv, Typed, CallerT, Caller, CallerPcs, IdleCaller, At, CallerSafe
    <2>6. CASE ResetList(c)
      <3> DEFINE L == LiveRows
      <3>1. L \in SUBSET SessionIds /\ L \subseteq Created
        BY DEF LiveRows, Created
      <3>2. caller' = [caller EXCEPT ![c].pc = "reset", ![c].listed = L] /\ At(c, "resetting")
        BY <2>6 DEF ResetList
      <3>3. caller \in [Callers -> Caller] /\ CallerSafe(c)
        BY DEF SInv, Typed, CallerT
      <3>4. /\ caller' \in [Callers -> Caller] /\ (\A d \in Callers \ {c} : caller'[d] = caller[d])
            /\ caller'[c].pc = "reset" /\ caller'[c].listed = L /\ caller'[c].sid = caller[c].sid
        BY <3>1, <3>2, <3>3 DEF Caller, CallerPcs
      <3> QED BY <1>1, <1>2, <3>1, <3>2, <3>3, <3>4 DEF At, CallerSafe
    <2>7. CASE Refuse(c)
      BY <2>7 DEF Refuse, Respond, SInv, Typed, CallerT, Caller, CallerPcs, IdleCaller, At, CallerSafe
    <2> QED BY <2>1, <2>2, <2>3, <2>4, <2>5, <2>6, <2>7
  <1>4. CallerT' /\ \A d \in Callers : CallerSafe(d)'
    BY <1>1, <1>2, <1>3, Frame
  <1>5. LoadT' /\ CacheT' /\ RevokedRefused'
    BY <1>1, SameCache
  <1>6. OldPasswordOut'
    BY <1>1, <1>2, <1>3, StillOut DEF At
  <1> QED BY <1>1, <1>2, <1>4, <1>5, <1>6 DEF SInv, Typed, DroppedIsDead

-----------------------------------------------------------------------------
(* Requests that write.                                                      *)

\* The next session's number is one that was never used, so it was never dropped.
LEMMA LoginKeeps ==
  ASSUME SessionsAssumption, SInv, NEW c \in Callers, LoginCreate(c)
  PROVE  SInv'
  <1>1. UNCHANGED <<account, resetLink, entry, inflight, load, dropped, raced>> /\ excused \subseteq excused'
    BY DEF LoginCreate, UnchangedCache
  <1>2. caller' = [caller EXCEPT ![c] = IdleCaller] /\ IdleCaller \in Caller /\ At(c, "login")
    BY DEF LoginCreate, Respond, IdleCaller, Caller, CallerPcs
  <1>3. /\ caller' \in [Callers -> Caller]
        /\ \A d \in Callers : caller'[d] = caller[d] \/ CallerSafe(d)'
        /\ \A d \in Callers : At(d, "list") \/ At(d, "kick") => At(d, "list")' \/ At(d, "kick")'
    BY <1>2 DEF SInv, Typed, CallerT, At, CallerSafe, IdleCaller
  <1>4. LoadT' /\ CacheT' /\ RevokedRefused'
    BY <1>1, SameCache
  <1>5. CASE ~account.there
    <2>1. UNCHANGED <<account, row, resetLink, excused>>
      BY <1>1, <1>5 DEF LoginCreate
    <2>2. RowT' /\ InOrder' /\ Created' = Created /\ Dead' = Dead /\ LiveRows' = LiveRows
      BY <2>1, SameRows
    <2>3. OldPasswordOut'
      BY <1>1, <1>3, <2>1, <2>2, StillOut
    <2>4. CallerT' /\ \A d \in Callers : CallerSafe(d)'
      BY <1>1, <1>3, <2>2, Frame
    <2> QED BY <1>1, <1>4, <2>2, <2>3, <2>4 DEF SInv, Typed, DroppedIsDead
  <1>6. CASE account.there
    <2>1. PICK s \in SessionIds :
             /\ s = Cardinality(Created) + 1
             /\ row' = [row EXCEPT ![s] = [status |-> "live", proof |-> caller[c].knows]]
             /\ excused' = IF caller[c].knows = account.password THEN excused ELSE excused \cup {s}
      BY <1>6 DEF LoginCreate
    <2>2. PICK k \in 0..MaxSessions : Created = 1..k
      BY DEF SInv, InOrder
    <2>3. Cardinality(1..k) = k
      BY <2>2, FS_Interval DEF SessionsAssumption
    <2>4. s = k + 1 /\ s \notin Created /\ k + 1 \in 0..MaxSessions
      BY <2>1, <2>2, <2>3 DEF SessionIds, SessionsAssumption
    <2>5. caller[c].knows \in 0..MaxPasswords /\ row \in [SessionIds -> [status : Statuses, proof : 0..MaxPasswords]]
          /\ row[s].status = "none"
      BY <2>4 DEF SInv, Typed, CallerT, RowT, Caller, Created
    <2>6. row' \in [SessionIds -> [status : Statuses, proof : 0..MaxPasswords]] /\ row'[s].status = "live"
          /\ row'[s].proof = caller[c].knows /\ \A t \in SessionIds \ {s} : row'[t] = row[t]
      BY <2>1, <2>5 DEF Statuses
    <2>7. Created' = Created \cup {s} /\ Dead' = Dead /\ LiveRows' = LiveRows \cup {s}
      BY <2>5, <2>6 DEF Created, Dead, LiveRows
    <2>8. Created' = 1..(k + 1)
      BY <2>2, <2>4, <2>7
    <2>9. RowT' /\ InOrder'
      BY <1>1, <2>4, <2>6, <2>8 DEF SInv, Typed, RowT, InOrder
    <2>10. CallerT' /\ \A d \in Callers : CallerSafe(d)'
      BY <1>1, <1>3, <2>7, <2>9, Frame
    <2>11. OldPasswordOut'
      <3>1. SUFFICES ASSUME \A d \in Callers : ~At(d, "list")' /\ ~At(d, "kick")', NEW t \in LiveRows',
                            row'[t].proof < account'.password
                     PROVE  t \in excused'
        BY DEF OldPasswordOut
      <3>2. CASE t # s
        <4>1. t \in LiveRows /\ row[t].proof < account.password
          BY <1>1, <2>6, <2>7, <3>1, <3>2 DEF LiveRows
        <4>2. \A d \in Callers : ~At(d, "list") /\ ~At(d, "kick")
          BY <1>3, <3>1
        <4> QED BY <1>1, <4>1, <4>2 DEF SInv, OldPasswordOut
      <3>3. CASE t = s
        BY <1>1, <2>1, <2>5, <2>6, <3>1, <3>3 DEF SInv, Typed, RowT
      <3> QED BY <3>2, <3>3
    <2> QED BY <1>1, <1>4, <2>7, <2>9, <2>10, <2>11 DEF SInv, Typed, DroppedIsDead
  <1> QED BY <1>5, <1>6

\* The revoked session is dropped next.
LEMMA RevokeKeeps ==
  ASSUME SessionsAssumption, SInv, NEW c \in Callers, Revoke(c)
  PROVE  SInv'
  <1>1. UNCHANGED <<account, resetLink, entry, inflight, load, dropped, raced, excused>>
    BY DEF Revoke, UnchangedCache, UnchangedAuth
  <1>2. PICK t \in LiveRows : /\ row' = [row EXCEPT ![t].status = "revoked"]
                              /\ caller' = [caller EXCEPT ![c].pc = "drop", ![c].listed = {t}]
    BY DEF Revoke
  <1>3. t \in SessionIds /\ row[t].status = "live" /\ t \in Created
    BY DEF LiveRows, Created
  <1>4. row' = RevokeRows({t})
    BY <1>2, <1>3 DEF RevokeRows, SInv, Typed, RowT
  <1>5. /\ RowT' /\ InOrder' /\ Created' = Created /\ Dead' = Dead \cup ({t} \cap Created)
        /\ LiveRows' = LiveRows \ {t}
        /\ \A s \in SessionIds : row'[s].proof = row[s].proof
    <2>1. account' \in [there : BOOLEAN, password : 0..MaxPasswords] /\ resetLink' \in {"none", "fresh"}
      BY <1>1 DEF SInv, Typed, RowT
    <2> QED BY <1>3, <1>4, <2>1, Revoking
  <1>6. /\ caller' \in [Callers -> Caller] /\ (\A d \in Callers \ {c} : caller'[d] = caller[d])
        /\ caller'[c].pc = "drop" /\ caller'[c].listed = {t} /\ At(c, "granted")
    <2>1. caller \in [Callers -> Caller] /\ At(c, "granted")
      BY DEF Revoke, SInv, Typed, CallerT
    <2>2. {t} \in SUBSET SessionIds
      BY <1>3
    <2> DEFINE L == {t}
    <2>3. caller' = [caller EXCEPT ![c].pc = "drop", ![c].listed = L] /\ L \in SUBSET SessionIds
      BY <1>2, <2>2
    <2> HIDE DEF L
    <2>4. /\ caller' \in [Callers -> Caller] /\ (\A d \in Callers \ {c} : caller'[d] = caller[d])
          /\ caller'[c].pc = "drop" /\ caller'[c].listed = L
      BY <2>1, <2>3 DEF Caller, CallerPcs
    <2> QED BY <2>1, <2>4 DEF L
  <1>7. \A d \in Callers : caller'[d] = caller[d] \/ CallerSafe(d)'
    BY <1>3, <1>5, <1>6 DEF CallerSafe, At
  <1>8. CallerT' /\ \A d \in Callers : CallerSafe(d)'
    BY <1>1, <1>5, <1>6, <1>7, Frame
  <1>9. OldPasswordOut'
    BY <1>1, <1>5, <1>6, StillOut DEF At, LiveRows
  <1>10. LoadT' /\ CacheT' /\ RevokedRefused'
    BY <1>1, SameCache
  <1> QED BY <1>1, <1>5, <1>8, <1>9, <1>10 DEF SInv, Typed, DroppedIsDead

\* From here on the request is at its revocation, until it succeeds or excuses what is left.
LEMMA ChangeWriteKeeps ==
  ASSUME SessionsAssumption, SInv, NEW c \in Callers, ChangeWrite(c)
  PROVE  SInv'
  <1>1. UNCHANGED <<row, resetLink, entry, inflight, load, dropped, raced>>
        /\ account' = [account EXCEPT !.password = @ + 1] /\ account.password < MaxPasswords
        /\ excused' = excused \cup {caller[c].sid}
    BY DEF ChangeWrite, UnchangedCache
  <1>2. RowT'
    BY <1>1 DEF SInv, Typed, RowT, SessionsAssumption
  <1>3. InOrder' /\ Created' = Created /\ Dead' = Dead /\ LiveRows' = LiveRows
    BY <1>1 DEF SInv, InOrder, Created, Dead, LiveRows
  <1>4. /\ caller' \in [Callers -> Caller] /\ (\A d \in Callers \ {c} : caller'[d] = caller[d])
        /\ caller'[c].pc = "list" /\ caller'[c].sid = caller[c].sid
    BY DEF ChangeWrite, Goto, SInv, Typed, CallerT, Caller, CallerPcs
  <1>5. \A d \in Callers : caller'[d] = caller[d] \/ CallerSafe(d)'
    BY <1>1, <1>4 DEF CallerSafe, At
  <1>6. CallerT' /\ \A d \in Callers : CallerSafe(d)'
    BY <1>1, <1>2, <1>3, <1>4, <1>5, Frame
  <1>7. OldPasswordOut'
    BY <1>4 DEF OldPasswordOut, At
  <1>8. LoadT' /\ CacheT' /\ RevokedRefused'
    BY <1>1, SameCache
  <1> QED BY <1>1, <1>2, <1>3, <1>6, <1>7, <1>8 DEF SInv, Typed, DroppedIsDead

\* Only the session that asked is left, and it is excused.
LEMMA ChangeKickKeeps ==
  ASSUME SessionsAssumption, SInv, NEW c \in Callers, ChangeKick(c)
  PROVE  SInv'
  <1> DEFINE S == SessionIds \ {caller[c].sid}
  <1>1. UNCHANGED <<account, resetLink, entry, inflight, load, dropped, raced, excused>>
        /\ row' = RevokeRows(S) /\ At(c, "kick")
    BY DEF ChangeKick, UnchangedCache, UnchangedAuth
  <1>2. /\ RowT' /\ InOrder' /\ Created' = Created /\ Dead' = Dead \cup (S \cap Created)
        /\ LiveRows' = LiveRows \ S
    <2>1. account' \in [there : BOOLEAN, password : 0..MaxPasswords] /\ resetLink' \in {"none", "fresh"}
      BY <1>1 DEF SInv, Typed, RowT
    <2> HIDE DEF S
    <2>2. S \in SUBSET SessionIds
      BY DEF S
    <2> QED BY <1>1, <2>1, <2>2, Revoking
  <1>3. /\ caller' \in [Callers -> Caller] /\ (\A d \in Callers \ {c} : caller'[d] = caller[d])
        /\ caller'[c].pc = "drop" /\ caller'[c].listed = caller[c].listed
    BY DEF ChangeKick, Goto, SInv, Typed, CallerT, Caller, CallerPcs
  <1>4. /\ caller[c].listed \subseteq Created /\ caller[c].sid \notin caller[c].listed
        /\ caller[c].sid \in excused /\ Created \subseteq SessionIds
    BY <1>1 DEF SInv, CallerSafe, Created, At
  <1>5. \A d \in Callers : caller'[d] = caller[d] \/ CallerSafe(d)'
    BY <1>2, <1>3, <1>4 DEF CallerSafe, At
  <1>6. CallerT' /\ \A d \in Callers : CallerSafe(d)'
    BY <1>1, <1>2, <1>3, <1>5, Frame
  <1>7. OldPasswordOut'
    BY <1>1, <1>2, <1>4 DEF OldPasswordOut, LiveRows
  <1>8. LoadT' /\ CacheT' /\ RevokedRefused'
    BY <1>1, SameCache
  <1> QED BY <1>1, <1>2, <1>6, <1>7, <1>8 DEF SInv, Typed, DroppedIsDead

\* What a failing change leaves signed in is excused.
LEMMA ChangeFailKeeps ==
  ASSUME SessionsAssumption, SInv, NEW c \in Callers, ChangeFail(c)
  PROVE  SInv'
  <1>1. UNCHANGED <<account, row, resetLink, entry, inflight, load, dropped, raced>>
        /\ excused' = excused \cup LiveRows
    BY DEF ChangeFail, UnchangedCache
  <1>2. RowT' /\ InOrder' /\ Created' = Created /\ Dead' = Dead /\ LiveRows' = LiveRows
    BY <1>1, SameRows
  <1>3. /\ caller' \in [Callers -> Caller]
        /\ \A d \in Callers : caller'[d] = caller[d] \/ CallerSafe(d)'
    BY DEF ChangeFail, Respond, IdleCaller, Caller, CallerPcs, SInv, Typed, CallerT, CallerSafe, At
  <1>4. CallerT' /\ \A d \in Callers : CallerSafe(d)'
    BY <1>1, <1>2, <1>3, Frame
  <1>5. OldPasswordOut'
    BY <1>1, <1>2 DEF OldPasswordOut
  <1>6. LoadT' /\ CacheT' /\ RevokedRefused'
    BY <1>1, SameCache
  <1> QED BY <1>1, <1>2, <1>4, <1>5, <1>6 DEF SInv, Typed, DroppedIsDead

\* What is dropped is dead, out of the cache, and loaded by nobody who is not counted as racing.
LEMMA DropKeeps ==
  ASSUME SessionsAssumption, SInv, NEW c \in Callers, DropCached(c)
  PROVE  SInv'
  <1> DEFINE S == caller[c].listed
  <1>1. /\ UNCHANGED <<account, row, resetLink, load, excused>> /\ At(c, "drop")
        /\ entry' = [s \in SessionIds |-> IF s \in S THEN Empty ELSE entry[s]]
        /\ inflight' = [s \in SessionIds |-> IF s \in S THEN NoCaller ELSE inflight[s]]
        /\ dropped' = dropped \cup S
        /\ raced' = raced \cup {s \in S : \E d \in Callers : load[d] = [on |-> s, val |-> "live"]}
    BY DEF DropCached
  <1>2. RowT' /\ InOrder' /\ Created' = Created /\ Dead' = Dead /\ LiveRows' = LiveRows
    BY <1>1, SameRows
  <1>3. /\ caller' \in [Callers -> Caller]
        /\ \A d \in Callers : caller'[d] = caller[d] \/ CallerSafe(d)'
        /\ \A d \in Callers : At(d, "list") \/ At(d, "kick") => At(d, "list")' \/ At(d, "kick")'
    BY DEF DropCached, Respond, IdleCaller, Caller, CallerPcs, SInv, Typed, CallerT, CallerSafe, At
  <1>4. CallerT' /\ \A d \in Callers : CallerSafe(d)'
    BY <1>1, <1>2, <1>3, Frame
  <1>5. OldPasswordOut'
    BY <1>1, <1>2, <1>3, StillOut
  <1>6. LoadT' /\ CacheT'
    BY <1>1 DEF SInv, Typed, LoadT, CacheT, Empty, SessionsAssumption
  <1>7. dropped' \subseteq Dead /\ dropped' \subseteq SessionIds
    BY <1>1 DEF SInv, CallerSafe, DroppedIsDead, Dead
  <1>8. RevokedRefused'
    <2> SUFFICES ASSUME NEW s \in dropped' \ raced' PROVE ~Served(s)'
      BY DEF RevokedRefused
    <2>1. CASE s \in S
      BY <1>1, <1>7, <2>1 DEF Served, Empty
    <2>2. CASE s \notin S
      BY <1>1, <1>7, <2>2 DEF SInv, RevokedRefused, Served
    <2> QED BY <2>1, <2>2
  <1> QED BY <1>1, <1>2, <1>4, <1>5, <1>6, <1>7, <1>8 DEF SInv, Typed, DroppedIsDead

\* A reset leaves no session alive.
LEMMA ResetKeeps ==
  ASSUME SessionsAssumption, SInv, NEW c \in Callers, ResetCommit(c)
  PROVE  SInv'
  <1>1. /\ UNCHANGED <<entry, inflight, load, dropped, raced, excused>>
        /\ row' = RevokeRows(SessionIds) /\ At(c, "reset") /\ resetLink' = "none"
        /\ account' = [account EXCEPT !.password = @ + 1] /\ account.password < MaxPasswords
    BY DEF ResetCommit, UnchangedCache, UnchangedAuth
  <1>2. /\ RowT' /\ InOrder' /\ Created' = Created /\ Dead' = Dead \cup (SessionIds \cap Created)
        /\ LiveRows' = LiveRows \ SessionIds
    <2>1. account' \in [there : BOOLEAN, password : 0..MaxPasswords] /\ resetLink' \in {"none", "fresh"}
      BY <1>1 DEF SInv, Typed, RowT, SessionsAssumption
    <2> QED BY <1>1, <2>1, Revoking
  <1>3. /\ caller' \in [Callers -> Caller] /\ (\A d \in Callers \ {c} : caller'[d] = caller[d])
        /\ caller'[c].pc = "drop" /\ caller'[c].listed = caller[c].listed
    BY DEF ResetCommit, Goto, SInv, Typed, CallerT, Caller, CallerPcs
  <1>4. caller[c].listed \subseteq Created /\ Created \subseteq SessionIds
    BY <1>1 DEF SInv, CallerSafe, Created, At
  <1>5. \A d \in Callers : caller'[d] = caller[d] \/ CallerSafe(d)'
    BY <1>2, <1>3, <1>4 DEF CallerSafe, At
  <1>6. CallerT' /\ \A d \in Callers : CallerSafe(d)'
    BY <1>1, <1>2, <1>3, <1>5, Frame
  <1>7. OldPasswordOut'
    BY <1>2 DEF OldPasswordOut, LiveRows
  <1>8. LoadT' /\ CacheT' /\ RevokedRefused'
    BY <1>1, SameCache
  <1> QED BY <1>1, <1>2, <1>6, <1>7, <1>8 DEF SInv, Typed, DroppedIsDead

\* Nor does the deletion of the account.
LEMMA CloseKeeps ==
  ASSUME SessionsAssumption, SInv, NEW c \in Callers, Close(c)
  PROVE  SInv'
  <1>1. /\ UNCHANGED <<entry, inflight, load, dropped, raced, excused>>
        /\ row' = [s \in SessionIds |-> IF s \in Created THEN [row[s] EXCEPT !.status = "gone"] ELSE row[s]]
        /\ resetLink' = "none" /\ account' = [account EXCEPT !.there = FALSE]
    BY DEF Close, UnchangedCache, UnchangedAuth
  <1>2. RowT'
    BY <1>1 DEF SInv, Typed, RowT, Statuses
  <1>3. Created' = Created /\ Dead' = Created /\ LiveRows' = {} /\ Dead \subseteq Created
    BY <1>1 DEF SInv, Typed, RowT, Created, Dead, LiveRows
  <1>4. /\ caller' \in [Callers -> Caller]
        /\ \A d \in Callers : caller'[d] = caller[d] \/ CallerSafe(d)'
    BY DEF Close, Respond, IdleCaller, Caller, CallerPcs, SInv, Typed, CallerT, CallerSafe, At
  <1>5. CallerT' /\ \A d \in Callers : CallerSafe(d)'
    BY <1>1, <1>2, <1>3, <1>4, Frame
  <1>6. OldPasswordOut'
    BY <1>3 DEF OldPasswordOut
  <1>7. LoadT' /\ CacheT' /\ RevokedRefused'
    BY <1>1, SameCache
  <1> QED BY <1>1, <1>2, <1>3, <1>5, <1>6, <1>7 DEF SInv, Typed, DroppedIsDead, InOrder

-----------------------------------------------------------------------------
(* The cache.                                                                *)

\* A step of the cache leaves rows and history alone and lets callers in or sends them away.
LEMMA CacheStep ==
  ASSUME SInv, UNCHANGED <<account, row, resetLink, dropped, raced, excused>>,
         caller' \in [Callers -> Caller],
         \A d \in Callers : caller'[d] = caller[d]
                               \/ /\ ~At(d, "list") /\ ~At(d, "kick")
                                  /\ caller'[d].pc \in {"idle", "joined", "granted"},
         LoadT', CacheT', RevokedRefused'
  PROVE  SInv'
  <1>1. RowT' /\ InOrder' /\ Created' = Created /\ Dead' = Dead /\ LiveRows' = LiveRows
    BY SameRows
  <1>2. \A d \in Callers : caller'[d] = caller[d] \/ CallerSafe(d)'
    BY DEF CallerSafe, At
  <1>3. CallerT' /\ \A d \in Callers : CallerSafe(d)'
    BY <1>1, <1>2, Frame
  <1>4. OldPasswordOut'
    BY <1>1, StillOut DEF At
  <1> QED BY <1>1, <1>3, <1>4 DEF SInv, Typed, DroppedIsDead

\* A request is let in only with an entry that was served before; what it loads is awaited.
LEMMA ArriveKeeps ==
  ASSUME SessionsAssumption, SInv, NEW c \in Callers, NEW s \in SessionIds, Arrive(c, s)
  PROVE  SInv'
  <1> DEFINE asks == [IdleCaller EXCEPT !.sid = s]
  <1>1. UNCHANGED <<account, row, resetLink, entry, dropped, raced, excused>> /\ At(c, "idle")
    BY DEF Arrive, UnchangedAuth
  <1>2. PICK x \in Caller : caller' = [caller EXCEPT ![c] = x] /\ x.pc \in {"joined", "granted"}
    <2>1. inflight[s] \in Callers \cup {NoCaller}
      BY DEF SInv, Typed, CacheT
    <2>2. \A pc \in {"joined", "granted"}, on \in Callers \cup {NoCaller} :
             /\ [asks EXCEPT !.pc = pc, !.on = on] \in Caller
             /\ [asks EXCEPT !.pc = pc, !.on = on].pc = pc
             /\ [asks EXCEPT !.pc = pc] \in Caller
             /\ [asks EXCEPT !.pc = pc].pc = pc
      <3>1. s \in 0..MaxSessions /\ 0 \in 0..MaxPasswords
        BY DEF SessionIds, SessionsAssumption
      <3> QED BY <3>1 DEF IdleCaller, Caller, CallerPcs
    <2>3. \/ caller' = [caller EXCEPT ![c] = [asks EXCEPT !.pc = "granted"]]
          \/ caller' = [caller EXCEPT ![c] = [asks EXCEPT !.pc = "joined", !.on = inflight[s]]]
          \/ caller' = [caller EXCEPT ![c] = [asks EXCEPT !.pc = "joined", !.on = c]]
      BY DEF Arrive
    <2>4. CASE caller' = [caller EXCEPT ![c] = [asks EXCEPT !.pc = "granted"]]
      <3>1. [asks EXCEPT !.pc = "granted"] \in Caller /\ [asks EXCEPT !.pc = "granted"].pc = "granted"
        BY <2>2
      <3> HIDE DEF asks
      <3> QED BY <2>4, <3>1
    <2>5. ASSUME NEW on \in Callers \cup {NoCaller},
                 caller' = [caller EXCEPT ![c] = [asks EXCEPT !.pc = "joined", !.on = on]]
          PROVE  \E x \in Caller : caller' = [caller EXCEPT ![c] = x] /\ x.pc \in {"joined", "granted"}
      <3>1. /\ [asks EXCEPT !.pc = "joined", !.on = on] \in Caller
            /\ [asks EXCEPT !.pc = "joined", !.on = on].pc = "joined"
        BY <2>2
      <3> HIDE DEF asks
      <3> QED BY <2>5, <3>1
    <2> HIDE DEF asks
    <2> QED BY <2>1, <2>3, <2>4, <2>5
  <1>3. /\ caller' \in [Callers -> Caller] /\ (\A d \in Callers \ {c} : caller'[d] = caller[d])
        /\ caller'[c].pc \in {"joined", "granted"}
    BY <1>2 DEF SInv, Typed, CallerT
  <1>4. \/ UNCHANGED <<inflight, load>>
        \/ /\ inflight' = [inflight EXCEPT ![s] = c]
           /\ load' = [load EXCEPT ![c] = [on |-> s, val |-> "awaited"]]
    BY DEF Arrive
  <1>5. LoadT' /\ CacheT'
    <2>1. LoadT /\ CacheT /\ s \in 0..MaxSessions
      BY DEF SInv, Typed, SessionIds
    <2>2. CASE UNCHANGED <<inflight, load>>
      BY <1>1, <2>1, <2>2 DEF LoadT, CacheT
    <2>3. CASE inflight' = [inflight EXCEPT ![s] = c] /\ load' = [load EXCEPT ![c] = [on |-> s, val |-> "awaited"]]
      <3>1. LoadT'
        BY <2>1, <2>3 DEF LoadT, Statuses
      <3>2. CacheT'
        BY <1>1, <2>1, <2>3 DEF CacheT
      <3> QED BY <3>1, <3>2
    <2> QED BY <1>4, <2>2, <2>3
  <1>6. RevokedRefused'
    <2>1. \A d \in Callers : load'[d] = load[d] \/ load'[d].val = "awaited"
      BY <1>4 DEF SInv, Typed, LoadT
    <2> QED BY <1>1, <2>1 DEF SInv, RevokedRefused, Served
  <1> QED BY <1>1, <1>3, <1>5, <1>6, CacheStep DEF At

\* A dropped session's row is dead: a load that reads it now does not find it live.
LEMMA LoadReadKeeps ==
  ASSUME SessionsAssumption, SInv, NEW c \in Callers, LoadRead(c)
  PROVE  SInv'
  <1>1. /\ UNCHANGED <<account, row, resetLink, entry, inflight, caller, dropped, raced, excused>>
        /\ load[c].val = "awaited" /\ load' = [load EXCEPT ![c].val = row[load[c].on].status]
    BY DEF LoadRead, UnchangedAuth
  <1>2. load[c].on \in SessionIds /\ row[load[c].on].status \in Statuses
    BY <1>1 DEF SInv, Typed, LoadT, RowT
  <1>3. LoadT' /\ CacheT'
    BY <1>1, <1>2 DEF SInv, Typed, LoadT, CacheT
  <1>4. RevokedRefused'
    <2>1. load'[c].on = load[c].on /\ load'[c].val = row[load[c].on].status
          /\ \A d \in Callers \ {c} : load'[d] = load[d]
      BY <1>1 DEF SInv, Typed, LoadT
    <2>2. \A s \in dropped : row[s].status # "live"
      BY DEF SInv, DroppedIsDead, Dead
    <2>3. \A s \in dropped : load'[c] # [on |-> s, val |-> "live"]
      BY <2>1, <2>2
    <2> QED BY <1>1, <2>1, <2>3 DEF SInv, RevokedRefused, Served
  <1>5. caller' \in [Callers -> Caller] /\ \A d \in Callers : caller'[d] = caller[d]
    BY <1>1 DEF SInv, Typed, CallerT
  <1> QED BY <1>1, <1>3, <1>4, <1>5, CacheStep

\* Those who wait for a load are let in or sent away.
LEMMA Resuming ==
  ASSUME SessionsAssumption, SInv, NEW c \in Callers, NEW granted \in BOOLEAN,
         caller' = Resumed(c, granted)
  PROVE  /\ caller' \in [Callers -> Caller]
         /\ \A d \in Callers : caller'[d] = caller[d]
                                  \/ /\ ~At(d, "list") /\ ~At(d, "kick")
                                     /\ caller'[d].pc \in {"idle", "joined", "granted"}
  <1>1. SUFFICES ASSUME NEW d \in Callers
                 PROVE  /\ Resumed(c, granted)[d] \in Caller
                        /\ Resumed(c, granted)[d] = caller[d]
                           \/ /\ ~At(d, "list") /\ ~At(d, "kick")
                              /\ Resumed(c, granted)[d].pc \in {"idle", "joined", "granted"}
    <2>1. Resumed(c, granted) = [d \in Callers |-> Resumed(c, granted)[d]]
      BY DEF Resumed
    <2> QED BY <1>1, <2>1
  <1>2. caller[d] \in Caller
    BY DEF SInv, Typed, CallerT
  <1>3. IdleCaller \in Caller /\ IdleCaller.pc = "idle"
    BY IdleIsCaller
  <1>4. [caller[d] EXCEPT !.pc = "granted", !.on = NoCaller] \in Caller
        /\ [caller[d] EXCEPT !.pc = "granted", !.on = NoCaller].pc = "granted"
    BY <1>2 DEF Caller, CallerPcs
  <1>5. CASE caller[d].pc = "joined" /\ caller[d].on = c
    BY <1>3, <1>4, <1>5 DEF Resumed, At
  <1>6. CASE ~(caller[d].pc = "joined" /\ caller[d].on = c)
    BY <1>2, <1>6 DEF Resumed
  <1> QED BY <1>5, <1>6

\* What a load caches it had read as live, so it was served before.
LEMMA LoadDoneKeeps ==
  ASSUME SessionsAssumption, SInv, NEW c \in Callers, LoadDone(c)
  PROVE  SInv'
  <1> DEFINE s == load[c].on
  <1>1. /\ UNCHANGED <<account, row, resetLink, dropped, raced, excused>>
        /\ load' = [load EXCEPT ![c] = NoLoad]
        /\ inflight' = [inflight EXCEPT ![s] = NoCaller]
        /\ entry' = [entry EXCEPT ![s] = IF load[c].val = "live" THEN [val |-> "live", left |-> Ttl] ELSE Empty]
        /\ caller' = Resumed(c, load[c].val = "live")
        /\ load[c].val # "none"
    BY DEF LoadDone, UnchangedAuth
  <1>2. LoadT' /\ CacheT'
    BY <1>1 DEF SInv, Typed, LoadT, CacheT, NoLoad, Empty, Statuses, SessionsAssumption
  <1>3. RevokedRefused'
    <2> SUFFICES ASSUME NEW t \in dropped \ raced PROVE ~Served(t)'
      BY <1>1 DEF RevokedRefused
    <2>1. ~Served(t) /\ t \in SessionIds
      BY DEF SInv, RevokedRefused, DroppedIsDead, Dead
    <2>2. load[c].val = "live" => s # t
      BY <2>1 DEF Served, SInv, Typed, LoadT
    <2>3. entry'[t].val # "live"
      BY <1>1, <2>1, <2>2 DEF Served, SInv, Typed, CacheT, Empty
    <2>4. \A d \in Callers : load'[d] # [on |-> t, val |-> "live"]
      BY <1>1, <2>1 DEF Served, SInv, Typed, LoadT, NoLoad
    <2> QED BY <2>3, <2>4 DEF Served
  <1> QED BY <1>1, <1>2, <1>3, CacheStep, Resuming

\* A failing load caches nothing.
LEMMA LoadFailKeeps ==
  ASSUME SessionsAssumption, SInv, NEW c \in Callers, LoadFail(c)
  PROVE  SInv'
  <1>1. /\ UNCHANGED <<account, row, resetLink, entry, dropped, raced, excused>>
        /\ load' = [load EXCEPT ![c] = NoLoad] /\ caller' = Resumed(c, FALSE)
        /\ inflight' = [inflight EXCEPT ![load[c].on] = NoCaller] /\ load[c].val = "awaited"
    BY DEF LoadFail
  <1>2. LoadT' /\ CacheT'
    BY <1>1 DEF SInv, Typed, LoadT, CacheT, NoLoad, Statuses, SessionsAssumption
  <1>3. RevokedRefused'
    <2>1. \A d \in Callers : load'[d] = load[d] \/ load'[d].val = "none"
      BY <1>1 DEF SInv, Typed, LoadT, NoLoad
    <2> QED BY <1>1, <2>1 DEF SInv, RevokedRefused, Served
  <1> QED BY <1>1, <1>2, <1>3, CacheStep, Resuming

\* Entries only get older.
LEMMA TickKeeps ==
  ASSUME SessionsAssumption, SInv, Tick
  PROVE  SInv'
  <1>1. /\ UNCHANGED <<account, row, resetLink, inflight, load, caller, dropped, raced, excused>>
        /\ entry' = [s \in SessionIds |-> IF entry[s].left <= 1 THEN Empty
                                          ELSE [entry[s] EXCEPT !.left = @ - 1]]
    BY DEF Tick, UnchangedAuth
  <1>2. \A s \in SessionIds : /\ entry'[s] \in [val : {"none", "live"}, left : 0..Ttl]
                              /\ entry'[s].val \in {entry[s].val, "none"}
    BY <1>1 DEF SInv, Typed, CacheT, Empty, SessionsAssumption
  <1>3. LoadT' /\ CacheT'
    BY <1>1, <1>2 DEF SInv, Typed, LoadT, CacheT
  <1>4. RevokedRefused'
    <2>1. dropped \subseteq SessionIds
      BY DEF SInv, DroppedIsDead, Dead
    <2> QED BY <1>1, <1>2, <2>1 DEF SInv, RevokedRefused, Served
  <1>5. caller' \in [Callers -> Caller] /\ \A d \in Callers : caller'[d] = caller[d]
    BY <1>1 DEF SInv, Typed, CallerT
  <1> QED BY <1>1, <1>3, <1>4, <1>5, CacheStep

\* A crash forgets the cache; sessions a change had not reached are excused.
LEMMA AuthCrashKeeps ==
  ASSUME SessionsAssumption, SInv, AuthCrash
  PROVE  SInv'
  <1>1. /\ UNCHANGED <<account, row, resetLink, dropped, raced>>
        /\ excused' = IF \E c \in Callers : At(c, "list") \/ At(c, "kick")
                        THEN excused \cup LiveRows ELSE excused
        /\ entry' = [s \in SessionIds |-> Empty] /\ inflight' = [s \in SessionIds |-> NoCaller]
        /\ load' = [c \in Callers |-> NoLoad] /\ caller' = [c \in Callers |-> IdleCaller]
    BY DEF AuthCrash
  <1>2. RowT' /\ InOrder' /\ Created' = Created /\ Dead' = Dead /\ LiveRows' = LiveRows
    BY <1>1, SameRows
  <1>3. LoadT' /\ CacheT'
    BY <1>1 DEF LoadT, CacheT, NoLoad, Empty, Statuses, SessionsAssumption
  <1>4. CallerT' /\ \A d \in Callers : CallerSafe(d)'
    BY <1>1 DEF CallerT, CallerSafe, At, IdleCaller, Caller, CallerPcs, SessionsAssumption
  <1>5. RevokedRefused'
    <2>1. dropped' \subseteq SessionIds
      BY <1>1 DEF SInv, DroppedIsDead, Dead
    <2> QED BY <1>1, <2>1 DEF RevokedRefused, Served, Empty, NoLoad
  <1>6. OldPasswordOut'
    BY <1>1, <1>2 DEF SInv, OldPasswordOut
  <1> QED BY <1>1, <1>2, <1>3, <1>4, <1>5, <1>6 DEF SInv, Typed, DroppedIsDead

-----------------------------------------------------------------------------
\* The account starts with its first password and no session.
LEMMA InitSInv == ASSUME SessionsAssumption, SessionsInit PROVE SInv
  <1>1. Typed
    BY DEF SessionsInit, Typed, CallerT, LoadT, CacheT, RowT, Caller, CallerPcs, IdleCaller, NoLoad,
           Empty, Statuses, SessionsAssumption
  <1>2. Created = 1..0 /\ 0 \in 0..MaxSessions
    BY DEF SessionsInit, Created, SessionsAssumption
  <1>3. DroppedIsDead /\ RevokedRefused /\ OldPasswordOut
    BY DEF SessionsInit, DroppedIsDead, RevokedRefused, OldPasswordOut, LiveRows
  <1>4. \A c \in Callers : CallerSafe(c)
    BY DEF SessionsInit, CallerSafe, At, IdleCaller
  <1> QED BY <1>1, <1>2, <1>3, <1>4 DEF SInv, InOrder

\* An expired link changes nothing else.
LEMMA ExpireKeeps == ASSUME SInv, ExpireLink PROVE SInv'
  <1>1. /\ UNCHANGED <<account, row, caller, entry, inflight, load, dropped, raced, excused>>
        /\ resetLink' = "none"
    BY DEF ExpireLink, UnchangedCache, UnchangedAuth
  <1> QED BY <1>1 DEF SInv, Typed, CallerT, LoadT, CacheT, RowT, InOrder, Created, Dead, DroppedIsDead,
                      CallerSafe, At, RevokedRefused, Served, OldPasswordOut, LiveRows

\* Every step keeps the invariant.
LEMMA NextSInv == ASSUME SessionsAssumption, SInv, [SessionsNext]_sessionVars PROVE SInv'
  <1>1. ASSUME NEW c \in Callers, SessionsStep(c) PROVE SInv'
    BY <1>1, ArriveKeeps, ReadersKeep, LoginKeeps, RevokeKeeps, ChangeWriteKeeps, ChangeKickKeeps,
       ChangeFailKeeps, DropKeeps, ResetKeeps, CloseKeeps DEF SessionsStep
  <1>2. ASSUME NEW c \in Callers, LoadRead(c) \/ LoadDone(c) \/ LoadFail(c) PROVE SInv'
    BY <1>2, LoadReadKeeps, LoadDoneKeeps, LoadFailKeeps
  <1>3. CASE ExpireLink
    BY <1>3, ExpireKeeps
  <1>4. CASE Tick \/ AuthCrash
    BY <1>4, TickKeeps, AuthCrashKeeps
  <1>5. CASE UNCHANGED sessionVars
    <2>1. /\ UNCHANGED <<account, row, resetLink, dropped, raced, excused, entry, inflight, load, caller>>
      BY <1>5 DEF sessionVars
    <2>2. LoadT' /\ CacheT' /\ RevokedRefused'
      BY <2>1, SameCache
    <2>3. caller' \in [Callers -> Caller] /\ \A d \in Callers : caller'[d] = caller[d]
      BY <2>1 DEF SInv, Typed, CallerT
    <2> QED BY <2>1, <2>2, <2>3, CacheStep
  <1> QED BY <1>1, <1>2, <1>3, <1>4, <1>5 DEF SessionsNext

\* The conjunction is invariant in every behaviour.
THEOREM SessionsInvariance == SessionsSpec => []SInv
  <1>1. SessionsInit => SInv
    BY InitSInv, SessionsAssumption
  <1>2. SInv /\ [SessionsNext]_sessionVars => SInv'
    BY NextSInv, SessionsAssumption
  <1> QED BY <1>1, <1>2, PTL DEF SessionsSpec

\* Every variable keeps its type.
THEOREM SessionsTypeCorrect == SessionsSpec => []SessionsTypeOK
  <1>1. SInv => SessionsTypeOK
    BY DEF SInv, Typed, CallerT, LoadT, CacheT, RowT, Caller, CallerPcs, SessionsTypeOK
  <1> QED BY <1>1, SessionsInvariance, PTL

\* Whatever requests, loads, failures and crashes overlap, a session that was revoked and
\* dropped from the cache is not let in again, unless a load had read its row as live before
\* (middleware/auth.js:28, services/cache.js:58).
THEOREM RevokedStaysOut == SessionsSpec => []RevokedRefused
  <1>1. SInv => RevokedRefused
    BY DEF SInv
  <1> QED BY <1>1, SessionsInvariance, PTL

\* However many changes, resets and logins overlap, a session of an earlier password is alive
\* only while a change is at its revocation, or for one of the named causes (routes/auth.js).
THEOREM PasswordChangeSignsOut == SessionsSpec => []OldPasswordOut
  <1>1. SInv => OldPasswordOut
    BY DEF SInv
  <1> QED BY <1>1, SessionsInvariance, PTL

=============================================================================
