---------------------------- MODULE ClientsProofs ----------------------------
(***************************************************************************)
(* Proofs about what runs on the user's side, each for every value of the   *)
(* constants: the SDK's read cache (type correctness, that what is stored   *)
(* under current versions is fresh, and that reads are fresh but for the    *)
(* causes ReadsFresh names), the migration wizard (a job is what was shown, *)
(* its end is shown) and the data browser (edits stay in the row they were  *)
(* made in).  The three share no state.                                     *)
(***************************************************************************)
EXTENDS SdkCache, Browser, MigrateWizard, SequenceTheorems, TLAPS

-----------------------------------------------------------------------------
(* The read cache.                                                          *)

Covered(w, v) == bumpNo[w] # 0 /\ Reached(w) /\ bumpNo[w] <= v[WriteTag(w)]

\* Writes: a returned or bumped write is committed, and a write that has not
\* returned has bumped nothing.
WritesOK ==
    \A w \in Writers :
        /\ write[w] = "done" => w \in committed
        /\ write[w] = "bump" => w \in committed
        /\ write[w] # "done" => bumpNo[w] = 0

\* A read began after the writes in its history had returned, and goes to the
\* cache with every version fetched.
ReadsOK ==
    \A r \in Readers :
        /\ \A w \in before[r] : write[w] = "done"
        /\ read[r] = "idle" => unread[r] = SelectTags
        /\ read[r] \notin {"idle", "tags"} => unread[r] = {}
        /\ read[r] = "set" => before[r] \subseteq result[r]

\* No version anywhere is ahead of its counter.
VersionsBounded ==
    evictions = 0 =>
        /\ \A w \in Writers : bumpNo[w] <= counter[WriteTag(w)]
        /\ \A r \in Readers, t \in SelectTags : salt[r][t] <= counter[t]
        /\ \A e \in entries, t \in SelectTags : e.salt[t] <= counter[t]

\* A stored result, or one about to be stored, reflects every write whose bump
\* its versions include.
StoredFresh ==
    evictions = 0 =>
        \A w \in Writers :
            /\ \A e \in entries : Covered(w, e.salt) => w \in e.value
            /\ \A r \in Readers : read[r] = "set" /\ Covered(w, salt[r]) => w \in result[r]

\* The versions a read has seen include the bumps of the writes before it.
SaltRecent ==
    evictions = 0 =>
        \A r \in Readers \ blind : \A w \in before[r] :
            bumpNo[w] # 0 /\ Reached(w) /\ WriteTag(w) \notin unread[r] => Covered(w, salt[r])

IInv == /\ TypeOK /\ WritesOK /\ ReadsOK
        /\ VersionsBounded /\ StoredFresh /\ SaltRecent /\ ReadsFresh

-----------------------------------------------------------------------------

USE DEF readVars, writeVars, Served, Broken, Connected, Unavailable, Failure, NoFailure

\* The tag of every write is among the counters.
LEMMA TagsCovered ==
  /\ SelectTags \subseteq Tags
  /\ \A w \in Writers : WriteTag(w) \in Tags
  BY DEF Tags

\* ReadStart preserves the invariant: a read that begins has fetched no version yet.
LEMMA ReadStartKeeps ==
  ASSUME SdkCacheAssumption, IInv, NEW r \in Readers, ReadStart(r)
  PROVE  IInv'
  <1> USE TagsCovered DEF ReadStart
  <1>1. TypeOK'
    BY SMTT(30) DEF IInv, TypeOK, Returned
  <1>2. WritesOK'
    BY SMTT(30) DEF IInv, TypeOK, WritesOK
  <1>3. ReadsOK'
    BY SMTT(30) DEF IInv, TypeOK, WritesOK, ReadsOK, Returned
  <1>4. VersionsBounded'
    BY SMTT(30) DEF IInv, TypeOK, WritesOK, VersionsBounded
  <1>5. StoredFresh'
    BY SMTT(30) DEF IInv, TypeOK, WritesOK, ReadsOK, VersionsBounded, StoredFresh, Covered, Reached
  <1>6. SaltRecent'
    BY SMTT(30) DEF IInv, TypeOK, WritesOK, ReadsOK, VersionsBounded, SaltRecent, Covered, Reached, Returned
  <1>7. ReadsFresh'
    BY SMTT(30) DEF IInv, TypeOK, WritesOK, ReadsOK, StoredFresh, SaltRecent, Covered, Reached, ReadsFresh, Missed
  <1> QED BY <1>1, <1>2, <1>3, <1>4, <1>5, <1>6, <1>7 DEF IInv

\* ReadTag preserves the invariant: the version read is the current one, which
\* includes every bump so far.
LEMMA ReadTagKeeps ==
  ASSUME SdkCacheAssumption, IInv, NEW r \in Readers, NEW t \in SelectTags, ReadTag(r, t)
  PROVE  IInv'
  <1> USE TagsCovered DEF ReadTag
  <1>1. TypeOK'
    <2>1. unread' \in [Readers -> SUBSET SelectTags]
      BY DEF IInv, TypeOK
    <2>2. salt' \in [Readers -> [SelectTags -> Nat]]
      <3>1. \/ salt' = [salt EXCEPT ![r] = [salt[r] EXCEPT ![t] = counter[t]]]
            \/ salt' = salt
        OBVIOUS
      <3>2. counter[t] \in Nat /\ salt[r] \in [SelectTags -> Nat]
        BY DEF IInv, TypeOK
      <3>3. [salt[r] EXCEPT ![t] = counter[t]] \in [SelectTags -> Nat]
        BY <3>2
      <3> QED BY <3>1, <3>3 DEF IInv, TypeOK
    <2>3. link' \in [Clients -> {"none", "up", "cooldown"}]
      BY DEF IInv, TypeOK
    <2>4. failures' \in Nat /\ blind' \subseteq Readers
      BY DEF IInv, TypeOK
    <2>5. UNCHANGED <<committed, counter, entries, read, result, write, evictions, before, bumpNo>>
      OBVIOUS
    <2> HIDE DEF ReadTag
    <2> QED BY <2>1, <2>2, <2>3, <2>4, <2>5 DEF IInv, TypeOK
  <1>2. WritesOK'
    BY SMTT(30) DEF IInv, TypeOK, WritesOK
  <1>3. ReadsOK'
    BY SMTT(30) DEF IInv, TypeOK, WritesOK, ReadsOK, Returned
  <1>4. VersionsBounded'
    <2>1. UNCHANGED <<bumpNo, counter, entries, evictions>>
      OBVIOUS
    <2>2. \A q \in Readers, u \in SelectTags :
             salt'[q][u] = salt[q][u] \/ salt'[q][u] = counter[u]
      BY DEF IInv, TypeOK
    <2>3. counter \in [Tags -> Nat]
      BY DEF IInv, TypeOK
    <2> HIDE DEF ReadTag
    <2> QED BY <2>1, <2>2, <2>3, SMTT(30) DEF IInv, VersionsBounded
  <1>5. StoredFresh'
    <2>1. UNCHANGED <<read, result, bumpNo, entries, evictions>>
      OBVIOUS
    <2>2. read[r] # "set"
      OBVIOUS
    <2>3. \A q \in Readers \ {r} : salt'[q] = salt[q]
      BY DEF IInv, TypeOK
    <2> HIDE DEF ReadTag
    <2> QED BY <2>1, <2>2, <2>3, SMTT(30) DEF IInv, StoredFresh, Covered, Reached
  <1>6. SaltRecent'
    BY SMTT(30) DEF IInv, TypeOK, WritesOK, ReadsOK, VersionsBounded, SaltRecent, Covered, Reached, Returned
  <1>7. ReadsFresh'
    BY SMTT(30) DEF IInv, TypeOK, WritesOK, ReadsOK, StoredFresh, SaltRecent, Covered, Reached, ReadsFresh, Missed
  <1> QED BY <1>1, <1>2, <1>3, <1>4, <1>5, <1>6, <1>7 DEF IInv

\* ReadCache preserves the invariant: an entry under the versions read covers the
\* writes before the read.
LEMMA ReadCacheKeeps ==
  ASSUME SdkCacheAssumption, IInv, NEW r \in Readers, ReadCache(r)
  PROVE  IInv'
  <1> USE TagsCovered DEF ReadCache
  <1>1. TypeOK'
    <2>1. \A e \in entries : e.value \in SUBSET Writers
      BY DEF IInv, TypeOK
    <2>2. result' \in [Readers -> SUBSET Writers]
      BY <2>1, SMTT(30) DEF IInv, TypeOK
    <2>3. \E p \in {"load", "loadOnly", "done"} : read' = [read EXCEPT ![r] = p]
      OBVIOUS
    <2>4. \/ link' = [link EXCEPT ![ClientOf[r]] = "up"]
          \/ link' = [link EXCEPT ![ClientOf[r]] = "cooldown"]
          \/ link' = link
      OBVIOUS
    <2>5. failures' = failures \/ failures' = failures + 1
      OBVIOUS
    <2>6. link' \in [Clients -> {"none", "up", "cooldown"}] /\ failures' \in Nat
      <3>1. link \in [Clients -> {"none", "up", "cooldown"}] /\ failures \in Nat
        BY DEF IInv, TypeOK
      <3> QED BY <2>4, <2>5, <3>1
    <2>7. read' \in [Readers -> {"idle", "tags", "load", "loadOnly", "set", "done"}]
      BY <2>3, SMTT(30) DEF IInv, TypeOK
    <2>8. UNCHANGED <<unread, salt, before, blind, writeVars, counter, entries, evictions>>
      OBVIOUS
    <2> HIDE DEF ReadCache
    <2> QED BY <2>2, <2>6, <2>7, <2>8, SMTT(30) DEF IInv, TypeOK
  <1>2. WritesOK'
    BY SMTT(30) DEF IInv, TypeOK, WritesOK
  <1>3. ReadsOK'
    <2>1. UNCHANGED <<unread, before, write>>
      OBVIOUS
    <2>2. read[r] = "tags" /\ unread[r] = {} /\ read'[r] \in {"load", "loadOnly", "done"}
      BY DEF IInv, TypeOK
    <2>3. \A q \in Readers \ {r} : read'[q] = read[q] /\ result'[q] = result[q]
      BY DEF IInv, TypeOK
    <2> HIDE DEF ReadCache
    <2> QED BY <2>1, <2>2, <2>3, SMTT(30) DEF IInv, ReadsOK
  <1>4. VersionsBounded'
    BY SMTT(30) DEF IInv, TypeOK, WritesOK, VersionsBounded
  <1>5. StoredFresh'
    BY SMTT(30) DEF IInv, TypeOK, WritesOK, ReadsOK, VersionsBounded, StoredFresh, Covered, Reached
  <1>6. SaltRecent'
    BY SMTT(30) DEF IInv, TypeOK, WritesOK, ReadsOK, VersionsBounded, SaltRecent, Covered, Reached, Returned
  <1>7. ReadsFresh'
    <2>1. UNCHANGED <<before, blind, bumpNo, evictions>>
      OBVIOUS
    <2>2. \A q \in Readers \ {r} : read'[q] = read[q] /\ result'[q] = result[q]
      BY DEF IInv, TypeOK
    <2>3. read'[r] = "done" =>
             unread[r] = {} /\ \E e \in entries : e.salt = salt[r] /\ result'[r] = e.value
      BY DEF IInv, TypeOK
    <2> HIDE DEF ReadCache
    <2>4. ASSUME NEW w \in Writers, read'[r] = "done", Missed(r, w)'
          PROVE  bumpNo[w] = 0 \/ r \in blind \/ evictions > 0 \/ ~Reached(w)
      <3>1. PICK e \in entries : e.salt = salt[r] /\ result'[r] = e.value
        BY <2>3, <2>4
      <3>2. w \in before[r] /\ w \notin e.value
        BY <2>1, <2>4, <3>1 DEF Missed
      <3>3. evictions \in Nat
        BY DEF IInv, TypeOK
      <3>4. CASE evictions = 0
        <4>1. ~Covered(w, salt[r])
          BY <3>1, <3>2, <3>4 DEF IInv, StoredFresh
        <4> QED BY <2>3, <2>4, <3>2, <3>4, <4>1 DEF IInv, SaltRecent
      <3> QED BY <3>3, <3>4
    <2> QED BY <2>1, <2>2, <2>4, SMTT(30) DEF IInv, ReadsFresh, Missed, Affects, Reached
  <1> QED BY <1>1, <1>2, <1>3, <1>4, <1>5, <1>6, <1>7 DEF IInv

\* ReadLoad preserves the invariant: the database reflects every returned write.
LEMMA ReadLoadKeeps ==
  ASSUME SdkCacheAssumption, IInv, NEW r \in Readers, ReadLoad(r)
  PROVE  IInv'
  <1> USE TagsCovered DEF ReadLoad
  <1>1. TypeOK'
    BY SMTT(30) DEF IInv, TypeOK
  <1>2. WritesOK'
    BY SMTT(30) DEF IInv, TypeOK, WritesOK
  <1>3. ReadsOK'
    BY SMTT(30) DEF IInv, TypeOK, WritesOK, ReadsOK, Returned
  <1>4. VersionsBounded'
    BY SMTT(30) DEF IInv, TypeOK, WritesOK, VersionsBounded
  <1>5. StoredFresh'
    BY SMTT(30) DEF IInv, TypeOK, WritesOK, ReadsOK, VersionsBounded, StoredFresh, Covered, Reached
  <1>6. SaltRecent'
    BY SMTT(30) DEF IInv, TypeOK, WritesOK, ReadsOK, VersionsBounded, SaltRecent, Covered, Reached, Returned
  <1>7. ReadsFresh'
    BY SMTT(30) DEF IInv, TypeOK, WritesOK, ReadsOK, StoredFresh, SaltRecent, Covered, Reached, ReadsFresh, Missed
  <1> QED BY <1>1, <1>2, <1>3, <1>4, <1>5, <1>6, <1>7 DEF IInv

\* ReadStore preserves the invariant: the result was loaded after its versions were
\* fetched.
LEMMA ReadStoreKeeps ==
  ASSUME SdkCacheAssumption, IInv, NEW r \in Readers, ReadStore(r)
  PROVE  IInv'
  <1> USE TagsCovered DEF ReadStore
  <1>1. TypeOK'
    <2>1. [salt |-> salt[r], value |-> result[r]] \in [salt : [SelectTags -> Nat], value : SUBSET Writers]
      BY DEF IInv, TypeOK
    <2>2. entries' \subseteq [salt : [SelectTags -> Nat], value : SUBSET Writers]
      BY <2>1, SMTT(30) DEF IInv, TypeOK
    <2> QED BY <2>2, SMTT(30) DEF IInv, TypeOK
  <1>2. WritesOK'
    BY SMTT(30) DEF IInv, TypeOK, WritesOK
  <1>3. ReadsOK'
    BY SMTT(30) DEF IInv, TypeOK, WritesOK, ReadsOK, Returned
  <1>4. VersionsBounded'
    BY SMTT(30) DEF IInv, TypeOK, WritesOK, VersionsBounded
  <1>5. StoredFresh'
    BY SMTT(30) DEF IInv, TypeOK, WritesOK, ReadsOK, VersionsBounded, StoredFresh, Covered, Reached
  <1>6. SaltRecent'
    BY SMTT(30) DEF IInv, TypeOK, WritesOK, ReadsOK, VersionsBounded, SaltRecent, Covered, Reached, Returned
  <1>7. ReadsFresh'
    BY SMTT(30) DEF IInv, TypeOK, WritesOK, ReadsOK, StoredFresh, SaltRecent, Covered, Reached, ReadsFresh, Missed
  <1> QED BY <1>1, <1>2, <1>3, <1>4, <1>5, <1>6, <1>7 DEF IInv

\* WriteCommit preserves the invariant: only the set of committed writes grows.
LEMMA WriteCommitKeeps ==
  ASSUME SdkCacheAssumption, IInv, NEW w \in Writers, WriteCommit(w)
  PROVE  IInv'
  <1> USE TagsCovered DEF WriteCommit
  <1>1. TypeOK'
    BY SMTT(30) DEF IInv, TypeOK
  <1>2. WritesOK'
    BY SMTT(30) DEF IInv, TypeOK, WritesOK
  <1>3. ReadsOK'
    BY SMTT(30) DEF IInv, TypeOK, WritesOK, ReadsOK, Returned
  <1>4. VersionsBounded'
    BY SMTT(30) DEF IInv, TypeOK, WritesOK, VersionsBounded
  <1>5. StoredFresh'
    BY SMTT(30) DEF IInv, TypeOK, WritesOK, ReadsOK, VersionsBounded, StoredFresh, Covered, Reached
  <1>6. SaltRecent'
    BY SMTT(30) DEF IInv, TypeOK, WritesOK, ReadsOK, VersionsBounded, SaltRecent, Covered, Reached, Returned
  <1>7. ReadsFresh'
    BY SMTT(30) DEF IInv, TypeOK, WritesOK, ReadsOK, StoredFresh, SaltRecent, Covered, Reached, ReadsFresh, Missed
  <1> QED BY <1>1, <1>2, <1>3, <1>4, <1>5, <1>6, <1>7 DEF IInv

\* WriteThrows preserves the invariant: only the set of committed writes grows.
LEMMA WriteThrowsKeeps ==
  ASSUME SdkCacheAssumption, IInv, NEW w \in Writers, WriteThrows(w)
  PROVE  IInv'
  <1> USE TagsCovered DEF WriteThrows
  <1>1. TypeOK'
    BY SMTT(30) DEF IInv, TypeOK
  <1>2. WritesOK'
    BY SMTT(30) DEF IInv, TypeOK, WritesOK
  <1>3. ReadsOK'
    BY SMTT(30) DEF IInv, TypeOK, WritesOK, ReadsOK, Returned
  <1>4. VersionsBounded'
    BY SMTT(30) DEF IInv, TypeOK, WritesOK, VersionsBounded
  <1>5. StoredFresh'
    BY SMTT(30) DEF IInv, TypeOK, WritesOK, ReadsOK, VersionsBounded, StoredFresh, Covered, Reached
  <1>6. SaltRecent'
    BY SMTT(30) DEF IInv, TypeOK, WritesOK, ReadsOK, VersionsBounded, SaltRecent, Covered, Reached, Returned
  <1>7. ReadsFresh'
    BY SMTT(30) DEF IInv, TypeOK, WritesOK, ReadsOK, StoredFresh, SaltRecent, Covered, Reached, ReadsFresh, Missed
  <1> QED BY <1>1, <1>2, <1>3, <1>4, <1>5, <1>6, <1>7 DEF IInv

\* WriteBump preserves the invariant: the new version is ahead of every one
\* fetched or stored.
LEMMA WriteBumpKeeps ==
  ASSUME SdkCacheAssumption, IInv, NEW w \in Writers, WriteBump(w)
  PROVE  IInv'
  <1> USE TagsCovered DEF WriteBump
  <1>1. TypeOK'
    <2>1. WriteTag(w) \in Tags
      OBVIOUS
    <2>2. counter' \in [Tags -> Nat] /\ bumpNo' \in [Writers -> Nat]
      BY <2>1, SMTT(30) DEF IInv, TypeOK
    <2>3. write' \in [Writers -> {"idle", "bump", "done", "failed"}]
      BY DEF IInv, TypeOK
    <2>4. link' \in [Clients -> {"none", "up", "cooldown"}] /\ failures' \in Nat
      BY SMTT(30) DEF IInv, TypeOK
    <2>5. UNCHANGED <<readVars, committed, entries, evictions>>
      OBVIOUS
    <2> HIDE DEF WriteBump
    <2> QED BY <2>2, <2>3, <2>4, <2>5, SMTT(30) DEF IInv, TypeOK
  <1>2. WritesOK'
    BY SMTT(30) DEF IInv, TypeOK, WritesOK
  <1>3. ReadsOK'
    BY SMTT(30) DEF IInv, TypeOK, WritesOK, ReadsOK, Returned
  <1>4. VersionsBounded'
    <2>1. WriteTag(w) \in Tags /\ counter \in [Tags -> Nat] /\ bumpNo \in [Writers -> Nat]
      BY DEF IInv, TypeOK
    <2>2. \A t \in Tags : counter[t] <= counter'[t]
      BY <2>1, SMTT(30)
    <2>3. \A v \in Writers : bumpNo'[v] <= counter'[WriteTag(v)] \/ bumpNo'[v] = bumpNo[v]
      BY <2>1, SMTT(30)
    <2> SUFFICES ASSUME evictions = 0
                 PROVE  /\ \A v \in Writers : bumpNo'[v] <= counter'[WriteTag(v)]
                        /\ \A r \in Readers, t \in SelectTags : salt[r][t] <= counter'[t]
                        /\ \A e \in entries, t \in SelectTags : e.salt[t] <= counter'[t]
      BY DEF VersionsBounded, WriteTag
    <2>4. \A v \in Writers : bumpNo[v] <= counter[WriteTag(v)] /\ WriteTag(v) \in Tags
      BY DEF IInv, VersionsBounded
    <2>5. \A x, y, z \in Nat : x <= y /\ y <= z => x <= z
      OBVIOUS
    <2>6. counter' \in [Tags -> Nat]
      BY <1>1 DEF TypeOK
    <2>7. \A v \in Writers : bumpNo'[v] <= counter'[WriteTag(v)]
      BY <2>1, <2>2, <2>3, <2>4, <2>5, <2>6, SMTT(30)
    <2>8. \A r \in Readers, t \in SelectTags : salt[r][t] <= counter'[t]
      BY <2>1, <2>2, <2>5, <2>6, SMTT(30) DEF IInv, TypeOK, VersionsBounded
    <2>9. \A e \in entries, t \in SelectTags : e.salt[t] <= counter'[t]
      BY <2>1, <2>2, <2>5, <2>6, SMTT(30) DEF IInv, TypeOK, VersionsBounded
    <2> QED BY <2>7, <2>8, <2>9
  <1>5. StoredFresh'
    BY SMTT(30) DEF IInv, TypeOK, VersionsBounded, StoredFresh, Covered, Reached
  <1>6. SaltRecent'
    BY SMTT(30) DEF IInv, TypeOK, ReadsOK, SaltRecent, Covered, Reached
  <1>7. ReadsFresh'
    BY SMTT(30) DEF IInv, TypeOK, WritesOK, ReadsOK, StoredFresh, SaltRecent, Covered, Reached, ReadsFresh, Missed
  <1> QED BY <1>1, <1>2, <1>3, <1>4, <1>5, <1>6, <1>7 DEF IInv

\* CooldownOver preserves the invariant: it changes the connection only.
LEMMA CooldownOverKeeps ==
  ASSUME SdkCacheAssumption, IInv, NEW c \in Clients, CooldownOver(c)
  PROVE  IInv'
  <1> USE TagsCovered DEF CooldownOver
  <1>1. TypeOK'
    BY SMTT(30) DEF IInv, TypeOK
  <1>2. WritesOK'
    BY SMTT(30) DEF IInv, TypeOK, WritesOK
  <1>3. ReadsOK'
    BY SMTT(30) DEF IInv, TypeOK, WritesOK, ReadsOK, Returned
  <1>4. VersionsBounded'
    BY SMTT(30) DEF IInv, TypeOK, WritesOK, VersionsBounded
  <1>5. StoredFresh'
    BY SMTT(30) DEF IInv, TypeOK, WritesOK, ReadsOK, VersionsBounded, StoredFresh, Covered, Reached
  <1>6. SaltRecent'
    BY SMTT(30) DEF IInv, TypeOK, WritesOK, ReadsOK, VersionsBounded, SaltRecent, Covered, Reached, Returned
  <1>7. ReadsFresh'
    BY SMTT(30) DEF IInv, TypeOK, WritesOK, ReadsOK, StoredFresh, SaltRecent, Covered, Reached, ReadsFresh, Missed
  <1> QED BY <1>1, <1>2, <1>3, <1>4, <1>5, <1>6, <1>7 DEF IInv

\* EntryGone preserves the invariant: there is one entry fewer to vouch for.
LEMMA EntryGoneKeeps ==
  ASSUME SdkCacheAssumption, IInv, NEW g \in entries, EntryGone(g)
  PROVE  IInv'
  <1> USE TagsCovered DEF EntryGone
  <1>1. TypeOK'
    BY SMTT(30) DEF IInv, TypeOK
  <1>2. WritesOK'
    BY SMTT(30) DEF IInv, TypeOK, WritesOK
  <1>3. ReadsOK'
    BY SMTT(30) DEF IInv, TypeOK, WritesOK, ReadsOK, Returned
  <1>4. VersionsBounded'
    BY SMTT(30) DEF IInv, TypeOK, WritesOK, VersionsBounded
  <1>5. StoredFresh'
    BY SMTT(30) DEF IInv, TypeOK, WritesOK, ReadsOK, VersionsBounded, StoredFresh, Covered, Reached
  <1>6. SaltRecent'
    BY SMTT(30) DEF IInv, TypeOK, WritesOK, ReadsOK, VersionsBounded, SaltRecent, Covered, Reached, Returned
  <1>7. ReadsFresh'
    BY SMTT(30) DEF IInv, TypeOK, WritesOK, ReadsOK, StoredFresh, SaltRecent, Covered, Reached, ReadsFresh, Missed
  <1> QED BY <1>1, <1>2, <1>3, <1>4, <1>5, <1>6, <1>7 DEF IInv

\* EvictCounter preserves the invariant: after an eviction nothing is promised.
LEMMA EvictCounterKeeps ==
  ASSUME SdkCacheAssumption, IInv, NEW t \in Tags, EvictCounter(t)
  PROVE  IInv'
  <1> USE TagsCovered DEF EvictCounter
  <1>1. TypeOK'
    BY SMTT(30) DEF IInv, TypeOK
  <1>2. WritesOK'
    BY SMTT(30) DEF IInv, TypeOK, WritesOK
  <1>3. ReadsOK'
    BY SMTT(30) DEF IInv, TypeOK, WritesOK, ReadsOK, Returned
  <1>4. VersionsBounded'
    BY SMTT(30) DEF IInv, TypeOK, WritesOK, VersionsBounded
  <1>5. StoredFresh'
    BY SMTT(30) DEF IInv, TypeOK, WritesOK, ReadsOK, VersionsBounded, StoredFresh, Covered, Reached
  <1>6. SaltRecent'
    BY SMTT(30) DEF IInv, TypeOK, WritesOK, ReadsOK, VersionsBounded, SaltRecent, Covered, Reached, Returned
  <1>7. ReadsFresh'
    BY SMTT(30) DEF IInv, TypeOK, WritesOK, ReadsOK, StoredFresh, SaltRecent, Covered, Reached, ReadsFresh, Missed
  <1> QED BY <1>1, <1>2, <1>3, <1>4, <1>5, <1>6, <1>7 DEF IInv

-----------------------------------------------------------------------------

\* The initial states satisfy the inductive invariant.
LEMMA InitIInv ==
  ASSUME SdkCacheAssumption, Init
  PROVE  IInv
  <1>1. TypeOK
    BY TagsCovered, SMTT(30) DEF Init, TypeOK
  <1>2. WritesOK /\ ReadsOK /\ VersionsBounded /\ StoredFresh /\ SaltRecent /\ ReadsFresh
    BY TagsCovered, SMTT(30) DEF Init, WritesOK, ReadsOK, VersionsBounded, StoredFresh,
       SaltRecent, ReadsFresh
  <1> QED BY <1>1, <1>2 DEF IInv

\* Every step of the system preserves it: one lemma per action.
LEMMA NextIInv ==
  ASSUME SdkCacheAssumption, IInv, [Next]_vars
  PROVE  IInv'
  <1>1. ASSUME NEW r \in Readers, Read(r) PROVE IInv'
    BY <1>1, ReadStartKeeps, ReadTagKeeps, ReadCacheKeeps, ReadLoadKeeps, ReadStoreKeeps
       DEF Read
  <1>2. ASSUME NEW w \in Writers, Write(w) PROVE IInv'
    BY <1>2, WriteCommitKeeps, WriteThrowsKeeps, WriteBumpKeeps DEF Write
  <1>3. ASSUME NEW c \in Clients, CooldownOver(c) PROVE IInv'
    BY <1>3, CooldownOverKeeps
  <1>4. ASSUME NEW e \in entries, EntryGone(e) PROVE IInv'
    BY <1>4, EntryGoneKeeps
  <1>5. ASSUME NEW t \in Tags, EvictCounter(t) PROVE IInv'
    BY <1>5, EvictCounterKeeps
  <1>6. CASE UNCHANGED vars
    BY <1>6, SMTT(30) DEF vars, IInv, TypeOK, WritesOK, ReadsOK, VersionsBounded, StoredFresh,
       SaltRecent, ReadsFresh, Covered, Missed
  <1> QED
    BY <1>1, <1>2, <1>3, <1>4, <1>5, <1>6 DEF Next

\* The conjunction is invariant in every behaviour.
THEOREM Invariance == SdkCacheAssumption => (Spec => []IInv)
  <1> SUFFICES ASSUME SdkCacheAssumption PROVE Spec => []IInv
    OBVIOUS
  <1>1. Init => IInv
    BY InitIInv
  <1>2. IInv /\ [Next]_vars => IInv'
    BY NextIInv
  <1> QED
    BY <1>1, <1>2, PTL DEF Spec

\* Type correctness of every reachable state.
THEOREM TypeCorrect == Spec => []TypeOK
  <1>1. IInv => TypeOK
    BY DEF IInv
  <1> QED
    BY <1>1, Invariance, SdkCacheAssumption, PTL

\* A read that began after a write returned reflects it, but for the causes
\* ReadsFresh names: however many readers, writers, clients, tables and
\* failures there are.
THEOREM FreshReads == Spec => []ReadsFresh
  <1>1. IInv => ReadsFresh
    BY DEF IInv
  <1> QED
    BY <1>1, Invariance, SdkCacheAssumption, PTL

\* What is stored under the versions now current is fresh.
THEOREM CurrentFresh == Spec => []CurrentEntryFresh
  <1>1. IInv => CurrentEntryFresh
    BY DEF IInv, TypeOK, VersionsBounded, StoredFresh, CurrentEntryFresh, Covered, Reached
  <1> QED
    BY <1>1, Invariance, SdkCacheAssumption, PTL

-----------------------------------------------------------------------------
(* The migration wizard.                                                    *)

WizardSpec == WizardInit /\ [][WizardNext]_wizardVars

Forms == [src : Conns \cup {NoConn}, dst : Conns \cup {NoConn}, sdb : Names \cup {NoName},
          ddb : Names \cup {NoName}, drop : BOOLEAN]
Asked == [stage : {"job", "run"}, form : Forms, shown : Forms, stirred : BOOLEAN]
Saved == [form : Forms, shown : Forms, stirred : BOOLEAN]
RunPhases == {"none", "queued", "running"} \cup Terminal

\* What a preview on its way, a preview on the page, a request on its way and a job show is
\* the form, unless it was stirred.
Previewed ==
    /\ step \in 0..2 /\ form \in Forms /\ preview \in Forms /\ previewing \in Forms /\ stirred \in BOOLEAN
    /\ creating = Idle \/ creating \in Asked
    /\ jobs \in Seq(Saved)
    /\ previewing # NoForm => ForPreview(form) = previewing \/ stirred
    /\ step = 1 => ForPreview(form) = preview \/ stirred
    /\ creating # Idle => ForPreview(creating.form) = creating.shown \/ creating.stirred
    /\ JobIsWhatWasShown

\* What the socket has said last, or is about to say.
LastWord == IF wire = <<>> THEN live ELSE wire[Len(wire)]

\* A socket that has spoken and was not lost has said how the run is; the poll stops at the end.
Heard ==
    /\ wire \in Seq(RunPhases) /\ run \in RunPhases /\ live \in RunPhases /\ polled \in RunPhases
    /\ watched \in BOOLEAN /\ dropped \in BOOLEAN
    /\ polled \in Terminal => run = polled
    /\ watched /\ ~dropped /\ (live # "none" \/ wire # <<>>) => socket = "joined" /\ LastWord = run

WizardInv == Previewed /\ Heard

\* The form stays a form when the automatic destination fills it.
LEMMA FilledIsForm ==
  ASSUME MigrateWizardAssumption, NEW f \in Forms
  PROVE  Filled(f) \in Forms
  <1>1. DefaultDest(f) \in Names \cup {NoName}
    BY DEF DefaultDest, Forms, MigrateWizardAssumption
  <1>2. PICK d \in Names \cup {NoName} : d = DefaultDest(f)
    BY <1>1
  <1>3. [f EXCEPT !.ddb = d] \in Forms
    BY DEF Forms
  <1> QED BY <1>2, <1>3 DEF Filled

\* What the user and the answers do keeps job and preview together.
LEMMA WizardKeepsPreviewed ==
  ASSUME MigrateWizardAssumption, WizardInv, [WizardNext]_wizardVars
  PROVE  Previewed'
  <1>a. /\ step \in 0..2 /\ form \in Forms /\ preview \in Forms /\ previewing \in Forms /\ stirred \in BOOLEAN
        /\ creating = Idle \/ creating \in Asked
        /\ jobs \in Seq(Saved)
    BY DEF WizardInv, Previewed
  <1>b. NoForm \in Forms
    BY DEF NoForm, Forms
  <1>c. \A r \in Asked : r # Idle /\ r.form \in Forms /\ r.shown \in Forms /\ r.stirred \in BOOLEAN
    BY DEF Asked, Idle
  <1>d. ASSUME Choice, form' \in Forms PROVE Previewed'
    <2>1. UNCHANGED <<step, preview, previewing, creating, jobs>> /\ step = 0 /\ stirred' = (stirred \/ previewing # NoForm)
      BY <1>d DEF Choice
    <2>2. stirred' \in BOOLEAN
      BY <2>1
    <2>3. previewing' # NoForm => stirred'
      BY <2>1
    <2>4. JobIsWhatWasShown'
      BY <2>1 DEF WizardInv, Previewed, JobIsWhatWasShown
    <2>5. creating' # Idle => ForPreview(creating'.form) = creating'.shown \/ creating'.stirred
      BY <2>1 DEF WizardInv, Previewed
    <2>6. step' = 0 /\ UNCHANGED <<preview, previewing, creating, jobs>>
      BY <2>1
    <2> QED BY <1>a, <1>d, <2>2, <2>3, <2>4, <2>5, <2>6 DEF Previewed
  <1>1. ASSUME NEW c \in Conns, ChooseSource(c) PROVE Previewed'
    <2>1. [form EXCEPT !.src = c] \in Forms
      BY <1>a DEF Forms
    <2> QED BY <1>d, <1>1, <2>1 DEF ChooseSource
  <1>2. ASSUME NEW c \in Conns, ChooseDest(c) PROVE Previewed'
    <2>1. [form EXCEPT !.dst = c] \in Forms
      BY <1>a DEF Forms
    <2> QED BY <1>d, <1>2, <2>1, FilledIsForm DEF ChooseDest
  <1>3. ASSUME NEW d \in Names, ChooseDatabase(d) PROVE Previewed'
    <2>1. [form EXCEPT !.sdb = d] \in Forms
      BY <1>a DEF Forms
    <2> QED BY <1>d, <1>3, <2>1, FilledIsForm DEF ChooseDatabase
  <1>4. ASSUME NEW d \in Names, TypeDest(d) PROVE Previewed'
    <2>1. [form EXCEPT !.ddb = d] \in Forms
      BY <1>a DEF Forms
    <2> QED BY <1>d, <1>4, <2>1 DEF TypeDest
  <1>5. CASE ToggleDrop
    <2>1. PICK b \in BOOLEAN : b = ~form.drop
      OBVIOUS
    <2>2. [form EXCEPT !.drop = b] \in Forms
      BY <1>a DEF Forms
    <2>3. form' = [form EXCEPT !.drop = b]
      BY <1>5, <1>a, <2>1 DEF ToggleDrop
    <2> QED BY <1>d, <1>5, <2>2, <2>3 DEF ToggleDrop
  <1>6. CASE AskPreview
    <2>1. /\ previewing' = ForPreview(form) /\ form' = form /\ stirred' = FALSE /\ step' = 0
          /\ UNCHANGED <<preview, creating, jobs>>
      BY <1>6 DEF AskPreview
    <2>2. JobIsWhatWasShown'
      BY <2>1 DEF WizardInv, Previewed, JobIsWhatWasShown
    <2>3. creating' # Idle => ForPreview(creating'.form) = creating'.shown \/ creating'.stirred
      BY <2>1 DEF WizardInv, Previewed
    <2>0. ForPreview(form) \in Forms
      BY <1>a DEF ForPreview, Forms
    <2>4. /\ step' \in 0..2 /\ form' \in Forms /\ preview' \in Forms /\ previewing' \in Forms
          /\ creating' = Idle \/ creating' \in Asked
          /\ jobs' \in Seq(Saved)
      BY <1>a, <2>0, <2>1
    <2>5. stirred' \in BOOLEAN
      BY <2>1
    <2>6. ForPreview(form') = previewing' /\ step' # 1
      BY <2>1
    <2> QED BY <2>2, <2>3, <2>4, <2>5, <2>6 DEF Previewed
  <1>7. CASE PreviewAnswer
    BY <1>7, <1>a, <1>b DEF PreviewAnswer, WizardInv, Previewed, JobIsWhatWasShown
  <1>8. CASE PreviewFails
    BY <1>8, <1>a, <1>b DEF PreviewFails, WizardInv, Previewed, JobIsWhatWasShown
  <1>9. CASE Back
    BY <1>9, <1>a DEF Back, WizardInv, Previewed, JobIsWhatWasShown
  <1>10. CASE AskRun
    <2>1. PICK r : r = [stage |-> "job", form |-> form, shown |-> preview, stirred |-> stirred]
      OBVIOUS
    <2>2. r \in Asked /\ r.form = form /\ r.shown = preview /\ r.stirred = stirred
      BY <1>a, <2>1 DEF Asked
    <2>3. creating' = r /\ UNCHANGED <<step, form, preview, previewing, jobs, stirred>> /\ step = 1
      BY <1>10, <2>1 DEF AskRun
    <2> QED BY <1>a, <2>2, <2>3 DEF WizardInv, Previewed, JobIsWhatWasShown
  <1>11. CASE CreateJob
    <2>0. creating \in Asked
      BY <1>11, <1>a DEF CreateJob, Idle
    <2>1. PICK r : r = [creating EXCEPT !.stage = "run"]
      OBVIOUS
    <2>2. r \in Asked /\ r.form = creating.form /\ r.shown = creating.shown /\ r.stirred = creating.stirred
      BY <2>0, <2>1 DEF Asked
    <2>3. PICK j : j = [form |-> creating.form, shown |-> creating.shown, stirred |-> creating.stirred]
      OBVIOUS
    <2>4. j \in Saved /\ j.form = creating.form /\ j.shown = creating.shown /\ j.stirred = creating.stirred
      BY <1>c, <2>0, <2>3 DEF Saved
    <2>5. creating' = r /\ jobs' = Append(jobs, j) /\ UNCHANGED <<step, form, preview, previewing, stirred>>
      BY <1>11, <2>1, <2>3 DEF CreateJob
    <2>6. ForPreview(j.form) = j.shown \/ j.stirred
      BY <1>c, <2>0, <2>4 DEF WizardInv, Previewed
    <2>7. /\ jobs' \in Seq(Saved) /\ Len(jobs') = Len(jobs) + 1
          /\ \A i \in 1..Len(jobs) : jobs'[i] = jobs[i]
          /\ jobs'[Len(jobs) + 1] = j
      BY <1>a, <2>4, <2>5, AppendProperties
    <2>8. JobIsWhatWasShown'
      <3>1. ASSUME NEW i \in DOMAIN jobs' PROVE ForPreview(jobs'[i].form) = jobs'[i].shown \/ jobs'[i].stirred
        <4>1. i \in 1..(Len(jobs) + 1) /\ Len(jobs) \in Nat
          BY <1>a, <2>7, <3>1
        <4>2. CASE i = Len(jobs) + 1
          BY <2>6, <2>7, <4>2
        <4>3. CASE i \in 1..Len(jobs)
          BY <1>a, <2>7, <4>3 DEF WizardInv, Previewed, JobIsWhatWasShown
        <4> QED BY <4>1, <4>2, <4>3
      <3> QED BY <3>1 DEF JobIsWhatWasShown
    <2> QED BY <1>a, <1>c, <2>0, <2>2, <2>5, <2>7, <2>8 DEF WizardInv, Previewed
  <1>12. CASE RunFails
    BY <1>12, <1>a DEF RunFails, WizardInv, Previewed, JobIsWhatWasShown
  <1>13. CASE RunAnswer
    BY <1>13, <1>a DEF RunAnswer, WizardInv, Previewed, JobIsWhatWasShown
  <1>14. CASE Reset
    <2>1. PICK f : f = [NoForm EXCEPT !.drop = form.drop]
      OBVIOUS
    <2>2. f \in Forms
      BY <1>a, <1>b, <2>1 DEF Forms
    <2>3. /\ form' = f /\ step' = 0 /\ preview' = NoForm /\ stirred' = (stirred \/ previewing # NoForm)
          /\ UNCHANGED <<previewing, creating, jobs>>
      BY <1>14, <2>1 DEF Reset
    <2>4. stirred' \in BOOLEAN
      BY <2>3
    <2>5. previewing' # NoForm => stirred'
      BY <2>3
    <2>6. JobIsWhatWasShown'
      BY <2>3 DEF WizardInv, Previewed, JobIsWhatWasShown
    <2>7. creating' # Idle => ForPreview(creating'.form) = creating'.shown \/ creating'.stirred
      BY <2>3 DEF WizardInv, Previewed
    <2>8. step' = 0 /\ form' = f /\ preview' = NoForm /\ UNCHANGED <<previewing, creating, jobs>>
      BY <2>3
    <2> QED BY <1>a, <1>b, <2>2, <2>4, <2>5, <2>6, <2>7, <2>8 DEF Previewed
  <1>15. CASE RunNext \/ UNCHANGED wizardVars
    <2>1. UNCHANGED formVars
      BY <1>15 DEF RunNext, wizardVars, formVars, WorkerRuns, WorkerEnds, Connect, Subscribe, LoseSocket, Deliver, Poll
    <2> QED BY <1>a, <2>1 DEF formVars, WizardInv, Previewed, JobIsWhatWasShown
  <1> QED BY <1>1, <1>2, <1>3, <1>4, <1>5, <1>6, <1>7, <1>8, <1>9, <1>10, <1>11, <1>12, <1>13, <1>14, <1>15
          DEF WizardNext, FormNext

\* What the worker, the socket and the poll do keeps what was heard true.
LEMMA WizardKeepsHeard ==
  ASSUME MigrateWizardAssumption, WizardInv, [WizardNext]_wizardVars
  PROVE  Heard'
  <1>a. /\ wire \in Seq(RunPhases) /\ run \in RunPhases /\ live \in RunPhases /\ polled \in RunPhases
        /\ watched \in BOOLEAN /\ dropped \in BOOLEAN
        /\ polled \in Terminal => run = polled
        /\ watched /\ ~dropped /\ (live # "none" \/ wire # <<>>) => socket = "joined" /\ LastWord = run
    BY DEF WizardInv, Heard
  <1>b. <<>> \in Seq(RunPhases)
    OBVIOUS
  <1>c. /\ "none" \notin Terminal /\ "queued" \notin Terminal /\ "running" \notin Terminal
        /\ Terminal \subseteq RunPhases /\ {"none", "queued", "running"} \subseteq RunPhases
    BY DEF Terminal, RunPhases
  \* The worker, which tells the socket that has joined.
  <1>d. ASSUME NEW p \in RunPhases, run \in {"queued", "running"}, run' = p, Emit(p),
               UNCHANGED <<watched, socket, live, polled, dropped>>
        PROVE  Heard'
    <2>1. polled \notin Terminal
      BY <1>a, <1>c, <1>d
    <2>2. CASE socket = "joined"
      <3>1. wire' = Append(wire, p)
        BY <1>d, <2>2 DEF Emit
      <3>2. wire' \in Seq(RunPhases) /\ Len(wire') = Len(wire) + 1 /\ wire'[Len(wire) + 1] = p /\ Len(wire) \in Nat
        BY <1>a, <1>d, <3>1, AppendProperties
      <3>3. wire' # <<>>
        BY <3>2
      <3>4. LastWord' = run'
        BY <1>d, <3>2, <3>3 DEF LastWord
      <3> QED BY <1>a, <1>d, <2>1, <2>2, <3>2, <3>4 DEF Heard
    <2>3. CASE socket # "joined"
      <3>1. wire' = wire
        BY <1>d, <2>3 DEF Emit
      <3> QED BY <1>a, <1>d, <2>1, <2>3, <3>1 DEF Heard
    <2> QED BY <2>2, <2>3
  <1>1. CASE WorkerRuns
    BY <1>c, <1>d, <1>1 DEF WorkerRuns
  <1>2. ASSUME NEW p \in Terminal, WorkerEnds(p) PROVE Heard'
    BY <1>c, <1>d, <1>2 DEF WorkerEnds
  <1>3. CASE Connect
    BY <1>3, <1>a DEF Connect, Heard
  <1>4. CASE Subscribe
    BY <1>4, <1>a DEF Subscribe, Heard
  <1>5. CASE LoseSocket
    <2>1. dropped' = (dropped \/ live # "none" \/ wire # <<>>) /\ wire' = <<>> /\ UNCHANGED <<run, watched, live, polled>>
      BY <1>5 DEF LoseSocket
    <2> QED BY <1>a, <1>b, <2>1 DEF Heard
  <1>6. CASE Deliver
    <2>0. wire # <<>> /\ live' = Head(wire) /\ wire' = Tail(wire) /\ UNCHANGED <<run, watched, socket, polled, dropped>>
      BY <1>6 DEF Deliver
    <2>1. /\ Tail(wire) \in Seq(RunPhases) /\ Head(wire) \in RunPhases /\ Head(wire) = wire[1]
          /\ Len(Tail(wire)) = Len(wire) - 1 /\ \A i \in 1..(Len(wire) - 1) : Tail(wire)[i] = wire[i + 1]
          /\ Len(wire) \in Nat \ {0}
      BY <1>a, <2>0
    <2>2. ASSUME watched, ~dropped PROVE LastWord' = run
      <3>1. wire[Len(wire)] = run
        BY <1>a, <2>0, <2>2 DEF LastWord
      <3>2. CASE Len(wire) = 1
        BY <2>0, <2>1, <3>1, <3>2 DEF LastWord
      <3>3. CASE Len(wire) > 1
        <4>1. Len(wire') = Len(wire) - 1 /\ Len(wire) - 1 \in 1..(Len(wire) - 1)
          BY <2>0, <2>1, <3>3
        <4>a. wire' # <<>>
          BY <3>3, <4>1
        <4>2. wire'[Len(wire) - 1] = wire[Len(wire)]
          BY <2>0, <2>1, <4>1
        <4> QED BY <3>1, <4>1, <4>2, <4>a DEF LastWord
      <3> QED BY <2>1, <3>2, <3>3
    <2>3. watched /\ ~dropped => socket = "joined"
      BY <1>a, <2>0
    <2> QED BY <1>a, <2>0, <2>1, <2>2, <2>3 DEF Heard
  <1>7. CASE Poll
    BY <1>7, <1>a DEF Poll, Heard, LastWord
  \* Answers open or close the view; the rest of the form does not touch it.
  <1>8. CASE PreviewAnswer \/ Reset
    <2>1. CloseView
      BY <1>8 DEF PreviewAnswer, Reset
    <2> QED BY <1>a, <1>b, <2>1 DEF CloseView, Heard
  <1>9. CASE RunAnswer
    BY <1>9, <1>a, <1>b, <1>c DEF RunAnswer, Heard
  <1>10. CASE UNCHANGED runVars
    BY <1>10, <1>a DEF runVars, Heard, LastWord
  <1>11. ASSUME FormNext PROVE PreviewAnswer \/ Reset \/ RunAnswer \/ UNCHANGED runVars
    BY <1>11 DEF FormNext, ChooseSource, ChooseDest, ChooseDatabase, TypeDest, ToggleDrop, Choice, AskPreview,
                 PreviewFails, Back, AskRun, CreateJob, RunFails
  <1>12. CASE UNCHANGED wizardVars
    <2>1. UNCHANGED runVars
      BY <1>12 DEF wizardVars, runVars
    <2> QED BY <1>10, <2>1
  <1> QED BY <1>1, <1>2, <1>3, <1>4, <1>5, <1>6, <1>7, <1>8, <1>9, <1>10, <1>11, <1>12 DEF WizardNext, RunNext

\* WizardInv is an invariant of the wizard.
LEMMA WizardInvariant == ASSUME MigrateWizardAssumption PROVE WizardSpec => []WizardInv
  <1>1. WizardInit => WizardInv
    <2> SUFFICES ASSUME WizardInit PROVE WizardInv
      OBVIOUS
    <2>1. NoForm \in Forms
      BY DEF NoForm, Forms
    <2>2. Previewed
      <3>1. /\ step = 0 /\ form = NoForm /\ preview = NoForm /\ previewing = NoForm /\ stirred = FALSE
            /\ creating = Idle /\ jobs = <<>>
        BY DEF WizardInit
      <3>2. <<>> \in Seq(Saved) /\ DOMAIN <<>> = {}
        OBVIOUS
      <3>3. JobIsWhatWasShown
        BY <3>1, <3>2 DEF JobIsWhatWasShown
      <3>a. stirred \in BOOLEAN
        BY <3>1
      <3>4. jobs \in Seq(Saved) /\ step \in 0..2 /\ step # 1
        BY <3>1, <3>2
      <3>5. form \in Forms /\ preview \in Forms /\ previewing \in Forms /\ creating = Idle /\ previewing = NoForm
        BY <2>1, <3>1
      <3> QED BY <3>3, <3>4, <3>5, <3>a DEF Previewed
    <2>3. Heard
      <3>1. /\ run = "none" /\ watched = FALSE /\ wire = <<>> /\ live = "none" /\ polled = "none"
            /\ dropped = FALSE
        BY DEF WizardInit
      <3>2. <<>> \in Seq(RunPhases) /\ "none" \in RunPhases /\ "none" \notin Terminal
        BY DEF RunPhases, Terminal
      <3> QED BY <3>1, <3>2 DEF Heard
    <2> QED BY <2>2, <2>3 DEF WizardInv
  <1>2. WizardInv /\ [WizardNext]_wizardVars => WizardInv'
    BY WizardKeepsPreviewed, WizardKeepsHeard DEF WizardInv
  <1> QED BY <1>1, <1>2, PTL DEF WizardSpec

\* A job copies from where and to where the preview on the page was computed for, unless the
\* form was stirred while that preview was on its way: for any connections, choices, jobs and failing requests.
THEOREM JobsAreAsShown == ASSUME MigrateWizardAssumption PROVE WizardSpec => []JobIsWhatWasShown
  <1>1. WizardInv => JobIsWhatWasShown
    BY DEF WizardInv, Previewed
  <1> QED BY <1>1, WizardInvariant, PTL

\* Once the poll has seen the end of a run and no event is on its way, the page shows that
\* end, unless its socket was lost after it had spoken.
THEOREM EndsAreShown == ASSUME MigrateWizardAssumption PROVE WizardSpec => []EndIsShown
  <1>1. WizardInv => EndIsShown
    BY DEF WizardInv, Heard, EndIsShown, Shown, LastWord, Terminal
  <1> QED BY <1>1, WizardInvariant, PTL

-----------------------------------------------------------------------------
(* The data browser.                                                        *)

BrowserSpec == BrowserInit /\ [][BrowserNext]_browserVars

Marks == Rows \X {"first", "user", "other"}
Docs == [row : Rows, place : Places, cells : [Columns -> Marks]]
Panels == [stage : {"open", "leaving"}, doc : Docs, table : Tables, from : Docs, edited : SUBSET Columns,
           values : [Columns -> Marks]]
Orders == [op : {"save", "delete"}, table : Tables, doc : Docs, columns : SUBSET Columns,
           values : [Columns -> Marks], meant : Docs, edited : SUBSET Columns,
           why : SUBSET {"selection", "repicked", "whole"}]

BrowserTyped ==
    /\ kind \in {"nosql", "sql"} /\ selected \in Tables
    /\ at \in [Tables -> [Places -> Rows \cup {Nobody}]]
    /\ cells \in [Rows -> [Columns -> Marks]]
    /\ page \in [table : Tables \cup {Nobody}, docs : SUBSET Docs] /\ (page.docs # {} => page.table \in Tables)
    /\ panel = NoPanel \/ panel \in Panels
    /\ request = NoRequest \/ request \in Orders

\* A row is in one place, and a row that was never moved is as it was in the beginning.
Settled ==
    /\ \A t, u \in Tables, p, q \in Places : at[t][p] # Nobody /\ at[t][p] = at[u][q] => t = u /\ p = q
    /\ kind = "sql" => \A t \in Tables, p \in Places :
         at[t][p] # Nobody /\ <<t, p>> \notin reused => cells[at[t][p]] = Fresh(at[t][p])

\* What is known of a document that was read: it was as in the beginning, or its row is in no
\* place of the beginning any more; and in such a place it still is, or none.
Away(r) == \A t \in Tables, p \in Places : at[t][p] = r => <<t, p>> \in reused
KnownDoc(d) == d.cells = Fresh(d.row) \/ Away(d.row)
Seen(t, d) == <<t, d.place>> \notin reused => d.cells = Fresh(d.row) /\ at[t][d.place] \in {d.row, Nobody}

PageOK ==
    /\ kind = "sql" => \A d \in page.docs : KnownDoc(d) /\ Seen(page.table, d)
    /\ \A d, e \in page.docs : d.row = e.row => d = e

\* Where the panel was opened on a row that had been moved, no document of that row is of a
\* place of the beginning.
Met(t, d) == d.row = panel.from.row /\ panel.from.cells # Fresh(panel.from.row) => <<t, d.place>> \in reused
PanelOK ==
    panel # NoPanel /\ kind = "sql" =>
      /\ KnownDoc(panel.from) /\ Seen(panel.table, panel.doc) /\ Met(panel.table, panel.doc)
      /\ \A d \in page.docs : Met(page.table, d)
      /\ \A c \in Columns \ panel.edited : panel.values[c] = panel.from.cells[c]

\* A request without a cause names the row it means, and its columns are those edited.
RequestOK ==
    request # NoRequest =>
      /\ kind = "nosql" /\ request.op = "save" => request.why # {}
      /\ kind = "sql" /\ "selection" \notin request.why /\ <<request.table, request.doc.place>> \notin reused =>
           /\ at[request.table][request.doc.place] \in {request.doc.row, Nobody}
           /\ request.op = "save" /\ request.why = {} =>
                request.columns \subseteq request.edited /\ request.doc.row = request.meant.row

BrowserInv == BrowserTyped /\ Settled /\ PageOK /\ PanelOK /\ RequestOK /\ EditsStay

\* A step of the store: a place comes to hold a row only as one that was reused.
Shifts ==
    /\ kind' = kind /\ reused \subseteq reused'
    /\ \A t \in Tables, p \in Places : at'[t][p] \in {at[t][p], Nobody} \/ <<t, p>> \in reused'

\* What is known of a document remains so.
LEMMA ShiftsKeepDocs ==
  ASSUME BrowserAssumption, Shifts, NEW d \in Docs
  PROVE  /\ KnownDoc(d) => KnownDoc(d)'
         /\ \A t \in Tables : Seen(t, d) => Seen(t, d)'
  <1>1. d.row \in Rows /\ d.place \in Places /\ d.row # Nobody
    BY DEF Docs, BrowserAssumption
  <1>2. Away(d.row) => Away(d.row)'
    BY <1>1 DEF Away, Shifts
  <1>3. ASSUME NEW t \in Tables, Seen(t, d) PROVE Seen(t, d)'
    BY <1>1, <1>3 DEF Seen, Shifts, Fresh
  <1> QED BY <1>2, <1>3 DEF KnownDoc, Fresh

\* The page, the panel and the request that are kept or gone.
LEMMA PageCarries ==
  ASSUME BrowserAssumption, BrowserInv, Shifts, page' \in {page, NoPage}
  PROVE  PageOK'
  <1>1. page.docs \subseteq Docs /\ (page.docs # {} => page.table \in Tables)
    BY DEF BrowserInv, BrowserTyped
  <1>2. CASE page' = NoPage
    BY <1>2 DEF NoPage, PageOK
  <1>3. CASE page' = page
    <2>1. ASSUME kind = "sql", NEW d \in page.docs PROVE KnownDoc(d)' /\ Seen(page.table, d)'
      <3>1. d \in Docs /\ page.table \in Tables /\ KnownDoc(d) /\ Seen(page.table, d)
        BY <1>1, <2>1 DEF BrowserInv, PageOK
      <3>2. PICK t \in Tables : t = page.table
        BY <3>1
      <3>3. KnownDoc(d)' /\ Seen(t, d)'
        BY <3>1, <3>2, ShiftsKeepDocs
      <3> QED BY <1>3, <3>2, <3>3 DEF Seen
    <2>2. \A d, e \in page'.docs : d.row = e.row => d = e
      BY <1>3 DEF BrowserInv, PageOK
    <2>3. kind' = kind
      BY DEF Shifts
    <2> QED BY <1>3, <2>1, <2>2, <2>3 DEF PageOK
  <1> QED BY <1>2, <1>3

PanelKept ==
    \/ panel' = NoPanel
    \/ /\ panel # NoPanel
       /\ panel'.doc = panel.doc /\ panel'.table = panel.table /\ panel'.from = panel.from
       /\ panel'.edited = panel.edited /\ panel'.values = panel.values

\* What is known of the panel's document remains so.
LEMMA PanelCarries ==
  ASSUME BrowserAssumption, BrowserInv, Shifts, page' \in {page, NoPage}, PanelKept
  PROVE  PanelOK'
  <1> SUFFICES ASSUME panel' # NoPanel, kind' = "sql" PROVE PanelOK'
    BY DEF PanelOK
  <1>1. /\ panel # NoPanel /\ panel'.doc = panel.doc /\ panel'.table = panel.table /\ panel'.from = panel.from
        /\ panel'.edited = panel.edited /\ panel'.values = panel.values /\ kind = "sql"
        /\ reused \subseteq reused'
    BY DEF PanelKept, Shifts
  <1>2. panel \in Panels /\ panel.from \in Docs /\ panel.doc \in Docs /\ panel.table \in Tables
    BY <1>1 DEF BrowserInv, BrowserTyped, Panels
  <1>3. PICK from \in Docs, doc \in Docs, t \in Tables : from = panel.from /\ doc = panel.doc /\ t = panel.table
    BY <1>2
  <1>4. KnownDoc(from)' /\ Seen(t, doc)'
    BY <1>1, <1>3, ShiftsKeepDocs DEF BrowserInv, PanelOK
  <1>5. KnownDoc(panel.from)' /\ Seen(panel.table, panel.doc)'
    BY <1>1, <1>3, <1>4 DEF KnownDoc, Away, Fresh, Seen
  <1>6. Met(panel.table, panel.doc)'
    BY <1>1 DEF BrowserInv, PanelOK, Met, Fresh
  <1>7. (\A d \in page.docs : Met(page.table, d))'
    BY <1>1 DEF BrowserInv, PanelOK, Met, Fresh, NoPage
  <1>8. (\A c \in Columns \ panel.edited : panel.values[c] = panel.from.cells[c])'
    BY <1>1 DEF BrowserInv, PanelOK
  <1> QED BY <1>5, <1>6, <1>7, <1>8 DEF PanelOK

\* What is known of the request remains so.
LEMMA RequestCarries ==
  ASSUME BrowserAssumption, BrowserInv, Shifts, request' \in {request, NoRequest}
  PROVE  RequestOK'
  <1>1. CASE request' = NoRequest
    BY <1>1 DEF RequestOK
  <1>2. CASE request' = request /\ request # NoRequest
    <2>1. request.table \in Tables /\ request.doc.place \in Places
      BY <1>2 DEF BrowserInv, BrowserTyped, Orders, Docs
    <2> QED BY <1>2, <2>1 DEF BrowserInv, RequestOK, Shifts
  <1> QED BY <1>1, <1>2 DEF RequestOK

\* A row of a table takes a new place.
LEMMA MoveIs ==
  ASSUME BrowserTyped, NEW t \in Tables, NEW p \in Places, NEW q \in Places, q # p, at[t][q] = Nobody,
         at[t][p] # Nobody, Move(t, p, q)
  PROVE  /\ at' \in [Tables -> [Places -> Rows \cup {Nobody}]]
         /\ at'[t][p] = Nobody /\ at'[t][q] = at[t][p]
         /\ \A u \in Tables, s \in Places : <<u, s>> \notin {<<t, p>>, <<t, q>>} => at'[u][s] = at[u][s]
         /\ reused' = reused \cup {<<t, q>>}
  <1>1. at \in [Tables -> [Places -> Rows \cup {Nobody}]]
    BY DEF BrowserTyped
  <1>2. PICK r \in Rows \cup {Nobody} : r = at[t][p]
    BY <1>1
  <1>3. PICK f : f = [[at[t] EXCEPT ![p] = Nobody] EXCEPT ![q] = r]
    OBVIOUS
  <1>4. /\ f \in [Places -> Rows \cup {Nobody}] /\ f[p] = Nobody /\ f[q] = r
        /\ \A s \in Places \ {p, q} : f[s] = at[t][s]
    BY <1>1, <1>3
  <1>5. at' = [at EXCEPT ![t] = f]
    BY <1>1, <1>2, <1>3 DEF Move
  <1> QED BY <1>1, <1>2, <1>4, <1>5 DEF Move

\* What Rewrite does to the store: on Postgres the row moves to a free place, on Mongo it stays.
LEMMA RewriteIs ==
  ASSUME BrowserAssumption, BrowserTyped, Settled, kind' = kind, NEW t \in Tables, NEW p \in Occupied(t), Rewrite(t, p),
         cells' \in [Rows -> [Columns -> Marks]],
         \A r \in Rows : r # at[t][p] => cells'[r] = cells[r]
  PROVE  /\ at' \in [Tables -> [Places -> Rows \cup {Nobody}]]
         /\ Shifts /\ Settled'
  <1>1. at \in [Tables -> [Places -> Rows \cup {Nobody}]] /\ p \in Places /\ at[t][p] # Nobody /\ at[t][p] \in Rows
    BY DEF BrowserTyped, Occupied
  <1>b. \A u, v \in Tables, s, z \in Places : at[u][s] # Nobody /\ at[u][s] = at[v][z] => u = v /\ s = z
    BY DEF Settled
  <1>c. kind = "sql" => \A u \in Tables, s \in Places :
          at[u][s] # Nobody /\ <<u, s>> \notin reused => cells[at[u][s]] = Fresh(at[u][s])
    BY DEF Settled
  <1>2. CASE kind = "sql"
    <2>1. PICK q \in Places : q \in Free(t) /\ Move(t, p, q)
      BY <1>2 DEF Rewrite, Free
    <2>2. at[t][q] = Nobody /\ q # p
      BY <1>1, <2>1 DEF Free
    <2>3. /\ at' \in [Tables -> [Places -> Rows \cup {Nobody}]]
          /\ at'[t][p] = Nobody /\ at'[t][q] = at[t][p]
          /\ \A u \in Tables, s \in Places : <<u, s>> \notin {<<t, p>>, <<t, q>>} => at'[u][s] = at[u][s]
          /\ reused' = reused \cup {<<t, q>>}
      BY <1>1, <2>1, <2>2, MoveIs
    <2>4. \A u \in Tables, s \in Places : <<u, s>> = <<t, q>> \/ at'[u][s] \in {at[u][s], Nobody}
      BY <2>3
    <2>5. Shifts
      BY <2>3, <2>4 DEF Shifts
    <2>6. ASSUME NEW u \in Tables, NEW s \in Places, <<u, s>> # <<t, q>>, at'[u][s] # Nobody
          PROVE  at'[u][s] = at[u][s] /\ at[u][s] # at[t][p]
      <3>1. at'[u][s] = at[u][s] /\ <<u, s>> # <<t, p>>
        BY <2>3, <2>6
      <3> QED BY <1>1, <2>6, <3>1 DEF Settled
    <2>7. ASSUME NEW u \in Tables, NEW v \in Tables, NEW s \in Places, NEW z \in Places,
                 at'[u][s] # Nobody, at'[u][s] = at'[v][z]
          PROVE  u = v /\ s = z
      <3>1. CASE <<u, s>> = <<t, q>> /\ <<v, z>> # <<t, q>>
        BY <2>3, <2>6, <2>7, <3>1
      <3>2. CASE <<u, s>> # <<t, q>> /\ <<v, z>> = <<t, q>>
        BY <2>3, <2>6, <2>7, <3>2
      <3>3. CASE <<u, s>> # <<t, q>> /\ <<v, z>> # <<t, q>>
        <4>1. at'[u][s] = at[u][s] /\ at'[v][z] = at[v][z]
          BY <2>6, <2>7, <3>3
        <4>2. at[u][s] # Nobody /\ at[u][s] = at[v][z]
          BY <2>7, <4>1
        <4> QED BY <1>b, <4>2
      <3> QED BY <3>1, <3>2, <3>3
    <2>8. ASSUME NEW u \in Tables, NEW s \in Places, at'[u][s] # Nobody, <<u, s>> \notin reused'
          PROVE  cells'[at'[u][s]] = Fresh(at'[u][s])
      <3>1. at'[u][s] = at[u][s] /\ at[u][s] # at[t][p] /\ <<u, s>> \notin reused
        BY <2>3, <2>6, <2>8
      <3>2. at[u][s] \in Rows
        BY <1>1, <2>8, <3>1
      <3>3. cells'[at[u][s]] = cells[at[u][s]]
        BY <3>1, <3>2
      <3>4. at[u][s] # Nobody
        BY <2>8, <3>1
      <3>5. cells[at[u][s]] = Fresh(at[u][s])
        BY <1>c, <1>2, <3>1, <3>4
      <3>6. PICK x : x = at[u][s]
        OBVIOUS
      <3> QED BY <3>1, <3>3, <3>5, <3>6
    <2>9. Settled'
      <3>1. (\A u \in Tables, s \in Places :
              at[u][s] # Nobody /\ <<u, s>> \notin reused => cells[at[u][s]] = Fresh(at[u][s]))'
        BY <2>8 DEF Fresh
      <3>2. (\A u, v \in Tables, s, z \in Places : at[u][s] # Nobody /\ at[u][s] = at[v][z] => u = v /\ s = z)'
        BY <2>7
      <3> QED BY <3>1, <3>2 DEF Settled
    <2> QED BY <2>3, <2>5, <2>9
  <1>3. CASE kind # "sql"
    <2>1. UNCHANGED <<at, reused>>
      BY <1>3 DEF Rewrite
    <2> QED BY <1>1, <1>3, <2>1 DEF Settled, Shifts
  <1> QED BY <1>2, <1>3

\* A step of the store: what it leaves where it is keeps what is known.
LEMMA StoreKeepsInv ==
  ASSUME BrowserAssumption, BrowserInv, Shifts, Settled',
         at' \in [Tables -> [Places -> Rows \cup {Nobody}]], cells' \in [Rows -> [Columns -> Marks]],
         selected' \in Tables, page' \in {page, NoPage},
         panel' \in {panel, NoPanel, Closes}, request' \in {request, NoRequest}, EditsStay'
  PROVE  BrowserInv'
  <1>1. panel = NoPanel \/ panel \in Panels
    BY DEF BrowserInv, BrowserTyped
  <1>2. Closes = panel \/ (panel # NoPanel /\ Closes = [panel EXCEPT !.stage = "leaving"])
    BY DEF Closes, NoPanel
  <1>3. (panel' = NoPanel \/ panel' \in Panels) /\ PanelKept
    <2>1. CASE panel' = panel
      BY <1>1, <2>1 DEF PanelKept
    <2>2. CASE panel' = NoPanel
      BY <2>2 DEF PanelKept
    <2>3. CASE panel \in Panels /\ panel # NoPanel /\ panel' = [panel EXCEPT !.stage = "leaving"]
      <3>1. PICK x : x = [panel EXCEPT !.stage = "leaving"]
        OBVIOUS
      <3>2. /\ x \in Panels /\ x.doc = panel.doc /\ x.table = panel.table /\ x.from = panel.from
            /\ x.edited = panel.edited /\ x.values = panel.values
        BY <2>3, <3>1 DEF Panels
      <3> QED BY <2>3, <3>1, <3>2 DEF PanelKept
    <2> QED BY <1>1, <1>2, <2>1, <2>2, <2>3
  <1>4. NoPage \in [table : Tables \cup {Nobody}, docs : SUBSET Docs] /\ NoPage.docs = {}
    BY DEF NoPage
  <1>5. kind' = kind
    BY DEF Shifts
  <1>6. BrowserTyped'
    BY <1>3, <1>4, <1>5 DEF BrowserInv, BrowserTyped
  <1> QED BY <1>3, <1>6, PageCarries, PanelCarries, RequestCarries DEF BrowserInv

\* The user and the page.
LEMMA ScreenKeepsInv ==
  ASSUME BrowserAssumption, BrowserInv,
         \/ Browse \/ Cancel \/ Exit \/ Save \/ Delete
         \/ \E t \in Tables : Select(t)
         \/ \E d \in page.docs : Pick(d)
         \/ \E c \in Columns : Edit(c)
  PROVE  BrowserInv'
  <1>a. UNCHANGED <<kind, at, cells, reused, strays>>
    BY DEF Browse, Cancel, Exit, Save, Delete, Ask, Select, Pick, Edit, store
  <1>b. Shifts /\ Settled' /\ EditsStay'
    BY <1>a DEF BrowserInv, Shifts, Settled, EditsStay, Fresh
  <1>c. /\ at \in [Tables -> [Places -> Rows \cup {Nobody}]] /\ cells \in [Rows -> [Columns -> Marks]]
        /\ selected \in Tables /\ kind \in {"nosql", "sql"}
        /\ page \in [table : Tables \cup {Nobody}, docs : SUBSET Docs] /\ (page.docs # {} => page.table \in Tables)
        /\ panel = NoPanel \/ panel \in Panels
        /\ request = NoRequest \/ request \in Orders
    BY DEF BrowserInv, BrowserTyped
  <1>1. CASE Cancel \/ Exit \/ \E t \in Tables : Select(t)
    <2>1. selected' \in Tables /\ page' \in {page, NoPage} /\ panel' \in {panel, NoPanel, Closes} /\ request' = request
      BY <1>1, <1>c DEF Cancel, Exit, Select, Closes
    <2> QED BY <1>a, <1>b, <1>c, <2>1, StoreKeepsInv
  <1>2. CASE Browse
    <2>1. PICK p : p = [table |-> selected, docs |-> {Doc(selected, q) : q \in Occupied(selected)}]
      OBVIOUS
    <2>2. page' = p /\ UNCHANGED <<selected, panel, request>> /\ p.table = selected
      BY <1>2, <2>1 DEF Browse
    <2>3. ASSUME NEW d \in p.docs
          PROVE  /\ d \in Docs /\ d.place \in Places /\ d.row \in Rows
                 /\ at[selected][d.place] = d.row /\ d.cells = cells[d.row]
      <3>1. PICK q \in Occupied(selected) : d = Doc(selected, q)
        BY <2>1, <2>3
      <3>2. q \in Places /\ at[selected][q] \in Rows
        BY <1>c, <3>1 DEF Occupied
      <3> QED BY <1>c, <3>1, <3>2 DEF Doc, Docs
    <2>4. p \in [table : Tables \cup {Nobody}, docs : SUBSET Docs] /\ p.table \in Tables
      <3>1. p.docs \subseteq Docs
        BY <2>3
      <3>2. p = [table |-> p.table, docs |-> p.docs]
        BY <2>1
      <3> QED BY <1>c, <2>2, <3>1, <3>2
    <2>5. BrowserTyped'
      BY <1>a, <1>c, <2>2, <2>4 DEF BrowserTyped
    <2>6. PageOK'
      <3>1. ASSUME kind = "sql", NEW d \in p.docs PROVE KnownDoc(d)' /\ Seen(selected, d)'
        <4>1. /\ d \in Docs /\ d.place \in Places /\ d.row \in Rows /\ d.row # Nobody
              /\ at[selected][d.place] = d.row /\ d.cells = cells[d.row]
          BY <2>3, <3>1 DEF BrowserAssumption
        <4>2. <<selected, d.place>> \notin reused => d.cells = Fresh(d.row)
          BY <1>c, <3>1, <4>1 DEF BrowserInv, Settled
        <4>3. Seen(selected, d)'
          BY <1>a, <2>2, <4>1, <4>2 DEF Seen, Fresh
        <4>4. <<selected, d.place>> \in reused => Away(d.row)
          <5>1. ASSUME NEW u \in Tables, NEW q \in Places, at[u][q] = d.row PROVE u = selected /\ q = d.place
            BY <1>c, <4>1, <5>1 DEF BrowserInv, Settled
          <5> QED BY <5>1 DEF Away
        <4>5. KnownDoc(d)
          BY <4>2, <4>4 DEF KnownDoc
        <4> QED BY <1>b, <4>1, <4>3, <4>5, ShiftsKeepDocs
      <3>2. ASSUME NEW d \in p.docs, NEW e \in p.docs, d.row = e.row PROVE d = e
        <4>1. d.row # Nobody /\ d.place = e.place
          BY <1>c, <2>3, <3>2 DEF BrowserInv, Settled, BrowserAssumption
        <4> QED BY <2>3, <3>2, <4>1 DEF Docs
      <3>3. (kind = "sql" => \A d \in page.docs : KnownDoc(d) /\ Seen(page.table, d))'
        BY <1>a, <2>2, <3>1 DEF Seen
      <3> QED BY <2>2, <3>2, <3>3 DEF PageOK
    <2>7. PanelOK'
      <3> SUFFICES ASSUME panel # NoPanel, kind = "sql" PROVE PanelOK'
        BY <1>a, <2>2 DEF PanelOK
      <3>1. KnownDoc(panel.from)' /\ Seen(panel.table, panel.doc)' /\ Met(panel.table, panel.doc)'
        BY <1>a, <2>2 DEF BrowserInv, PanelOK, KnownDoc, Away, Fresh, Seen, Met
      <3>2. ASSUME NEW d \in p.docs PROVE Met(selected, d)
        BY <1>c, <2>3, <3>2 DEF BrowserInv, PanelOK, KnownDoc, Away, Met
      <3>3. (\A d \in page.docs : Met(page.table, d))'
        BY <1>a, <2>2, <3>2 DEF Met, Fresh
      <3>4. (\A c \in Columns \ panel.edited : panel.values[c] = panel.from.cells[c])'
        BY <2>2 DEF BrowserInv, PanelOK
      <3> QED BY <3>1, <3>3, <3>4 DEF PanelOK
    <2> QED BY <1>b, <2>2, <2>5, <2>6, <2>7, RequestCarries DEF BrowserInv
  <1>3. ASSUME NEW d \in page.docs, Pick(d) PROVE BrowserInv'
    <2>0. d \in Docs /\ page.table \in Tables /\ d.cells \in [Columns -> Marks]
      BY <1>c DEF Docs
    <2>1. UNCHANGED <<selected, page, request>>
      BY <1>3 DEF Pick
    <2>2. CASE panel.stage = "none"
      <3>1. PICK x : x = [stage |-> "open", doc |-> d, table |-> page.table, from |-> d, edited |-> {}, values |-> d.cells]
        OBVIOUS
      <3>2. /\ x \in Panels /\ x.doc = d /\ x.table = page.table /\ x.from = d /\ x.edited = {} /\ x.values = d.cells
        BY <2>0, <3>1 DEF Panels
      <3>3. panel' = x
        BY <1>3, <2>2, <3>1 DEF Pick
      <3>4. BrowserTyped'
        BY <1>a, <1>c, <2>1, <3>2, <3>3 DEF BrowserTyped
      <3>5. ASSUME kind = "sql" PROVE KnownDoc(d) /\ Seen(page.table, d)
        BY <3>5 DEF BrowserInv, PageOK
      <3>6. ASSUME kind = "sql", NEW e \in page.docs, e.row = d.row, d.cells # Fresh(d.row)
            PROVE  <<page.table, e.place>> \in reused
        <4>1. e = d
          BY <3>6 DEF BrowserInv, PageOK
        <4> QED BY <3>5, <3>6, <4>1 DEF Seen
      <3>7. PanelOK'
        <4> SUFFICES ASSUME kind = "sql" PROVE PanelOK'
          BY <1>a DEF PanelOK
        <4>1. KnownDoc(panel.from)' /\ Seen(panel.table, panel.doc)'
          BY <1>a, <2>1, <3>2, <3>3, <3>5 DEF KnownDoc, Away, Fresh, Seen
        <4>2. Met(panel.table, panel.doc)'
          BY <1>a, <2>1, <3>2, <3>3, <3>6 DEF Met, Fresh
        <4>3. (\A e \in page.docs : Met(page.table, e))'
          BY <1>a, <2>1, <3>2, <3>3, <3>6 DEF Met, Fresh
        <4>4. (\A c \in Columns \ panel.edited : panel.values[c] = panel.from.cells[c])'
          BY <3>2, <3>3
        <4> QED BY <4>1, <4>2, <4>3, <4>4 DEF PanelOK
      <3> QED BY <1>b, <2>1, <3>4, <3>7, PageCarries, RequestCarries DEF BrowserInv
    <2>3. CASE panel.stage # "none"
      <3>0. panel \in Panels /\ panel # NoPanel
        BY <1>c, <2>3 DEF NoPanel
      <3>1. PICK x : x = [panel EXCEPT !.stage = "open", !.doc = d, !.table = page.table]
        OBVIOUS
      <3>2. /\ x \in Panels /\ x.doc = d /\ x.table = page.table /\ x.from = panel.from
            /\ x.edited = panel.edited /\ x.values = panel.values
        BY <2>0, <3>0, <3>1 DEF Panels
      <3>3. panel' = x
        BY <1>3, <2>3, <3>1 DEF Pick
      <3>4. BrowserTyped'
        BY <1>a, <1>c, <2>1, <3>2, <3>3 DEF BrowserTyped
      <3>5. PanelOK'
        <4> SUFFICES ASSUME kind = "sql" PROVE PanelOK'
          BY <1>a DEF PanelOK
        <4>1. KnownDoc(panel.from)'
          BY <1>a, <3>0, <3>2, <3>3 DEF BrowserInv, PanelOK, KnownDoc, Away, Fresh
        <4>2. Seen(panel.table, panel.doc)'
          BY <1>a, <3>2, <3>3 DEF BrowserInv, PageOK, Seen, Fresh
        <4>3. Met(panel.table, panel.doc)' /\ (\A e \in page.docs : Met(page.table, e))'
          BY <1>a, <2>1, <3>0, <3>2, <3>3 DEF BrowserInv, PanelOK, Met, Fresh
        <4>4. (\A c \in Columns \ panel.edited : panel.values[c] = panel.from.cells[c])'
          BY <3>0, <3>2, <3>3 DEF BrowserInv, PanelOK
        <4> QED BY <4>1, <4>2, <4>3, <4>4 DEF PanelOK
      <3> QED BY <1>b, <2>1, <3>4, <3>5, PageCarries, RequestCarries DEF BrowserInv
    <2> QED BY <2>2, <2>3
  <1>4. ASSUME NEW c \in Columns, Edit(c) PROVE BrowserInv'
    <2>0. panel \in Panels /\ panel # NoPanel
      <3>1. panel.stage = "open"
        BY <1>4 DEF Edit
      <3> QED BY <1>c, <3>1 DEF NoPanel
    <2>1. UNCHANGED <<selected, page, request>>
      BY <1>4 DEF Edit
    <2>2. PICK m \in Marks : m = <<panel.from.row, "user">>
      BY <2>0 DEF Panels, Docs, Marks
    <2>3. PICK v : v = [panel.values EXCEPT ![c] = m]
      OBVIOUS
    <2>4. v \in [Columns -> Marks] /\ \A b \in Columns \ {c} : v[b] = panel.values[b]
      BY <2>0, <2>3 DEF Panels
    <2>5. PICK x : x = [panel EXCEPT !.edited = @ \cup {c}, !.values = v]
      OBVIOUS
    <2>6. /\ x \in Panels /\ x.doc = panel.doc /\ x.table = panel.table /\ x.from = panel.from
          /\ x.edited = panel.edited \cup {c} /\ x.values = v
      BY <2>0, <2>4, <2>5 DEF Panels
    <2>7. panel' = x
      BY <1>4, <2>0, <2>2, <2>3, <2>5 DEF Edit, Panels
    <2>8. BrowserTyped'
      BY <1>a, <1>c, <2>1, <2>6, <2>7 DEF BrowserTyped
    <2>9. PanelOK'
      <3> SUFFICES ASSUME kind = "sql" PROVE PanelOK'
        BY <1>a DEF PanelOK
      <3>1. KnownDoc(panel.from)' /\ Seen(panel.table, panel.doc)'
        BY <1>a, <2>0, <2>6, <2>7 DEF BrowserInv, PanelOK, KnownDoc, Away, Fresh, Seen
      <3>2. Met(panel.table, panel.doc)' /\ (\A e \in page.docs : Met(page.table, e))'
        BY <1>a, <2>0, <2>1, <2>6, <2>7 DEF BrowserInv, PanelOK, Met, Fresh
      <3>3. (\A b \in Columns \ panel.edited : panel.values[b] = panel.from.cells[b])'
        BY <2>0, <2>4, <2>6, <2>7 DEF BrowserInv, PanelOK
      <3> QED BY <3>1, <3>2, <3>3 DEF PanelOK
    <2> QED BY <1>b, <2>1, <2>8, <2>9, PageCarries, RequestCarries DEF BrowserInv
  <1>5. CASE Save \/ Delete
    <2>0. panel \in Panels /\ panel # NoPanel
      BY <1>5, <1>c DEF Save, Delete, Ask, NoPanel
    <2>1. UNCHANGED <<selected, page, panel>>
      BY <1>5 DEF Save, Delete, Ask
    <2>2. PICK why : why = Causes
      OBVIOUS
    <2>3. /\ why \in SUBSET {"selection", "repicked", "whole"}
          /\ "selection" \notin why => selected = panel.table
          /\ "repicked" \notin why => panel.doc.row = panel.from.row
          /\ kind = "nosql" => "whole" \in why
      BY <2>2 DEF Causes
    <2>4. PICK op \in {"save", "delete"}, columns \in SUBSET Columns :
            /\ request' = [op |-> op, table |-> selected, doc |-> panel.doc, columns |-> columns,
                           values |-> panel.values, meant |-> panel.from, edited |-> panel.edited, why |-> why]
            /\ op = "save" /\ kind = "sql" => columns = Changed
      <3>1. HasColumns[panel.table] \subseteq Columns /\ Changed \subseteq Columns /\ {} \subseteq Columns
        BY <2>0 DEF Changed, BrowserAssumption, Panels
      <3> QED BY <1>5, <2>2, <3>1 DEF Save, Delete, Ask
    <2>5. PICK x : x = [op |-> op, table |-> selected, doc |-> panel.doc, columns |-> columns,
                        values |-> panel.values, meant |-> panel.from, edited |-> panel.edited, why |-> why]
      OBVIOUS
    <2>6. /\ x \in Orders /\ x.op = op /\ x.table = selected /\ x.doc = panel.doc /\ x.columns = columns
          /\ x.meant = panel.from /\ x.edited = panel.edited /\ x.why = why
      BY <1>c, <2>0, <2>3, <2>5 DEF Orders, Panels
    <2>7. request' = x
      BY <2>4, <2>5
    <2>8. BrowserTyped'
      BY <1>a, <1>c, <2>1, <2>6, <2>7 DEF BrowserTyped
    <2>9. ASSUME kind = "sql", "selection" \notin why, <<selected, panel.doc.place>> \notin reused
          PROVE  /\ at[selected][panel.doc.place] \in {panel.doc.row, Nobody}
                 /\ op = "save" /\ why = {} => columns \subseteq panel.edited /\ panel.doc.row = panel.from.row
      <3>1. panel.doc.cells = Fresh(panel.doc.row) /\ at[selected][panel.doc.place] \in {panel.doc.row, Nobody}
        BY <2>0, <2>3, <2>9 DEF BrowserInv, PanelOK, Seen
      <3>2. ASSUME op = "save", why = {} PROVE columns \subseteq panel.edited
        <4>1. panel.from.cells = Fresh(panel.from.row)
          BY <2>0, <2>3, <2>9, <3>2 DEF BrowserInv, PanelOK, Met
        <4>2. \A c \in Columns \ panel.edited : panel.values[c] = panel.doc.cells[c]
          BY <2>0, <2>3, <2>9, <3>1, <3>2, <4>1 DEF BrowserInv, PanelOK
        <4> QED BY <2>4, <2>9, <3>2, <4>2 DEF Changed
      <3> QED BY <2>3, <3>1, <3>2
    <2>10. RequestOK'
      BY <1>a, <1>c, <2>3, <2>6, <2>7, <2>9 DEF RequestOK
    <2>11. PageOK'
      BY <1>b, <2>1, PageCarries
    <2>12. PanelOK'
      BY <1>b, <2>0, <2>1, PanelCarries DEF PanelKept
    <2> QED BY <1>b, <2>8, <2>10, <2>11, <2>12 DEF BrowserInv
  <1> QED BY <1>1, <1>2, <1>3, <1>4, <1>5

\* Where a request finds its row.
LEMMA FoundIs ==
  ASSUME Found # Nobody
  PROVE  /\ Found \in Occupied(request.table)
         /\ IF kind = "sql" THEN Found = request.doc.place ELSE at[request.table][Found] = request.doc.row
  <1>1. PICK S : S = IF kind = "sql" THEN {request.doc.place} \cap Occupied(request.table)
                       ELSE {p \in Occupied(request.table) : at[request.table][p] = request.doc.row}
    OBVIOUS
  <1>2. Found = IF request.table \in exists /\ S # {} THEN CHOOSE p \in S : TRUE ELSE Nobody
    BY <1>1 DEF Found
  <1>3. S # {} /\ Found = CHOOSE p \in S : TRUE
    BY <1>2
  <1>4. (CHOOSE p \in S : TRUE) \in S
    BY <1>3
  <1> QED BY <1>1, <1>3, <1>4

\* Rows that stay or leave stay settled.
LEMMA SettledCarries ==
  ASSUME Settled, UNCHANGED <<kind, cells, reused>>,
         \A u \in Tables, s \in Places : at'[u][s] = at[u][s] \/ at'[u][s] = Nobody
  PROVE  Settled'
  <1>1. (\A t, u \in Tables, p, q \in Places : at[t][p] # Nobody /\ at[t][p] = at[u][q] => t = u /\ p = q)'
    <2> SUFFICES ASSUME NEW t \in Tables, NEW u \in Tables, NEW p \in Places, NEW q \in Places,
                        at'[t][p] # Nobody, at'[t][p] = at'[u][q]
                 PROVE  t = u /\ p = q
      OBVIOUS
    <2>1. at'[t][p] = at[t][p] /\ at'[u][q] = at[u][q]
      OBVIOUS
    <2>2. at[t][p] # Nobody /\ at[t][p] = at[u][q]
      BY <2>1
    <2> QED BY <2>2 DEF Settled
  <1>2. ASSUME kind = "sql", NEW t \in Tables, NEW p \in Places, at'[t][p] # Nobody, <<t, p>> \notin reused
        PROVE  cells[at'[t][p]] = Fresh(at'[t][p])
    <2>1. PICK x : x = at[t][p]
      OBVIOUS
    <2>2. at'[t][p] = x /\ x # Nobody
      BY <1>2, <2>1
    <2>3. cells[x] = Fresh(x)
      BY <1>2, <2>1, <2>2 DEF Settled
    <2> QED BY <2>2, <2>3
  <1>3. (kind = "sql" => \A t \in Tables, p \in Places :
           at[t][p] # Nobody /\ <<t, p>> \notin reused => cells[at[t][p]] = Fresh(at[t][p]))'
    BY <1>2 DEF Fresh
  <1> QED BY <1>1, <1>3 DEF Settled

\* The server applies or refuses a request.
LEMMA ServerKeepsInv ==
  ASSUME BrowserAssumption, BrowserInv, Refuse \/ ApplySave \/ ApplyDelete
  PROVE  BrowserInv'
  <1>a. /\ at \in [Tables -> [Places -> Rows \cup {Nobody}]] /\ cells \in [Rows -> [Columns -> Marks]]
        /\ selected \in Tables /\ kind \in {"nosql", "sql"}
        /\ request = NoRequest \/ request \in Orders
        /\ BrowserTyped /\ Settled /\ EditsStay
    BY DEF BrowserInv, BrowserTyped
  <1>1. CASE Refuse
    <2>1. UNCHANGED <<kind, at, cells, reused, strays, selected, page, panel>> /\ request' = NoRequest
      BY <1>1 DEF Refuse, store
    <2>2. Shifts /\ Settled' /\ EditsStay'
      BY <1>a, <2>1, SettledCarries DEF Shifts, EditsStay
    <2> QED BY <1>a, <2>1, <2>2, StoreKeepsInv
  <1>2. ASSUME request.op # "none", Found # Nobody
        PROVE  /\ request \in Orders /\ request.table \in Tables /\ request.doc \in Docs /\ request # NoRequest
               /\ Found \in Occupied(request.table) /\ Found \in Places
               /\ at[request.table][Found] \in Rows
               /\ IF kind = "sql" THEN Found = request.doc.place ELSE at[request.table][Found] = request.doc.row
    <2>1. request # NoRequest
      BY <1>2 DEF NoRequest
    <2>2. request \in Orders /\ request.table \in Tables /\ request.doc \in Docs
      BY <1>a, <2>1 DEF Orders
    <2>3. /\ Found \in Occupied(request.table)
          /\ IF kind = "sql" THEN Found = request.doc.place ELSE at[request.table][Found] = request.doc.row
      BY <1>2, FoundIs
    <2> QED BY <1>a, <2>1, <2>2, <2>3 DEF Occupied
  <1>3. CASE ApplySave
    <2>0. request.op = "save" /\ Found # Nobody
      BY <1>3 DEF ApplySave
    <2>1. PICK t \in Tables, p \in Places : t = request.table /\ p = Found
      BY <1>2, <2>0
    <2>2. /\ request \in Orders /\ request.doc \in Docs /\ request # NoRequest
          /\ p \in Occupied(t) /\ at[t][p] \in Rows
          /\ IF kind = "sql" THEN p = request.doc.place ELSE at[t][p] = request.doc.row
      BY <1>2, <2>0, <2>1
    <2>3. PICK r \in Rows : r = at[t][p]
      BY <2>2
    <2>4. PICK written : written = request.columns \cap HasColumns[t]
      OBVIOUS
    <2>5. PICK f : f = [c \in Columns |-> IF c \in written THEN request.values[c] ELSE cells[r][c]]
      OBVIOUS
    <2>6. f \in [Columns -> Marks]
      BY <1>a, <2>2, <2>5 DEF Orders
    <2>7. /\ cells' = [cells EXCEPT ![r] = f]
          /\ strays' = strays \cup Beyond(r, written)
          /\ Rewrite(t, p) /\ request' = NoRequest /\ panel' = Closes
          /\ UNCHANGED <<kind, selected, page>>
      BY <1>3, <2>1, <2>3, <2>4, <2>5 DEF ApplySave
    <2>8. cells' \in [Rows -> [Columns -> Marks]] /\ \A s \in Rows : s # at[t][p] => cells'[s] = cells[s]
      BY <1>a, <2>3, <2>6, <2>7
    <2>9. at' \in [Tables -> [Places -> Rows \cup {Nobody}]] /\ Shifts /\ Settled'
      BY <1>a, <2>2, <2>7, <2>8, RewriteIs
    <2>10. ASSUME request.why = {}, <<t, request.doc.place>> \notin reused
           PROVE  Beyond(r, written) = {}
      <3>1. kind = "sql"
        BY <1>a, <2>0, <2>2, <2>10 DEF BrowserInv, RequestOK
      <3>2. /\ at[t][p] \in {request.doc.row, Nobody}
            /\ request.columns \subseteq request.edited /\ request.doc.row = request.meant.row
        BY <2>0, <2>1, <2>2, <2>10, <3>1 DEF BrowserInv, RequestOK
      <3>3. r = request.doc.row /\ r = request.meant.row /\ written \ request.edited = {}
        BY <2>3, <2>4, <3>2 DEF BrowserAssumption
      <3> QED BY <3>3 DEF Beyond
    <2>11. {} \notin Beyond(r, written)
      <3>1. CASE request.why = {} /\ <<t, request.doc.place>> \notin reused
        BY <2>10, <3>1
      <3>2. CASE request.why # {} \/ <<t, request.doc.place>> \in reused
        BY <2>1, <3>2 DEF Beyond
      <3> QED BY <3>1, <3>2
    <2>12. EditsStay'
      BY <1>a, <2>7, <2>11 DEF EditsStay
    <2> QED BY <1>a, <2>7, <2>8, <2>9, <2>12, StoreKeepsInv
  <1>4. CASE ApplyDelete
    <2>0. request.op = "delete" /\ Found # Nobody
      BY <1>4 DEF ApplyDelete
    <2>1. PICK t \in Tables, p \in Places : t = request.table /\ p = Found
      BY <1>2, <2>0
    <2>2. /\ request \in Orders /\ request.doc \in Docs /\ request # NoRequest
          /\ p \in Occupied(t) /\ at[t][p] \in Rows
          /\ IF kind = "sql" THEN p = request.doc.place ELSE at[t][p] = request.doc.row
      BY <1>2, <2>0, <2>1
    <2>3. PICK why, taken : /\ why = request.why \ {"whole", "repicked"}
                            /\ taken = IF <<t, request.doc.place>> \in reused THEN {"reused"} ELSE {}
      OBVIOUS
    <2>4. /\ at' = [at EXCEPT ![t][p] = Nobody]
          /\ strays' = strays \cup IF at[t][p] = request.doc.row THEN {} ELSE {why \cup taken}
          /\ request' = NoRequest /\ panel' = Closes
          /\ UNCHANGED <<kind, cells, reused, selected, page>>
      BY <1>4, <2>1, <2>3 DEF ApplyDelete
    <2>5. /\ at' \in [Tables -> [Places -> Rows \cup {Nobody}]]
          /\ \A u \in Tables, s \in Places : at'[u][s] = at[u][s] \/ at'[u][s] = Nobody
      BY <1>a, <2>4
    <2>6. Shifts
      BY <2>4, <2>5 DEF Shifts
    <2>7. Settled'
      BY <1>a, <2>4, <2>5, SettledCarries
    <2>8. ASSUME at[t][p] # request.doc.row PROVE why \cup taken # {}
      <3>1. kind = "sql" /\ p = request.doc.place
        BY <2>2, <2>8
      <3>2. CASE "selection" \notin request.why /\ <<t, request.doc.place>> \notin reused
        <4>1. at[t][p] \in {request.doc.row, Nobody}
          BY <2>1, <2>2, <3>1, <3>2 DEF BrowserInv, RequestOK
        <4> QED BY <2>2, <2>8, <4>1 DEF BrowserAssumption
      <3>3. CASE "selection" \in request.why
        BY <2>3, <3>3
      <3>4. CASE <<t, request.doc.place>> \in reused
        BY <2>3, <3>4
      <3> QED BY <3>2, <3>3, <3>4
    <2>9. EditsStay'
      BY <1>a, <2>4, <2>8 DEF EditsStay
    <2> QED BY <1>a, <2>4, <2>5, <2>6, <2>7, <2>9, StoreKeepsInv
  <1> QED BY <1>1, <1>3, <1>4

\* The other clients, and vacuum.
LEMMA OthersKeepInv ==
  ASSUME BrowserAssumption, BrowserInv, exists \subseteq Tables,
         \/ \E t \in Tables : Vacuum(t) \/ DropTable(t) \/ CreateTable(t)
         \/ \E t \in Tables, p \in Places, c \in Columns : OtherWrites(t, p, c)
         \/ \E t \in Tables, p \in Places, r \in Rows : OtherInserts(t, p, r)
  PROVE  BrowserInv'
  <1>a. /\ at \in [Tables -> [Places -> Rows \cup {Nobody}]] /\ cells \in [Rows -> [Columns -> Marks]]
        /\ selected \in Tables /\ BrowserTyped /\ Settled /\ EditsStay
    BY DEF BrowserInv, BrowserTyped
  <1>b. UNCHANGED <<kind, strays, panel, request>>
    BY DEF Vacuum, DropTable, CreateTable, OtherWrites, OtherInserts
  <1>c. EditsStay' /\ panel' \in {panel, NoPanel, Closes} /\ request' \in {request, NoRequest}
    BY <1>a, <1>b DEF EditsStay
  <1>1. CASE \E t \in Tables : Vacuum(t) \/ CreateTable(t)
    <2>1. UNCHANGED <<at, cells, reused, selected, page>>
      BY <1>1 DEF Vacuum, CreateTable
    <2>2. Shifts /\ Settled'
      BY <1>a, <1>b, <2>1 DEF Shifts, Settled, Fresh
    <2> QED BY <1>a, <1>c, <2>1, <2>2, StoreKeepsInv
  <1>2. ASSUME NEW t \in Tables, DropTable(t) PROVE BrowserInv'
    <2>1. /\ at' = [at EXCEPT ![t] = Empty] /\ UNCHANGED <<cells, reused>> /\ page' \in {page, NoPage}
      BY <1>2 DEF DropTable
    <2>2. selected' \in Tables
      BY <1>2, <1>a DEF DropTable
    <2>3. /\ at' \in [Tables -> [Places -> Rows \cup {Nobody}]]
          /\ \A u \in Tables, s \in Places : at'[u][s] = at[u][s] \/ at'[u][s] = Nobody
      BY <1>a, <2>1 DEF Empty
    <2>4. Shifts
      BY <1>b, <2>1, <2>3 DEF Shifts
    <2>5. Settled'
      BY <1>a, <1>b, <2>1, <2>3, SettledCarries
    <2> QED BY <1>a, <1>c, <2>1, <2>2, <2>3, <2>4, <2>5, StoreKeepsInv
  <1>3. ASSUME NEW t \in Tables, NEW p \in Places, NEW c \in Columns, OtherWrites(t, p, c) PROVE BrowserInv'
    <2>1. p \in Occupied(t) /\ Rewrite(t, p) /\ UNCHANGED <<selected, page>>
      BY <1>3 DEF OtherWrites
    <2>2. PICK r \in Rows : r = at[t][p]
      BY <1>a, <2>1 DEF Occupied
    <2>3. PICK m \in Marks : m = <<r, "other">>
      BY <2>2 DEF Marks
    <2>4. cells' = [cells EXCEPT ![r] = [cells[r] EXCEPT ![c] = m]]
      BY <1>3, <1>a, <2>2, <2>3 DEF OtherWrites
    <2>5. cells' \in [Rows -> [Columns -> Marks]] /\ \A s \in Rows : s # at[t][p] => cells'[s] = cells[s]
      BY <1>a, <2>2, <2>3, <2>4
    <2>6. at' \in [Tables -> [Places -> Rows \cup {Nobody}]] /\ Shifts /\ Settled'
      BY <1>a, <1>b, <2>1, <2>5, RewriteIs
    <2> QED BY <1>a, <1>c, <2>1, <2>5, <2>6, StoreKeepsInv
  <1>4. ASSUME NEW t \in Tables, NEW p \in Places, NEW r \in Rows, OtherInserts(t, p, r) PROVE BrowserInv'
    <2>1. /\ \A u \in Tables, q \in Places : at[u][q] # r
          /\ at' = [at EXCEPT ![t][p] = r] /\ reused' = reused \cup {<<t, p>>}
          /\ UNCHANGED <<cells, selected, page>>
      BY <1>4 DEF OtherInserts
    <2>2. /\ at' \in [Tables -> [Places -> Rows \cup {Nobody}]]
          /\ at'[t][p] = r
          /\ \A u \in Tables, s \in Places : <<u, s>> # <<t, p>> => at'[u][s] = at[u][s]
      BY <1>a, <2>1
    <2>3. Shifts
      BY <1>b, <2>1, <2>2 DEF Shifts
    <2>4. Settled'
      <3>1. ASSUME NEW u \in Tables, NEW v \in Tables, NEW s \in Places, NEW z \in Places,
                   at'[u][s] # Nobody, at'[u][s] = at'[v][z]
            PROVE  u = v /\ s = z
        <4>1. CASE <<u, s>> # <<t, p>> /\ <<v, z>> # <<t, p>>
          BY <1>a, <2>2, <3>1, <4>1 DEF Settled
        <4>2. CASE <<u, s>> = <<t, p>> \/ <<v, z>> = <<t, p>>
          BY <2>1, <2>2, <3>1, <4>2
        <4> QED BY <4>1, <4>2
      <3>2. ASSUME kind = "sql", NEW u \in Tables, NEW s \in Places, at'[u][s] # Nobody, <<u, s>> \notin reused'
            PROVE  cells[at'[u][s]] = Fresh(at'[u][s])
        <4>1. at'[u][s] = at[u][s] /\ <<u, s>> \notin reused
          BY <2>1, <2>2, <3>2
        <4>2. cells[at[u][s]] = Fresh(at[u][s])
          BY <1>a, <3>2, <4>1 DEF Settled
        <4>3. PICK x : x = at[u][s]
          OBVIOUS
        <4> QED BY <4>1, <4>2, <4>3
      <3>3. (\A u, v \in Tables, s, z \in Places : at[u][s] # Nobody /\ at[u][s] = at[v][z] => u = v /\ s = z)'
        BY <3>1
      <3>4. (kind = "sql" => \A u \in Tables, s \in Places :
               at[u][s] # Nobody /\ <<u, s>> \notin reused => cells[at[u][s]] = Fresh(at[u][s]))'
        BY <1>b, <2>1, <3>2 DEF Fresh
      <3> QED BY <3>3, <3>4 DEF Settled
    <2> QED BY <1>a, <1>c, <2>1, <2>2, <2>3, <2>4, StoreKeepsInv
  <1> QED BY <1>1, <1>2, <1>3, <1>4

Tabled == exists \subseteq Tables

\* The invariant holds of every behaviour of the browser.
LEMMA BrowserInvariant ==
  ASSUME BrowserAssumption
  PROVE  BrowserSpec => [](BrowserInv /\ Tabled)
  <1>1. BrowserInit => BrowserInv /\ Tabled
    <2> SUFFICES ASSUME BrowserInit PROVE BrowserInv /\ exists \subseteq Tables
      BY DEF Tabled
    <2>1. /\ kind \in {"nosql", "sql"} /\ selected \in Tables
          /\ at \in [Tables -> [Places -> Rows \cup {Nobody}]]
          /\ \A t, u \in Tables, p, q \in Places : at[t][p] # Nobody /\ at[t][p] = at[u][q] => t = u /\ p = q
          /\ cells = [r \in Rows |-> Fresh(r)] /\ reused = {} /\ strays = {}
          /\ page = NoPage /\ panel = NoPanel /\ request = NoRequest
      BY DEF BrowserInit, BrowserAssumption
    <2>2. \A r \in Rows : Fresh(r) \in [Columns -> Marks] /\ cells[r] = Fresh(r)
      BY <2>1 DEF Fresh, Marks
    <2>3. cells \in [Rows -> [Columns -> Marks]]
      BY <2>1, <2>2
    <2>4. page \in [table : Tables \cup {Nobody}, docs : SUBSET Docs] /\ page.docs = {}
      BY <2>1 DEF NoPage
    <2>5. BrowserTyped
      BY <2>1, <2>3, <2>4 DEF BrowserTyped
    <2>6. Settled
      BY <2>1, <2>2 DEF Settled
    <2>7. PageOK /\ PanelOK /\ RequestOK /\ EditsStay
      BY <2>1, <2>4 DEF PageOK, PanelOK, RequestOK, EditsStay
    <2> QED BY <2>5, <2>6, <2>7 DEF BrowserInv, BrowserInit
  <1>2. Tabled /\ [BrowserNext]_browserVars => Tabled'
    <2> SUFFICES ASSUME exists \subseteq Tables, [BrowserNext]_browserVars PROVE exists' \subseteq Tables
      BY DEF Tabled
    <2>1. CASE BrowserNext
      BY <2>1 DEF BrowserNext, Browse, Cancel, Exit, Save, Delete, Ask, Refuse, ApplySave, ApplyDelete, Select,
                  Vacuum, DropTable, CreateTable, Pick, Edit, OtherWrites, OtherInserts, store
    <2>2. CASE UNCHANGED browserVars
      BY <2>2 DEF browserVars, store
    <2> QED BY <2>1, <2>2
  <1>3. BrowserInv /\ Tabled /\ [BrowserNext]_browserVars => BrowserInv'
    <2> SUFFICES ASSUME BrowserInv, exists \subseteq Tables, [BrowserNext]_browserVars PROVE BrowserInv'
      BY DEF Tabled
    <2>1. CASE BrowserNext
      BY <2>1, ScreenKeepsInv, ServerKeepsInv, OthersKeepInv DEF BrowserNext
    <2>2. CASE UNCHANGED browserVars
      <3>1. /\ UNCHANGED <<kind, at, cells, reused, strays, selected, page, panel, request>>
        BY <2>2 DEF browserVars, store
      <3>2. Shifts /\ Settled' /\ EditsStay'
        BY <3>1, SettledCarries DEF BrowserInv, BrowserTyped, Shifts, EditsStay
      <3> QED BY <3>1, <3>2, StoreKeepsInv DEF BrowserInv, BrowserTyped
    <2> QED BY <2>1, <2>2
  <1> QED BY <1>1, <1>2, <1>3, PTL DEF BrowserSpec

\* A save or a delete goes beyond the edits of the row the panel was opened on for no other
\* reason than a changed selection, another picked row, a reused place or a whole document.
THEOREM EditsDoStay ==
  ASSUME BrowserAssumption
  PROVE  BrowserSpec => []EditsStay
  <1>1. BrowserInv => EditsStay
    BY DEF BrowserInv
  <1> QED BY <1>1, BrowserInvariant, PTL

=============================================================================
