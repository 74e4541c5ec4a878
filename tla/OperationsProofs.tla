-------------------------- MODULE OperationsProofs --------------------------
(***************************************************************************)
(* Proofs about the parts of the control plane that share no state:         *)
(* admission, the connection mirror, the exports, the Redis users, the      *)
(* backups with the page in front of them, the Postgres gateway, the legacy *)
(* migration and the PivotDB import, for any owners, pages, databases,      *)
(* actors, tenants, profiles, requests, rounds, limits and failures.        *)
(***************************************************************************)
EXTENDS Admission, ConnectionMirror, Exports, RedisAcl, ProtectPage, PgGateway, LegacyMigration, PivotImport,
        FiniteSetTheorems, SequenceTheorems, WellFoundedInduction, TLAPS

AdmissionSpec == AdmissionInit /\ [][AdmissionNext]_admissionVars
MirrorSpec == MirrorInit /\ [][MirrorNext]_mirrorVars
ExportsSpec == ExportsInit /\ [][ExportsNext]_exportVars
AclSpec == AclInit /\ [][AclNext]_aclVars

-----------------------------------------------------------------------------
(* Redis users.                                                              *)

AclTyped ==
    /\ activeRows \subseteq Tenants /\ aclUsers \subseteq Tenants /\ setting \subseteq Tenants \X Askers
    /\ memo \in [Tenants -> 0..MemoTtl] /\ healed \subseteq Tenants
    /\ sweep \in [todo : SUBSET Tenants, on : Tenants \cup {NoTenant}, ok : SUBSET Tenants]

\* What the sweep in hand vouches for has its user as well.
AclInv == AclTyped /\ healed \subseteq aclUsers /\ sweep.ok \subseteq aclUsers

\* An answer brings the healer on, and what it adds is there.
LEMMA ResumesIs ==
  ASSUME AclTyped, NEW t, NEW by, NEW S \in SUBSET Tenants
  PROVE  /\ Resumes(t, by, S) \in [todo : SUBSET Tenants, on : Tenants \cup {NoTenant}, ok : SUBSET Tenants]
         /\ Resumes(t, by, S).ok \subseteq sweep.ok \cup S
  <1>1. sweep \in [todo : SUBSET Tenants, on : Tenants \cup {NoTenant}, ok : SUBSET Tenants]
    BY DEF AclTyped
  <1> DEFINE ok == sweep.ok \cup S
  <1>2. ok \in SUBSET Tenants
    BY <1>1
  <1>3. [sweep EXCEPT !.on = NoTenant, !.ok = @ \cup S] = [sweep EXCEPT !.on = NoTenant, !.ok = ok]
    BY <1>1
  <1> HIDE DEF ok
  <1>4. /\ [sweep EXCEPT !.on = NoTenant, !.ok = ok] \in [todo : SUBSET Tenants, on : Tenants \cup {NoTenant}, ok : SUBSET Tenants]
        /\ [sweep EXCEPT !.on = NoTenant, !.ok = ok].ok = ok
    BY <1>1, <1>2
  <1> QED BY <1>1, <1>3, <1>4 DEF Resumes, ok

\* Every step keeps it.
LEMMA AclNextKeeps == ASSUME RedisAclAssumption, AclInv, [AclNext]_aclVars PROVE AclInv'
  <1> DEFINE Sweep == [todo : SUBSET Tenants, on : Tenants \cup {NoTenant}, ok : SUBSET Tenants]
  <1>0. AclTyped /\ sweep \in Sweep /\ memo \in [Tenants -> 0..MemoTtl] /\ 0 \in 0..MemoTtl /\ MemoTtl \in 0..MemoTtl
    BY DEF AclInv, AclTyped, RedisAclAssumption
  <1>1. CASE UNCHANGED aclVars
    BY <1>1 DEF AclInv, AclTyped, aclVars
  <1>2. ASSUME NEW t \in Tenants, CacheConfig(t) PROVE AclInv'
    BY <1>2 DEF CacheConfig, AclInv, AclTyped, Askers
  <1>3. ASSUME NEW t \in Tenants, RowChanges(t) PROVE AclInv'
    BY <1>0, <1>3 DEF RowChanges, AclInv, AclTyped
  <1>4. ASSUME NEW t \in Tenants, NEW by \in Askers, AclSet(t, by) PROVE AclInv'
    <2>1. sweep' \in Sweep /\ sweep'.ok \subseteq sweep.ok \cup {t}
      BY <1>0, <1>4, ResumesIs DEF AclSet
    <2> QED BY <1>0, <1>4, <2>1 DEF AclSet, AclInv, AclTyped
  <1>5. ASSUME NEW t \in Tenants, NEW by \in Askers, AclFail(t, by) PROVE AclInv'
    <2>1. sweep' \in Sweep /\ sweep'.ok \subseteq sweep.ok
      BY <1>0, <1>5, ResumesIs DEF AclFail
    <2> QED BY <1>0, <1>5, <2>1 DEF AclFail, AclInv, AclTyped
  <1>6. CASE SweepBegin
    <2>1. sweep' = [NoSweep EXCEPT !.todo = activeRows] /\ UNCHANGED <<activeRows, aclUsers, memo, setting, healed>>
      BY <1>6 DEF SweepBegin
    <2>2. sweep' \in Sweep /\ sweep'.ok = {}
      BY <1>0, <2>1 DEF NoSweep, AclTyped
    <2> QED BY <2>1, <2>2 DEF AclInv, AclTyped
  <1>7. CASE SweepTenant
    <2>1. PICK t \in sweep.todo : /\ sweep' = [sweep EXCEPT !.todo = @ \ {t}, !.on = t]
                                  /\ memo' = [memo EXCEPT ![t] = 0]
                                  /\ setting' = setting \cup {<<t, "sweep">>}
      BY <1>7 DEF SweepTenant
    <2>2. t \in Tenants /\ sweep' \in Sweep /\ sweep'.ok = sweep.ok
      BY <1>0, <2>1
    <2>3. UNCHANGED <<activeRows, aclUsers, healed>>
      BY <1>7 DEF SweepTenant
    <2> QED BY <1>0, <2>1, <2>2, <2>3 DEF AclInv, AclTyped, Askers
  <1>8. CASE SweepEnd
    <2>1. healed' = sweep.ok /\ sweep' = NoSweep /\ UNCHANGED <<activeRows, aclUsers, memo, setting>>
      BY <1>8 DEF SweepEnd
    <2>2. NoSweep \in Sweep /\ NoSweep.ok = {}
      BY DEF NoSweep
    <2> QED BY <1>0, <2>1, <2>2 DEF AclInv, AclTyped
  <1>9. CASE RedisRestart
    <2>1. /\ aclUsers' = {} /\ healed' = {} /\ sweep' = [sweep EXCEPT !.ok = {}]
          /\ UNCHANGED <<activeRows, memo, setting>>
      BY <1>9 DEF RedisRestart
    <2>2. sweep' \in Sweep /\ sweep'.ok = {}
      BY <1>0, <2>1
    <2> QED BY <1>0, <2>1, <2>2 DEF AclInv, AclTyped
  <1>10. CASE MemoTick
    <2>1. memo' = [t \in Tenants |-> IF memo[t] = 0 THEN 0 ELSE memo[t] - 1]
          /\ UNCHANGED <<activeRows, aclUsers, setting, sweep, healed>>
      BY <1>10 DEF MemoTick
    <2>2. memo' \in [Tenants -> 0..MemoTtl]
      BY <1>0, <2>1 DEF RedisAclAssumption
    <2> QED BY <2>1, <2>2 DEF AclInv, AclTyped
  <1> QED BY <1>1, <1>2, <1>3, <1>4, <1>5, <1>6, <1>7, <1>8, <1>9, <1>10 DEF AclNext

\* Healed tenants, and those the sweep vouches for, have their users.
LEMMA AclInvariance == AclSpec => []AclInv
  <1>1. AclInit => AclInv
    BY RedisAclAssumption DEF AclInit, AclInv, AclTyped, NoSweep, RedisAclAssumption
  <1>2. AclInv /\ [AclNext]_aclVars => AclInv'
    BY AclNextKeeps, RedisAclAssumption
  <1> QED BY <1>1, <1>2, PTL DEF AclSpec

\* However requests, sweeps, failures and restarts of Redis overlap, what the last sweep
\* vouched for is there (index.js:140, redisCreds.js).
THEOREM SweepHeals == AclSpec => []AclHealed
  <1>1. AclInv => AclHealed
    BY DEF AclInv, AclHealed
  <1> QED BY <1>1, AclInvariance, PTL

-----------------------------------------------------------------------------
(* Exports.                                                                  *)

\* Where the worker is says what the row, its runs and the file may be.
ExporterStage ==
    /\ exporter.pc \in {"run", "stage", "open", "write", "done"} => exportJob.status # "done"
    /\ exporter.pc \in {"done", "success"} => file = Parts
    /\ exporter.pc \in {"stage", "open", "write", "done", "success", "fail"} => jobRuns # <<>>
    /\ exportJob.status = "done" => file = Parts /\ jobRuns # <<>>

\* While only one execution has begun, a download has the whole file in front of it.
Downloading ==
    download.pc # "idle" =>
        /\ jobRuns # <<>>
        /\ Len(jobRuns) < 2 => /\ file = Parts
                               /\ exporter.pc \notin {"stage", "open", "write"}

ExporterPcs == {"idle", "run", "stage", "open", "write", "done", "success", "fail"}
RunStatuses == {"running", "success", "failed"}

ExportsTyped ==
    /\ exportJob \in [status : {"pending", "running", "done", "failed", "deleted"}, named : BOOLEAN]
    /\ whole \in BOOLEAN
    /\ jobRuns \in Seq(RunStatuses)
    /\ exportState \in {"none", "waiting", "active", "completed", "failed"}
    /\ exporter \in [pc : ExporterPcs, staged : 0..Parts]
    /\ file \in -1..Parts
    /\ download \in [pc : {"idle", "stream", "ended"}, got : 0..Parts]

ExportsInv == ExportsTyped /\ ExporterStage /\ Downloading /\ DoneExportIsWhole

\* Closing a run leaves the number of runs as it is.
LEMMA RunCloses ==
  ASSUME ExportsTyped, jobRuns # <<>>, NEW e \in RunStatuses
  PROVE  /\ [jobRuns EXCEPT ![Len(jobRuns)] = e] \in Seq(RunStatuses)
         /\ [jobRuns EXCEPT ![Len(jobRuns)] = e] # <<>>
         /\ Len([jobRuns EXCEPT ![Len(jobRuns)] = e]) = Len(jobRuns)
  <1>1. jobRuns \in Seq(RunStatuses) /\ Len(jobRuns) \in 1..Len(jobRuns)
    BY EmptySeq, LenProperties DEF ExportsTyped
  <1>2. /\ [jobRuns EXCEPT ![Len(jobRuns)] = e] \in Seq(RunStatuses)
        /\ Len([jobRuns EXCEPT ![Len(jobRuns)] = e]) = Len(jobRuns)
    BY <1>1, ExceptSeq
  <1> QED BY <1>1, <1>2, EmptySeq

\* What the runs, the file and the download are to one another.
LEMMA ExportRunsKeep ==
  ASSUME ExportsAssumption, ExportsInv,
         \/ ExportRunRow \/ ExportCatch \/ ExportSuccess
  PROVE  ExportsInv'
  <1>0. ExportsTyped /\ Parts \in Nat \ {0} /\ 0 \in 0..Parts
    BY DEF ExportsInv, ExportsAssumption
  <1>1. CASE ExportRunRow
    <2>1. CASE ExportThere
      <3>1. /\ jobRuns' = Append(jobRuns, "running")
            /\ exporter' = [exporter EXCEPT !.pc = IF whole THEN "stage" ELSE "open"]
            /\ exporter.pc = "run" /\ UNCHANGED <<exportState, exportJob, whole, file, download>>
        BY <1>1, <2>1 DEF ExportRunRow
      <3>2. jobRuns' \in Seq(RunStatuses) /\ jobRuns' # <<>> /\ Len(jobRuns') = Len(jobRuns) + 1 /\ Len(jobRuns) \in Nat
        BY <1>0, <3>1, AppendProperties, LenProperties DEF ExportsTyped, RunStatuses
      <3>3. exporter' \in [pc : ExporterPcs, staged : 0..Parts] /\ exporter'.pc \in {"stage", "open"}
        BY <1>0, <3>1 DEF ExportsTyped, ExporterPcs
      <3>4. jobRuns # <<>> => Len(jobRuns) >= 1
        BY <1>0, EmptySeq, LenProperties DEF ExportsTyped
      <3> QED
        BY <1>0, <3>1, <3>2, <3>3, <3>4 DEF ExportsInv, ExportsTyped, ExporterStage, Downloading, DoneExportIsWhole
    <2>2. CASE ~ExportThere
      <3>1. /\ exportState' = "failed" /\ exporter' = IdleExporter
            /\ UNCHANGED <<jobRuns, exportJob, whole, file, download>>
        BY <1>1, <2>2 DEF ExportRunRow
      <3> QED
        BY <1>0, <3>1 DEF ExportsInv, ExportsTyped, ExporterStage, Downloading, DoneExportIsWhole, IdleExporter, ExporterPcs
    <2> QED BY <2>1, <2>2
  <1>2. CASE ExportCatch
    <2> DEFINE e == IF ExportThere THEN "failed" ELSE jobRuns[Len(jobRuns)]
    <2>1. exporter.pc = "fail" /\ jobRuns # <<>>
      BY <1>2 DEF ExportCatch, ExportsInv, ExporterStage
    <2>2. e \in RunStatuses
      BY <1>0, <2>1, EmptySeq, LenProperties DEF ExportsTyped, RunStatuses
    <2>3. jobRuns' = [jobRuns EXCEPT ![Len(jobRuns)] = e]
      BY <1>2 DEF ExportCatch
    <2> HIDE DEF e
    <2>4. jobRuns' \in Seq(RunStatuses) /\ jobRuns' # <<>> /\ Len(jobRuns') = Len(jobRuns)
      BY <1>0, <2>1, <2>2, <2>3, RunCloses
    <2>5. /\ exportJob' = [exportJob EXCEPT !.status = IF ExportThere THEN "failed" ELSE @]
          /\ exportState' = "failed" /\ exporter' = IdleExporter /\ UNCHANGED <<whole, file, download>>
      BY <1>2 DEF ExportCatch
    <2>6. exportJob' \in [status : {"pending", "running", "done", "failed", "deleted"}, named : BOOLEAN]
          /\ exportJob'.status \in {"failed", "deleted"}
      BY <1>0, <2>5 DEF ExportsTyped, ExportThere
    <2> QED
      BY <1>0, <2>1, <2>4, <2>5, <2>6
      DEF ExportsInv, ExportsTyped, ExporterStage, Downloading, DoneExportIsWhole, IdleExporter, ExporterPcs
  <1>3. CASE ExportSuccess
    <2>1. CASE ExportThere
      <3>1. /\ jobRuns' = [jobRuns EXCEPT ![Len(jobRuns)] = "success"] /\ exporter.pc = "success"
            /\ exportState' = "completed" /\ exporter' = IdleExporter
            /\ UNCHANGED <<exportJob, whole, file, download>>
        BY <1>3, <2>1 DEF ExportSuccess
      <3>2. jobRuns' \in Seq(RunStatuses) /\ jobRuns' # <<>> /\ Len(jobRuns') = Len(jobRuns)
        BY <1>0, <3>1, RunCloses DEF ExportsInv, ExporterStage, RunStatuses
      <3> QED
        BY <1>0, <3>1, <3>2
        DEF ExportsInv, ExportsTyped, ExporterStage, Downloading, DoneExportIsWhole, IdleExporter, ExporterPcs
    <2>2. CASE ~ExportThere
      <3>1. /\ exporter.pc = "success" /\ exporter' = [exporter EXCEPT !.pc = "fail"]
            /\ UNCHANGED <<jobRuns, exportState, exportJob, whole, file, download>>
        BY <1>3, <2>2 DEF ExportSuccess
      <3> QED
        BY <1>0, <3>1 DEF ExportsInv, ExportsTyped, ExporterStage, Downloading, DoneExportIsWhole, ExporterPcs
    <2> QED BY <2>1, <2>2
  <1> QED BY <1>1, <1>2, <1>3

\* The other steps leave the runs alone.
LEMMA ExportOthersKeep ==
  ASSUME ExportsAssumption, ExportsInv, [ExportsNext]_exportVars,
         ~ExportRunRow, ~ExportCatch, ~ExportSuccess
  PROVE  ExportsInv'
  <1>0. ExportsTyped /\ Parts \in Nat \ {0} /\ 0 \in 0..Parts
    BY DEF ExportsInv, ExportsAssumption
  <1> USE <1>0 DEF ExportsInv, ExportsTyped, ExporterStage, Downloading, DoneExportIsWhole
  <1>1. CASE EnqueueExport
    BY <1>1 DEF EnqueueExport
  <1>2. CASE DeleteExport
    BY <1>2 DEF DeleteExport
  <1>3. CASE ExportMark
    <2>1. CASE ExportThere
      <3>1. /\ exportJob' = [exportJob EXCEPT !.status = "running"] /\ exportState' = "active"
            /\ exporter' = [pc |-> "run", staged |-> 0] /\ UNCHANGED <<whole, jobRuns, file, download>>
        BY <1>3, <2>1 DEF ExportMark
      <3> QED BY <3>1 DEF ExporterPcs
    <2>2. CASE ~ExportThere
      BY <1>3, <2>2 DEF ExportMark
    <2> QED BY <2>1, <2>2
  <1>4. CASE ExportStage
    <2>1. exporter.pc = "stage" /\ UNCHANGED <<exportJob, whole, jobRuns, exportState, file, download>>
      BY <1>4 DEF ExportStage
    <2>2. exporter' \in [pc : ExporterPcs, staged : 0..Parts] /\ exporter'.pc \in {"stage", "open"}
      BY <1>4 DEF ExportStage, ExporterPcs
    <2> QED BY <2>1, <2>2
  <1>5. CASE ExportOpen
    <2>1. /\ exporter.pc = "open" /\ file' = 0 /\ exporter' = [exporter EXCEPT !.pc = "write"]
          /\ UNCHANGED <<exportJob, whole, jobRuns, exportState, download>>
      BY <1>5 DEF ExportOpen
    <2>2. exporter' \in [pc : ExporterPcs, staged : 0..Parts] /\ exporter'.pc = "write"
      BY <2>1 DEF ExporterPcs
    <2> QED BY <2>1, <2>2
  <1>6. CASE ExportWrite
    <2>1. exporter.pc = "write" /\ UNCHANGED <<exportJob, whole, jobRuns, exportState, download>>
      BY <1>6 DEF ExportWrite
    <2>2. /\ exporter' \in [pc : ExporterPcs, staged : 0..Parts] /\ file' \in -1..Parts
          /\ \/ exporter'.pc = "write"
             \/ exporter'.pc = "done" /\ file' = Parts
      BY <1>6 DEF ExportWrite, ExporterPcs
    <2> QED BY <2>1, <2>2
  <1>7. CASE ExportFail
    <2>1. /\ exporter.pc \notin {"idle", "run", "fail", "failrun"} /\ exporter' = [exporter EXCEPT !.pc = "fail"]
          /\ UNCHANGED <<exportJob, whole, jobRuns, exportState, file, download>>
      BY <1>7 DEF ExportFail
    <2>2. exporter' \in [pc : ExporterPcs, staged : 0..Parts] /\ exporter'.pc = "fail"
      BY <2>1 DEF ExporterPcs
    <2> QED BY <2>1, <2>2 DEF ExporterPcs
  <1>8. CASE ExportDone
    <2>1. exporter.pc = "done" /\ UNCHANGED <<whole, jobRuns, exportState, file, download>>
      BY <1>8 DEF ExportDone
    <2>2. /\ exporter' \in [pc : ExporterPcs, staged : 0..Parts]
          /\ \/ exporter'.pc = "success" /\ exportJob' = [status |-> "done", named |-> TRUE]
             \/ exporter'.pc = "fail" /\ UNCHANGED exportJob
      BY <1>8 DEF ExportDone, ExporterPcs
    <2>3. file = Parts /\ jobRuns # <<>> /\ (download.pc # "idle" /\ Len(jobRuns) < 2 => file = Parts)
      BY <2>1
    <2>4. CASE exporter'.pc = "fail" /\ UNCHANGED exportJob
      BY <2>1, <2>2, <2>4
    <2>5. CASE exporter'.pc = "success" /\ exportJob' = [status |-> "done", named |-> TRUE]
      <3>1. ExportsTyped'
        BY <2>1, <2>2, <2>5
      <3>2. ExporterStage'
        BY <2>1, <2>3, <2>5
      <3>3. Downloading' /\ DoneExportIsWhole'
        BY <2>1, <2>3, <2>5
      <3> QED BY <3>1, <3>2, <3>3
    <2> QED BY <2>2, <2>4, <2>5
  <1>9. CASE DownloadCheck
    BY <1>9 DEF DownloadCheck
  <1>10. CASE DownloadStream
    <2>1. download.pc = "stream" /\ UNCHANGED <<exportJob, whole, jobRuns, exportState, exporter, file>>
      BY <1>10 DEF DownloadStream
    <2>2. /\ download' \in [pc : {"idle", "stream", "ended"}, got : 0..Parts]
          /\ \/ download'.pc = "stream"
             \/ download'.pc = "ended" /\ download'.got >= file
      BY <1>10 DEF DownloadStream
    <2> QED BY <2>1, <2>2
  <1>11. CASE ExportsCrash
    BY <1>11 DEF ExportsCrash, IdleExporter, ExporterPcs
  <1>12. CASE UNCHANGED exportVars
    BY <1>12 DEF exportVars
  <1> QED BY <1>1, <1>2, <1>3, <1>4, <1>5, <1>6, <1>7, <1>8, <1>9, <1>10, <1>11, <1>12 DEF ExportsNext

\* The invariant of the exports, under every step.
LEMMA ExportsInvariance == ExportsSpec => []ExportsInv
  <1>1. ExportsInit => ExportsInv
    BY ExportsAssumption DEF ExportsInit, ExportsInv, ExportsTyped, ExporterStage, Downloading, DoneExportIsWhole,
       IdleExporter, ExporterPcs, ExportsAssumption
  <1>2. ExportsInv /\ [ExportsNext]_exportVars => ExportsInv'
    BY ExportRunsKeep, ExportOthersKeep, ExportsAssumption
  <1> QED BY <1>1, <1>2, PTL DEF ExportsSpec

\* Whatever fails, dies or is deleted on the way, an export that is offered for download has
\* all its parts, and a download that no second execution cut into got them
\* (export.job.ts, routes/export.ts).
THEOREM ExportsAreWhole == ExportsSpec => []DoneExportIsWhole
  <1>1. ExportsInv => DoneExportIsWhole
    BY DEF ExportsInv
  <1> QED BY <1>1, ExportsInvariance, PTL

-----------------------------------------------------------------------------
(* The mirror.                                                               *)

OwnerRec == [there : BOOLEAN, profile : {"none", "made", "pointed"}]
DbRec == [there : BOOLEAN, container : BOOLEAN, mirror : 0..MaxConnections]
ConnRec == [status : {"none", "there", "gone"}, of : Dbs \cup {NoDb}]
ActorRec == [pc : {"idle", "sync", "profile", "check", "create", "point", "remove", "unpoint",
                   "drop", "erase", "close"},
             db : Dbs \cup {NoDb}, mirror : 0..MaxConnections, torn : SUBSET Dbs]

MirrorTyped ==
    /\ owner \in OwnerRec /\ dbRow \in [Dbs -> DbRec] /\ conn \in [ConnIds -> ConnRec]
    /\ actor \in [Everyone -> ActorRec]
    /\ backlog \subseteq Dbs /\ disturbed \subseteq Dbs /\ unlinked \subseteq Dbs

Made == {c \in ConnIds : conn[c].status # "none"}

\* Connections are numbered as they are made, so that no number is used twice.
ConnsInOrder == \E k \in 0..MaxConnections : Made = 1..k

\* A pointer leads to a connection of its row.
Pointers ==
    \A d \in Dbs : LET m == dbRow[d].mirror IN
        m # 0 => dbRow[d].there /\ m \in ConnIds /\ Exists(m) /\ conn[m].of = d

\* Nothing is left of a closed account.
Closed == ~owner.there => (\A d \in Dbs : ~dbRow[d].there) /\ (\A c \in ConnIds : ~Exists(c))

\* An actor that holds a connection holds one that was made for its database.
Holds(a) == LET m == actor[a].mirror IN m \in Made /\ conn[m].of = actor[a].db
Working(a) ==
    /\ actor[a].db = NoDb <=> actor[a].pc \in {"idle", "close"}
    /\ actor[a].pc \in {"unpoint", "drop", "point"} => Holds(a)
    /\ actor[a].pc \in {"profile", "check"} => actor[a].mirror = 0 \/ Holds(a)

\* The connections of d that are left; at best the one its row points at.
LeftOf(d) == {c \in ConnIds : Exists(c) /\ conn[c].of = d}
OnlyPointed(d) == \A c \in LeftOf(d) : dbRow[d].there /\ dbRow[d].mirror = c

\* What the only actor on d finds at each stage of a sync or a removal.
MirrorStage(a, d) ==
    LET m == actor[a].mirror IN
    /\ actor[a].pc \in {"sync", "profile", "check", "remove"} => OnlyPointed(d)
    /\ actor[a].pc \in {"profile", "check"} =>
         dbRow[d].mirror = m \/ (dbRow[d].mirror = 0 /\ m \notin LeftOf(d))
    /\ actor[a].pc \in {"profile", "check", "create"} => (owner.there => dbRow[d].there)
    /\ actor[a].pc \in {"create", "point", "drop", "erase"} => dbRow[d].mirror = 0
    /\ actor[a].pc \in {"create", "erase"} => LeftOf(d) = {}
    /\ actor[a].pc \in {"point", "unpoint", "drop"} => LeftOf(d) \subseteq {m}
    /\ actor[a].pc = "point" => /\ m \in LeftOf(d) => dbRow[d].there
                                /\ m \notin LeftOf(d) => d \in unlinked

Pair(d) == /\ OnlyPointed(d)
           /\ dbRow[d].there /\ dbRow[d].mirror = 0 => d \in unlinked \cup backlog

\* A database that is not disturbed has one actor at most, and is paired when it has none.
InPeace(d) ==
    d \notin disturbed =>
      /\ \A a, b \in Everyone : actor[a].db = d /\ actor[b].db = d => a = b
      /\ \A a \in Everyone : actor[a].db = d => MirrorStage(a, d)
      /\ (\A a \in Everyone : actor[a].db # d) => Pair(d)

MirrorInv ==
    /\ MirrorTyped /\ ConnsInOrder /\ Pointers /\ Closed
    /\ \A a \in Everyone : Working(a)
    /\ \A d \in Dbs : InPeace(d)

\* What the step of an actor, or of nobody, may do to the state at large: rows and connections
\* change only for database e, pointers stay good, and no created connection is forgotten.
Modest(e) ==
    /\ MirrorTyped' /\ ConnsInOrder' /\ Pointers' /\ Closed'
    /\ owner'.there => owner.there
    /\ disturbed \subseteq disturbed'
    /\ Made \subseteq Made' /\ \A c \in Made : conn'[c].of = conn[c].of
    /\ \A d \in Dbs \ {e} : /\ dbRow'[d].there = dbRow[d].there /\ dbRow'[d].mirror = dbRow[d].mirror
                            /\ LeftOf(d)' = LeftOf(d)
                            /\ d \in unlinked => d \in unlinked'
                            /\ d \in backlog => d \in backlog'

\* An actor that stands still is in good standing after such a step.
LEMMA StillWorking ==
  ASSUME MirrorInv, NEW e, Modest(e), NEW b \in Everyone, actor'[b] = actor[b]
  PROVE  Working(b)'
  <1>1. Working(b)
    BY DEF MirrorInv
  <1> QED BY <1>1 DEF Working, Holds, Modest

\* A database the step is not about is left in peace.
LEMMA Elsewhere ==
  ASSUME MirrorInv, NEW e, Modest(e), NEW d \in Dbs \ {e},
         \A b \in Everyone : actor'[b] = actor[b] \/ (actor[b].db # d /\ actor'[b].db # d)
  PROVE  InPeace(d)'
  <1>1. SUFFICES ASSUME d \notin disturbed' PROVE InPeace(d)'
    BY DEF InPeace
  <1>2. d \notin disturbed /\ InPeace(d)
    BY <1>1 DEF MirrorInv, Modest
  <1>3. /\ dbRow'[d].there = dbRow[d].there /\ dbRow'[d].mirror = dbRow[d].mirror
        /\ LeftOf(d)' = LeftOf(d) /\ (owner'.there => owner.there)
        /\ d \in unlinked => d \in unlinked'
        /\ d \in backlog => d \in backlog'
    BY DEF Modest
  <1>4. OnlyPointed(d) => OnlyPointed(d)'
    BY <1>3 DEF OnlyPointed
  <1>5. ASSUME NEW b \in Everyone, actor'[b].db = d PROVE MirrorStage(b, d)'
    <2>1. actor'[b] = actor[b] /\ MirrorStage(b, d)
      BY <1>2, <1>5 DEF InPeace
    <2> QED BY <1>3, <1>4, <2>1 DEF MirrorStage
  <1>6. \A a, b \in Everyone : actor'[a].db = d /\ actor'[b].db = d => a = b
    BY <1>2 DEF InPeace
  <1>7. (\A b \in Everyone : actor'[b].db # d) => Pair(d)'
    <2>1. SUFFICES ASSUME \A b \in Everyone : actor'[b].db # d PROVE Pair(d)'
      OBVIOUS
    <2>2. \A b \in Everyone : actor[b].db # d
      BY <2>1
    <2>3. Pair(d)
      BY <1>2, <2>2 DEF InPeace
    <2> QED BY <1>3, <1>4, <2>3 DEF Pair
  <1> QED BY <1>5, <1>6, <1>7 DEF InPeace

\* An actor goes on with its database, or is done with it.
LEMMA ActorStep ==
  ASSUME MirrorInv, NEW a \in Everyone, NEW x \in ActorRec, actor' = [actor EXCEPT ![a] = x],
         Modest(actor[a].db), Working(a)', x.db \in {actor[a].db, NoDb},
         \A d \in Dbs : d = actor[a].db /\ d \notin disturbed' =>
             IF x.db = d THEN MirrorStage(a, d)' ELSE Pair(d)'
  PROVE  MirrorInv'
  <1>1. actor'[a] = x /\ \A b \in Everyone \ {a} : actor'[b] = actor[b]
    BY DEF MirrorInv, MirrorTyped
  <1>2. \A b \in Everyone : Working(b)'
    BY <1>1, StillWorking
  <1>3. ASSUME NEW d \in Dbs PROVE InPeace(d)'
    <2>1. CASE d # actor[a].db
      <3>1. x.db # d
        BY <2>1, ConnectionMirrorAssumption DEF ConnectionMirrorAssumption
      <3> QED BY <1>1, <2>1, <3>1, Elsewhere
    <2>2. CASE d = actor[a].db
      <3>1. SUFFICES ASSUME d \notin disturbed' PROVE InPeace(d)'
        BY DEF InPeace
      <3>2. InPeace(d) /\ d \notin disturbed
        BY <3>1 DEF MirrorInv, Modest
      <3>3. \A b \in Everyone \ {a} : actor'[b].db # d
        BY <1>1, <2>2, <3>2 DEF InPeace
      <3>4. IF x.db = d THEN MirrorStage(a, d)' ELSE Pair(d)'
        BY <2>2, <3>1
      <3> QED BY <1>1, <3>3, <3>4 DEF InPeace
    <2> QED BY <2>1, <2>2
  <1> QED BY <1>2, <1>3 DEF MirrorInv, Modest

\* An actor begins to work on a database.
LEMMA BeginStep ==
  ASSUME MirrorInv, NEW a \in Everyone, NEW d \in Dbs, NEW pc \in {"sync", "remove"}, Begin(a, d, pc),
         Modest(d), d \notin disturbed' /\ Pair(d) => OnlyPointed(d)'
  PROVE  MirrorInv'
  <1> DEFINE x == [AtRest EXCEPT !.pc = pc, !.db = d]
  <1>0. MirrorTyped /\ NoDb \notin Dbs /\ 0 \in 0..MaxConnections
    BY ConnectionMirrorAssumption DEF MirrorInv, ConnectionMirrorAssumption
  <1>1. x \in ActorRec /\ x.pc = pc /\ x.db = d
    BY <1>0 DEF AtRest, ActorRec
  <1>2. actor' = [actor EXCEPT ![a] = x] /\ actor[a].pc = "idle"
    BY DEF Begin, Stands
  <1> HIDE DEF x
  <1>3. actor'[a] = x /\ \A b \in Everyone \ {a} : actor'[b] = actor[b]
    BY <1>0, <1>1, <1>2 DEF MirrorTyped
  <1>4. \A b \in Everyone : Working(b)'
    <2>1. Working(a)'
      BY <1>0, <1>1, <1>3 DEF Working
    <2> QED BY <1>3, <2>1, StillWorking
  <1>5. actor[a].db = NoDb
    BY <1>2 DEF MirrorInv, Working
  <1>6. ASSUME NEW e \in Dbs PROVE InPeace(e)'
    <2>1. CASE e # d
      BY <1>0, <1>1, <1>3, <1>5, <2>1, Elsewhere
    <2>2. CASE e = d
      <3>1. SUFFICES ASSUME d \notin disturbed' PROVE InPeace(d)'
        BY <2>2 DEF InPeace
      <3>2. (\A b \in Everyone : actor[b].db # d) /\ d \notin disturbed /\ InPeace(d)
        BY <3>1 DEF Begin, Busy, MirrorInv
      <3>3. Pair(d)
        BY <3>2 DEF InPeace
      <3>4. MirrorStage(a, d)'
        BY <1>1, <1>3, <3>1, <3>3 DEF MirrorStage
      <3>5. \A b \in Everyone \ {a} : actor'[b].db # d
        BY <1>3, <3>2
      <3> QED BY <1>1, <1>3, <3>4, <3>5 DEF InPeace
    <2> QED BY <2>1, <2>2
  <1> QED BY <1>4, <1>6 DEF MirrorInv, Modest

\* A step that leaves rows and connections alone is modest.
LEMMA Quiet ==
  ASSUME MirrorInv, NEW e, UNCHANGED <<dbRow, conn, unlinked>>, owner' \in OwnerRec, owner'.there = owner.there,
         disturbed \subseteq disturbed', disturbed' \subseteq Dbs,
         backlog' \subseteq Dbs, backlog \ {e} \subseteq backlog', actor' \in [Everyone -> ActorRec]
  PROVE  /\ Modest(e)
         /\ \A d \in Dbs : LeftOf(d)' = LeftOf(d) /\ (OnlyPointed(d) => OnlyPointed(d)')
  <1>1. MirrorTyped' /\ Made' = Made
    BY DEF MirrorInv, MirrorTyped, Made
  <1>2. ConnsInOrder' /\ Pointers' /\ Closed'
    BY <1>1 DEF MirrorInv, ConnsInOrder, Pointers, Closed, Exists
  <1>3. \A d \in Dbs : LeftOf(d)' = LeftOf(d) /\ (OnlyPointed(d) => OnlyPointed(d)')
    BY DEF LeftOf, OnlyPointed, Exists
  <1> QED BY <1>1, <1>2, <1>3 DEF Modest

\* An actor's record stays one.
LEMMA Records ==
  ASSUME NEW r \in ActorRec, NEW m \in 0..MaxConnections, NEW pc, pc \in {"idle", "sync", "profile", "check", "create",
         "point", "remove", "unpoint", "drop", "erase", "close"}
  PROVE  /\ [r EXCEPT !.pc = pc] \in ActorRec /\ [r EXCEPT !.pc = pc, !.mirror = m] \in ActorRec
         /\ [r EXCEPT !.pc = pc].pc = pc /\ [r EXCEPT !.pc = pc, !.mirror = m].pc = pc
         /\ [r EXCEPT !.pc = pc].db = r.db /\ [r EXCEPT !.pc = pc, !.mirror = m].db = r.db
         /\ [r EXCEPT !.pc = pc].mirror = r.mirror /\ [r EXCEPT !.pc = pc, !.mirror = m].mirror = m
  BY DEF ActorRec

\* An actor at rest works on nothing.
LEMMA RestIsRecord == AtRest \in ActorRec /\ AtRest.pc = "idle" /\ AtRest.db = NoDb
  <1>1. 0 \in 0..MaxConnections
    BY ConnectionMirrorAssumption DEF ConnectionMirrorAssumption
  <1> QED BY <1>1 DEF AtRest, ActorRec

\* Where an actor at work stands.
LEMMA AtWork ==
  ASSUME MirrorInv, NEW a \in Everyone, actor[a].pc \notin {"idle", "close"}
  PROVE  /\ actor[a] \in ActorRec /\ actor \in [Everyone -> ActorRec] /\ actor[a].db \in Dbs /\ NoDb \notin Dbs
         /\ Working(a) /\ (actor[a].db \notin disturbed => MirrorStage(a, actor[a].db))
  <1>1. actor[a] \in ActorRec /\ actor \in [Everyone -> ActorRec] /\ NoDb \notin Dbs /\ Working(a)
    BY ConnectionMirrorAssumption DEF MirrorInv, MirrorTyped, ConnectionMirrorAssumption
  <1>2. actor[a].db \in Dbs
    BY <1>1 DEF Working, ActorRec
  <1> QED BY <1>1, <1>2 DEF MirrorInv, InPeace

\* The reads of a sync and of a removal, and the workspace on the way.
LEMMA MirrorReads ==
  ASSUME MirrorInv, NEW a \in Everyone, SyncRead(a) \/ EnsureProfile(a) \/ SyncCheck(a) \/ RemoveRead(a)
  PROVE  MirrorInv'
  <1>1. /\ UNCHANGED <<dbRow, conn, backlog, disturbed, unlinked>> /\ owner' \in OwnerRec /\ owner'.there = owner.there
        /\ actor[a].pc \in {"sync", "profile", "check", "remove"}
    BY DEF SyncRead, EnsureProfile, SyncCheck, RemoveRead, Unlogged, Stands, MirrorInv, MirrorTyped, OwnerRec
  <1>0. PICK d \in Dbs : d = actor[a].db
    BY <1>1, AtWork
  <1>2. /\ actor[a] \in ActorRec /\ actor \in [Everyone -> ActorRec] /\ d = actor[a].db /\ Working(a) /\ NoDb \notin Dbs
        /\ d \notin disturbed => MirrorStage(a, d)
    BY <1>0, <1>1, AtWork
  <1>3. dbRow[d] \in DbRec /\ dbRow[d].mirror \in 0..MaxConnections
        /\ LET m == dbRow[d].mirror IN m # 0 => dbRow[d].there /\ m \in Made /\ m \in LeftOf(d) /\ conn[m].of = d
    BY <1>2 DEF MirrorInv, MirrorTyped, DbRec, Pointers, Made, LeftOf, Exists
  <1>4. ASSUME NEW x \in ActorRec, actor' = [actor EXCEPT ![a] = x], x.db \in {d, NoDb},
               x.db = NoDb <=> x.pc \in {"idle", "close"},
               x.pc \in {"unpoint", "drop", "point"} => x.mirror \in Made /\ conn[x.mirror].of = d,
               x.pc \in {"profile", "check"} => x.mirror = 0 \/ (x.mirror \in Made /\ conn[x.mirror].of = d),
               d \notin disturbed => IF x.db = d THEN MirrorStage(a, d)' ELSE Pair(d)
        PROVE  MirrorInv'
    <2>1. actor' \in [Everyone -> ActorRec] /\ actor'[a] = x
      BY <1>2, <1>4
    <2>2. Modest(d) /\ LeftOf(d)' = LeftOf(d) /\ (OnlyPointed(d) => OnlyPointed(d)')
      BY <1>1, <1>2, <2>1, Quiet DEF MirrorInv, MirrorTyped
    <2>3. Working(a)'
      <3>1. Made \subseteq Made' /\ conn' = conn
        BY <1>1, <2>2 DEF Modest
      <3>2. x.pc \notin {"idle", "close"} => x.db = d
        BY <1>4
      <3> QED BY <1>4, <2>1, <3>1, <3>2 DEF Working, Holds
    <2>4. Pair(d) => Pair(d)'
      BY <1>1, <2>2 DEF Pair
    <2> QED BY <1>1, <1>2, <1>4, <2>2, <2>3, <2>4, ActorStep
  <1>5. LeftOf(d)' = LeftOf(d) /\ (OnlyPointed(d) => OnlyPointed(d)')
    BY <1>1 DEF LeftOf, OnlyPointed, Exists
  <1>6. CASE SyncRead(a) /\ ~dbRow[d].there
    <2>1. actor' = [actor EXCEPT ![a] = AtRest] /\ actor[a].pc = "sync"
      BY <1>2, <1>6 DEF SyncRead, Finish, Stands
    <2>2. d \notin disturbed => Pair(d)
      BY <1>2, <1>6, <2>1 DEF MirrorStage, Pair
    <2> QED BY <1>2, <1>4, <2>1, <2>2, RestIsRecord
  <1>7. CASE SyncRead(a) /\ dbRow[d].there
    <2> DEFINE x == [actor[a] EXCEPT !.pc = "profile", !.mirror = dbRow[d].mirror]
    <2>1. actor' = [actor EXCEPT ![a] = x] /\ actor[a].pc = "sync"
      BY <1>2, <1>7 DEF SyncRead, Stands
    <2>2. x \in ActorRec /\ x.pc = "profile" /\ x.db = d /\ x.mirror = dbRow[d].mirror
      BY <1>2, <1>3 DEF ActorRec
    <2> HIDE DEF x
    <2>3. actor'[a] = x
      BY <1>2, <2>1, <2>2
    <2>4. d \notin disturbed => MirrorStage(a, d)'
      BY <1>1, <1>2, <1>5, <1>7, <2>1, <2>2, <2>3 DEF MirrorStage
    <2> QED BY <1>2, <1>3, <1>4, <2>1, <2>2, <2>4
  <1>8. CASE EnsureProfile(a)
    <2>1. \/ ~owner.there /\ actor' = [actor EXCEPT ![a] = AtRest]
          \/ actor' = [actor EXCEPT ![a] = [actor[a] EXCEPT !.pc = "check"]]
          \/ actor' = actor
      BY <1>2, <1>8 DEF EnsureProfile, Finish, Proceed, MirrorInv, MirrorTyped, OwnerRec
    <2>2. actor[a].pc = "profile"
      BY <1>8 DEF EnsureProfile, Stands
    <2>3. CASE ~owner.there /\ actor' = [actor EXCEPT ![a] = AtRest]
      <3>1. d \notin disturbed => Pair(d)
        BY <1>2, <2>2, <2>3 DEF MirrorStage, Pair, MirrorInv, Closed
      <3> QED BY <1>2, <1>4, <2>3, <3>1, RestIsRecord
    <2>4. CASE actor' = [actor EXCEPT ![a] = [actor[a] EXCEPT !.pc = "check"]]
      <3> DEFINE x == [actor[a] EXCEPT !.pc = "check"]
      <3>1. x \in ActorRec /\ x.pc = "check" /\ x.db = d /\ x.mirror = actor[a].mirror
        BY <1>2, <1>3 DEF ActorRec
      <3>2. actor' = [actor EXCEPT ![a] = x]
        BY <2>4
      <3> HIDE DEF x
      <3>3. actor'[a] = x
        BY <1>2, <3>1, <3>2
      <3>4. d \notin disturbed => MirrorStage(a, d)'
        BY <1>1, <1>2, <1>5, <2>2, <3>1, <3>3 DEF MirrorStage
      <3>5. x.mirror = 0 \/ (x.mirror \in Made /\ conn[x.mirror].of = d)
        BY <1>2, <2>2, <3>1 DEF Working, Holds
      <3> QED BY <1>2, <1>4, <3>1, <3>2, <3>4, <3>5
    <2>5. CASE actor' = actor
      <3>1. actor' = [actor EXCEPT ![a] = actor[a]]
        BY <1>2, <2>5
      <3>2. d \notin disturbed => MirrorStage(a, d)'
        BY <1>1, <1>2, <1>5, <2>2, <2>5 DEF MirrorStage
      <3>3. actor[a].mirror = 0 \/ (actor[a].mirror \in Made /\ conn[actor[a].mirror].of = d)
        BY <1>2, <2>2 DEF Working, Holds
      <3> QED BY <1>2, <1>4, <2>2, <3>1, <3>2, <3>3
    <2> QED BY <2>1, <2>3, <2>4, <2>5
  <1>9. CASE SyncCheck(a)
    <2> DEFINE m == actor[a].mirror
    <2>1. actor[a].pc = "check" /\ (m = 0 \/ (m \in Made /\ conn[m].of = d))
      BY <1>2, <1>9 DEF SyncCheck, Stands, Working, Holds
    <2>2. CASE m # 0 /\ Exists(m)
      <3>1. actor' = [actor EXCEPT ![a] = AtRest]
        BY <1>9, <2>2 DEF SyncCheck, Finish
      <3>2. m \in LeftOf(d)
        BY <2>1, <2>2 DEF LeftOf, Made
      <3>3. d \notin disturbed => Pair(d)
        BY <1>2, <2>1, <2>2, <3>2 DEF MirrorStage, Pair
      <3> QED BY <1>2, <1>4, <3>1, <3>3, RestIsRecord
    <2>3. CASE ~(m # 0 /\ Exists(m))
      <3> DEFINE x == [actor[a] EXCEPT !.pc = "create"]
      <3>1. x \in ActorRec /\ x.pc = "create" /\ x.db = d
        BY <1>2, <1>3 DEF ActorRec
      <3>2. actor' = [actor EXCEPT ![a] = x]
        BY <1>9, <2>3 DEF SyncCheck, Proceed
      <3> HIDE DEF x
      <3>3. actor'[a] = x
        BY <1>2, <3>1, <3>2
      <3>4. m \notin LeftOf(d) /\ 0 \notin LeftOf(d)
        BY <2>3, ConnectionMirrorAssumption DEF LeftOf, ConnIds, ConnectionMirrorAssumption
      <3>5. d \notin disturbed => dbRow[d].mirror = 0 /\ LeftOf(d) = {} /\ (owner.there => dbRow[d].there)
        BY <1>2, <1>3, <2>1, <3>4 DEF MirrorStage, OnlyPointed
      <3>6. d \notin disturbed => MirrorStage(a, d)'
        BY <1>1, <1>5, <3>1, <3>3, <3>5 DEF MirrorStage
      <3> QED BY <1>2, <1>4, <3>1, <3>2, <3>6
    <2> QED BY <2>2, <2>3
  <1>10. CASE RemoveRead(a)
    <2> DEFINE m == dbRow[d].mirror
               x == [actor[a] EXCEPT !.pc = IF m = 0 THEN "erase" ELSE "unpoint", !.mirror = m]
    <2>1. actor' = [actor EXCEPT ![a] = x] /\ actor[a].pc = "remove"
      BY <1>2, <1>10 DEF RemoveRead, Stands, ActorRec
    <2>2. x \in ActorRec /\ x.pc = (IF m = 0 THEN "erase" ELSE "unpoint") /\ x.db = d /\ x.mirror = m
      BY <1>2, <1>3 DEF ActorRec
    <2> HIDE DEF x
    <2>3. actor'[a] = x
      BY <1>2, <2>1, <2>2
    <2>4. d \notin disturbed => LeftOf(d) \subseteq {m} /\ 0 \notin LeftOf(d)
      BY <1>2, <2>1, ConnectionMirrorAssumption DEF MirrorStage, OnlyPointed, LeftOf, ConnIds, ConnectionMirrorAssumption
    <2>5. d \notin disturbed => MirrorStage(a, d)'
      BY <1>1, <1>5, <2>2, <2>3, <2>4 DEF MirrorStage
    <2> QED BY <1>2, <1>3, <1>4, <2>1, <2>2, <2>5
  <1> QED BY <1>6, <1>7, <1>8, <1>9, <1>10

\* Connections are numbered in order: the next one has not been made.
LEMMA NextIsFresh ==
  ASSUME MirrorTyped, ConnsInOrder, NEW c \in ConnIds, c = NextConn
  PROVE  c \notin Made /\ \E k \in 0..MaxConnections : Made \cup {c} = 1..k
  <1>1. PICK k \in 0..MaxConnections : Made = 1..k
    BY DEF ConnsInOrder
  <1>2. MaxConnections \in Nat
    BY ConnectionMirrorAssumption DEF ConnectionMirrorAssumption
  <1>3. Cardinality(1..k) = k
    BY <1>1, <1>2, FS_Interval
  <1>4. c = k + 1
    BY <1>1, <1>3 DEF NextConn, Made
  <1> QED BY <1>1, <1>2, <1>4 DEF ConnIds

\* A connection made for o, or by the user, touches nothing else.
LEMMA FreshConnection ==
  ASSUME MirrorInv, NEW c \in ConnIds, c = NextConn, NEW o \in Dbs \cup {NoDb}, owner.there,
         conn' = [conn EXCEPT ![c] = [status |-> "there", of |-> o]],
         UNCHANGED <<owner, dbRow, backlog, disturbed, unlinked>>, actor' \in [Everyone -> ActorRec]
  PROVE  /\ Modest(o) /\ c \in Made' /\ conn'[c].of = o
         /\ \A d \in Dbs : LeftOf(d)' = IF d = o THEN LeftOf(d) \cup {c} ELSE LeftOf(d)
  <1>1. conn \in [ConnIds -> ConnRec] /\ c \notin Made /\ \E k \in 0..MaxConnections : Made \cup {c} = 1..k
    BY NextIsFresh DEF MirrorInv, MirrorTyped
  <1>2. conn' \in [ConnIds -> ConnRec] /\ conn'[c] = [status |-> "there", of |-> o]
        /\ \A b \in ConnIds \ {c} : conn'[b] = conn[b]
    BY <1>1 DEF ConnRec
  <1>3. Made' = Made \cup {c}
    BY <1>1, <1>2 DEF Made
  <1>4. conn[c].status = "none"
    BY <1>1 DEF Made
  <1>5. \A d \in Dbs : LeftOf(d)' = IF d = o THEN LeftOf(d) \cup {c} ELSE LeftOf(d)
    BY <1>2, <1>4 DEF LeftOf, Exists
  <1>6. MirrorTyped' /\ ConnsInOrder' /\ Closed'
    BY <1>1, <1>2, <1>3 DEF MirrorInv, MirrorTyped, ConnsInOrder, Closed
  <1>7. Pointers'
    BY <1>2, <1>4 DEF MirrorInv, Pointers, Exists
  <1>8. \A b \in Made : conn'[b].of = conn[b].of
    BY <1>1, <1>2 DEF Made
  <1> QED BY <1>2, <1>3, <1>5, <1>6, <1>7, <1>8 DEF Modest

\* A connection that is dropped leaves its database and no other; nothing points at it.
LEMMA DroppedConnection ==
  ASSUME MirrorInv, NEW c \in Made, conn' = [conn EXCEPT ![c].status = "gone"], dbRow' = Unpointed(c),
         UNCHANGED <<owner, backlog, disturbed>>, unlinked \subseteq unlinked', unlinked' \subseteq Dbs,
         actor' \in [Everyone -> ActorRec]
  PROVE  /\ Modest(conn[c].of)
         /\ \A d \in Dbs : /\ LeftOf(d)' = LeftOf(d) \ {c} /\ dbRow'[d].there = dbRow[d].there
                           /\ dbRow'[d].mirror = IF dbRow[d].mirror = c THEN 0 ELSE dbRow[d].mirror
  <1>1. conn \in [ConnIds -> ConnRec] /\ c \in ConnIds /\ conn[c].status # "none" /\ dbRow \in [Dbs -> DbRec]
        /\ 0 \in 0..MaxConnections /\ c # 0
    BY ConnectionMirrorAssumption DEF MirrorInv, MirrorTyped, Made, ConnIds, ConnectionMirrorAssumption
  <1>2. conn' \in [ConnIds -> ConnRec] /\ conn'[c].status = "gone" /\ conn'[c].of = conn[c].of
        /\ \A b \in ConnIds \ {c} : conn'[b] = conn[b]
    BY <1>1 DEF ConnRec
  <1>3. Made' = Made
    BY <1>1, <1>2 DEF Made
  <1>4. \A d \in Dbs : LeftOf(d)' = LeftOf(d) \ {c}
    BY <1>1, <1>2 DEF LeftOf, Exists
  <1>5. \A d \in Dbs : /\ dbRow'[d] \in DbRec /\ dbRow'[d].there = dbRow[d].there
                       /\ dbRow'[d].mirror = IF dbRow[d].mirror = c THEN 0 ELSE dbRow[d].mirror
    BY <1>1 DEF Unpointed, DbRec
  <1>6. dbRow' \in [Dbs -> DbRec]
    BY <1>5 DEF Unpointed
  <1>7. MirrorTyped' /\ ConnsInOrder'
    BY <1>2, <1>3, <1>6 DEF MirrorInv, MirrorTyped, ConnsInOrder
  <1>8. Closed'
    BY <1>1, <1>2, <1>5 DEF MirrorInv, Closed, Exists
  <1>9. Pointers'
    BY <1>1, <1>2, <1>5 DEF MirrorInv, Pointers, Exists
  <1>10. \A d \in Dbs \ {conn[c].of} : dbRow'[d].mirror = dbRow[d].mirror /\ LeftOf(d)' = LeftOf(d)
    BY <1>1, <1>4, <1>5 DEF MirrorInv, Pointers, LeftOf
  <1>11. \A b \in Made : conn'[b].of = conn[b].of
    BY <1>2 DEF Made
  <1> QED BY <1>3, <1>4, <1>5, <1>7, <1>8, <1>9, <1>10, <1>11 DEF Modest

\* A row of d changes; where it points, there is a connection of d.
LEMMA RowStep ==
  ASSUME MirrorInv, NEW d \in Dbs, NEW r \in DbRec, dbRow' = [dbRow EXCEPT ![d] = r],
         UNCHANGED <<owner, conn, backlog, disturbed>>, unlinked \ {d} \subseteq unlinked', unlinked' \subseteq Dbs,
         actor' \in [Everyone -> ActorRec], r.there => owner.there \/ dbRow[d].there,
         r.mirror # 0 => r.there /\ r.mirror \in LeftOf(d)
  PROVE  /\ Modest(d) /\ dbRow'[d] = r /\ \A e \in Dbs : LeftOf(e)' = LeftOf(e)
  <1>1. dbRow' \in [Dbs -> DbRec] /\ dbRow'[d] = r /\ \A e \in Dbs \ {d} : dbRow'[e] = dbRow[e]
    BY DEF MirrorInv, MirrorTyped
  <1>2. MirrorTyped' /\ Made' = Made /\ ConnsInOrder'
    BY <1>1 DEF MirrorInv, MirrorTyped, Made, ConnsInOrder
  <1>3. \A e \in Dbs : LeftOf(e)' = LeftOf(e)
    BY DEF LeftOf, Exists
  <1>4. Pointers'
    BY <1>1 DEF MirrorInv, Pointers, LeftOf, Exists
  <1>5. Closed'
    BY <1>1 DEF MirrorInv, Closed, Exists
  <1> QED BY <1>1, <1>2, <1>3, <1>4, <1>5 DEF Modest

\* A sync makes the connection.
LEMMA MirrorCreates ==
  ASSUME MirrorInv, NEW a \in Everyone, SyncCreate(a)
  PROVE  MirrorInv'
  <1>1. actor[a].pc = "create"
    BY DEF SyncCreate, Stands
  <1>2. PICK d \in Dbs : d = actor[a].db
    BY <1>1, AtWork
  <1>3. PICK c \in ConnIds : /\ c = NextConn
                             /\ conn' = [conn EXCEPT ![c] = [status |-> "there", of |-> d]]
                             /\ actor' = [actor EXCEPT ![a].pc = "point", ![a].mirror = c]
    BY <1>2 DEF SyncCreate
  <1>4. actor[a] \in ActorRec /\ actor \in [Everyone -> ActorRec] /\ NoDb \notin Dbs
        /\ (d \notin disturbed => MirrorStage(a, d)) /\ c \in 0..MaxConnections
    BY <1>1, <1>2, AtWork DEF ConnIds
  <1> DEFINE x == [actor[a] EXCEPT !.pc = "point", !.mirror = c]
  <1>5. x \in ActorRec /\ x.pc = "point" /\ x.mirror = c /\ x.db = d
    BY <1>2, <1>4 DEF ActorRec
  <1>6. actor' = [actor EXCEPT ![a] = x]
    BY <1>3, <1>4
  <1> HIDE DEF x
  <1>7. actor' \in [Everyone -> ActorRec] /\ actor'[a] = x
    BY <1>4, <1>5, <1>6
  <1>8. UNCHANGED <<owner, dbRow, backlog, disturbed, unlinked>> /\ owner.there
    BY DEF SyncCreate, Unlogged
  <1>9. Modest(d) /\ c \in Made' /\ conn'[c].of = d /\ LeftOf(d)' = LeftOf(d) \cup {c}
    BY <1>3, <1>7, <1>8, FreshConnection
  <1>10. Working(a)'
    BY <1>4, <1>5, <1>7, <1>9 DEF Working, Holds
  <1>11. d \notin disturbed => MirrorStage(a, d)'
    BY <1>1, <1>4, <1>5, <1>7, <1>8, <1>9 DEF MirrorStage
  <1> QED BY <1>2, <1>5, <1>6, <1>8, <1>9, <1>10, <1>11, ActorStep

\* A sync points the row at the connection, a removal clears the pointer, the row goes.
LEMMA MirrorRows ==
  ASSUME MirrorInv, NEW a \in Everyone, SyncPoint(a) \/ RemoveUnpoint(a) \/ EraseRow(a)
  PROVE  MirrorInv'
  <1>1. actor[a].pc \in {"point", "unpoint", "erase"}
    BY DEF SyncPoint, RemoveUnpoint, EraseRow, Stands
  <1>2. PICK d \in Dbs : d = actor[a].db
    BY <1>1, AtWork
  <1>3. actor[a] \in ActorRec /\ actor \in [Everyone -> ActorRec] /\ NoDb \notin Dbs /\ Working(a)
        /\ (d \notin disturbed => MirrorStage(a, d)) /\ dbRow[d] \in DbRec /\ 0 \in 0..MaxConnections
        /\ dbRow \in [Dbs -> DbRec] /\ unlinked \subseteq Dbs
    BY <1>1, <1>2, AtWork, ConnectionMirrorAssumption DEF MirrorInv, MirrorTyped, ConnectionMirrorAssumption
  <1>4. AtRest \in ActorRec /\ [actor EXCEPT ![a] = AtRest] \in [Everyone -> ActorRec]
    BY <1>3, RestIsRecord
  <1>5. ASSUME actor' = [actor EXCEPT ![a] = AtRest], Modest(d), d \notin disturbed' => Pair(d)'
        PROVE  MirrorInv'
    <2>1. Working(a)'
      BY <1>3, <1>5, RestIsRecord DEF Working
    <2> QED BY <1>2, <1>3, <1>4, <1>5, <2>1, RestIsRecord, ActorStep
  <1>6. CASE SyncPoint(a)
    <2> DEFINE c == actor[a].mirror
    <2>1. /\ actor' = [actor EXCEPT ![a] = AtRest] /\ actor[a].pc = "point"
          /\ UNCHANGED <<owner, conn, backlog, disturbed>>
      BY <1>6 DEF SyncPoint, Finish, Stands
    <2>2. c \in Made /\ conn[c].of = d /\ c \in ConnIds /\ c # 0 /\ c \in 0..MaxConnections
      BY <1>2, <1>3, <2>1 DEF Working, Holds, Made, ConnIds
    <2>3. CASE dbRow[d].there /\ Exists(c)
      <3> DEFINE r == [dbRow[d] EXCEPT !.mirror = c]
      <3>1. dbRow' = [dbRow EXCEPT ![d] = r] /\ unlinked' = unlinked \ {d}
        BY <1>2, <1>3, <1>6, <2>3 DEF SyncPoint
      <3>2. r \in DbRec /\ r.there /\ r.mirror = c
        BY <1>3, <2>2, <2>3 DEF DbRec
      <3> HIDE DEF r
      <3>3. c \in LeftOf(d)
        BY <2>2, <2>3 DEF LeftOf
      <3>4. Modest(d) /\ dbRow'[d] = r /\ LeftOf(d)' = LeftOf(d)
        BY <1>3, <1>4, <2>1, <2>3, <3>1, <3>2, <3>3, RowStep
      <3>5. d \notin disturbed' => Pair(d)'
        BY <1>3, <2>1, <2>2, <3>2, <3>4 DEF MirrorStage, Pair, OnlyPointed
      <3> QED BY <1>5, <2>1, <3>4, <3>5
    <2>4. CASE ~(dbRow[d].there /\ Exists(c))
      <3>1. UNCHANGED <<dbRow, unlinked>>
        BY <1>2, <1>6, <2>4 DEF SyncPoint
      <3>2. c \in LeftOf(d) <=> Exists(c)
        BY <2>2 DEF LeftOf
      <3>3. Modest(d) /\ LeftOf(d)' = LeftOf(d)
        BY <1>4, <2>1, <3>1, Quiet DEF MirrorInv, MirrorTyped
      <3>4. d \notin disturbed => LeftOf(d) = {} /\ (dbRow[d].there => d \in unlinked)
        BY <1>3, <2>1, <2>4, <3>2 DEF MirrorStage
      <3>5. d \notin disturbed' => Pair(d)'
        BY <2>1, <3>1, <3>3, <3>4 DEF Pair, OnlyPointed
      <3> QED BY <1>5, <2>1, <3>3, <3>5
    <2> QED BY <2>3, <2>4
  <1>7. CASE RemoveUnpoint(a)
    <2> DEFINE x == [actor[a] EXCEPT !.pc = "drop"]
               r == [dbRow[d] EXCEPT !.mirror = 0]
    <2>1. /\ actor' = [actor EXCEPT ![a] = x] /\ actor[a].pc = "unpoint"
          /\ dbRow' = [dbRow EXCEPT ![d] = r] /\ UNCHANGED <<owner, conn, backlog, disturbed, unlinked>>
      BY <1>2, <1>3, <1>7 DEF RemoveUnpoint, Proceed, Stands, Unlogged
    <2>2. x \in ActorRec /\ x.pc = "drop" /\ x.db = d /\ x.mirror = actor[a].mirror
          /\ r \in DbRec /\ r.there = dbRow[d].there /\ r.mirror = 0
      BY <1>2, <1>3 DEF ActorRec, DbRec
    <2> HIDE DEF x, r
    <2>3. actor' \in [Everyone -> ActorRec] /\ actor'[a] = x
      BY <1>3, <2>1, <2>2
    <2>4. Modest(d) /\ dbRow'[d] = r /\ LeftOf(d)' = LeftOf(d)
      BY <1>3, <2>1, <2>2, <2>3, RowStep
    <2>5. Working(a)'
      BY <1>2, <1>3, <2>1, <2>2, <2>3, <2>4 DEF Working, Holds, Modest
    <2>6. d \notin disturbed => MirrorStage(a, d)'
      BY <1>3, <2>1, <2>2, <2>3, <2>4 DEF MirrorStage
    <2> QED BY <1>2, <2>1, <2>2, <2>4, <2>5, <2>6, ActorStep
  <1>8. CASE EraseRow(a)
    <2>1. /\ actor' = [actor EXCEPT ![a] = AtRest] /\ actor[a].pc = "erase"
          /\ dbRow' = [dbRow EXCEPT ![d] = NoRow] /\ UNCHANGED <<owner, conn, backlog, disturbed, unlinked>>
      BY <1>2, <1>8 DEF EraseRow, Finish, Stands, Unlogged
    <2>2. NoRow \in DbRec /\ ~NoRow.there /\ NoRow.mirror = 0
      BY <1>3 DEF NoRow, DbRec
    <2>3. Modest(d) /\ dbRow'[d] = NoRow /\ LeftOf(d)' = LeftOf(d)
      BY <1>3, <1>4, <2>1, <2>2, RowStep
    <2>4. d \notin disturbed' => Pair(d)'
      BY <1>3, <2>1, <2>2, <2>3 DEF MirrorStage, Pair, OnlyPointed
    <2> QED BY <1>5, <2>1, <2>3, <2>4
  <1> QED BY <1>6, <1>7, <1>8

\* A removal drops the connection.
LEMMA MirrorDrops ==
  ASSUME MirrorInv, NEW a \in Everyone, RemoveDrop(a)
  PROVE  MirrorInv'
  <1>1. actor[a].pc = "drop"
    BY DEF RemoveDrop, Stands
  <1>2. PICK d \in Dbs : d = actor[a].db
    BY <1>1, AtWork
  <1>3. actor[a] \in ActorRec /\ actor \in [Everyone -> ActorRec] /\ NoDb \notin Dbs /\ Working(a)
        /\ (d \notin disturbed => MirrorStage(a, d)) /\ unlinked \subseteq Dbs
    BY <1>1, <1>2, AtWork DEF MirrorInv, MirrorTyped
  <1>4. PICK c \in Made : c = actor[a].mirror /\ conn[c].of = d /\ c # 0
    BY <1>1, <1>2, <1>3 DEF Working, Holds, Made, ConnIds
  <1> DEFINE x == [actor[a] EXCEPT !.pc = "erase"]
  <1>5. /\ actor' = [actor EXCEPT ![a] = x] /\ conn' = [conn EXCEPT ![c].status = "gone"]
        /\ dbRow' = Unpointed(c) /\ UNCHANGED <<owner, backlog, disturbed, unlinked>>
    BY <1>4 DEF RemoveDrop, Proceed, Unlogged
  <1>6. x \in ActorRec /\ x.pc = "erase" /\ x.db = d /\ x.mirror = c
    BY <1>2, <1>3, <1>4 DEF ActorRec
  <1> HIDE DEF x
  <1>7. actor' \in [Everyone -> ActorRec] /\ actor'[a] = x
    BY <1>3, <1>5, <1>6
  <1>8. /\ Modest(d) /\ LeftOf(d)' = LeftOf(d) \ {c}
        /\ dbRow'[d].mirror = IF dbRow[d].mirror = c THEN 0 ELSE dbRow[d].mirror
    BY <1>3, <1>4, <1>5, <1>7, DroppedConnection
  <1>9. Working(a)'
    BY <1>3, <1>6, <1>7 DEF Working
  <1>10. d \notin disturbed => MirrorStage(a, d)'
    BY <1>1, <1>3, <1>4, <1>6, <1>7, <1>8 DEF MirrorStage
  <1> QED BY <1>2, <1>5, <1>6, <1>8, <1>9, <1>10, ActorStep

\* Work on a database begins.
LEMMA MirrorBegins ==
  ASSUME MirrorInv, NEW d \in Dbs, (\E a \in Everyone : CreateDatabase(a, d) \/ DeleteDatabase(a, d)) \/ Visit(d)
  PROVE  MirrorInv'
  <1>1. PICK a \in Everyone : CreateDatabase(a, d) \/ DeleteDatabase(a, d) \/ (a = Backfill /\ Visit(d))
    BY DEF Everyone
  <1>2. PICK pc \in {"sync", "remove"} : Begin(a, d, pc)
    BY <1>1 DEF CreateDatabase, DeleteDatabase, Visit
  <1>3. actor \in [Everyone -> ActorRec] /\ dbRow \in [Dbs -> DbRec] /\ 0 \in 0..MaxConnections
        /\ disturbed \subseteq Dbs /\ backlog \subseteq Dbs /\ unlinked \subseteq Dbs
    BY ConnectionMirrorAssumption DEF MirrorInv, MirrorTyped, ConnectionMirrorAssumption
  <1>4. [AtRest EXCEPT !.pc = pc, !.db = d] \in ActorRec
    BY <1>3 DEF AtRest, ActorRec
  <1>5. actor' \in [Everyone -> ActorRec] /\ disturbed \subseteq disturbed' /\ disturbed' \subseteq Dbs
    BY <1>2, <1>3, <1>4 DEF Begin
  <1>6. CASE CreateDatabase(a, d)
    <2> DEFINE r == [there |-> TRUE, container |-> TRUE, mirror |-> 0]
    <2>1. /\ dbRow' = [dbRow EXCEPT ![d] = r] /\ unlinked' = unlinked \ {d} /\ UNCHANGED <<owner, conn, backlog>>
          /\ owner.there /\ ~dbRow[d].there
      BY <1>6 DEF CreateDatabase
    <2>2. r \in DbRec /\ r.mirror = 0 /\ r.there
      BY <1>3 DEF DbRec
    <2> HIDE DEF r
    <2>3. dbRow' \in [Dbs -> DbRec] /\ dbRow'[d] = r /\ \A e \in Dbs \ {d} : dbRow'[e] = dbRow[e]
      BY <1>3, <2>1, <2>2
    <2>4. MirrorTyped' /\ Made' = Made /\ ConnsInOrder'
      BY <1>3, <1>5, <2>1, <2>3 DEF MirrorInv, MirrorTyped, Made, ConnsInOrder
    <2>5. \A e \in Dbs : LeftOf(e)' = LeftOf(e)
      BY <2>1 DEF LeftOf, Exists
    <2>6. Pointers' /\ Closed'
      BY <2>1, <2>2, <2>3 DEF MirrorInv, Pointers, Closed, Exists
    <2>7. Modest(d)
      BY <1>5, <2>1, <2>3, <2>4, <2>5, <2>6 DEF Modest
    <2>8. Pair(d) => OnlyPointed(d)'
      BY <2>1, <2>5 DEF Pair, OnlyPointed
    <2> QED BY <1>2, <2>7, <2>8, BeginStep
  <1>7. CASE DeleteDatabase(a, d) \/ Visit(d)
    <2>1. UNCHANGED <<owner, dbRow, conn, unlinked>> /\ (backlog' = backlog \/ backlog' = backlog \ {d})
      BY <1>7 DEF DeleteDatabase, Visit
    <2>2. Modest(d) /\ (OnlyPointed(d) => OnlyPointed(d)')
      BY <1>3, <1>5, <2>1, Quiet DEF MirrorInv, MirrorTyped
    <2>3. Pair(d) => OnlyPointed(d)
      BY DEF Pair
    <2> QED BY <1>2, <2>2, <2>3, BeginStep
  <1> QED BY <1>1, <1>6, <1>7

\* The user adds and deletes connections.
LEMMA UserConnections ==
  ASSUME MirrorInv, AddConnection \/ \E c \in ConnIds : DropConnection(c)
  PROVE  MirrorInv'
  <1>1. actor \in [Everyone -> ActorRec] /\ conn \in [ConnIds -> ConnRec] /\ NoDb \notin Dbs /\ unlinked \subseteq Dbs
    BY ConnectionMirrorAssumption DEF MirrorInv, MirrorTyped, ConnectionMirrorAssumption
  <1>2. actor' = actor /\ actor' \in [Everyone -> ActorRec]
    BY <1>1 DEF AddConnection, DropConnection
  <1>3. CASE AddConnection
    <2>1. PICK c \in ConnIds : c = NextConn /\ conn' = [conn EXCEPT ![c] = [status |-> "there", of |-> NoDb]]
      BY <1>3 DEF AddConnection
    <2>2. UNCHANGED <<owner, dbRow, backlog, disturbed, unlinked>> /\ owner.there
      BY <1>3 DEF AddConnection, Unlogged
    <2>3. Modest(NoDb)
      BY <1>2, <2>1, <2>2, FreshConnection
    <2>4. \A b \in Everyone : Working(b)'
      BY <1>2, <2>3, StillWorking
    <2>5. \A d \in Dbs : InPeace(d)'
      BY <1>1, <1>2, <2>3, Elsewhere
    <2> QED BY <2>3, <2>4, <2>5 DEF Modest, MirrorInv
  <1>4. ASSUME NEW c \in ConnIds, DropConnection(c) PROVE MirrorInv'
    <2>1. /\ Exists(c) /\ conn' = [conn EXCEPT ![c].status = "gone"] /\ dbRow' = Unpointed(c)
          /\ unlinked' = IF conn[c].of = NoDb THEN unlinked ELSE unlinked \cup {conn[c].of}
          /\ UNCHANGED <<owner, backlog, disturbed>>
      BY <1>4 DEF DropConnection
    <2>2. c \in Made /\ conn[c].of \in Dbs \cup {NoDb} /\ c # 0
      BY <1>1, <2>1 DEF Made, Exists, ConnRec, ConnIds
    <2>3. PICK o : o = conn[c].of
      OBVIOUS
    <2>4. unlinked \subseteq unlinked' /\ unlinked' \subseteq Dbs
      BY <1>1, <2>1, <2>2
    <2>5. /\ Modest(o)
          /\ \A d \in Dbs : /\ LeftOf(d)' = LeftOf(d) \ {c} /\ dbRow'[d].there = dbRow[d].there
                            /\ dbRow'[d].mirror = IF dbRow[d].mirror = c THEN 0 ELSE dbRow[d].mirror
      BY <1>2, <2>1, <2>2, <2>3, <2>4, DroppedConnection
    <2>6. \A b \in Everyone : Working(b)'
      BY <1>2, <2>5, StillWorking
    <2>7. ASSUME NEW d \in Dbs PROVE InPeace(d)'
      <3>1. CASE d # o
        BY <1>2, <2>5, <3>1, Elsewhere
      <3>2. CASE d = o
        <4>1. d \in unlinked'
          BY <1>1, <2>1, <2>3, <3>2
        <4>2. OnlyPointed(d) => OnlyPointed(d)'
          BY <2>5 DEF OnlyPointed
        <4>3. Pair(d) => Pair(d)'
          BY <4>1, <4>2 DEF Pair
        <4>4. ASSUME NEW b \in Everyone, MirrorStage(b, d) PROVE MirrorStage(b, d)'
          <5>1. /\ LeftOf(d)' = LeftOf(d) \ {c} /\ dbRow'[d].there = dbRow[d].there
                /\ dbRow'[d].mirror = IF dbRow[d].mirror = c THEN 0 ELSE dbRow[d].mirror
                /\ actor'[b] = actor[b] /\ owner' = owner
            BY <1>2, <2>1, <2>5
          <5> QED BY <2>2, <4>1, <4>2, <4>4, <5>1 DEF MirrorStage
        <4>5. InPeace(d)
          BY DEF MirrorInv
        <4> QED BY <1>2, <2>1, <4>3, <4>4, <4>5 DEF InPeace
      <3> QED BY <3>1, <3>2
    <2> QED BY <2>5, <2>6, <2>7 DEF Modest, MirrorInv
  <1> QED BY <1>3, <1>4

\* The account is deleted.
LEMMA AccountCloses ==
  ASSUME MirrorInv, NEW a \in Everyone, CloseAccount(a) \/ CloseContainer(a) \/ CloseDelete(a)
  PROVE  MirrorInv'
  <1>1. actor[a].pc \in {"idle", "close"}
    BY DEF CloseAccount, CloseContainer, CloseDelete, Stands
  <1>2. actor[a] \in ActorRec /\ actor \in [Everyone -> ActorRec] /\ NoDb \notin Dbs /\ actor[a].db = NoDb
        /\ dbRow \in [Dbs -> DbRec] /\ 0 \in 0..MaxConnections
    BY <1>1, ConnectionMirrorAssumption DEF MirrorInv, MirrorTyped, Working, ConnectionMirrorAssumption
  <1>3. ASSUME NEW x \in ActorRec, actor' = [actor EXCEPT ![a] = x], x.db = NoDb, x.pc \in {"idle", "close"},
               Modest(NoDb)
        PROVE  MirrorInv'
    <2>1. actor'[a] = x
      BY <1>2, <1>3
    <2>2. Working(a)'
      BY <1>3, <2>1 DEF Working
    <2> QED BY <1>2, <1>3, <2>2, ActorStep
  <1>4. CASE CloseAccount(a)
    <2> DEFINE x == [AtRest EXCEPT !.pc = "close", !.torn = {d \in Dbs : dbRow[d].there}]
    <2>1. actor' = [actor EXCEPT ![a] = x] /\ UNCHANGED <<owner, dbRow, conn, backlog, disturbed, unlinked>>
      BY <1>4 DEF CloseAccount, Unlogged
    <2>2. x \in ActorRec /\ x.db = NoDb /\ x.pc = "close"
      BY <1>2 DEF ActorRec, AtRest
    <2> HIDE DEF x
    <2>3. actor' \in [Everyone -> ActorRec]
      BY <1>2, <2>1, <2>2
    <2>4. Modest(NoDb)
      BY <2>1, <2>3, Quiet DEF MirrorInv, MirrorTyped
    <2> QED BY <1>3, <2>1, <2>2, <2>4
  <1>5. CASE CloseContainer(a)
    <2>1. PICK e \in actor[a].torn : /\ dbRow' = [dbRow EXCEPT ![e].container = FALSE]
                                     /\ actor' = [actor EXCEPT ![a].torn = @ \ {e}]
      BY <1>5 DEF CloseContainer
    <2> DEFINE x == [actor[a] EXCEPT !.torn = actor[a].torn \ {e}]
    <2>2. actor' = [actor EXCEPT ![a] = x] /\ UNCHANGED <<owner, conn, backlog, disturbed, unlinked>>
          /\ actor[a].pc = "close"
      BY <1>2, <1>5, <2>1 DEF CloseContainer, Unlogged, Stands
    <2>3. x \in ActorRec /\ x.db = NoDb /\ x.pc = "close"
      BY <1>2, <2>2 DEF ActorRec
    <2> HIDE DEF x
    <2>4. actor' \in [Everyone -> ActorRec] /\ e \in Dbs
      BY <1>2, <2>2, <2>3 DEF ActorRec
    <2>5. dbRow' \in [Dbs -> DbRec] /\ \A d \in Dbs : dbRow'[d].there = dbRow[d].there /\ dbRow'[d].mirror = dbRow[d].mirror
      BY <1>2, <2>1, <2>4 DEF DbRec
    <2>6. MirrorTyped' /\ Made' = Made /\ ConnsInOrder' /\ \A d \in Dbs : LeftOf(d)' = LeftOf(d)
      BY <2>2, <2>4, <2>5 DEF MirrorInv, MirrorTyped, Made, ConnsInOrder, LeftOf, Exists
    <2>7. Pointers' /\ Closed'
      BY <2>2, <2>5 DEF MirrorInv, Pointers, Closed, Exists
    <2>8. Modest(NoDb)
      BY <2>2, <2>5, <2>6, <2>7 DEF Modest
    <2> QED BY <1>3, <2>2, <2>3, <2>8
  <1>6. CASE CloseDelete(a) /\ Kept
    <2>1. actor' = [actor EXCEPT ![a] = AtRest] /\ UNCHANGED <<owner, dbRow, conn, backlog, disturbed, unlinked>>
      BY <1>6 DEF CloseDelete, Finish, Unlogged
    <2>2. actor' \in [Everyone -> ActorRec]
      BY <1>2, <2>1, RestIsRecord
    <2>3. Modest(NoDb)
      BY <2>1, <2>2, Quiet DEF MirrorInv, MirrorTyped
    <2> QED BY <1>3, <2>1, <2>3, RestIsRecord
  <1>7. CASE CloseDelete(a) /\ ~Kept
    <2>1. /\ owner' = [there |-> FALSE, profile |-> "none"] /\ dbRow' = [d \in Dbs |-> NoRow]
          /\ actor' = [actor EXCEPT ![a] = AtRest] /\ UNCHANGED <<conn, backlog, disturbed, unlinked>>
      BY <1>7 DEF CloseDelete, Finish, Unlogged
    <2>2. NoRow \in DbRec /\ ~NoRow.there /\ NoRow.mirror = 0 /\ owner' \in OwnerRec /\ ~owner'.there
      BY <1>2, <2>1 DEF NoRow, DbRec, OwnerRec
    <2>3. actor' \in [Everyone -> ActorRec] /\ actor'[a] = AtRest /\ \A b \in Everyone \ {a} : actor'[b] = actor[b]
      BY <1>2, <2>1, RestIsRecord
    <2>4. \A d \in Dbs : dbRow'[d] = NoRow
      BY <2>1
    <2>5. MirrorTyped' /\ ConnsInOrder'
      BY <2>1, <2>2, <2>3 DEF MirrorInv, MirrorTyped, ConnsInOrder, Made
    <2>6. \A c \in ConnIds : ~Exists(c) /\ ~Exists(c)'
      BY <1>7, <2>1 DEF Kept, Exists
    <2>7. Pointers' /\ Closed' /\ \A d \in Dbs : LeftOf(d) = {} /\ LeftOf(d)' = {}
      BY <2>2, <2>4, <2>6 DEF Pointers, Closed, LeftOf
    <2>8. \A b \in Everyone : Working(b)'
      <3>1. Working(a)'
        BY <1>2, <2>3, RestIsRecord DEF Working
      <3>2. ASSUME NEW b \in Everyone \ {a} PROVE Working(b)'
        BY <2>1, <2>3 DEF MirrorInv, Working, Holds, Made
      <3> QED BY <3>1, <3>2
    <2>9. ASSUME NEW d \in Dbs, d \notin disturbed PROVE InPeace(d)'
      <3>1. OnlyPointed(d)' /\ Pair(d)'
        BY <2>2, <2>4, <2>7 DEF OnlyPointed, Pair
      <3>2. InPeace(d) /\ actor'[a].db # d
        BY <1>2, <2>3, RestIsRecord DEF MirrorInv
      <3>3. ASSUME NEW b \in Everyone, actor'[b].db = d PROVE MirrorStage(b, d)'
        <4>1. actor'[b] = actor[b] /\ MirrorStage(b, d)
          BY <2>3, <2>9, <3>2, <3>3 DEF InPeace
        <4> QED BY <2>1, <2>2, <2>4, <2>7, <3>1, <4>1 DEF MirrorStage
      <3>4. \A b, e \in Everyone : actor'[b].db = d /\ actor'[e].db = d => b = e
        BY <2>3, <2>9, <3>2 DEF InPeace
      <3> QED BY <3>1, <3>3, <3>4 DEF InPeace
    <2>10. \A d \in Dbs : InPeace(d)'
      BY <2>1, <2>9 DEF InPeace
    <2> QED BY <2>5, <2>7, <2>8, <2>10 DEF MirrorInv
  <1> QED BY <1>4, <1>5, <1>6, <1>7

\* A statement fails.
LEMMA ActorStumbles ==
  ASSUME MirrorInv, NEW a \in Everyone, Stumble(a)
  PROVE  MirrorInv'
  <1>1. actor[a].pc \notin {"idle", "close"}
    BY DEF Stumble, MirrorInv, Working
  <1>2. PICK d \in Dbs : d = actor[a].db
    BY <1>1, AtWork
  <1>3. actor[a] \in ActorRec /\ actor \in [Everyone -> ActorRec] /\ NoDb \notin Dbs /\ Working(a)
        /\ disturbed \subseteq Dbs /\ 0 \in 0..MaxConnections
    BY <1>1, <1>2, AtWork, ConnectionMirrorAssumption DEF MirrorInv, MirrorTyped, ConnectionMirrorAssumption
  <1>4. UNCHANGED <<owner, dbRow, conn, backlog, unlinked>> /\ disturbed' = disturbed \cup {d}
    BY <1>2 DEF Stumble
  <1>5. PICK x \in ActorRec : /\ actor' = [actor EXCEPT ![a] = x]
                              /\ \/ x.db = NoDb /\ x.pc = "idle"
                                 \/ x.db = d /\ x.pc = "erase"
                                 \/ x.db = d /\ x.pc = "drop" /\ actor[a].pc = "unpoint" /\ x.mirror = actor[a].mirror
    <2>1. CASE actor[a].pc = "unpoint"
      <3> DEFINE x == [actor[a] EXCEPT !.pc = "drop"]
      <3>1. actor' = [actor EXCEPT ![a] = x] /\ x \in ActorRec
        BY <1>3, <2>1 DEF Stumble, Stands, Proceed, ActorRec
      <3>2. x.db = d /\ x.pc = "drop" /\ x.mirror = actor[a].mirror
        BY <1>2, <1>3 DEF ActorRec
      <3> QED BY <2>1, <3>1, <3>2
    <2>2. CASE actor[a].pc \in {"drop", "remove"}
      <3> DEFINE x == [actor[a] EXCEPT !.pc = "erase"]
      <3>1. actor' = [actor EXCEPT ![a] = x] /\ x \in ActorRec
        BY <1>3, <2>2 DEF Stumble, Stands, Proceed, ActorRec
      <3>2. x.db = d /\ x.pc = "erase"
        BY <1>2, <1>3 DEF ActorRec
      <3> QED BY <3>1, <3>2
    <2>3. CASE actor[a].pc \notin {"unpoint", "drop", "remove"}
      BY <2>3, RestIsRecord DEF Stumble, Stands, Finish
    <2> QED BY <2>1, <2>2, <2>3
  <1>6. actor' \in [Everyone -> ActorRec] /\ actor'[a] = x
    BY <1>3, <1>5
  <1>7. Modest(d)
    BY <1>2, <1>3, <1>4, <1>6, Quiet DEF MirrorInv, MirrorTyped
  <1>8. Working(a)'
    BY <1>2, <1>3, <1>5, <1>6, <1>7 DEF Working, Holds, Modest
  <1> QED BY <1>2, <1>4, <1>5, <1>7, <1>8, ActorStep

\* The process dies and boots.
LEMMA MirrorReboots ==
  ASSUME MirrorInv, Reboot
  PROVE  MirrorInv'
  <1>1. /\ UNCHANGED <<owner, dbRow, conn, unlinked>> /\ actor' = [a \in Everyone |-> AtRest]
        /\ backlog' = {d \in Dbs : dbRow[d].there /\ dbRow[d].mirror = 0}
        /\ disturbed \subseteq disturbed' /\ \A d \in Dbs : Busy(d) # {} => d \in disturbed'
        /\ disturbed' = disturbed \cup {d \in Dbs : Busy(d) # {}} \cup UNION {actor[a].torn : a \in Actors}
    BY DEF Reboot
  <1>2. NoDb \notin Dbs /\ actor' \in [Everyone -> ActorRec] /\ \A a \in Everyone : actor'[a] = AtRest
    BY <1>1, RestIsRecord, ConnectionMirrorAssumption DEF ConnectionMirrorAssumption
  <1>3. disturbed' \subseteq Dbs
    <2>1. \A a \in Actors : actor[a].torn \subseteq Dbs
      BY DEF MirrorInv, MirrorTyped, ActorRec, Everyone
    <2> QED BY <1>1, <2>1 DEF MirrorInv, MirrorTyped
  <1>4. MirrorTyped' /\ ConnsInOrder'
    BY <1>1, <1>2, <1>3 DEF MirrorInv, MirrorTyped, ConnsInOrder, Made
  <1>5. Pointers' /\ Closed'
    BY <1>1 DEF MirrorInv, Pointers, Closed, Exists
  <1>6. \A a \in Everyone : Working(a)'
    BY <1>2, RestIsRecord DEF Working
  <1>7. ASSUME NEW d \in Dbs, d \notin disturbed' PROVE InPeace(d)'
    <2>1. Pair(d)
      BY <1>1, <1>7 DEF MirrorInv, InPeace, Busy
    <2>2. Pair(d)'
      BY <1>1, <2>1 DEF Pair, OnlyPointed, LeftOf, Exists
    <2> QED BY <1>2, <2>2, RestIsRecord DEF InPeace
  <1>8. \A d \in Dbs : InPeace(d)'
    BY <1>7 DEF InPeace
  <1> QED BY <1>4, <1>5, <1>6, <1>8 DEF MirrorInv

\* Nothing moves.
LEMMA MirrorStutters ==
  ASSUME MirrorInv, UNCHANGED mirrorVars
  PROVE  MirrorInv'
  BY DEF mirrorVars, MirrorInv, MirrorTyped, ConnsInOrder, Made, Pointers, Closed, Exists, Working, Holds,
         InPeace, MirrorStage, OnlyPointed, LeftOf, Pair

\* The invariant of the mirror, under every step.
LEMMA MirrorInvariance == MirrorSpec => []MirrorInv
  <1>1. MirrorInit => MirrorInv
    <2> SUFFICES ASSUME MirrorInit PROVE MirrorInv
      OBVIOUS
    <2>1. MaxConnections \in Nat /\ NoDb \notin Dbs /\ 0 \in 0..MaxConnections
      BY ConnectionMirrorAssumption DEF ConnectionMirrorAssumption
    <2>2. NoRow \in DbRec /\ ~NoRow.there /\ NoRow.mirror = 0
      BY <2>1 DEF NoRow, DbRec
    <2>3. MirrorTyped
      BY <2>1, <2>2, RestIsRecord DEF MirrorInit, MirrorTyped, OwnerRec, ConnRec
    <2>4. Made = {} /\ \A c \in ConnIds : ~Exists(c)
      BY DEF MirrorInit, Made, Exists
    <2>5. ConnsInOrder
      <3>1. {} = 1..0
        OBVIOUS
      <3> QED BY <2>1, <2>4, <3>1 DEF ConnsInOrder
    <2>6. Pointers /\ Closed
      BY <2>2, <2>4 DEF MirrorInit, Pointers, Closed
    <2>7. \A a \in Everyone : Working(a)
      BY RestIsRecord DEF MirrorInit, Working
    <2>8. \A d \in Dbs : InPeace(d)
      BY <2>1, <2>2, <2>4, RestIsRecord DEF MirrorInit, InPeace, Pair, OnlyPointed, LeftOf
    <2> QED BY <2>3, <2>5, <2>6, <2>7, <2>8 DEF MirrorInv
  <1>2. MirrorInv /\ [MirrorNext]_mirrorVars => MirrorInv'
    BY MirrorBegins, MirrorReads, MirrorCreates, MirrorRows, MirrorDrops, UserConnections, AccountCloses,
       ActorStumbles, MirrorReboots, MirrorStutters DEF MirrorNext, MirrorStep
  <1> QED BY <1>1, <1>2, PTL DEF MirrorSpec

\* Mirrors and databases pair up, wherever no two actors met and nothing broke
\* (connectionSync.js, profileBridge.js, routes/auth.js, routes/connections.ts).
THEOREM MirrorsPaired == MirrorSpec => []MirrorsPair
  <1>1. MirrorInv => MirrorsPair
    BY DEF MirrorInv, MirrorsPair, InPeace, Pair, OnlyPointed, LeftOf, Busy
  <1> QED BY <1>1, MirrorInvariance, PTL

-----------------------------------------------------------------------------
(* Admission.                                                                *)

\* Rows of admission, and pages with their requests.
HeldRow == [by : Pages \cup {"nobody"}, owner : Owners, title : Titles \cup {"", "old"}, type : DbTypes,
            port : Nat, routing : {"direct", "nginx", "mongo-gateway"},
            status : {"provisioning", "active"}, late : BOOLEAN]
Form == [pc : {"form", "find", "count", "port", "insert", "conflict", "provision", "created"},
         title : Titles \cup {""}, type : DbTypes, port : 0..Ports]
AdmissionTyped ==
    /\ held \subseteq HeldRow /\ form \in [Pages -> Form]
    /\ gateway \in BOOLEAN /\ late \subseteq Pages /\ overtaken \subseteq Pages

\* What a request found free is free until another inserts.
StillFree(p) ==
    /\ form[p].pc \in {"count", "port", "insert"} => \A r \in OwnedBy(p) : r.title # form[p].title
    /\ form[p].pc = "insert" /\ ~OnGateway(p) =>
         \A r \in held : r.type = form[p].type /\ r.routing # "mongo-gateway" => r.port # form[p].port

\* A request that is not late has room for its row.
HasRoom(p) == form[p].pc \in {"port", "insert"} => Cardinality(OwnedBy(p)) < Limit

InTime(u) == {r \in Owned(u) : ~r.late}

AdmissionInv ==
    /\ AdmissionTyped /\ IsFiniteSet(held)
    /\ ConflictMeansRace
    /\ \A p \in Pages \ overtaken : StillFree(p)
    /\ \A u \in Owners : Cardinality(InTime(u)) <= Limit
    /\ \A p \in Pages \ late : HasRoom(p)

\* Rows that come from other rows are at most as many.
LEMMA ImageSmaller ==
  ASSUME NEW S, IsFiniteSet(S), NEW T, NEW f, \A t \in T : \E s \in S : t = f[s]
  PROVE  IsFiniteSet(T) /\ Cardinality(T) <= Cardinality(S)
  <1> DEFINE S0 == {s \in S : f[s] \in T}
             g == [s \in S0 |-> f[s]]
  <1>1. IsFiniteSet(S0) /\ Cardinality(S0) <= Cardinality(S)
    BY FS_Subset
  <1>2. g \in Surjection(S0, T)
    BY DEF Surjection
  <1> HIDE DEF g
  <1>3. IsFiniteSet(T) /\ Cardinality(T) <= Cardinality(S0)
    BY <1>1, <1>2, FS_Surjection
  <1>4. Cardinality(T) \in Nat /\ Cardinality(S0) \in Nat /\ Cardinality(S) \in Nat
    BY <1>1, <1>3, FS_CardinalityType
  <1> QED BY <1>1, <1>3, <1>4

\* Finitely many rows: those of an owner, and those in time, are counted.
LEMMA Counted ==
  ASSUME IsFiniteSet(held), NEW u
  PROVE  /\ IsFiniteSet(Owned(u)) /\ Cardinality(Owned(u)) \in Nat
         /\ IsFiniteSet(InTime(u)) /\ Cardinality(InTime(u)) \in Nat
         /\ Cardinality(InTime(u)) <= Cardinality(Owned(u))
  <1>1. Owned(u) \in SUBSET held /\ InTime(u) \in SUBSET Owned(u)
    BY DEF Owned, InTime
  <1>2. IsFiniteSet(Owned(u))
    BY <1>1, FS_Subset
  <1>3. IsFiniteSet(InTime(u)) /\ Cardinality(InTime(u)) <= Cardinality(Owned(u))
    BY <1>1, <1>2, FS_Subset
  <1> QED BY <1>2, <1>3, FS_CardinalityType

\* A set of numbers has a least one.
LEMMA LowestIs ==
  ASSUME NEW S \in SUBSET Nat, S # {}
  PROVE  Lowest(S) \in S
  <1>1. PICK t \in S : \A u \in S : ~(<<u, t>> \in OpToRel(<, Nat))
    BY WFMin, NatLessThanWellFounded
  <1>2. \A u \in S : ~(u < t)
    BY <1>1 DEF OpToRel
  <1>3. \A u \in S : t <= u
    BY <1>2
  <1> QED BY <1>3 DEF Lowest

\* A page at rest is a page.
LEMMA IdleIsForm ==
  ASSUME AdmissionAssumption, NEW pc \in {"form", "conflict", "created"}
  PROVE  /\ Idle \in Form /\ Idle.pc = "form"
         /\ [Idle EXCEPT !.pc = pc] \in Form /\ [Idle EXCEPT !.pc = pc].pc = pc
  <1>1. SharedPort \in 0..Ports /\ "nosql" \in DbTypes
    BY DEF SharedPort, AdmissionAssumption, DbTypes
  <1> QED BY <1>1 DEF Form, Idle

\* A page that goes on with its request while the rows stay.
LEMMA FormStep ==
  ASSUME AdmissionInv, UNCHANGED <<held, gateway>>, NEW p \in Pages, NEW x \in Form,
         form' = [form EXCEPT ![p] = x], late' \subseteq late, overtaken' \subseteq overtaken,
         late \ {p} \subseteq late', overtaken \ {p} \subseteq overtaken',
         x.pc # "conflict", p \notin overtaken' => StillFree(p)', p \notin late' => HasRoom(p)'
  PROVE  AdmissionInv'
  <1>1. AdmissionTyped' /\ form'[p] = x /\ \A q \in Pages \ {p} : form'[q] = form[q]
    BY DEF AdmissionInv, AdmissionTyped
  <1>2. \A u : Owned(u)' = Owned(u) /\ InTime(u)' = InTime(u)
    BY DEF Owned, InTime
  <1>3. ConflictMeansRace'
    BY <1>1 DEF AdmissionInv, ConflictMeansRace
  <1>4. ASSUME NEW q \in Pages \ overtaken' PROVE StillFree(q)'
    <2>1. CASE q # p
      <3>1. StillFree(q) /\ form'[q] = form[q] /\ OwnedBy(q)' = OwnedBy(q)
        BY <1>1, <1>2, <1>4, <2>1 DEF AdmissionInv, OwnedBy
      <3> QED BY <3>1 DEF StillFree, OnGateway
    <2> QED BY <1>4, <2>1
  <1>5. ASSUME NEW q \in Pages \ late' PROVE HasRoom(q)'
    <2>1. CASE q # p
      <3>1. HasRoom(q) /\ form'[q] = form[q] /\ OwnedBy(q)' = OwnedBy(q)
        BY <1>1, <1>2, <1>5, <2>1 DEF AdmissionInv, OwnedBy
      <3> QED BY <3>1 DEF HasRoom
    <2> QED BY <1>5, <2>1
  <1> QED BY <1>1, <1>2, <1>3, <1>4, <1>5 DEF AdmissionInv

\* A request that is told an error.
LEMMA AnswerKeeps ==
  ASSUME AdmissionAssumption, AdmissionInv, NEW p \in Pages, Answer(p, "form"),
         UNCHANGED <<held, gateway, late, overtaken>>
  PROVE  AdmissionInv'
  <1> DEFINE x == [Idle EXCEPT !.pc = "form"]
  <1>1. x \in Form /\ x.pc = "form"
    BY IdleIsForm
  <1>2. form' = [form EXCEPT ![p] = x]
    BY DEF Answer
  <1> HIDE DEF x
  <1>3. form'[p].pc = "form"
    BY <1>1, <1>2 DEF AdmissionInv, AdmissionTyped
  <1> QED BY <1>1, <1>2, <1>3, FormStep DEF StillFree, HasRoom

\* The lookups of a request: title, count, port.
LEMMA LookupsKeep ==
  ASSUME AdmissionAssumption, AdmissionInv, NEW p \in Pages,
         Submit(p) \/ FindTitle(p) \/ CountOwned(p) \/ PickPort(p)
  PROVE  AdmissionInv'
  <1>0. /\ form[p] \in Form /\ form \in [Pages -> Form] /\ SharedPort \in 0..Ports
        /\ "nosql" \in DbTypes
    BY DEF AdmissionInv, AdmissionTyped, SharedPort, AdmissionAssumption, DbTypes
  <1>1. CASE Submit(p)
    <2>1. PICK n \in Titles \cup {"9"}, t \in DbTypes :
            form' = [form EXCEPT ![p] = IF Valid(n) THEN [pc |-> "find", title |-> n, type |-> t,
                                                          port |-> SharedPort]
                                        ELSE Idle]
      BY <1>1 DEF Submit
    <2> DEFINE x == IF Valid(n) THEN [pc |-> "find", title |-> n, type |-> t, port |-> SharedPort] ELSE Idle
    <2>2. x \in Form /\ x.pc \in {"form", "find"}
      BY <1>0 DEF Form, Idle, Valid
    <2>3. form' = [form EXCEPT ![p] = x] /\ UNCHANGED <<held, gateway, late>> /\ overtaken' = overtaken \ {p}
      BY <1>1, <2>1 DEF Submit
    <2> HIDE DEF x
    <2>4. form'[p].pc \in {"form", "find"}
      BY <1>0, <2>2, <2>3
    <2> QED BY <2>2, <2>3, <2>4, FormStep DEF StillFree, HasRoom
  <1>2. ASSUME NEW refused, NEW pc \in {"count", "port"}, Pass(p, refused, pc), UNCHANGED <<held, gateway>>,
               late' \subseteq late, late \ {p} \subseteq late', overtaken' = overtaken,
               ~refused /\ p \notin overtaken => \A r \in OwnedBy(p) : r.title # form[p].title,
               pc = "port" /\ ~refused => Cardinality(OwnedBy(p)) < Limit
        PROVE  AdmissionInv'
    <2>1. CASE refused
      <3> DEFINE x == [Idle EXCEPT !.pc = "form"]
      <3>1. x \in Form /\ x.pc = "form"
        BY <1>0 DEF Form, Idle
      <3>2. form' = [form EXCEPT ![p] = x]
        BY <1>2, <2>1 DEF Pass, Answer
      <3> HIDE DEF x
      <3>3. form'[p].pc = "form"
        BY <1>0, <3>1, <3>2
      <3> QED BY <1>2, <3>1, <3>2, <3>3, FormStep DEF StillFree, HasRoom
    <2>2. CASE ~refused
      <3> DEFINE x == [form[p] EXCEPT !.pc = pc]
      <3>1. x \in Form /\ x.pc = pc /\ x.title = form[p].title
        BY <1>0, <1>2 DEF Form
      <3>2. form' = [form EXCEPT ![p] = x]
        BY <1>0, <1>2, <2>2 DEF Pass, To
      <3> HIDE DEF x
      <3>3. form'[p] = x /\ OwnedBy(p)' = OwnedBy(p)
        BY <1>0, <1>2, <3>1, <3>2 DEF OwnedBy, Owned
      <3>4. p \notin overtaken' => StillFree(p)'
        BY <1>2, <2>2, <3>1, <3>3 DEF StillFree
      <3>5. HasRoom(p)'
        BY <1>2, <2>2, <3>1, <3>3 DEF HasRoom
      <3> QED BY <1>2, <3>1, <3>2, <3>4, <3>5, FormStep
    <2> QED BY <2>1, <2>2
  <1>3. CASE FindTitle(p)
    BY <1>2, <1>3 DEF FindTitle
  <1>4. CASE CountOwned(p)
    <2>1. p \notin overtaken => \A r \in OwnedBy(p) : r.title # form[p].title
      BY <1>4 DEF CountOwned, AdmissionInv, StillFree
    <2>2. Cardinality(OwnedBy(p)) \in Nat /\ Limit \in Nat
      BY Counted DEF AdmissionInv, OwnedBy, AdmissionAssumption
    <2> DEFINE full == Cardinality(OwnedBy(p)) >= Limit
    <2>3. /\ Pass(p, full, "port") /\ UNCHANGED <<held, gateway, overtaken>> /\ late' = late \ {p}
      BY <1>4 DEF CountOwned
    <2>4. ~full => Cardinality(OwnedBy(p)) < Limit
      BY <2>2
    <2> HIDE DEF full
    <2> QED BY <1>2, <2>1, <2>3, <2>4
  <1>5. CASE PickPort(p)
    <2> DEFINE n == IF OnGateway(p) THEN SharedPort ELSE Lowest(FreePorts(form[p].type))
               x == [form[p] EXCEPT !.pc = "insert", !.port = n]
    <2>0. CASE Answer(p, "form")
      BY <1>5, <2>0, AnswerKeeps DEF PickPort
    <2> SUFFICES ASSUME ~Answer(p, "form") PROVE AdmissionInv'
      BY <2>0
    <2>1. /\ form[p].pc = "port" /\ UNCHANGED <<held, gateway, late, overtaken>>
          /\ form' = [form EXCEPT ![p] = x]
      BY <1>0, <1>5 DEF PickPort
    <2>2. ~OnGateway(p) => n \in FreePorts(form[p].type)
      <3>1. OnGateway(p) \/ FreePorts(form[p].type) # {}
        BY <1>5 DEF PickPort
      <3>2. FreePorts(form[p].type) \subseteq 1..Ports
        BY DEF FreePorts
      <3> QED BY <3>1, <3>2, LowestIs DEF AdmissionAssumption
    <2>3. n \in 0..Ports
      BY <1>0, <2>2 DEF FreePorts, AdmissionAssumption
    <2> HIDE DEF n
    <2>4. x \in Form /\ x.pc = "insert" /\ x.title = form[p].title /\ x.type = form[p].type /\ x.port = n
      BY <1>0, <2>3 DEF Form
    <2> HIDE DEF x
    <2>5. form'[p] = x /\ OwnedBy(p)' = OwnedBy(p)
      BY <1>0, <2>1, <2>4 DEF OwnedBy, Owned
    <2>6. p \notin overtaken' => StillFree(p)'
      <3>1. SUFFICES ASSUME p \notin overtaken PROVE StillFree(p)'
        BY <2>1
      <3>2. \A r \in OwnedBy(p) : r.title # form[p].title
        BY <2>1, <3>1 DEF AdmissionInv, StillFree
      <3>3. ~OnGateway(p)' => ~OnGateway(p)
        BY <2>1, <2>4, <2>5 DEF OnGateway
      <3>4. ~OnGateway(p) => \A r \in held : r.type = form[p].type => r.port # n
        BY <2>2 DEF FreePorts
      <3> QED BY <2>1, <2>4, <2>5, <3>2, <3>3, <3>4 DEF StillFree
    <2>7. p \notin late' => HasRoom(p)'
      BY <2>1, <2>4, <2>5 DEF AdmissionInv, HasRoom
    <2> QED BY <2>1, <2>4, <2>6, <2>7, FormStep
  <1> QED BY <1>1, <1>3, <1>4, <1>5

-----------------------------------------------------------------------------
\* The rows go on, are fewer, or move to the gateway; requests stay or are cut off.
LEMMA RowsStep ==
  ASSUME AdmissionAssumption, AdmissionInv, NEW f, held' \subseteq HeldRow,
         \A r \in held' : \E s \in held :
            /\ r = f[s] /\ r.owner = s.owner /\ r.title = s.title /\ r.type = s.type /\ r.late = s.late
            /\ r.routing = "mongo-gateway" \/ (r.routing = s.routing /\ r.port = s.port),
         form' \in [Pages -> Form], gateway' \in BOOLEAN, UNCHANGED <<late, overtaken>>,
         \A p \in Pages : form'[p] = form[p] \/ form'[p].pc \in {"form", "created"},
         gateway' = gateway \/ \A p \in Pages : form'[p].pc \in {"form", "created", "conflict"}
  PROVE  AdmissionInv'
  <1>1. AdmissionTyped'
    BY DEF AdmissionInv, AdmissionTyped
  <1>2. IsFiniteSet(held')
    BY ImageSmaller DEF AdmissionInv
  <1>4. ConflictMeansRace'
    BY DEF AdmissionInv, ConflictMeansRace
  <1>5. ASSUME NEW p \in Pages \ overtaken' PROVE StillFree(p)'
    <2>1. CASE form'[p].pc \in {"form", "created", "conflict"}
      BY <2>1 DEF StillFree
    <2>2. CASE form'[p] = form[p] /\ gateway' = gateway
      <3>1. \A r \in OwnedBy(p)' : \E s \in OwnedBy(p) : r.title = s.title
        BY DEF OwnedBy, Owned
      <3>2. StillFree(p) /\ (OnGateway(p)' <=> OnGateway(p))
        BY <1>5, <2>2 DEF AdmissionInv, OnGateway
      <3>3. form'[p].pc \in {"count", "port", "insert"} => \A r \in OwnedBy(p)' : r.title # form'[p].title
        BY <2>2, <3>1, <3>2 DEF StillFree
      <3>4. form'[p].pc = "insert" /\ ~OnGateway(p)' =>
              \A r \in held' : r.type = form'[p].type /\ r.routing # "mongo-gateway" => r.port # form'[p].port
        BY <2>2, <3>2 DEF StillFree
      <3> QED BY <3>3, <3>4 DEF StillFree
    <2> QED BY <2>1, <2>2
  <1>6. ASSUME NEW p \in Pages \ late' PROVE HasRoom(p)'
    <2>1. CASE form'[p].pc \in {"form", "created", "conflict"}
      BY <2>1 DEF HasRoom
    <2>2. CASE form'[p] = form[p]
      <3>1. Cardinality(OwnedBy(p)) \in Nat /\ Cardinality(OwnedBy(p)') \in Nat
            /\ Cardinality(OwnedBy(p)') <= Cardinality(OwnedBy(p))
        <4>1. IsFiniteSet(OwnedBy(p)) /\ \A r \in OwnedBy(p)' : \E s \in OwnedBy(p) : r = f[s]
          <5>1. IsFiniteSet(OwnedBy(p))
            BY Counted DEF AdmissionInv, OwnedBy
          <5>2. \A r \in OwnedBy(p)' : \E s \in OwnedBy(p) : r = f[s]
            BY DEF OwnedBy, Owned
          <5> QED BY <5>1, <5>2
        <4> QED BY <4>1, ImageSmaller, FS_CardinalityType
      <3>2. HasRoom(p)
        BY <1>6 DEF AdmissionInv
      <3> QED BY <2>2, <3>1, <3>2 DEF HasRoom, AdmissionAssumption
    <2> QED BY <2>1, <2>2
  <1>7. ASSUME NEW u \in Owners PROVE Cardinality(InTime(u)') <= Limit
    <2>1. IsFiniteSet(InTime(u)) /\ \A r \in InTime(u)' : \E s \in InTime(u) : r = f[s]
      <3>1. IsFiniteSet(InTime(u))
        BY Counted DEF AdmissionInv
      <3>2. \A r \in InTime(u)' : \E s \in InTime(u) : r = f[s]
        BY DEF InTime, Owned
      <3> QED BY <3>1, <3>2
    <2>2. /\ Cardinality(InTime(u)') <= Cardinality(InTime(u))
          /\ Cardinality(InTime(u)') \in Nat /\ Cardinality(InTime(u)) \in Nat
      BY <2>1, ImageSmaller, FS_CardinalityType
    <2>3. Cardinality(InTime(u)) <= Limit /\ Limit \in Nat
      BY DEF AdmissionInv, AdmissionAssumption
    <2> QED BY <2>2, <2>3
  <1> QED BY <1>1, <1>2, <1>4, <1>5, <1>6, <1>7 DEF AdmissionInv

\* An insert meets no row in its way unless another was inserted beside it; the other requests
\* learn of it by being late and overtaken.
LEMMA InsertKeeps ==
  ASSUME AdmissionAssumption, AdmissionInv, NEW p \in Pages, InsertRow(p)
  PROVE  AdmissionInv'
  <1>0. form[p] \in Form /\ form \in [Pages -> Form] /\ form[p].pc = "insert" /\ gateway' = gateway
    BY DEF AdmissionInv, AdmissionTyped, InsertRow
  <1> DEFINE r == RowOf(p)
  <1>1. /\ r.owner = OwnerOf[p] /\ r.title = form[p].title /\ r.type = form[p].type /\ r.port = form[p].port
        /\ r.routing = (IF OnGateway(p) THEN "mongo-gateway" ELSE "nginx") /\ r.late = (p \in late)
    BY DEF RowOf
  <1>2. r \in HeldRow /\ OwnerOf[p] \in Owners
    <2> DEFINE b == p \in late
    <2>1. OwnerOf[p] \in Owners /\ p \in Pages \cup {"nobody"} /\ b \in BOOLEAN
      BY DEF AdmissionAssumption
    <2>2. r = [by |-> p, owner |-> OwnerOf[p], title |-> form[p].title, type |-> form[p].type,
               port |-> form[p].port, routing |-> IF OnGateway(p) THEN "mongo-gateway" ELSE "nginx",
               status |-> "provisioning", late |-> b]
      BY DEF RowOf
    <2>3. form[p].port \in Nat
      <3>1. form[p].port \in 0..Ports
        BY <1>0 DEF Form
      <3> QED BY <3>1 DEF AdmissionAssumption
    <2> HIDE DEF b, r
    <2> QED BY <1>0, <2>1, <2>2, <2>3 DEF HeldRow, Form
  <1>3. CASE Clashes(r)
    <2> DEFINE x == [Idle EXCEPT !.pc = "conflict"]
    <2>1. form' = [form EXCEPT ![p] = x] /\ UNCHANGED <<held, gateway, late, overtaken>>
      BY <1>3 DEF InsertRow, Answer
    <2>2. x \in Form /\ x.pc = "conflict"
      BY IdleIsForm
    <2>3. p \in overtaken \/ Namesakes(OwnerOf[p]) # {}
      <3>1. SUFFICES ASSUME p \notin overtaken, Namesakes(OwnerOf[p]) = {} PROVE FALSE
        OBVIOUS
      <3>2. StillFree(p)
        BY <3>1 DEF AdmissionInv
      <3>3. PICK s \in held : \/ s.owner = r.owner /\ s.title = r.title
                              \/ /\ "mongo-gateway" \notin {s.routing, r.routing}
                                 /\ s.type = r.type /\ s.port = r.port
                              \/ /\ s.type = r.type /\ s.title = r.title
                                 /\ Prefix[s.owner] = Prefix[r.owner]
        BY <1>3 DEF Clashes
      <3>5. s.owner \in Owners
        BY DEF AdmissionInv, AdmissionTyped, HeldRow
      <3>6. Prefix[s.owner] = Prefix[r.owner] => s.owner = r.owner
        BY <1>1, <3>1, <3>5 DEF Namesakes
      <3> HIDE DEF r
      <3>4. ~(s.owner = r.owner /\ s.title = r.title)
        BY <1>0, <1>1, <3>2 DEF StillFree, OwnedBy, Owned
      <3> QED BY <1>0, <1>1, <3>2, <3>3, <3>4, <3>6 DEF StillFree
    <2> HIDE DEF x
    <2>4. AdmissionTyped' /\ form'[p] = x /\ \A q \in Pages \ {p} : form'[q] = form[q]
      BY <1>0, <2>1, <2>2 DEF AdmissionInv, AdmissionTyped
    <2>5. \A u : InTime(u)' = InTime(u) /\ Owned(u)' = Owned(u)
      BY <2>1 DEF Owned, InTime
    <2>6. ConflictMeansRace'
      BY <2>1, <2>3, <2>4 DEF AdmissionInv, ConflictMeansRace
    <2>7. \A q \in Pages \ overtaken' : StillFree(q)'
      BY <2>1, <2>2, <2>4, <2>5 DEF AdmissionInv, StillFree, OwnedBy, OnGateway
    <2>8. \A q \in Pages \ late' : HasRoom(q)'
      BY <2>1, <2>2, <2>4, <2>5 DEF AdmissionInv, HasRoom, OwnedBy
    <2> QED BY <2>1, <2>4, <2>5, <2>6, <2>7, <2>8 DEF AdmissionInv
  <1>4. CASE ~Clashes(r)
    <2> DEFINE x == [form[p] EXCEPT !.pc = "provision"]
    <2>0. CASE Answer(p, "form") /\ UNCHANGED <<held, gateway, late, overtaken>>
      BY <2>0, AnswerKeeps
    <2> SUFFICES ASSUME ~(Answer(p, "form") /\ UNCHANGED <<held, gateway, late, overtaken>>) PROVE AdmissionInv'
      BY <2>0
    <2>1. /\ held' = held \cup {r} /\ form' = [form EXCEPT ![p] = x]
          /\ late' = (late \ {p}) \cup {q \in Pages \ {p} : /\ OwnerOf[q] = OwnerOf[p]
                                                            /\ form[q].pc \in {"port", "insert"}}
          /\ overtaken' = overtaken \cup {q \in Pages \ {p} : form[q].pc \in {"find", "count", "port", "insert"}}
      BY <1>4 DEF InsertRow, To
    <2>2. x \in Form /\ x.pc = "provision"
      BY <1>0 DEF Form
    <2> HIDE DEF x, r
    <2>3. AdmissionTyped' /\ form'[p] = x /\ \A q \in Pages \ {p} : form'[q] = form[q]
      BY <1>0, <1>2, <2>1, <2>2 DEF AdmissionInv, AdmissionTyped
    <2>4. IsFiniteSet(held')
      BY <2>1, FS_AddElement DEF AdmissionInv
    <2>5. ConflictMeansRace'
      BY <2>1, <2>2, <2>3 DEF AdmissionInv, ConflictMeansRace
    <2>6. ASSUME NEW q \in Pages \ overtaken' PROVE StillFree(q)'
      BY <2>1, <2>2, <2>3, <2>6 DEF StillFree
    <2>7. \A u : u # OwnerOf[p] => Owned(u)' = Owned(u) /\ InTime(u)' = InTime(u)
      BY <1>1, <2>1 DEF Owned, InTime
    <2>8. ASSUME NEW q \in Pages \ late' PROVE HasRoom(q)'
      <3>1. CASE q = p \/ OwnerOf[q] = OwnerOf[p]
        BY <2>1, <2>2, <2>3, <2>8, <3>1 DEF HasRoom
      <3>2. CASE q # p /\ OwnerOf[q] # OwnerOf[p]
        BY <2>1, <2>3, <2>7, <2>8, <3>2 DEF AdmissionInv, HasRoom, OwnedBy
      <3> QED BY <3>1, <3>2
    <2>9. Cardinality(InTime(OwnerOf[p])') <= Limit
      <3> DEFINE u == OwnerOf[p]
      <3>1. CASE p \in late
        <4>1. InTime(u)' = InTime(u)
          BY <1>1, <2>1, <3>1 DEF InTime, Owned
        <4> QED BY <1>2, <4>1 DEF AdmissionInv
      <3>2. CASE p \notin late
        <4>1. Cardinality(Owned(u)) < Limit
          BY <1>0, <3>2 DEF AdmissionInv, HasRoom, OwnedBy
        <4>2. Owned(u)' = Owned(u) \cup {r}
          BY <1>1, <2>1 DEF Owned
        <4>3. IsFiniteSet(Owned(u)) /\ Cardinality(Owned(u)) \in Nat
          BY Counted DEF AdmissionInv
        <4>4. Cardinality(Owned(u)') <= Cardinality(Owned(u)) + 1 /\ IsFiniteSet(Owned(u)')
          <5>1. Cardinality(Owned(u) \cup {r}) = (IF r \in Owned(u) THEN Cardinality(Owned(u))
                                                   ELSE Cardinality(Owned(u)) + 1)
                /\ IsFiniteSet(Owned(u) \cup {r})
            BY <4>3, FS_AddElement
          <5> HIDE DEF u
          <5> QED BY <4>2, <4>3, <5>1
        <4>5. InTime(u)' \subseteq Owned(u)'
          BY DEF InTime
        <4>6. Cardinality(InTime(u)') <= Cardinality(Owned(u)') /\ IsFiniteSet(InTime(u)')
          BY <4>4, <4>5, FS_Subset
        <4>7. Cardinality(InTime(u)') \in Nat /\ Cardinality(Owned(u)') \in Nat /\ Limit \in Nat
          BY <4>4, <4>6, FS_CardinalityType DEF AdmissionAssumption
        <4> DEFINE m == Cardinality(InTime(u)')  n == Cardinality(Owned(u)')  k == Cardinality(Owned(u))
        <4>8. m \in Nat /\ n \in Nat /\ k \in Nat /\ m <= n /\ n <= k + 1 /\ k < Limit /\ Limit \in Nat
          BY <4>1, <4>3, <4>4, <4>6, <4>7
        <4> HIDE DEF m, n, k
        <4>9. m <= Limit
          BY <4>8
        <4> QED BY <4>9 DEF m
      <3> QED BY <3>1, <3>2
    <2>10. \A u \in Owners : Cardinality(InTime(u)') <= Limit
      BY <2>7, <2>9 DEF AdmissionInv
    <2> QED BY <2>3, <2>4, <2>5, <2>6, <2>8, <2>10 DEF AdmissionInv
  <1> QED BY <1>3, <1>4

\* A row becomes active, is deleted, or moves to the gateway.
LEMMA RowsKeep ==
  ASSUME AdmissionAssumption, AdmissionInv, Discard \/ Restart \/ \E p \in Pages : Provisioned(p)
  PROVE  AdmissionInv'
  <1>0. /\ held \subseteq HeldRow /\ form \in [Pages -> Form] /\ gateway \in BOOLEAN /\ Idle \in Form /\ Idle.pc = "form"
    BY IdleIsForm DEF AdmissionInv, AdmissionTyped
  <1>1. CASE Discard
    <2>1. held' \subseteq held /\ UNCHANGED <<form, gateway, late, overtaken>>
      BY <1>1 DEF Discard
    <2> DEFINE f == [s \in held |-> s]
    <2>2. \A s \in held : f[s] = s
      OBVIOUS
    <2> HIDE DEF f
    <2> QED BY <1>0, <2>1, <2>2, RowsStep
  <1>2. ASSUME NEW p \in Pages, Provisioned(p) PROVE AdmissionInv'
    <2> DEFINE mine == {r \in held : r.by = p /\ r.title = form[p].title}
               g == [s \in held |-> IF s \in mine THEN [s EXCEPT !.status = "active"] ELSE s]
               h == [s \in held |-> s]
    <2>1. UNCHANGED <<gateway, late, overtaken>>
      BY <1>2 DEF Provisioned
    <2>2. ASSUME NEW pc \in {"created", "form"}, Answer(p, pc)
          PROVE  /\ form' \in [Pages -> Form]
                 /\ \A q \in Pages : form'[q] = form[q] \/ form'[q].pc \in {"form", "created"}
      <3>1. [Idle EXCEPT !.pc = pc] \in Form /\ [Idle EXCEPT !.pc = pc].pc = pc
        BY <1>0, <2>2 DEF Form
      <3> DEFINE x == [Idle EXCEPT !.pc = pc]
      <3>2. form' = [form EXCEPT ![p] = x] /\ x \in Form /\ x.pc = pc
        BY <2>2, <3>1 DEF Answer
      <3> HIDE DEF x
      <3> QED BY <1>0, <3>2
    <2>3. CASE held' = held \ mine /\ Answer(p, "form")
      <3>1. held' \subseteq held /\ \A s \in held : h[s] = s
        BY <2>3
      <3> HIDE DEF h, mine
      <3> QED BY <1>0, <2>1, <2>2, <2>3, <3>1, RowsStep
    <2>4. CASE held' = (held \ mine) \cup {[r EXCEPT !.status = "active"] : r \in mine} /\ Answer(p, "created")
      <3>1. \A s \in held : /\ g[s] \in HeldRow /\ g[s].owner = s.owner /\ g[s].title = s.title /\ g[s].type = s.type
                            /\ g[s].late = s.late /\ g[s].routing = s.routing /\ g[s].port = s.port
          <4>1. ASSUME NEW s \in held, NEW x, x = [s EXCEPT !.status = "active"]
              PROVE  /\ x \in HeldRow /\ x.owner = s.owner /\ x.title = s.title /\ x.type = s.type
                     /\ x.late = s.late /\ x.routing = s.routing /\ x.port = s.port
          BY <1>0, <4>1 DEF HeldRow
        <4> QED BY <1>0, <4>1
      <3>2. \A r \in held' : \E s \in held : r = g[s]
        BY <2>4
      <3> HIDE DEF g, mine
      <3>3. held' \subseteq HeldRow
        BY <3>1, <3>2
      <3>4. /\ form' \in [Pages -> Form]
            /\ \A q \in Pages : form'[q] = form[q] \/ form'[q].pc \in {"form", "created"}
        BY <2>2, <2>4
      <3>5. \A r \in held' : \E s \in held :
               /\ r = g[s] /\ r.owner = s.owner /\ r.title = s.title /\ r.type = s.type /\ r.late = s.late
               /\ r.routing = s.routing /\ r.port = s.port
        BY <3>1, <3>2
      <3> QED BY <1>0, <2>1, <3>3, <3>4, <3>5, RowsStep
    <2> QED BY <1>2, <2>3, <2>4 DEF Provisioned
  <1>3. CASE Restart
    <2> DEFINE f == [r \in held |-> IF gateway' /\ r.type = "nosql" /\ r.routing = "nginx"
                                    THEN [r EXCEPT !.routing = "mongo-gateway", !.port = SharedPort] ELSE r]
    <2>1. /\ gateway' \in BOOLEAN /\ held' = {f[r] : r \in held} /\ UNCHANGED <<late, overtaken>>
          /\ form' = [p \in Pages |-> IF form[p].pc \in {"conflict", "created"} THEN form[p] ELSE Idle]
      BY <1>3 DEF Restart
    <2>2. SharedPort \in Nat
      BY DEF SharedPort
    <2>3. \A s \in held : /\ f[s] \in HeldRow /\ f[s].owner = s.owner /\ f[s].title = s.title /\ f[s].type = s.type
                          /\ f[s].late = s.late
                          /\ f[s].routing = "mongo-gateway" \/ (f[s].routing = s.routing /\ f[s].port = s.port)
      <3>1. ASSUME NEW s \in held, NEW x, x = [s EXCEPT !.routing = "mongo-gateway", !.port = SharedPort]
            PROVE  /\ x \in HeldRow /\ x.owner = s.owner /\ x.title = s.title /\ x.type = s.type
                   /\ x.late = s.late /\ x.routing = "mongo-gateway"
        BY <1>0, <2>2, <3>1 DEF HeldRow
      <3>2. \A s \in held : f[s] = s \/ f[s] = [s EXCEPT !.routing = "mongo-gateway", !.port = SharedPort]
        OBVIOUS
      <3> HIDE DEF f
      <3> QED BY <1>0, <3>1, <3>2
    <2> HIDE DEF f
    <2>4. /\ form' \in [Pages -> Form]
          /\ \A p \in Pages : form'[p] = form[p] \/ form'[p].pc \in {"form", "created"}
          /\ \A p \in Pages : form'[p].pc \in {"form", "created", "conflict"}
      BY <1>0, <2>1
    <2>5. held' \subseteq HeldRow
          /\ \A r \in held' : \E s \in held :
               /\ r = f[s] /\ r.owner = s.owner /\ r.title = s.title /\ r.type = s.type /\ r.late = s.late
               /\ r.routing = "mongo-gateway" \/ (r.routing = s.routing /\ r.port = s.port)
      BY <2>1, <2>3
    <2> QED BY <2>1, <2>4, <2>5, RowsStep
  <1> QED BY <1>1, <1>2, <1>3

\* The invariant of admission, under every step.
LEMMA AdmissionInvariance == AdmissionSpec => []AdmissionInv
  <1>1. AdmissionInit => AdmissionInv
    <2>1. SUFFICES ASSUME AdmissionInit PROVE AdmissionInv
      OBVIOUS
    <2>2. held = {} \/ \E u \in Owners, g \in {"direct", "nginx"} : held = {OldRow(u, g)}
      BY <2>1 DEF AdmissionInit
    <2>3. IsFiniteSet(held) /\ Cardinality(held) <= 1
      <3>1. CASE held = {}
        BY <3>1, FS_EmptySet
      <3>2. CASE held # {}
        <4>1. PICK x : held = {x}
          BY <2>2, <3>2
        <4>2. IsFiniteSet({x}) /\ Cardinality({x}) = 1
          BY FS_Singleton
        <4> QED BY <4>1, <4>2
      <3> QED BY <3>1, <3>2
    <2>4. \A u : InTime(u) \subseteq held
      BY DEF InTime, Owned
    <2>5. \A u : Cardinality(InTime(u)) <= Limit
      BY <2>3, <2>4, FS_Subset, FS_CardinalityType, AdmissionAssumption DEF AdmissionAssumption
    <2>6. Idle \in Form /\ Idle.pc = "form"
      BY AdmissionAssumption DEF Form, Idle, SharedPort, AdmissionAssumption, DbTypes
    <2>7. held \subseteq HeldRow
      <3>1. ASSUME NEW u \in Owners, NEW g \in {"direct", "nginx"} PROVE OldRow(u, g) \in HeldRow
        <4>1. 1 \in Nat
          OBVIOUS
        <4> QED BY <4>1 DEF OldRow, HeldRow, DbTypes
      <3> QED BY <2>2, <3>1
    <2>8. AdmissionTyped /\ \A p \in Pages : form[p] = Idle
      BY <2>1, <2>6, <2>7 DEF AdmissionInit, AdmissionTyped
    <2> QED BY <2>3, <2>5, <2>6, <2>8 DEF AdmissionInv, ConflictMeansRace, StillFree, HasRoom
  <1>2. AdmissionInv /\ [AdmissionNext]_admissionVars => AdmissionInv'
    <2>1. SUFFICES ASSUME AdmissionInv, [AdmissionNext]_admissionVars PROVE AdmissionInv'
      OBVIOUS
    <2>2. CASE UNCHANGED admissionVars
      BY <2>1, <2>2 DEF admissionVars, AdmissionInv, AdmissionTyped, ConflictMeansRace, StillFree, HasRoom, OwnedBy,
                  Owned, InTime, OnGateway
    <2>3. CASE Discard \/ Restart \/ \E p \in Pages : Provisioned(p)
      BY <2>1, <2>3, RowsKeep, AdmissionAssumption
    <2>4. ASSUME NEW p \in Pages, Submit(p) \/ FindTitle(p) \/ CountOwned(p) \/ PickPort(p) PROVE AdmissionInv'
      BY <2>1, <2>4, LookupsKeep, AdmissionAssumption
    <2>5. ASSUME NEW p \in Pages, InsertRow(p) PROVE AdmissionInv'
      BY <2>1, <2>5, InsertKeeps, AdmissionAssumption
    <2> QED BY <2>1, <2>2, <2>3, <2>4, <2>5 DEF AdmissionNext
  <1> QED BY <1>1, <1>2, PTL DEF AdmissionSpec

\* For any number of pages, rows, ports and restarts: "please retry" is said only when another
\* request inserted meanwhile (databases.js:198, portManager.js:25).
THEOREM ConflictsAreRaces == AdmissionSpec => []ConflictMeansRace
  <1>1. AdmissionInv => ConflictMeansRace
    BY DEF AdmissionInv
  <1> QED BY <1>1, AdmissionInvariance, PTL

\* For any limit, the databases above it are those of requests that had counted before another
\* of the same user inserted (databases.js:150-157).
THEOREM LimitHolds == AdmissionSpec => []LimitPassedByOverlapOnly
  <1>1. ASSUME AdmissionInv PROVE LimitPassedByOverlapOnly
    <2>1. SUFFICES ASSUME NEW u \in Owners
                   PROVE  Cardinality(Owned(u)) <= Limit + Cardinality({r \in Owned(u) : r.late})
      BY DEF LimitPassedByOverlapOnly
    <2> DEFINE L == {r \in Owned(u) : r.late}
    <2>2. IsFiniteSet(Owned(u)) /\ IsFiniteSet(InTime(u)) /\ Cardinality(Owned(u)) \in Nat
          /\ Cardinality(InTime(u)) \in Nat /\ Cardinality(InTime(u)) <= Limit
      BY <1>1, Counted DEF AdmissionInv
    <2>3. IsFiniteSet(L)
      BY <2>2, FS_Subset
    <2>4. Owned(u) = InTime(u) \cup L /\ InTime(u) \cap L = {}
      BY DEF InTime
    <2> HIDE DEF L
    <2>5. Cardinality(Owned(u)) = Cardinality(InTime(u)) + Cardinality(L) - Cardinality({})
      BY <2>2, <2>3, <2>4, FS_Union
    <2>6. Cardinality({}) = 0 /\ Cardinality(L) \in Nat
      BY <2>3, FS_EmptySet, FS_CardinalityType
    <2>7. Cardinality(Owned(u)) <= Limit + Cardinality(L)
      BY <2>2, <2>5, <2>6, AdmissionAssumption DEF AdmissionAssumption
    <2> QED BY <2>7 DEF L
  <1> QED BY <1>1, AdmissionInvariance, PTL

ProtectSpec == ProtectInit /\ [][ProtectNext]_<<backupVars, protectVars>>

-----------------------------------------------------------------------------
(* Backups, with or without the page in front of them.                       *)

RunRows == [status : {"none", "running", "success", "failed", "deleted"}, file : BOOLEAN]
BackupPcs == {"idle", "create", "dump", "pack", "success", "fail", "retain", "file", "delrow"}
AdminPcs == {"unused", "unschedule", "unscheduleDelete", "row", "add", "done", "files"}
BooterPcs == {"list", "prune", "add", "done"}
AdminRows(pcs) == [pc : pcs, schedule : Schedules, active : BOOLEAN, files : SUBSET Runs]
BackupWorkers == [pc : BackupPcs, run : 0..MaxRuns, doomed : SUBSET Runs]
Jobs == [present : BOOLEAN, active : BOOLEAN, schedule : Schedules]

DialogRows == [name : Dialogs, schedule : Schedules, run : 0..MaxRuns, sure : BOOLEAN]

ScheduleTyped ==
    /\ backupJob \in Jobs /\ repeatables \subseteq Schedules
    /\ admin \in [Requests -> AdminRows(AdminPcs)] /\ booter \in AdminRows(BooterPcs)
    /\ raced \in BOOLEAN /\ wounded \in BOOLEAN

RunsTyped ==
    /\ waiting \in {0, 1}
    /\ runs \in [Runs -> RunRows] /\ archive \in [Runs -> {"none", "partial", "whole"}]
    /\ backup \in BackupWorkers
    /\ \A r \in Runs : runs[r].file => runs[r].status \in {"success", "failed"}

BackupsTyped == ScheduleTyped /\ RunsTyped

\* Unless changes overlapped, one is under way at most, it knows the row as it is, and says
\* what BullMQ holds.
Scheduled == IF backupJob.present /\ backupJob.active THEN Fires(backupJob.schedule) ELSE {}
Knows(who) == who.schedule = backupJob.schedule /\ who.active = (backupJob.present /\ backupJob.active)
OneChange ==
    ~raced =>
      /\ \A p, q \in AdminsInFlight : p = q
      /\ BooterInFlight => AdminsInFlight = {} /\ booter.pc # "list" /\ Knows(booter)
      /\ booter.pc = "add" => repeatables = {} /\ booter.active
      /\ \A q \in Requests :
           /\ admin[q].pc \in {"unschedule", "add"} => Knows(admin[q])
           /\ admin[q].pc = "add" => repeatables = {} /\ admin[q].active
           /\ admin[q].pc = "row" => repeatables = {}
           /\ admin[q].pc \in {"files", "unscheduleDelete", "row"} => backupJob.present
      /\ ~Races => repeatables = Scheduled

\* Runs are numbered in order; the worker's own run has not ended, and its archive is whole
\* when it is about to; should a run that succeeded be failed after all, the newest of the
\* others have theirs; what retention is about to take is not among the newest; a deletion
\* takes the files of runs that had ended.
Used == {r \in Runs : runs[r].status # "none"}
Unharmed ==
    backupJob.present /\ ~wounded /\ \A q \in Requests : admin[q].pc \notin {"unscheduleDelete", "row"}
OthersWhole == Unharmed => \A r \in Newest(Successes \ {backup.run}) : archive[r] = "whole"
Retention ==
    /\ \A r \in Used : \A s \in 1..r : s \in Used
    /\ backup.pc \in {"dump", "pack", "success"} =>
         /\ backup.run \in Runs /\ runs[backup.run].status \in {"running", "deleted"}
         /\ backup.pc = "success" /\ runs[backup.run].status = "running"
              => archive[backup.run] = "whole"
    /\ backup.pc \in {"fail", "retain"} =>
         backup.run \in Runs /\ runs[backup.run].status # "none" /\ OthersWhole
    /\ backup.pc \in {"file", "delrow"} => backup.doomed \cap Newest(Successes) = {}
    /\ backup.pc = "delrow" => backup.run \in backup.doomed
    /\ \A q \in Requests : \A r \in admin[q].files : runs[r].status \notin {"none", "running"}
    /\ NewestRunsRestorable

BackupsInv == BackupsTyped /\ OneChange /\ Retention /\ dialog \in DialogRows

\* The page's own steps leave the backups alone, and the others are steps of theirs.
LEMMA PageSteps ==
  ASSUME BackupsAssumption, ProtectNext, dialog \in DialogRows, backupJob \in Jobs
  PROVE  /\ BackupsNext \/ UNCHANGED backupVars
         /\ dialog' \in DialogRows
  <1> DEFINE Good == (BackupsNext \/ UNCHANGED backupVars) /\ dialog' \in DialogRows
  <1>0. NoDialog \in DialogRows /\ NoDialog.schedule \in Schedules
    BY DEF BackupsAssumption, NoAdmin, NoDialog, DialogRows, Dialogs
  <1>1. CASE BackupsNext /\ UNCHANGED protectVars
    BY <1>1 DEF protectVars
  <1>2. CASE BackupsWork /\ UNCHANGED protectVars
    BY <1>2 DEF protectVars, BackupsNext
  <1>3. CASE RunNow
    BY <1>3 DEF RunNow, protectVars, BackupsNext, BackupsWork
  <1>4. CASE OpenDialog
    <2>1. /\ [NoDialog EXCEPT !.name = "schedule", !.schedule = backupJob.schedule] \in DialogRows
          /\ [NoDialog EXCEPT !.name = "delete"] \in DialogRows
          /\ \A r \in Successes : [NoDialog EXCEPT !.name = "restore", !.run = r] \in DialogRows
      <3>1. Successes \subseteq 0..MaxRuns /\ backupJob.schedule \in Schedules
        BY DEF Successes, Runs, Jobs, BackupsAssumption
      <3>2. ASSUME NEW r \in Successes PROVE [NoDialog EXCEPT !.name = "restore", !.run = r] \in DialogRows
        BY <1>0, <3>1 DEF DialogRows, Dialogs
      <3>3. [NoDialog EXCEPT !.name = "schedule", !.schedule = backupJob.schedule] \in DialogRows
        BY <1>0, <3>1 DEF DialogRows, Dialogs
      <3> QED BY <1>0, <3>2, <3>3 DEF DialogRows, Dialogs
    <2> QED BY <1>4, <2>1 DEF OpenDialog
  <1>5. CASE CloseDialog
    BY <1>0, <1>5 DEF CloseDialog
  <1>6. CASE EditSchedule
    BY <1>6 DEF EditSchedule, DialogRows
  <1>7. CASE Understand
    BY <1>7 DEF Understand, DialogRows
  <1>8. ASSUME NEW q \in Requests, TogglePause(q) PROVE Good
    <2>1. backupJob.schedule \in Schedules
      BY DEF Jobs
    <2>2. PatchTo(q, backupJob.schedule, ~backupJob.active) /\ UNCHANGED protectVars
      BY <1>8 DEF TogglePause
    <2>3. PatchJob(q)
      BY <2>1, <2>2 DEF PatchJob
    <2> QED BY <2>2, <2>3 DEF protectVars, BackupsNext
  <1>9. ASSUME NEW q \in Requests, SaveSchedule(q) PROVE Good
    <2>1. /\ backupJob.active \in BOOLEAN /\ dialog.schedule \in Schedules
          /\ PatchTo(q, dialog.schedule, backupJob.active) /\ dialog' = NoDialog
      BY <1>9 DEF SaveSchedule, Jobs, DialogRows
    <2> QED BY <1>0, <2>1 DEF PatchJob, BackupsNext
  <1>10. ASSUME NEW q \in Requests, DeleteJob(q) PROVE Good
    BY <1>0, <1>10 DEF DeleteJob, BackupsNext
  <1>11. ASSUME NEW q \in RestoreRequests, RestoreNow(q) PROVE Good
    BY <1>11 DEF RestoreNow, AskRestore, Successes, BackupsNext
  <1>12. ASSUME NEW q \in RestoreRequests, RestoreAnswered(q) \/ WatchRestore(q) PROVE Good
    BY <1>0, <1>12 DEF RestoreAnswered, WatchRestore
  <1> QED BY <1>1, <1>2, <1>3, <1>4, <1>5, <1>6, <1>7, <1>8, <1>9, <1>10, <1>11, <1>12 DEF ProtectNext

\* The variables of the schedule keep their types.
LEMMA ScheduleKeepsTypes ==
  ASSUME BackupsAssumption, ScheduleTyped, BackupsNext
  PROVE  ScheduleTyped'
  <1> USE DEF ScheduleTyped
  <1>0. CASE UNCHANGED scheduleVars
    BY <1>0 DEF scheduleVars
  <1>1. ASSUME NEW q \in Requests, PatchJob(q) PROVE ScheduleTyped'
    <2>1. PICK s \in Schedules, a \in BOOLEAN : PatchTo(q, s, a)
      BY <1>1 DEF PatchJob
    <2>2. [pc |-> "unschedule", schedule |-> s, active |-> a, files |-> {}] \in AdminRows(AdminPcs)
      BY DEF AdminRows, AdminPcs
    <2>3. backupJob' \in Jobs
      BY <2>1 DEF PatchTo, Jobs
    <2> QED BY <2>1, <2>2, <2>3 DEF PatchTo, Races
  <1>2. ASSUME NEW q \in Requests, Unschedule(q) PROVE ScheduleTyped'
    <2>1. admin' \in [Requests -> AdminRows(AdminPcs)]
      BY <1>2 DEF Unschedule, AdminRows, AdminPcs
    <2> QED BY <1>2, <2>1 DEF Unschedule
  <1>3. ASSUME NEW q \in Requests, AddRepeatable(q) PROVE ScheduleTyped'
    <2>1. admin' \in [Requests -> AdminRows(AdminPcs)]
      BY <1>3 DEF AddRepeatable, AdminRows, AdminPcs
    <2> QED BY <1>3, <2>1 DEF AddRepeatable, Fires, BackupsAssumption
  <1>4. ASSUME NEW q \in Requests, DeleteList(q) PROVE ScheduleTyped'
    <2>1. admin' \in [Requests -> AdminRows(AdminPcs)]
      BY <1>4 DEF DeleteList, AdminRows, AdminPcs
    <2> QED BY <1>4, <2>1 DEF DeleteList, Races
  <1>5. ASSUME NEW q \in Requests, DeleteFiles(q) PROVE ScheduleTyped'
    <2>1. admin' \in [Requests -> AdminRows(AdminPcs)]
      BY <1>5 DEF DeleteFiles, AdminRows, AdminPcs
    <2> QED BY <1>5, <2>1 DEF DeleteFiles
  <1>6. ASSUME NEW q \in Requests, DeleteJobRow(q) PROVE ScheduleTyped'
    <2>1. admin' \in [Requests -> AdminRows(AdminPcs)] /\ backupJob' \in Jobs
      BY <1>6 DEF DeleteJobRow, AdminRows, AdminPcs, Jobs
    <2> QED BY <1>6, <2>1 DEF DeleteJobRow
  <1>7. CASE BootList
    <2>1. booter' \in AdminRows(BooterPcs)
      BY <1>7 DEF BootList, AdminRows, BooterPcs, Jobs
    <2> QED BY <1>7, <2>1 DEF BootList
  <1>8. CASE BootPrune
    <2>1. booter' \in AdminRows(BooterPcs)
      BY <1>8 DEF BootPrune, AdminRows, BooterPcs
    <2> QED BY <1>8, <2>1 DEF BootPrune
  <1>9. CASE BootAdd
    <2>1. booter' \in AdminRows(BooterPcs)
      BY <1>9 DEF BootAdd, AdminRows, BooterPcs
    <2> QED BY <1>9, <2>1 DEF BootAdd, Fires, BackupsAssumption
  <1>10. CASE BackupsCrash
    <2>1. [NoAdmin EXCEPT !.pc = "done"] \in AdminRows(AdminPcs) /\ [NoAdmin EXCEPT !.pc = "list"] \in AdminRows(BooterPcs)
      BY DEF NoAdmin, AdminRows, AdminPcs, BooterPcs, BackupsAssumption
    <2>2. admin' \in [Requests -> AdminRows(AdminPcs)] /\ booter' \in AdminRows(BooterPcs)
      BY <1>10, <2>1 DEF BackupsCrash
    <2> QED BY <1>10, <2>2 DEF BackupsCrash
  <1>11. ASSUME NEW q \in Requests, ChangeFails(q) PROVE ScheduleTyped'
    <2>1. admin' \in [Requests -> AdminRows(AdminPcs)]
      BY <1>11 DEF ChangeFails, NoAdmin, AdminRows, AdminPcs, BackupsAssumption
    <2> QED BY <1>11, <2>1 DEF ChangeFails
  <1>12. CASE BootFails
    <2>1. booter' \in AdminRows(BooterPcs)
      BY <1>12 DEF BootFails, NoAdmin, AdminRows, BooterPcs, BackupsAssumption
    <2> QED BY <1>12, <2>1 DEF BootFails
  <1> QED
    BY <1>0, <1>1, <1>2, <1>3, <1>4, <1>5, <1>6, <1>7, <1>8, <1>9, <1>10, <1>11, <1>12
    DEF BackupsNext, BackupsWork, Trigger, BackupFind, BackupCreate, BackupDump, BackupPack, BackupSuccess,
        BackupFail, Retain, RetainFile, RetainRow, CreateRestore, EnqueueRestore, PickRestore, EndRestore, AskRestore

\* The runs' rows, archives and worker keep their types.
LEMMA StartedIs ==
  ASSUME BackupsAssumption
  PROVE  IsFiniteSet(Runs) /\ IsFiniteSet(Used) /\ started = Cardinality(Used) /\ started \in Nat
  <1>1. IsFiniteSet(Runs)
    BY FS_Interval DEF Runs, BackupsAssumption
  <1>2. IsFiniteSet(Used)
    BY <1>1, FS_Subset DEF Used
  <1> QED BY <1>1, <1>2, FS_CardinalityType DEF Used, started

\* The run that is created next has not been used, and then all up to it have.
LEMMA NextRunIsNew ==
  ASSUME BackupsAssumption, \A r \in Used : \A s \in 1..r : s \in Used
  PROVE  started + 1 \notin Used /\ \A s \in 1..started : s \in Used
  <1>0. IsFiniteSet(Used) /\ started = Cardinality(Used) /\ started \in Nat /\ Used \subseteq Nat \ {0}
    BY StartedIs DEF Used, Runs
  <1>1. ASSUME started + 1 \in Used PROVE FALSE
    <2>1. 1..(started + 1) \subseteq Used
      BY <1>1
    <2>2. Cardinality(1..(started + 1)) = started + 1
      BY <1>0, FS_Interval
    <2> QED BY <1>0, <2>1, <2>2, FS_Subset
  <1>2. ASSUME NEW s \in 1..started, s \notin Used PROVE FALSE
    <2>1. Used \subseteq 1..(s - 1)
      BY <1>0, <1>2
    <2>2. IsFiniteSet(1..(s - 1)) /\ Cardinality(1..(s - 1)) = s - 1
      BY FS_Interval
    <2>3. Cardinality(Used) <= s - 1
      BY <2>1, <2>2, FS_Subset
    <2> QED BY <1>0, <2>3
  <1> QED BY <1>1, <1>2

\* The variables of the runs keep their types.
LEMMA RunsKeepTypes ==
  ASSUME BackupsAssumption, RunsTyped, ScheduleTyped, BackupsNext
  PROVE  RunsTyped'
  <1> USE DEF RunsTyped
  <1>a. NoBackup \in BackupWorkers /\ \A p \in BackupPcs : [NoBackup EXCEPT !.pc = p] \in BackupWorkers
    BY DEF NoBackup, BackupWorkers, BackupPcs, BackupsAssumption
  <1>b. \A w \in RunRows : /\ [Gone(w) EXCEPT !.file = FALSE] \in RunRows
                           /\ [Gone(w) EXCEPT !.file = FALSE].file = FALSE
    BY DEF Gone, RunRows
  <1>0. CASE UNCHANGED runVars
    BY <1>0 DEF runVars
  <1>1. CASE Trigger
    BY <1>1 DEF Trigger
  <1>2. CASE BackupFind
    BY <1>2, <1>a DEF BackupFind, BackupPcs
  <1>3. CASE BackupCreate
    <2>1. CASE backupJob.present /\ started < MaxRuns
      <3> DEFINE k == started + 1
      <3>1. k \in Runs /\ k \in 0..MaxRuns
        BY <2>1, StartedIs DEF Runs, BackupsAssumption
      <3>2. /\ runs' = [runs EXCEPT ![k] = [status |-> "running", file |-> FALSE]]
            /\ backup' = [backup EXCEPT !.pc = "dump", !.run = k]
        BY <1>3, <2>1 DEF BackupCreate
      <3> HIDE DEF k
      <3>3. backup' \in BackupWorkers
        BY <3>1, <3>2 DEF BackupWorkers, BackupPcs
      <3>4. runs' \in [Runs -> RunRows] /\ \A r \in Runs : runs'[r].file => runs'[r].status \in {"success", "failed"}
        BY <3>1, <3>2 DEF RunRows
      <3> QED BY <1>3, <3>3, <3>4 DEF BackupCreate
    <2> QED BY <1>3, <2>1, <1>a DEF BackupCreate
  <1>4. CASE BackupDump \/ BackupPack
    <2>1. backup' \in BackupWorkers
      BY <1>4 DEF BackupDump, BackupPack, BackupWorkers, BackupPcs
    <2>2. archive' \in [Runs -> {"none", "partial", "whole"}]
      BY <1>4 DEF BackupDump, BackupPack
    <2> QED BY <1>4, <2>1, <2>2 DEF BackupDump, BackupPack
  <1>5. CASE BackupSuccess
    <2>1. backup' \in BackupWorkers
      BY <1>5, <1>a DEF BackupSuccess, Rejected, BackupWorkers, BackupPcs
    <2>2. runs' \in [Runs -> RunRows] /\ \A r \in Runs : runs'[r].file => runs'[r].status \in {"success", "failed"}
      <3>1. [status |-> "success", file |-> TRUE] \in RunRows
        BY DEF RunRows
      <3>2. \/ UNCHANGED runs
            \/ runs' = [runs EXCEPT ![backup.run] = [status |-> "success", file |-> TRUE]]
        BY <1>5 DEF BackupSuccess, Rejected
      <3> QED BY <3>1, <3>2
    <2> QED BY <1>5, <2>1, <2>2 DEF BackupSuccess
  <1>6. CASE BackupFail
    <2>2. runs' \in [Runs -> RunRows] /\ \A r \in Runs : runs'[r].file => runs'[r].status \in {"success", "failed"}
      BY <1>6 DEF BackupFail, RunRows
    <2> QED BY <1>6, <1>a, <2>2 DEF BackupFail
  <1>7. CASE Retain
    <2>1. Expendable(Successes) \subseteq Runs
      BY DEF Expendable, Successes
    <2>2. backup' \in BackupWorkers
      BY <1>7, <2>1 DEF Retain, Rejected, BackupWorkers, BackupPcs
    <2> QED BY <1>7, <2>2 DEF Retain, Rejected
  <1>8. CASE RetainFile
    <2>1. CASE backup.doomed = {}
      BY <1>8, <2>1, <1>a DEF RetainFile
    <2>2. CASE backup.doomed # {}
      <3>1. PICK r \in backup.doomed : /\ archive' = [archive EXCEPT ![r] = "none"]
                                       /\ backup' = [backup EXCEPT !.pc = "delrow", !.run = r]
        BY <1>8, <2>2 DEF RetainFile
      <3>2. r \in 0..MaxRuns
        BY DEF BackupWorkers, Runs, BackupsAssumption
      <3>3. backup' \in BackupWorkers
        BY <3>1, <3>2 DEF BackupWorkers, BackupPcs
      <3> QED BY <1>8, <3>1, <3>3 DEF RetainFile
    <2> QED BY <2>1, <2>2
  <1>9. CASE RetainRow
    <2>1. \/ runs' = [runs EXCEPT ![backup.run] = [Gone(runs[backup.run]) EXCEPT !.file = FALSE]]
          \/ runs' = runs
      BY <1>9 DEF RetainRow
    <2>2. runs' \in [Runs -> RunRows] /\ \A r \in Runs : runs'[r].file => runs'[r].status \in {"success", "failed"}
      <3>1. CASE runs' = runs
        BY <3>1
      <3>2. CASE runs' = [runs EXCEPT ![backup.run] = [Gone(runs[backup.run]) EXCEPT !.file = FALSE]]
        BY <1>b, <3>2
      <3> QED BY <2>1, <3>1, <3>2
    <2>3. backup' \in BackupWorkers
      BY <1>9 DEF RetainRow, BackupWorkers, BackupPcs
    <2> QED BY <1>9, <2>2, <2>3 DEF RetainRow
  <1>10. ASSUME NEW q \in Requests, DeleteFiles(q) PROVE RunsTyped'
    BY <1>10 DEF DeleteFiles, Remove
  <1>11. ASSUME NEW q \in Requests, DeleteJobRow(q) PROVE RunsTyped'
    <2>1. runs' = [r \in Runs |-> [Gone(runs[r]) EXCEPT !.file = FALSE]]
      BY <1>11 DEF DeleteJobRow
    <2>2. runs' \in [Runs -> RunRows] /\ \A r \in Runs : runs'[r].file => runs'[r].status \in {"success", "failed"}
      BY <1>b, <2>1
    <2> QED BY <1>11, <2>2 DEF DeleteJobRow
  <1>12. CASE BackupsCrash
    BY <1>12, <1>a DEF BackupsCrash
  <1>13. ASSUME NEW q \in Requests, ChangeFails(q) PROVE RunsTyped'
    <2>1. archive' \in [Runs -> {"none", "partial", "whole"}]
      BY <1>13 DEF ChangeFails, Remove
    <2> QED BY <1>13, <2>1 DEF ChangeFails
  <1> QED
    BY <1>0, <1>1, <1>2, <1>3, <1>4, <1>5, <1>6, <1>7, <1>8, <1>9, <1>10, <1>11, <1>12, <1>13
    DEF BootFails, BackupsNext, BackupsWork, PatchJob, PatchTo, Unschedule, AddRepeatable, DeleteList, BootList, BootPrune,
        BootAdd, CreateRestore, EnqueueRestore, PickRestore, EndRestore, AskRestore, runVars

\* A step of one change, when no other is under way.
LEMMA OneAdminStep ==
  ASSUME ScheduleTyped, OneChange, ~raced, NEW q \in Requests, NEW x \in AdminRows(AdminPcs),
         admin[q].pc \notin {"unused", "done"}, admin' = [admin EXCEPT ![q] = x],
         UNCHANGED <<booter, raced>>,
         x.pc \in {"unschedule", "add"} => Knows(x)',
         x.pc = "add" => repeatables' = {} /\ x.active,
         x.pc = "row" => repeatables' = {},
         x.pc \in {"files", "unscheduleDelete", "row"} => backupJob'.present,
         x.pc = "done" => repeatables' = Scheduled',
         x.pc # "unused"
  PROVE  OneChange'
  <1>1. q \in AdminsInFlight /\ booter.pc = "done"
    BY DEF OneChange, AdminsInFlight, BooterInFlight
  <1>2. \A p \in Requests \ {q} : admin[p].pc \in {"unused", "done"} /\ admin'[p] = admin[p]
    BY <1>1 DEF OneChange, AdminsInFlight, ScheduleTyped
  <1>3. admin'[q] = x
    BY DEF ScheduleTyped
  <1>4. AdminsInFlight' \subseteq {q} /\ (x.pc # "done" => AdminsInFlight' = {q})
    BY <1>2, <1>3 DEF AdminsInFlight
  <1>5. ASSUME NEW p \in Requests PROVE
           /\ admin'[p].pc \in {"unschedule", "add"} => Knows(admin[p])'
           /\ admin'[p].pc = "add" => repeatables' = {} /\ admin'[p].active
           /\ admin'[p].pc = "row" => repeatables' = {}
           /\ admin'[p].pc \in {"files", "unscheduleDelete", "row"} => backupJob'.present
    BY <1>2, <1>3 DEF Knows
  <1>6. booter'.pc = "done"
    BY <1>1
  <1>7. ~Races' => repeatables' = Scheduled'
    BY <1>4 DEF Races
  <1> QED BY <1>4, <1>5, <1>6, <1>7 DEF OneChange, BooterInFlight

\* A request that comes while nothing is under way begins a change of its own.
LEMMA ChangeBegins ==
  ASSUME ScheduleTyped, OneChange, NEW q \in Requests, NEW x \in AdminRows(AdminPcs),
         admin' = [admin EXCEPT ![q] = x], raced' = (raced \/ Races), UNCHANGED booter,
         (x.pc = "unschedule" /\ Knows(x)') \/ (x.pc = "files" /\ backupJob'.present)
  PROVE  OneChange'
  <1>1. SUFFICES ASSUME ~raced' PROVE OneChange'
    BY DEF OneChange
  <1>2. ~raced /\ AdminsInFlight = {} /\ booter.pc = "done"
    BY <1>1 DEF Races, BooterInFlight
  <1>3. \A p \in Requests \ {q} : admin[p].pc \in {"unused", "done"} /\ admin'[p] = admin[p]
    BY <1>2 DEF AdminsInFlight, ScheduleTyped
  <1>4. admin'[q] = x
    BY DEF ScheduleTyped
  <1>5. AdminsInFlight' = {q}
    BY <1>3, <1>4 DEF AdminsInFlight
  <1>6. ASSUME NEW p \in Requests PROVE
           /\ admin'[p].pc \in {"unschedule", "add"} => Knows(admin[p])'
           /\ admin'[p].pc = "add" => repeatables' = {} /\ admin'[p].active
           /\ admin'[p].pc = "row" => repeatables' = {}
           /\ admin'[p].pc \in {"files", "unscheduleDelete", "row"} => backupJob'.present
    BY <1>3, <1>4 DEF Knows
  <1> QED BY <1>2, <1>5, <1>6 DEF OneChange, BooterInFlight, Races

\* The schedule in BullMQ follows the row's.
LEMMA ScheduleFollows ==
  ASSUME BackupsAssumption, ScheduleTyped, OneChange, BackupsNext
  PROVE  OneChange'
  <1> DEFINE Alone(q) == admin[q].pc \notin {"unused", "done"} /\ ~raced
  <1>0. CASE UNCHANGED scheduleVars
    BY <1>0 DEF scheduleVars, OneChange, AdminsInFlight, BooterInFlight, Races, Knows, Scheduled, Fires
  <1>1. ASSUME NEW q \in Requests, PatchJob(q) PROVE OneChange'
    <2>1. PICK s \in Schedules, a \in BOOLEAN : PatchTo(q, s, a)
      BY <1>1 DEF PatchJob
    <2>x. PICK x : x = [pc |-> "unschedule", schedule |-> s, active |-> a, files |-> {}]
      OBVIOUS
    <2>2. x \in AdminRows(AdminPcs) /\ x.pc = "unschedule" /\ x.schedule = s /\ x.active = a
      BY <2>x DEF AdminRows, AdminPcs
    <2>3. backupJob'.present /\ backupJob'.active = a /\ backupJob'.schedule = s
      BY <2>1 DEF PatchTo, ScheduleTyped, Jobs
    <2>4. admin' = [admin EXCEPT ![q] = x] /\ raced' = (raced \/ Races) /\ UNCHANGED booter
      BY <2>1, <2>x DEF PatchTo
    <2>5. Knows(x)'
      BY <2>2, <2>3 DEF Knows
    <2> QED BY <2>2, <2>4, <2>5, ChangeBegins
  <1>2. ASSUME NEW q \in Requests, DeleteList(q) PROVE OneChange'
    <2>1. PICK x : x = [admin[q] EXCEPT !.pc = "files", !.files = {r \in Runs : runs[r].file}]
      OBVIOUS
    <2>2. x \in AdminRows(AdminPcs) /\ x.pc = "files"
      BY <2>1 DEF AdminRows, AdminPcs, ScheduleTyped
    <2>3. admin' = [admin EXCEPT ![q] = x] /\ raced' = (raced \/ Races) /\ UNCHANGED booter /\ backupJob'.present
      BY <1>2, <2>1 DEF DeleteList, ScheduleTyped
    <2> QED BY <2>2, <2>3, ChangeBegins
  <1>3. ASSUME NEW q \in Requests, Unschedule(q) PROVE OneChange'
    <2>0. CASE raced
      BY <1>3, <2>0 DEF Unschedule, OneChange
    <2>1. PICK x : x = [admin[q] EXCEPT !.pc = IF @ = "unscheduleDelete" THEN "row"
                                               ELSE IF admin[q].active THEN "add" ELSE "done"]
      OBVIOUS
    <2>2. /\ x \in AdminRows(AdminPcs) /\ x.active = admin[q].active /\ x.schedule = admin[q].schedule
          /\ admin[q].pc = "unscheduleDelete" => x.pc = "row"
          /\ admin[q].pc # "unscheduleDelete" => x.pc = IF admin[q].active THEN "add" ELSE "done"
      BY <2>1 DEF AdminRows, AdminPcs, ScheduleTyped
    <2>3. /\ admin' = [admin EXCEPT ![q] = x] /\ repeatables' = {} /\ UNCHANGED <<backupJob, booter, raced>>
          /\ admin[q].pc \in {"unschedule", "unscheduleDelete"}
      BY <1>3, <2>1 DEF Unschedule, ScheduleTyped
    <2>4. CASE ~raced /\ admin[q].pc = "unscheduleDelete"
      BY <2>2, <2>3, <2>4, OneAdminStep DEF OneChange
    <2>5. CASE ~raced /\ admin[q].pc = "unschedule"
      <3>1. Knows(x)'
        BY <2>2, <2>3, <2>5 DEF OneChange, Knows
      <3>2. x.pc = "done" => Scheduled' = {}
        BY <2>2, <2>3, <2>5, <3>1 DEF Knows, Scheduled
      <3> QED BY <2>2, <2>3, <2>5, <3>1, <3>2, OneAdminStep
    <2> QED BY <2>0, <2>3, <2>4, <2>5
  <1>4. ASSUME NEW q \in Requests, AddRepeatable(q) PROVE OneChange'
    <2>0. CASE raced
      BY <1>4, <2>0 DEF AddRepeatable, OneChange
    <2>1. PICK x : x = [admin[q] EXCEPT !.pc = "done"]
      OBVIOUS
    <2>2. x \in AdminRows(AdminPcs) /\ x.pc = "done"
      BY <2>1 DEF AdminRows, AdminPcs, ScheduleTyped
    <2>3. /\ admin' = [admin EXCEPT ![q] = x] /\ repeatables' = repeatables \cup Fires(admin[q].schedule)
          /\ UNCHANGED <<backupJob, booter, raced>> /\ admin[q].pc = "add"
      BY <1>4, <2>1 DEF AddRepeatable, ScheduleTyped
    <2>4. CASE ~raced
      <3>1. Knows(admin[q]) /\ repeatables = {} /\ admin[q].active
        BY <2>3, <2>4 DEF OneChange
      <3>2. repeatables' = Scheduled'
        BY <2>3, <3>1 DEF Knows, Scheduled
      <3> QED BY <2>2, <2>3, <2>4, <3>2, OneAdminStep
    <2> QED BY <2>0, <2>4
  <1>5. ASSUME NEW q \in Requests, DeleteFiles(q) PROVE OneChange'
    <2>0. CASE raced
      BY <1>5, <2>0 DEF DeleteFiles, OneChange
    <2>1. PICK x : x = [admin[q] EXCEPT !.pc = "unscheduleDelete"]
      OBVIOUS
    <2>2. x \in AdminRows(AdminPcs) /\ x.pc = "unscheduleDelete"
      BY <2>1 DEF AdminRows, AdminPcs, ScheduleTyped
    <2>3. /\ admin' = [admin EXCEPT ![q] = x] /\ UNCHANGED <<repeatables, backupJob, booter, raced>> /\ admin[q].pc = "files"
      BY <1>5, <2>1 DEF DeleteFiles, ScheduleTyped
    <2>4. CASE ~raced
      <3>1. backupJob'.present
        BY <2>3, <2>4 DEF OneChange
      <3> QED BY <2>2, <2>3, <2>4, <3>1, OneAdminStep
    <2> QED BY <2>0, <2>4
  <1>6. ASSUME NEW q \in Requests, DeleteJobRow(q) PROVE OneChange'
    <2>0. CASE raced
      BY <1>6, <2>0 DEF DeleteJobRow, OneChange
    <2>1. PICK x : x = [admin[q] EXCEPT !.pc = "done"]
      OBVIOUS
    <2>2. x \in AdminRows(AdminPcs) /\ x.pc = "done"
      BY <2>1 DEF AdminRows, AdminPcs, ScheduleTyped
    <2>3. /\ admin' = [admin EXCEPT ![q] = x] /\ UNCHANGED <<repeatables, booter, raced>> /\ admin[q].pc = "row"
          /\ ~backupJob'.present
      BY <1>6, <2>1 DEF DeleteJobRow, ScheduleTyped, Jobs
    <2>4. CASE ~raced
      <3>1. repeatables' = Scheduled'
        BY <2>3, <2>4 DEF OneChange, Scheduled
      <3> QED BY <2>2, <2>3, <2>4, <3>1, OneAdminStep
    <2> QED BY <2>0, <2>4
  <1>7. CASE BootList
    <2>1. /\ booter'.pc = "prune" /\ booter'.schedule = backupJob.schedule
          /\ booter'.active = (backupJob.present /\ backupJob.active)
          /\ raced' = (AdminsInFlight # {}) /\ UNCHANGED <<backupJob, repeatables, admin>>
      BY <1>7 DEF BootList
    <2>2. raced' \/ \A q \in Requests : admin'[q].pc \in {"unused", "done"}
      BY <2>1 DEF AdminsInFlight
    <2> QED BY <2>1, <2>2 DEF OneChange, AdminsInFlight, BooterInFlight, Races, Knows
  <1>8. CASE BootPrune
    <2>1. /\ booter'.schedule = booter.schedule /\ booter'.active = booter.active /\ booter.pc = "prune"
          /\ booter'.pc = (IF booter.active THEN "add" ELSE "done")
          /\ repeatables' = {} /\ UNCHANGED <<backupJob, admin, raced>>
      BY <1>8 DEF BootPrune, ScheduleTyped, AdminRows
    <2>2. CASE ~raced
      <3>1. Knows(booter) /\ AdminsInFlight = {} /\ booter.active \in BOOLEAN
        BY <2>1, <2>2 DEF OneChange, BooterInFlight, ScheduleTyped, AdminRows
      <3>2. Knows(booter)'
        BY <2>1, <3>1 DEF Knows
      <3>3. booter'.pc = "done" => Scheduled' = {}
        BY <2>1, <3>1 DEF Knows, Scheduled
      <3> QED BY <2>1, <3>1, <3>2, <3>3 DEF OneChange, AdminsInFlight, BooterInFlight, Races
    <2> QED BY <2>1, <2>2 DEF OneChange
  <1>9. CASE BootAdd
    <2>1. /\ booter.pc = "add" /\ booter'.pc = "done" /\ repeatables' = repeatables \cup Fires(booter.schedule)
          /\ UNCHANGED <<backupJob, admin, raced>>
      BY <1>9 DEF BootAdd, ScheduleTyped, AdminRows
    <2>2. CASE ~raced
      <3>1. Knows(booter) /\ AdminsInFlight = {} /\ repeatables = {} /\ booter.active
        BY <2>1, <2>2 DEF OneChange, BooterInFlight
      <3>2. repeatables' = Scheduled'
        BY <2>1, <3>1 DEF Knows, Scheduled
      <3> QED BY <2>1, <3>1, <3>2 DEF OneChange, AdminsInFlight, BooterInFlight, Races
    <2> QED BY <2>1, <2>2 DEF OneChange
  <1>10. CASE BackupsCrash
    BY <1>10 DEF BackupsCrash, OneChange
  <1>11. ASSUME NEW q \in Requests, ChangeFails(q) PROVE OneChange'
    BY <1>11 DEF ChangeFails, OneChange
  <1>12. CASE BootFails
    BY <1>12 DEF BootFails, OneChange
  <1> QED
    BY <1>0, <1>1, <1>2, <1>3, <1>4, <1>5, <1>6, <1>7, <1>8, <1>9, <1>10, <1>11, <1>12
    DEF BackupsNext, BackupsWork, Trigger, BackupFind, BackupCreate, BackupDump, BackupPack, BackupSuccess,
        BackupFail, Retain, RetainFile, RetainRow, CreateRestore, EnqueueRestore, PickRestore, EndRestore, AskRestore

\* What is newest stays so or is no longer among the successful when one succeeds, and when
\* one goes that is not among the newest.
LEMMA NewestShrinks ==
  ASSUME BackupsAssumption, NEW S \in SUBSET Runs, NEW x \in Runs
  PROVE  /\ Newest(S) \subseteq S
         /\ Newest(S \cup {x}) \subseteq Newest(S) \cup {x}
         /\ x \notin Newest(S) => Newest(S \ {x}) \subseteq Newest(S)
  <1>0. IsFiniteSet(Runs) /\ \A T \in SUBSET Runs : IsFiniteSet(T) /\ Cardinality(T) \in Nat
    BY StartedIs, FS_Subset, FS_CardinalityType
  <1>1. Newest(S) \subseteq S
    BY DEF Newest
  <1>2. ASSUME NEW r \in Newest(S \cup {x}), r # x PROVE r \in Newest(S)
    <2> DEFINE A == {n \in S : n > r}
               B == {n \in S \cup {x} : n > r}
    <2>1. A \in SUBSET B /\ A \in SUBSET Runs /\ B \in SUBSET Runs
      OBVIOUS
    <2>2. Cardinality(A) <= Cardinality(B) /\ Cardinality(A) \in Nat /\ Cardinality(B) \in Nat
      BY <1>0, <2>1, FS_Subset
    <2>3. Cardinality(B) < Keep /\ r \in S
      BY <1>2 DEF Newest
    <2>4. Cardinality(A) < Keep
      BY <2>2, <2>3 DEF BackupsAssumption
    <2> QED BY <2>3, <2>4 DEF Newest
  <1>3. ASSUME x \notin Newest(S), NEW r \in Newest(S \ {x}) PROVE r \in Newest(S)
    <2> DEFINE A == {n \in S : n > r}
               B == {n \in S \ {x} : n > r}
               C == {n \in S : n > x}
    <2>1. Cardinality(B) < Keep /\ r \in S /\ r # x
      BY <1>3 DEF Newest
    <2>2. CASE x \notin S \/ ~(x > r)
      <3>1. A = B
        BY <2>2
      <3> HIDE DEF A, B
      <3>2. Cardinality(A) < Keep
        BY <2>1, <3>1
      <3> QED BY <2>1, <3>2 DEF Newest, A
    <2>3. CASE x \in S /\ x > r
      <3>1. ~(Cardinality(C) < Keep)
        BY <1>3, <2>3 DEF Newest
      <3>2. C \subseteq B
        <4>1. r \in Int /\ x \in Int /\ S \subseteq Int
          BY <2>1 DEF Runs
        <4>2. ASSUME NEW n \in C PROVE n \in B
          <5>1. n \in S /\ n \in Int /\ n > x
            BY <4>1
          <5>2. n > r /\ n # x
            BY <2>3, <4>1, <5>1
          <5> QED BY <5>1, <5>2
        <4> QED BY <4>2
      <3>3. B \in SUBSET Runs /\ C \in SUBSET B
        BY <3>2
      <3>4. Cardinality(C) <= Cardinality(B) /\ Cardinality(C) \in Nat /\ Cardinality(B) \in Nat
        BY <1>0, <3>3, FS_Subset
      <3> QED BY <2>1, <3>1, <3>4 DEF BackupsAssumption
    <2> QED BY <2>2, <2>3
  <1> QED BY <1>1, <1>2, <1>3

\* A deletion, once it is past the files, ends with the job, or dies and leaves a mark.
LEMMA StaysHarmed ==
  ASSUME BackupsAssumption, ScheduleTyped, BackupsNext, Unharmed'
  PROVE  Unharmed
  <1>0. CASE UNCHANGED scheduleVars
    BY <1>0 DEF scheduleVars, Unharmed
  <1>1. ASSUME NEW q \in Requests, PatchJob(q) PROVE Unharmed
    BY <1>1 DEF PatchJob, PatchTo, Unharmed, ScheduleTyped, Jobs
  <1>2. ASSUME NEW q \in Requests, DeleteList(q) PROVE Unharmed
    BY <1>2 DEF DeleteList, Unharmed, ScheduleTyped, AdminRows
  <1>3. ASSUME NEW q \in Requests, Unschedule(q) PROVE Unharmed
    BY <1>3 DEF Unschedule, Unharmed, ScheduleTyped, AdminRows
  <1>4. ASSUME NEW q \in Requests, AddRepeatable(q) PROVE Unharmed
    BY <1>4 DEF AddRepeatable, Unharmed, ScheduleTyped, AdminRows
  <1>5. ASSUME NEW q \in Requests, DeleteFiles(q) PROVE Unharmed
    BY <1>5 DEF DeleteFiles, Unharmed, ScheduleTyped, AdminRows
  <1>6. ASSUME NEW q \in Requests, DeleteJobRow(q) PROVE Unharmed
    BY <1>6 DEF DeleteJobRow, Unharmed, ScheduleTyped, Jobs
  <1>7. CASE BootList \/ BootPrune \/ BootAdd
    BY <1>7 DEF BootList, BootPrune, BootAdd, Unharmed
  <1>8. CASE BackupsCrash
    BY <1>8 DEF BackupsCrash, Deleting, Unharmed
  <1>9. ASSUME NEW q \in Requests, ChangeFails(q) PROVE Unharmed
    BY <1>9 DEF ChangeFails, Deleting, Unharmed, ScheduleTyped, AdminRows
  <1>10. CASE BootFails
    BY <1>10 DEF BootFails, Unharmed
  <1> QED
    BY <1>0, <1>1, <1>2, <1>3, <1>4, <1>5, <1>6, <1>7, <1>8, <1>9, <1>10
    DEF BackupsNext, BackupsWork, Trigger, BackupFind, BackupCreate, BackupDump, BackupPack, BackupSuccess,
        BackupFail, Retain, RetainFile, RetainRow, CreateRestore, EnqueueRestore, PickRestore, EndRestore, AskRestore

\* Steps that leave rows and archives alone, and the worker too or at its beginning.
LEMMA RetentionQuiet ==
  ASSUME BackupsAssumption, BackupsTyped, Retention, BackupsNext,
         UNCHANGED <<runs, archive>>, backup' = backup \/ backup'.pc \in {"idle", "create"},
         \A q \in Requests : admin'[q].files \subseteq admin[q].files \cup {r \in Runs : runs[r].file}
  PROVE  Retention'
  <1>1. Used' = Used /\ Successes' = Successes
    BY DEF Used, Successes
  <1>2. Newest(Successes)' = Newest(Successes)
    BY <1>1 DEF Newest
  <1>3. NewestRunsRestorable'
    BY <1>2, StaysHarmed DEF NewestRunsRestorable, Unharmed, BackupsTyped, Retention
  <1>4. \A q \in Requests : \A r \in admin'[q].files : runs'[r].status \notin {"none", "running"}
    BY DEF Retention, BackupsTyped, RunsTyped
  <1>5. CASE backup' = backup
    <2>1. Newest(Successes \ {backup.run})' = Newest(Successes \ {backup.run})
      BY <1>1, <1>5 DEF Newest
    <2>2. OthersWhole => OthersWhole'
      BY <1>5, <2>1, StaysHarmed DEF OthersWhole, BackupsTyped
    <2> QED BY <1>1, <1>2, <1>3, <1>4, <1>5, <2>2 DEF Retention
  <1>6. CASE backup'.pc \in {"idle", "create"}
    BY <1>1, <1>3, <1>4, <1>6 DEF Retention
  <1> QED BY <1>5, <1>6

\* Retention and deletion spare the newest runs, and no step damages them.
LEMMA RetentionKeeps ==
  ASSUME BackupsAssumption, BackupsTyped, Retention, BackupsNext
  PROVE  Retention'
  <1> DEFINE Listed == \A q \in Requests : \A r \in admin[q].files : runs[r].status \notin {"none", "running"}
             Order == \A r \in Used : \A s \in 1..r : s \in Used
             Whole == \A r \in Newest(Successes) : archive[r] = "whole"
  <1>a. /\ runs \in [Runs -> RunRows] /\ archive \in [Runs -> {"none", "partial", "whole"}] /\ backup \in BackupWorkers
        /\ Listed /\ Order /\ (Unharmed => Whole) /\ (Unharmed' => Unharmed)
        /\ \A q \in Requests : admin[q].files \subseteq Runs
    BY StaysHarmed DEF BackupsTyped, RunsTyped, Retention, NewestRunsRestorable, Unharmed, ScheduleTyped, AdminRows
  <1>b. NewestRunsRestorable' <=> (Unharmed' => Whole')
    BY DEF NewestRunsRestorable, Unharmed
  <1>d. \A k \in Runs \ Successes' : backup'.run = k /\ (Unharmed' => Whole') => OthersWhole'
    <2> SUFFICES ASSUME NEW k \in Runs \ Successes', backup'.run = k, Unharmed' => Whole' PROVE OthersWhole'
      OBVIOUS
    <2>1. Successes' \ {backup'.run} = Successes'
      OBVIOUS
    <2> QED BY <2>1 DEF OthersWhole
  <1>c. Newest(Successes) \subseteq Successes /\ Successes \subseteq Runs
    BY DEF Newest, Successes
  <1>1. CASE UNCHANGED <<runs, archive, backup, admin>>
    BY <1>1, RetentionQuiet
  <1>2. ASSUME NEW q \in Requests, PatchJob(q) \/ Unschedule(q) \/ AddRepeatable(q) \/ DeleteList(q)
        PROVE Retention'
    <2>1. UNCHANGED <<runs, archive, backup>>
      BY <1>2 DEF PatchJob, PatchTo, Unschedule, AddRepeatable, DeleteList, runVars
    <2>2. \A p \in Requests : admin'[p].files \subseteq admin[p].files \cup {r \in Runs : runs[r].file}
      <3>0. admin \in [Requests -> AdminRows(AdminPcs)]
        BY DEF BackupsTyped, ScheduleTyped
      <3>1. CASE PatchJob(q)
        BY <3>0, <3>1 DEF PatchJob, PatchTo
      <3>2. CASE Unschedule(q) \/ AddRepeatable(q)
        BY <3>0, <3>2 DEF Unschedule, AddRepeatable, AdminRows
      <3>3. CASE DeleteList(q)
        BY <3>0, <3>3 DEF DeleteList, AdminRows
      <3> QED BY <1>2, <3>1, <3>2, <3>3
    <2> QED BY <2>1, <2>2, RetentionQuiet
  <1>3. CASE BackupsCrash
    <2>1. UNCHANGED <<runs, archive>> /\ backup'.pc = "idle"
      BY <1>3 DEF BackupsCrash, NoBackup
    <2>2. \A p \in Requests : admin'[p].files \subseteq admin[p].files \cup {r \in Runs : runs[r].file}
      BY <1>3 DEF BackupsCrash, NoAdmin
    <2> QED BY <2>1, <2>2, RetentionQuiet
  <1>4. CASE BackupFind
    <2>1. backup'.pc \in {"idle", "create"} /\ UNCHANGED <<runs, archive, admin>>
      BY <1>4 DEF BackupFind, NoBackup, scheduleVars
    <2> QED BY <2>1, RetentionQuiet
  <1>5. CASE BackupCreate
    <2>1. CASE backupJob.present /\ started < MaxRuns
      <3>0. PICK k : k = started + 1
        OBVIOUS
      <3>1. k \in Runs /\ k \notin Used /\ started \in Nat /\ \A s \in 1..started : s \in Used
        BY <1>a, <2>1, <3>0, StartedIs, NextRunIsNew DEF Runs, BackupsAssumption
      <3>2. /\ runs' = [runs EXCEPT ![k] = [status |-> "running", file |-> FALSE]]
            /\ backup' = [backup EXCEPT !.pc = "dump", !.run = k] /\ UNCHANGED <<archive, admin>>
        BY <1>5, <2>1, <3>0 DEF BackupCreate, scheduleVars
      <3>3. runs'[k].status = "running" /\ \A r \in Runs \ {k} : runs'[r] = runs[r]
        BY <1>a, <3>1, <3>2
      <3>4. Successes' = Successes
        BY <3>1, <3>3 DEF Successes, Used
      <3>5. Used' = Used \cup {k}
        BY <3>1, <3>3 DEF Used
      <3>6. Order'
        <4>1. \A r \in Used : r \in Nat
          BY DEF Used, Runs
        <4>2. \A s \in 1..k : s \in Used'
          BY <3>0, <3>1, <3>5
        <4> QED BY <1>a, <3>5, <4>2
      <3>7. Listed'
        BY <1>a, <3>1, <3>2, <3>3 DEF Used
      <3>8. Whole <=> Whole'
        BY <3>2, <3>4 DEF Newest
      <3>9. backup'.pc = "dump" /\ backup'.run = k
        BY <1>a, <3>2 DEF BackupWorkers
      <3> QED BY <1>a, <1>b, <3>1, <3>3, <3>6, <3>7, <3>8, <3>9 DEF Retention
    <2>2. CASE ~(backupJob.present /\ started < MaxRuns)
      <3>1. backup'.pc = "idle" /\ UNCHANGED <<runs, archive, admin>>
        BY <1>5, <2>2 DEF BackupCreate, NoBackup, scheduleVars
      <3> QED BY <3>1, RetentionQuiet
    <2> QED BY <2>1, <2>2
  <1>6. CASE BackupDump \/ BackupPack
    <2>0. PICK k : k = backup.run
      OBVIOUS
    <2>1. k \in Runs /\ runs[k].status \in {"running", "deleted"} /\ UNCHANGED <<runs, admin>>
      BY <1>6, <2>0 DEF BackupDump, BackupPack, Retention, scheduleVars
    <2>2. \A r \in Runs \ {k} : archive'[r] = archive[r]
      BY <1>6, <1>a, <2>0 DEF BackupDump, BackupPack
    <2>3. Successes' = Successes /\ k \notin Successes /\ Used' = Used
      BY <2>1 DEF Successes, Used
    <2>4. Whole => Whole'
      BY <1>c, <2>2, <2>3 DEF Newest
    <2>5. Order' /\ Listed'
      BY <1>a, <2>1, <2>3
    <2>6. /\ backup'.run = k /\ backup'.pc \in {"pack", "fail", "success"}
          /\ backup'.pc = "success" => archive'[k] = "whole"
      BY <1>6, <1>a, <2>0, <2>1 DEF BackupDump, BackupPack, BackupWorkers
    <2>7. OthersWhole'
      BY <1>a, <1>d, <2>1, <2>3, <2>4, <2>6
    <2> QED BY <1>a, <1>b, <2>1, <2>4, <2>5, <2>6, <2>7 DEF Retention
  <1>7. CASE BackupSuccess
    <2>0. PICK k : k = backup.run
      OBVIOUS
    <2>1. /\ k \in Runs /\ runs[k].status \in {"running", "deleted"} /\ UNCHANGED <<archive, admin>>
          /\ runs[k].status = "running" => archive[k] = "whole"
      BY <1>7, <2>0 DEF BackupSuccess, Retention, scheduleVars
    <2>2. CASE backup'.pc = "idle" /\ UNCHANGED runs
      BY <2>1, <2>2, RetentionQuiet
    <2>3. CASE /\ runs[k].status = "running"
               /\ runs' = [runs EXCEPT ![k] = [status |-> "success", file |-> TRUE]]
               /\ backup' = [backup EXCEPT !.pc = "retain"]
      <3>2. runs'[k].status = "success" /\ \A r \in Runs \ {k} : runs'[r] = runs[r]
        BY <1>a, <2>1, <2>3
      <3>3. Successes' = Successes \cup {k} /\ Used' = Used /\ k \notin Successes
        BY <2>1, <2>3, <3>2 DEF Successes, Used
      <3>4. Newest(Successes \cup {k}) \subseteq Newest(Successes) \cup {k}
        BY <1>c, <2>1, NewestShrinks
      <3>5. Newest(Successes)' = Newest(Successes \cup {k})
        BY <3>3 DEF Newest
      <3>6. Whole => Whole'
        BY <2>1, <2>3, <3>4, <3>5
      <3>7. Order' /\ Listed'
        BY <1>a, <2>1, <2>3, <3>2, <3>3
      <3>8. backup'.pc = "retain" /\ backup'.run = k
        BY <1>a, <2>0, <2>3 DEF BackupWorkers
      <3>9. OthersWhole'
        <4>1. Successes' \ {backup'.run} = Successes
          BY <3>3, <3>8
        <4> QED BY <1>a, <2>1, <4>1 DEF OthersWhole
      <3> QED BY <1>a, <1>b, <2>1, <3>2, <3>6, <3>7, <3>8, <3>9 DEF Retention
    <2>4. CASE backup' = [backup EXCEPT !.pc = "fail"] /\ UNCHANGED runs
      <3>1. backup'.pc = "fail" /\ backup'.run = k
        BY <1>a, <2>0, <2>4 DEF BackupWorkers
      <3>2. Successes' = Successes /\ Used' = Used /\ k \notin Successes
        BY <2>1, <2>4 DEF Successes, Used
      <3>3. Whole <=> Whole'
        BY <2>1, <3>2 DEF Newest
      <3>4. OthersWhole'
        BY <1>a, <1>d, <2>1, <3>1, <3>2, <3>3
      <3>5. Order' /\ Listed'
        BY <1>a, <2>1, <2>4, <3>2
      <3> QED BY <1>a, <1>b, <2>1, <2>4, <3>1, <3>3, <3>4, <3>5 DEF Retention
    <2> QED BY <1>7, <2>0, <2>1, <2>2, <2>3, <2>4 DEF BackupSuccess, Rejected, Present, NoBackup
  <1>8. CASE BackupFail
    <2>0. PICK k : k = backup.run
      OBVIOUS
    <2>1. /\ k \in Runs /\ runs[k].status # "none" /\ OthersWhole /\ UNCHANGED <<archive, admin>>
          /\ backup'.pc = "idle"
      BY <1>8, <2>0 DEF BackupFail, Retention, scheduleVars, NoBackup
    <2>2. CASE UNCHANGED runs
      BY <2>1, <2>2, RetentionQuiet
    <2>3. CASE runs' = [runs EXCEPT ![k].status = IF Present(k) THEN "failed" ELSE @]
      <3>1. runs'[k].status \in {"failed", "deleted"} /\ \A r \in Runs \ {k} : runs'[r] = runs[r]
        BY <1>a, <2>1, <2>3 DEF Present, RunRows
      <3>2. Successes' = Successes \ {k} /\ Used' = Used
        BY <2>1, <3>1 DEF Successes, Used
      <3>3. Unharmed' => Whole'
        <4>1. Newest(Successes)' = Newest(Successes \ {k})
          BY <3>2 DEF Newest
        <4> QED BY <1>a, <2>0, <2>1, <4>1 DEF OthersWhole
      <3>4. Order' /\ Listed'
        BY <1>a, <2>1, <3>1, <3>2
      <3> QED BY <1>a, <1>b, <2>1, <3>3, <3>4 DEF Retention
    <2> QED BY <1>8, <2>0, <2>2, <2>3 DEF BackupFail
  <1>9. CASE Retain
    <2>0. PICK k : k = backup.run
      OBVIOUS
    <2>1. /\ backup.pc = "retain" /\ k \in Runs /\ runs[k].status # "none" /\ OthersWhole
          /\ UNCHANGED <<runs, archive, admin>>
      BY <1>9, <2>0 DEF Retain, Rejected, Retention, scheduleVars
    <2>2. Successes' = Successes /\ Used' = Used
      BY <2>1 DEF Successes, Used
    <2>3. Newest(Successes)' = Newest(Successes)
      BY <2>2 DEF Newest
    <2>4. CASE backup' = [backup EXCEPT !.pc = "file", !.doomed = Expendable(Successes)]
      <3>1. backup'.pc = "file" /\ backup'.doomed \cap Newest(Successes) = {}
        BY <1>a, <2>4 DEF BackupWorkers, Expendable
      <3> QED BY <1>a, <1>b, <2>1, <2>2, <2>3, <3>1 DEF Retention
    <2>5. CASE backup' = [backup EXCEPT !.pc = "fail"]
      <3>1. backup'.pc = "fail" /\ backup'.run = k
        BY <1>a, <2>0, <2>5 DEF BackupWorkers
      <3>2. OthersWhole'
        <4>1. Successes' \ {backup'.run} = Successes \ {backup.run}
          BY <2>0, <2>2, <3>1
        <4> QED BY <1>a, <2>1, <4>1 DEF OthersWhole
      <3> QED BY <1>a, <1>b, <2>1, <2>2, <2>3, <3>1, <3>2 DEF Retention
    <2> QED BY <1>9, <2>4, <2>5 DEF Retain, Rejected
  <1>10. CASE RetainFile
    <2>0. backup.pc = "file" /\ UNCHANGED <<runs, admin>> /\ backup.doomed \cap Newest(Successes) = {}
      BY <1>10 DEF RetainFile, scheduleVars, Retention
    <2>1. CASE backup.doomed = {}
      <3>1. backup'.pc = "idle" /\ UNCHANGED archive
        BY <1>10, <2>1 DEF RetainFile, NoBackup
      <3> QED BY <2>0, <3>1, RetentionQuiet
    <2>2. CASE backup.doomed # {}
      <3>1. PICK r \in backup.doomed : /\ archive' = [archive EXCEPT ![r] = "none"]
                                       /\ backup' = [backup EXCEPT !.pc = "delrow", !.run = r]
        BY <1>10, <2>2 DEF RetainFile
      <3>2. Successes' = Successes /\ Used' = Used
        BY <2>0 DEF Successes, Used
      <3>3. Newest(Successes)' = Newest(Successes)
        BY <3>2 DEF Newest
      <3>4. \A n \in Newest(Successes) : archive'[n] = archive[n]
        BY <1>a, <1>c, <2>0, <3>1
      <3>5. backup'.pc = "delrow" /\ backup'.run = r /\ backup'.doomed = backup.doomed
        BY <1>a, <3>1 DEF BackupWorkers
      <3> QED BY <1>a, <1>b, <2>0, <3>1, <3>2, <3>3, <3>4, <3>5 DEF Retention
    <2> QED BY <2>1, <2>2
  <1>11. CASE RetainRow
    <2>0. PICK k : k = backup.run
      OBVIOUS
    <2>1. /\ backup.pc = "delrow" /\ k \in backup.doomed /\ k \in Runs /\ k \notin Newest(Successes)
          /\ backup.doomed \cap Newest(Successes) = {} /\ UNCHANGED <<archive, admin>>
      BY <1>11, <1>a, <2>0 DEF RetainRow, scheduleVars, Retention, BackupWorkers
    <2>8. backup'.pc = "file" /\ backup'.doomed \subseteq backup.doomed
      BY <1>11, <1>a DEF RetainRow, BackupWorkers
    <2>a. CASE UNCHANGED runs
      <3>1. Successes' = Successes /\ Used' = Used
        BY <2>a DEF Successes, Used
      <3>2. Newest(Successes)' = Newest(Successes)
        BY <3>1 DEF Newest
      <3> QED BY <1>a, <1>b, <2>1, <2>8, <2>a, <3>1, <3>2 DEF Retention
    <2> SUFFICES ASSUME runs' # runs PROVE Retention'
      BY <2>a
    <2>2. runs' = [runs EXCEPT ![k] = [Gone(runs[k]) EXCEPT !.file = FALSE]]
      BY <1>11, <2>0 DEF RetainRow
    <2>3. /\ runs'[k].status = (IF runs[k].status = "none" THEN "none" ELSE "deleted")
          /\ \A r \in Runs \ {k} : runs'[r] = runs[r]
      BY <1>a, <2>1, <2>2 DEF Gone, RunRows
    <2>4. Successes' = Successes \ {k} /\ Used' = Used
      BY <2>1, <2>3 DEF Successes, Used
    <2>5. Newest(Successes \ {k}) \subseteq Newest(Successes)
      BY <1>c, <2>1, NewestShrinks
    <2>6. Newest(Successes)' = Newest(Successes \ {k})
      BY <2>4 DEF Newest
    <2>7. Order' /\ Listed'
      BY <1>a, <2>1, <2>3, <2>4
    <2>9. backup'.doomed \cap Newest(Successes)' = {}
      BY <2>1, <2>5, <2>6, <2>8
    <2> QED BY <1>a, <1>b, <2>1, <2>5, <2>6, <2>7, <2>8, <2>9 DEF Retention
  <1>12. ASSUME NEW q \in Requests, DeleteFiles(q) PROVE Retention'
    <2>1. /\ archive' = [r \in Runs |-> IF r \in admin[q].files THEN "none" ELSE archive[r]]
          /\ UNCHANGED <<runs, backup>> /\ admin'[q].pc = "unscheduleDelete"
          /\ \A p \in Requests : admin'[p].files = admin[p].files
      BY <1>12 DEF DeleteFiles, Remove, BackupsTyped, ScheduleTyped, AdminRows
    <2>2. ~Unharmed'
      BY <2>1 DEF Unharmed
    <2>3. Successes' = Successes /\ Used' = Used
      BY <2>1 DEF Successes, Used
    <2>4. Newest(Successes)' = Newest(Successes)
      BY <2>3 DEF Newest
    <2>5. \A r \in Runs : runs[r].status = "running" => archive'[r] = archive[r]
      BY <1>a, <2>1
    <2>6. Listed'
      BY <1>a, <2>1
    <2>7. OthersWhole'
      BY <2>2 DEF OthersWhole
    <2> QED BY <1>a, <1>b, <2>1, <2>2, <2>3, <2>4, <2>5, <2>6, <2>7 DEF Retention
  <1>13. ASSUME NEW q \in Requests, DeleteJobRow(q) PROVE Retention'
    <2>1. /\ runs' = [r \in Runs |-> [Gone(runs[r]) EXCEPT !.file = FALSE]] /\ ~backupJob'.present
          /\ UNCHANGED <<archive, backup>> /\ \A p \in Requests : admin'[p].files = admin[p].files
      BY <1>13 DEF DeleteJobRow, BackupsTyped, ScheduleTyped, AdminRows, Jobs
    <2>2. \A r \in Runs : runs'[r].status = IF runs[r].status = "none" THEN "none" ELSE "deleted"
      BY <1>a, <2>1 DEF Gone, RunRows
    <2>3. Successes' = {} /\ Used' = Used
      BY <2>2 DEF Successes, Used
    <2>4. Newest(Successes)' = {} /\ ~Unharmed'
      BY <2>1, <2>3 DEF Newest, Unharmed
    <2>5. Listed'
      <3>1. ASSUME NEW p \in Requests, NEW r \in admin'[p].files PROVE runs'[r].status \notin {"none", "running"}
        <4>1. r \in admin[p].files /\ r \in Runs
          BY <1>a, <2>1
        <4> QED BY <1>a, <2>2, <4>1
      <3> QED BY <3>1
    <2>6. OthersWhole' /\ NewestRunsRestorable'
      BY <2>4 DEF OthersWhole, NewestRunsRestorable
    <2>7. /\ \A r \in Used' : \A s \in 1..r : s \in Used'
          /\ \A r \in Runs : runs[r].status \in {"running", "deleted"} => runs'[r].status = "deleted"
          /\ \A r \in Runs : runs[r].status # "none" => runs'[r].status # "none"
      BY <1>a, <2>2, <2>3
    <2>8. backup'.doomed \cap Newest(Successes)' = {} /\ backup' = backup
      BY <2>1, <2>4
    <2> QED BY <1>a, <2>5, <2>6, <2>7, <2>8 DEF Retention
  <1>14. ASSUME NEW q \in Requests, ChangeFails(q) PROVE Retention'
    <2>0. PICK files \in SUBSET admin[q].files :
            IF admin[q].pc = "files" THEN Remove(files) ELSE UNCHANGED archive
      BY <1>14 DEF ChangeFails
    <2>1. /\ UNCHANGED <<runs, backup>> /\ wounded' = (wounded \/ admin[q].pc \in Deleting)
          /\ \A p \in Requests : admin'[p].files \subseteq admin[p].files
      BY <1>14 DEF ChangeFails, NoAdmin, BackupsTyped, ScheduleTyped
    <2>2. CASE admin[q].pc = "files"
      <3>1. ~Unharmed'
        BY <2>1, <2>2 DEF Unharmed, Deleting
      <3>2. \A r \in Runs : archive'[r] = archive[r] \/ r \in admin[q].files
        BY <1>a, <2>0, <2>2 DEF Remove
      <3>3. Successes' = Successes /\ Used' = Used
        BY <2>1 DEF Successes, Used
      <3>4. Newest(Successes)' = Newest(Successes)
        BY <3>3 DEF Newest
      <3>5. \A r \in Runs : runs[r].status = "running" => archive'[r] = archive[r]
        BY <1>a, <3>2
      <3>6. Listed'
        BY <1>a, <2>1
      <3>7. OthersWhole'
        BY <3>1 DEF OthersWhole
      <3> QED BY <1>a, <1>b, <2>1, <3>1, <3>3, <3>4, <3>5, <3>6, <3>7 DEF Retention
    <2>3. CASE admin[q].pc # "files"
      BY <2>0, <2>1, <2>3, RetentionQuiet
    <2> QED BY <2>2, <2>3
  <1> QED
    BY <1>1, <1>2, <1>3, <1>4, <1>5, <1>6, <1>7, <1>8, <1>9, <1>10, <1>11, <1>12, <1>13, <1>14
    DEF BootFails, BackupsNext, BackupsWork, BootList, BootPrune, BootAdd, Trigger, CreateRestore, EnqueueRestore,
        PickRestore, EndRestore, AskRestore, runVars, scheduleVars

\* It holds at first.
LEMMA BackupsBegin == ASSUME BackupsAssumption, ProtectInit PROVE BackupsInv
  <1>0. /\ NoAdmin \in AdminRows(AdminPcs) /\ NoAdmin.pc = "unused" /\ NoAdmin.files = {} /\ NoAdmin.schedule \in Schedules
        /\ [NoAdmin EXCEPT !.pc = "done"] \in AdminRows(BooterPcs)
        /\ [NoAdmin EXCEPT !.pc = "done"].pc = "done" /\ 0 \in 0..MaxRuns
    <2>1. (CHOOSE s \in Schedules : TRUE) \in Schedules
      BY DEF BackupsAssumption
    <2>2. PICK c \in Schedules : c = CHOOSE s \in Schedules : TRUE
      BY <2>1
    <2>3. NoAdmin = [pc |-> "unused", schedule |-> c, active |-> FALSE, files |-> {}]
      BY <2>2 DEF NoAdmin
    <2>4. NoAdmin \in AdminRows(AdminPcs) /\ [NoAdmin EXCEPT !.pc = "done"] \in AdminRows(BooterPcs)
      BY <2>3 DEF AdminRows, AdminPcs, BooterPcs
    <2> QED BY <2>3, <2>4 DEF BackupsAssumption
  <1>1. PICK s \in Schedules : /\ backupJob = [present |-> TRUE, active |-> TRUE, schedule |-> s]
                               /\ repeatables = Fires(s)
    BY DEF ProtectInit, BackupsInit
  <1>2. ScheduleTyped
    <2>1. repeatables \subseteq Schedules
      BY <1>1 DEF Fires
    <2> QED BY <1>0, <1>1, <2>1 DEF ProtectInit, BackupsInit, ScheduleTyped, Jobs
  <1>3. RunsTyped
    <2>1. NoRun \in RunRows /\ NoRun.file = FALSE /\ NoBackup \in BackupWorkers
      BY <1>0 DEF NoRun, RunRows, NoBackup, BackupWorkers, BackupPcs
    <2> QED BY <2>1 DEF ProtectInit, BackupsInit, RunsTyped
  <1>5. OneChange
    <2>1. \A q \in Requests : admin[q] = NoAdmin
      BY DEF ProtectInit, BackupsInit
    <2>2. AdminsInFlight = {} /\ booter.pc = "done"
      BY <1>0, <2>1 DEF ProtectInit, BackupsInit, AdminsInFlight
    <2>3. repeatables = Scheduled
      BY <1>1 DEF Scheduled
    <2> QED BY <1>0, <2>1, <2>2, <2>3 DEF OneChange, BooterInFlight
  <1>6. Retention
    <2>1. Used = {} /\ Successes = {}
      BY DEF ProtectInit, BackupsInit, Used, Successes, NoRun
    <2>2. Newest(Successes) = {} /\ backup.pc = "idle"
      BY <2>1 DEF Newest, ProtectInit, BackupsInit, NoBackup
    <2>3. \A q \in Requests : admin[q].files = {}
      BY <1>0 DEF ProtectInit, BackupsInit
    <2> QED BY <2>1, <2>2, <2>3 DEF Retention, NewestRunsRestorable
  <1>8. dialog \in DialogRows
    BY <1>0 DEF ProtectInit, NoDialog, DialogRows, Dialogs
  <1> QED BY <1>2, <1>3, <1>5, <1>6, <1>8 DEF BackupsInv, BackupsTyped

\* The conjunction is invariant in every behaviour.
LEMMA BackupsInvariance == ProtectSpec => []BackupsInv
  <1>1. ProtectInit => BackupsInv
    BY BackupsBegin, BackupsAssumption
  <1>2. BackupsInv /\ BackupsNext /\ dialog' \in DialogRows => BackupsInv'
    BY ScheduleKeepsTypes, RunsKeepTypes, ScheduleFollows, RetentionKeeps, BackupsAssumption DEF BackupsInv, BackupsTyped
  <1>3. BackupsInv /\ UNCHANGED backupVars /\ dialog' \in DialogRows => BackupsInv'
    <2> SUFFICES ASSUME BackupsInv, UNCHANGED backupVars, dialog' \in DialogRows PROVE BackupsInv'
      OBVIOUS
    <2>1. BackupsTyped'
      BY DEF BackupsInv, BackupsTyped, ScheduleTyped, RunsTyped, backupVars
    <2>2. OneChange'
      BY DEF BackupsInv, OneChange, backupVars, AdminsInFlight, BooterInFlight, Races, Knows, Scheduled
    <2>3. Retention'
      BY DEF BackupsInv, Retention, backupVars, Used, Newest, Successes, NewestRunsRestorable,
            OthersWhole, Unharmed
    <2> QED BY <2>1, <2>2, <2>3 DEF BackupsInv
  <1>4. BackupsInv /\ ProtectNext => BackupsInv'
    BY <1>2, <1>3, PageSteps, BackupsAssumption DEF BackupsInv, BackupsTyped, ScheduleTyped
  <1>5. BackupsInv /\ UNCHANGED <<backupVars, protectVars>> => BackupsInv'
    BY <1>3 DEF BackupsInv, protectVars
  <1> QED BY <1>1, <1>4, <1>5, PTL DEF ProtectSpec

\* Whatever requests, deletions, failing tools and crashes there are, and with the page open or
\* closed, retention leaves the newest runs their archives (backup.job.ts:127).
THEOREM RetentionSparesNewest == ProtectSpec => []NewestRunsRestorable
  <1>1. BackupsInv => NewestRunsRestorable
    BY DEF BackupsInv, Retention
  <1> QED BY <1>1, BackupsInvariance, PTL

\* BullMQ fires the job as its row says, if that is a pattern, once no change of it is under way, unless two
\* overlapped or one failed or died since the last start (routes/backup.ts:86, pivot/scheduler).
THEOREM ScheduleIsRows == ProtectSpec => []ScheduleMatchesRow
  <1>1. BackupsInv => ScheduleMatchesRow
    BY DEF BackupsInv, OneChange, ScheduleMatchesRow, Scheduled
  <1> QED BY <1>1, BackupsInvariance, PTL

-----------------------------------------------------------------------------
(* The gateway implements a channel.  The invariant places the reader: while *)
(* it reads, every packet so far was a negotiation; once it has stopped for a *)
(* route, the last one is the startup message, so the units handed out end   *)
(* where the channel begins.  Units in the reader's buffer and units written *)
(* upstream are then one run of numbers from the startup message's first.    *)

Packets == Negotiations \cup {"startup", "cancel", "junk", "query"}
Phases == {"read", "route", "dial", "piped", "refused", "closed"}

\* The script has a packet that is no negotiation; it is the first such.
Opens(n) == /\ n \in 1..Len(script) /\ script[n] \notin Negotiations
            /\ \A k \in 1..(n - 1) : script[k] \in Negotiations

Counts ==
    /\ script \in Seq(Packets) /\ (\E n \in 1..Len(script) : Opens(n))
    /\ put \in Nat /\ got \in Nat /\ taken \in Nat /\ round \in Nat
    /\ taken <= got /\ got <= put /\ put <= Units
    /\ phase \in Phases

\* Where the reader is.
Reading == phase = "read" => /\ taken = 2 * round
                             /\ \A k \in 1..round : script[k] \in Negotiations
Stopped == phase \in {"route", "dial", "piped"} =>
               /\ round >= 1 /\ taken = 2 * round
               /\ script[round] = "startup" /\ Opens(round)

\* The units from one to another.
From(a, b) == [i \in 1..(b - a + 1) |-> a + i - 1]

Written == /\ phase \in {"read", "route", "dial"} => upstream = <<>>
           /\ phase = "piped" => upstream = From(taken - 1, got)

GInv == Counts /\ Reading /\ Stopped /\ Written

-----------------------------------------------------------------------------
(* Sequences.                                                                *)

\* A run of units is a sequence of that length.
LEMMA FromIsSeq ==
  ASSUME NEW a \in Nat, NEW b \in Nat, a <= b + 1
  PROVE  /\ From(a, b) \in Seq(Nat)
         /\ Len(From(a, b)) = b - a + 1
         /\ \A i \in 1..(b - a + 1) : From(a, b)[i] = a + i - 1
  <1> DEFINE n == b - a + 1
  <1>1. n \in Nat
    OBVIOUS
  <1>2. From(a, b) \in [1..n -> Nat]
    BY <1>1 DEF From
  <1>3. From(a, b) \in Seq(Nat)
    BY <1>1, <1>2, SeqDef
  <1>4. DOMAIN From(a, b) = 1..n
    BY <1>2
  <1>5. Len(From(a, b)) = n
    BY <1>1, <1>3, <1>4, LenProperties
  <1> QED
    BY <1>1, <1>3, <1>5 DEF From

\* Two runs, the second where the first ends, are one.
LEMMA FromConcat ==
  ASSUME NEW a \in Nat, NEW b \in Nat, NEW c \in Nat, a <= b + 1, b <= c
  PROVE  From(a, b) \o From(b + 1, c) = From(a, c)
  <1> DEFINE s == From(a, b)
             t == From(b + 1, c)
             u == From(a, c)
  <1>1. /\ s \in Seq(Nat) /\ Len(s) = b - a + 1
        /\ \A i \in 1..(b - a + 1) : s[i] = a + i - 1
    BY FromIsSeq
  <1>2. /\ t \in Seq(Nat) /\ Len(t) = c - b
        /\ \A i \in 1..(c - b) : t[i] = b + i
    <2>1. b + 1 \in Nat /\ b + 1 <= c + 1 /\ c - (b + 1) + 1 = c - b
      OBVIOUS
    <2>2. /\ t \in Seq(Nat) /\ Len(t) = c - (b + 1) + 1
          /\ \A i \in 1..(c - (b + 1) + 1) : t[i] = (b + 1) + i - 1
      BY <2>1, FromIsSeq
    <2> HIDE DEF t
    <2> QED
      BY <2>1, <2>2
  <1>3. /\ u \in Seq(Nat) /\ Len(u) = c - a + 1
        /\ \A i \in 1..(c - a + 1) : u[i] = a + i - 1
    <2>1. a <= c + 1
      OBVIOUS
    <2> QED
      BY <2>1, FromIsSeq
  <1> HIDE DEF s, t, u
  <1>4. /\ s \o t \in Seq(Nat) /\ Len(s \o t) = Len(s) + Len(t)
        /\ \A i \in 1..(Len(s) + Len(t)) :
             (s \o t)[i] = IF i <= Len(s) THEN s[i] ELSE t[i - Len(s)]
    BY <1>1, <1>2, ConcatProperties
  <1>5. Len(s \o t) = Len(u)
    BY <1>1, <1>2, <1>3, <1>4
  <1>6. ASSUME NEW i \in 1..Len(s \o t)
        PROVE  (s \o t)[i] = u[i]
    <2>1. CASE i <= Len(s)
      BY <2>1, <1>1, <1>2, <1>3, <1>4
    <2>2. CASE ~(i <= Len(s))
      <3>1. i - Len(s) \in 1..(c - b)
        BY <2>2, <1>1, <1>2, <1>4
      <3>2. (s \o t)[i] = t[i - Len(s)]
        BY <2>2, <1>4
      <3> QED
        BY <3>1, <3>2, <1>1, <1>2, <1>3, <1>4
    <2> QED
      BY <2>1, <2>2
  <1>7. s \o t = u
    BY <1>3, <1>4, <1>5, <1>6, SeqEqual
  <1> QED
    BY <1>7 DEF s, t, u

\* What the code appends is such a run.
LEMMA Appended ==
  ASSUME NEW b \in Nat, NEW c \in Nat, b <= c
  PROVE  [i \in 1..(c - b) |-> b + i] = From(b + 1, c)
  <1>1. c - (b + 1) + 1 = c - b
    OBVIOUS
  <1>2. \A i \in 1..(c - b) : b + i = (b + 1) + i - 1
    OBVIOUS
  <1> QED
    BY <1>1, <1>2 DEF From

-----------------------------------------------------------------------------
(* The script.                                                               *)

\* Whatever the openings, the script is a sequence of packets with a first one that is no
\* negotiation.
LEMMA ScriptOpens ==
  ASSUME PgGatewayAssumption, GatewayInit
  PROVE  script \in Seq(Packets) /\ \E n \in 1..Len(script) : Opens(n)
  <1>1. PICK o \in Openings, m \in {"startup", "cancel", "junk"} :
           script = o \o <<m>> \o Queries
    BY DEF GatewayInit
  <1>2. o \in Seq(Negotiations)
    <2>1. [i \in 1..Rounds |-> "gss"] \in Seq(Negotiations)
      <3>1. [i \in 1..Rounds |-> "gss"] \in [1..Rounds -> Negotiations]
        BY DEF Negotiations
      <3> QED
        BY <3>1, SeqDef DEF PgGatewayAssumption
    <2>2. /\ <<>> \in Seq(Negotiations) /\ <<"ssl">> \in Seq(Negotiations)
          /\ <<"gss">> \in Seq(Negotiations) /\ <<"gss", "ssl">> \in Seq(Negotiations)
          /\ <<"ssl", "gss">> \in Seq(Negotiations)
      BY DEF Negotiations
    <2> QED
      BY <2>1, <2>2 DEF Openings
  <1>3. Queries \in Seq(Packets)
    <2>1. Queries \in [1..MaxQueries -> Packets]
      BY DEF Queries, Packets
    <2> QED
      BY <2>1, SeqDef DEF PgGatewayAssumption
  <1>4. o \in Seq(Packets)
    BY <1>2, SeqMonotonic DEF Packets
  <1>5. <<m>> \in Seq(Packets) /\ Len(<<m>>) = 1 /\ <<m>>[1] = m
    BY DEF Packets
  <1> DEFINE n == Len(o) + 1
             head == o \o <<m>>
  <1>6. /\ head \in Seq(Packets) /\ Len(head) = n
        /\ \A i \in 1..n : head[i] = IF i <= Len(o) THEN o[i] ELSE <<m>>[i - Len(o)]
    BY <1>4, <1>5, ConcatProperties
  <1>7. Len(o) \in Nat /\ \A k \in 1..Len(o) : o[k] \in Negotiations
    BY <1>2, LenProperties, ElementOfSeq
  <1> HIDE DEF head
  <1>8. script = head \o Queries
    BY <1>1 DEF head
  <1>9. /\ script \in Seq(Packets) /\ Len(script) = Len(head) + Len(Queries)
        /\ \A i \in 1..(Len(head) + Len(Queries)) :
             script[i] = IF i <= Len(head) THEN head[i] ELSE Queries[i - Len(head)]
    BY <1>3, <1>6, <1>8, ConcatProperties
  <1>10. Len(Queries) \in Nat
    BY <1>3, LenProperties
  <1>11. n \in 1..Len(script) /\ \A i \in 1..n : script[i] = head[i]
    BY <1>6, <1>7, <1>9, <1>10
  <1>12. script[n] = m
    BY <1>5, <1>6, <1>7, <1>11
  <1>13. \A k \in 1..(n - 1) : script[k] \in Negotiations
    BY <1>6, <1>7, <1>11
  <1> QED
    BY <1>9, <1>11, <1>12, <1>13 DEF Opens, Negotiations

\* It is the packet the channel begins with.
LEMMA MessageIs ==
  ASSUME script \in Seq(Packets), NEW r \in Nat, Opens(r)
  PROVE  Message = r
  <1>1. Len(script) \in Nat
    BY LenProperties
  <1>2. ASSUME NEW n \in 1..Len(script), Opens(n)
        PROVE  n = r
    BY <1>1, <1>2 DEF Opens
  <1>3. Opens(Message)
    BY DEF Message, Opens
  <1> QED
    BY <1>2, <1>3 DEF Opens

\* The channel begins at some unit: at the startup message, if that is where the reader stopped.
LEMMA FirstIs ==
  ASSUME GInv
  PROVE  /\ First \in Nat /\ First >= 1
         /\ phase \in {"route", "dial", "piped"} => First = taken - 1
  <1>1. Len(script) \in Nat
    BY LenProperties DEF GInv, Counts
  <1>2. PICK n \in 1..Len(script) : Opens(n)
    BY DEF GInv, Counts
  <1>3. Message = n
    BY <1>1, <1>2, MessageIs DEF GInv, Counts
  <1>4. First \in Nat /\ First >= 1
    BY <1>1, <1>3 DEF First, Units
  <1>5. ASSUME phase \in {"route", "dial", "piped"}
        PROVE  First = taken - 1
    <2>1. Message = round
      BY <1>5, MessageIs DEF GInv, Counts, Stopped
    <2> QED
      BY <1>5, <2>1 DEF GInv, Stopped, First
  <1> QED
    BY <1>4, <1>5

-----------------------------------------------------------------------------
(* The invariant.                                                            *)

\* The invariant holds of a connection nothing has arrived on.
LEMMA GatewayInitInv == ASSUME PgGatewayAssumption, GatewayInit PROVE GInv
  <1>1. script \in Seq(Packets) /\ \E n \in 1..Len(script) : Opens(n)
    BY ScriptOpens
  <1>2. Len(script) \in Nat
    BY <1>1, LenProperties
  <1>3. put = 0 /\ got = 0 /\ taken = 0 /\ round = 0 /\ phase = "read" /\ upstream = <<>>
    BY DEF GatewayInit
  <1>4. Counts
    BY <1>1, <1>2, <1>3 DEF Counts, Units, Phases
  <1> QED
    BY <1>3, <1>4 DEF GInv, Reading, Stopped, Written

\* What a step does to the script, and to the packets the invariant speaks of.
LEMMA GatewayStepInv == ASSUME PgGatewayAssumption, GInv, [GatewayNext]_gatewayVars PROVE GInv'
  <1> USE DEF GInv, Counts, Phases
  <1>1. Len(script) \in Nat /\ Units \in Nat /\ Units = 2 * Len(script)
    BY LenProperties DEF Units
  <1>2. CASE ClientSends
    BY <1>1, <1>2 DEF ClientSends, Reading, Stopped, Written, Units, Opens
  <1>3. CASE Chunk
    BY <1>1, <1>3 DEF Chunk, Reading, Stopped, Written, Units, Opens
  <1>4. CASE Forward
    <2>1. got' \in Nat /\ got < got' /\ got' <= put
      BY <1>4 DEF Forward
    <2>2. upstream = From(taken - 1, got) /\ taken >= 2
      BY <1>4 DEF Forward, Written, Stopped
    <2>3. upstream' = From(taken - 1, got) \o From(got + 1, got')
      <3>1. [i \in 1..(got' - got) |-> got + i] = From(got + 1, got')
        <4>1. got \in Nat /\ got' \in Nat /\ got <= got'
          BY <2>1
        <4> QED
          BY <4>1, Appended
      <3>2. upstream' = upstream \o [i \in 1..(got' - got) |-> got + i]
        BY <1>4 DEF Forward
      <3> QED
        BY <2>2, <3>1, <3>2
    <2>4. From(taken - 1, got) \o From(got + 1, got') = From(taken - 1, got')
      <3>1. taken - 1 \in Nat /\ taken - 1 <= got + 1 /\ got <= got'
        BY <2>1, <2>2
      <3> QED
        BY <2>1, <3>1, FromConcat
    <2>5. Written'
      BY <1>4, <2>3, <2>4 DEF Forward, Written, From
    <2> QED
      BY <1>1, <1>4, <2>1, <2>5 DEF Forward, Reading, Stopped, Units, Opens
  <1>5. CASE Negotiate
    <2> DEFINE p == PacketOf(taken + 1)
    <2>1. taken = 2 * round /\ round + 1 \in 1..Len(script)
      BY <1>1, <1>5 DEF Negotiate, Reading
    <2>2. (taken + 2) \div 2 = round + 1
      BY <2>1
    <2>3. p = script[round + 1]
      BY <2>1, <2>2 DEF PacketOf
    <2>4. /\ round' = round + 1 /\ taken' = taken + 2
          /\ UNCHANGED <<script, put, got, upstream>>
          /\ phase' \in {"read", "route", "closed"}
          /\ phase' = "read" => p \in Negotiations
          /\ phase' = "route" => p = "startup"
      BY <1>5 DEF Negotiate
    <2>5. Counts'
      BY <1>1, <1>5, <2>1, <2>4 DEF Negotiate, Units, Opens
    <2>6. Reading'
      BY <1>5, <2>1, <2>3, <2>4 DEF Negotiate, Reading
    <2>7. Stopped'
      BY <1>5, <2>1, <2>3, <2>4 DEF Negotiate, Reading, Stopped, Opens, Negotiations
    <2>8. Written'
      BY <1>5, <2>4 DEF Negotiate, Written
    <2> QED
      BY <2>5, <2>6, <2>7, <2>8
  <1>6. CASE Resolve
    BY <1>1, <1>6 DEF Resolve, Reading, Stopped, Written, Units, Opens
  <1>7. CASE Connect
    <2>1. taken >= 2 /\ taken <= got
      BY <1>7 DEF Connect, Stopped
    <2>2. <<taken - 1, taken>> = From(taken - 1, taken)
      <3>1. taken - (taken - 1) + 1 = 2
        BY <2>1
      <3>2. From(taken - 1, taken) = [i \in 1..2 |-> taken - 1 + i - 1]
        BY <3>1 DEF From
      <3> QED
        BY <2>1, <3>2
    <2>3. upstream' = From(taken - 1, taken) \o From(taken + 1, got)
      BY <1>7, <2>1, <2>2, Appended DEF Connect
    <2>4. From(taken - 1, taken) \o From(taken + 1, got) = From(taken - 1, got)
      <3>1. taken - 1 \in Nat /\ taken \in Nat /\ got \in Nat /\ taken - 1 <= taken + 1
        BY <2>1
      <3> QED
        BY <2>1, <3>1, FromConcat
    <2>5. Written'
      BY <1>7, <2>3, <2>4 DEF Connect, Written, From
    <2> QED
      BY <1>1, <1>7, <2>5 DEF Connect, Reading, Stopped, Units, Opens
  <1>8. CASE UpstreamError
    BY <1>1, <1>8 DEF UpstreamError, Reading, Stopped, Written, Units, Opens
  <1>9. CASE HangUp
    BY <1>1, <1>9 DEF HangUp, Reading, Stopped, Written, Units, Opens
  <1>10. CASE UNCHANGED gatewayVars
    BY <1>1, <1>10 DEF gatewayVars, Reading, Stopped, Written, Units, Opens
  <1> QED
    BY <1>2, <1>3, <1>4, <1>5, <1>6, <1>7, <1>8, <1>9, <1>10 DEF GatewayNext

\* The invariant holds throughout: the reader stands where the packets read so far end, and what
\* the container has received is one run of units from the startup message's first
\* (src/backend/src/services/pgGateway.js:150-247).
THEOREM GatewayInvariant == GatewaySpec => []GInv
  <1>1. GatewayInit => GInv
    BY GatewayInitInv, PgGatewayAssumption
  <1>2. GInv /\ [GatewayNext]_gatewayVars => GInv'
    BY GatewayStepInv, PgGatewayAssumption
  <1> QED
    BY <1>1, <1>2, PTL DEF GatewaySpec

-----------------------------------------------------------------------------
(* The refinement.                                                           *)

\* What the mapping says of the channel's state.
Sent == IF put < First THEN 0 ELSE put - First + 1
Got == [i \in 1..Len(upstream) |-> upstream[i] - First + 1]
Over == phase \in {"refused", "closed"}

\* The first n units of the channel.
Ones(n) == [i \in 1..n |-> i]

Landed == phase = "piped" => Got = Ones(got - First + 1)

\* Before the pipe nothing is delivered; piped, the first units that reached the gateway.
LEMMA GotIs ==
  ASSUME GInv
  PROVE  /\ phase \in {"read", "route", "dial"} => Got = <<>> /\ Len(Got) = 0
         /\ phase = "piped" => /\ Got = Ones(got - First + 1)
                               /\ Len(Got) = got - First + 1
  <1>1. ASSUME phase \in {"read", "route", "dial"}
        PROVE  Got = <<>> /\ Len(Got) = 0
    BY <1>1 DEF GInv, Written, Got
  <1>2. ASSUME phase = "piped"
        PROVE  Got = Ones(got - First + 1) /\ Len(Got) = got - First + 1
    <2>1. First = taken - 1 /\ First \in Nat /\ First <= got + 1 /\ got \in Nat
      BY <1>2, FirstIs DEF GInv, Counts, Stopped
    <2>2. upstream = From(First, got)
      BY <1>2, <2>1 DEF GInv, Written
    <2> DEFINE n == got - First + 1
    <2>3. /\ Len(upstream) = n
          /\ \A i \in 1..n : upstream[i] = First + i - 1
      BY <2>1, <2>2, FromIsSeq
    <2>4. Got = Ones(n)
      <3>1. \A i \in 1..n : upstream[i] - First + 1 = i
        BY <2>1, <2>3
      <3> QED
        BY <2>3, <3>1 DEF Got, Ones
    <2>5. n \in Nat
      BY <2>1
    <2>6. Ones(n) \in Seq(Nat) /\ DOMAIN Ones(n) = 1..n
      BY <2>5, SeqDef DEF Ones
    <2>7. Len(Ones(n)) = n
      BY <2>5, <2>6, LenProperties
    <2> QED
      BY <2>4, <2>7
  <1> QED
    BY <1>1, <1>2

\* The initial states of the gateway are initial states of the channel.
LEMMA GatewayInitPipe == ASSUME PgGatewayAssumption, GatewayInit PROVE Pipe!Init
  <1>1. GInv
    BY GatewayInitInv
  <1>2. put = 0 /\ phase = "read"
    BY DEF GatewayInit
  <1>3. Sent = 0
    BY <1>1, <1>2, FirstIs DEF Sent
  <1>4. Got = <<>>
    BY <1>1, <1>2, GotIs
  <1> QED
    BY <1>2, <1>3, <1>4 DEF Pipe!Init, Sent, Got

\* Every step is a step of the channel or none: what the client sends from its startup
\* message on is sent, the connection of the pipe and every chunk it forwards are delivered.
LEMMA GatewayStepPipe ==
  ASSUME PgGatewayAssumption, GInv, Landed', [GatewayNext]_gatewayVars
  PROVE  [Pipe!Next]_(Pipe!channelVars)
  <1> DEFINE Still == UNCHANGED <<Sent, Got, Over>>
             Sends == Sent' = Sent + 1 /\ UNCHANGED <<Got, Over>>
             Ends == ~Over /\ Over' = TRUE /\ UNCHANGED <<Sent, Got>>
             Delivers == /\ ~Over
                         /\ \E n \in (Len(Got) + 1)..Sent : Got' = Ones(n)
                         /\ UNCHANGED <<Sent, Over>>
  <1>1. SUFFICES Still \/ Sends \/ Ends \/ Delivers
    BY DEF Pipe!Next, Pipe!Send, Pipe!Deliver, Pipe!End, Pipe!channelVars, Sent, Got, Over, Ones
  <1>2. First \in Nat /\ First >= 1 /\ put \in Nat /\ got \in Nat /\ taken \in Nat
    BY FirstIs DEF GInv, Counts
  <1>3. script' = script => First' = First
    BY DEF First, Message, Units
  <1>4. ASSUME UNCHANGED <<script, put, upstream>>
        PROVE  UNCHANGED <<Sent, Got>>
    BY <1>3, <1>4 DEF Sent, Got
  <1>5. ASSUME GatewayNext
        PROVE  script' = script
    BY <1>5 DEF GatewayNext, ClientSends, Chunk, Forward, Negotiate, Resolve, Connect,
                UpstreamError, HangUp
  <1>6. CASE ClientSends
    <2>1. put' = put + 1 /\ UNCHANGED <<script, phase, upstream>>
      BY <1>6 DEF ClientSends
    <2>2. UNCHANGED <<Got, Over>>
      BY <1>3, <2>1 DEF Got, Over
    <2>3. Sent' = Sent \/ Sent' = Sent + 1
      BY <1>2, <1>3, <2>1 DEF Sent
    <2> QED
      BY <2>2, <2>3
  <1>7. CASE Chunk
    <2>1. UNCHANGED <<script, put, phase, upstream>>
      BY <1>7 DEF Chunk
    <2> QED
      BY <1>4, <2>1 DEF Over
  <1>8. CASE Forward
    <2>1. /\ phase = "piped" /\ phase' = "piped" /\ UNCHANGED <<script, put, taken>>
          /\ got' \in Nat /\ got < got' /\ got' <= put
      BY <1>2, <1>8 DEF Forward
    <2>2. First = taken - 1 /\ First' = First /\ taken <= got
      BY <1>3, <2>1, FirstIs DEF GInv, Counts
    <2>3. Len(Got) = got - First + 1
      BY <2>1, GotIs
    <2>4. Got' = Ones(got - First + 1)'
      BY <2>1 DEF Landed
    <2>5. Got' = Ones(got' - First + 1)
      BY <2>2, <2>4 DEF Ones
    <2>6. got' - First + 1 \in (Len(Got) + 1)..Sent
      <3>1. Sent = put - First + 1
        BY <1>2, <2>1, <2>2 DEF Sent
      <3>2. \A n \in Nat : got < n /\ n <= put
                => n - First + 1 \in ((got - First + 1) + 1)..(put - First + 1)
        BY <1>2, <2>2
      <3>3. got' - First + 1 \in ((got - First + 1) + 1)..(put - First + 1)
        BY <2>1, <3>2
      <3> QED
        BY <2>3, <3>1, <3>3
    <2>7. Sent' = Sent
      BY <2>1, <2>2 DEF Sent
    <2> QED
      BY <2>1, <2>5, <2>6, <2>7 DEF Over
  <1>9. CASE Negotiate
    <2>1. UNCHANGED <<script, put, upstream>> /\ phase = "read"
      BY <1>9 DEF Negotiate
    <2> QED
      BY <1>4, <2>1 DEF Over
  <1>10. CASE Resolve
    <2>1. UNCHANGED <<script, put, upstream>> /\ phase = "route"
      BY <1>10 DEF Resolve
    <2> QED
      BY <1>4, <2>1 DEF Over
  <1>11. CASE Connect
    <2>1. phase = "dial" /\ phase' = "piped" /\ UNCHANGED <<script, put, taken, got>>
      BY <1>11 DEF Connect
    <2>2. First = taken - 1 /\ First' = First /\ taken <= got /\ got <= put
      BY <1>3, <2>1, FirstIs DEF GInv, Counts
    <2>3. Len(Got) = 0
      BY <2>1, GotIs
    <2>4. Got' = Ones(got - First + 1)'
      BY <2>1 DEF Landed
    <2>5. Got' = Ones(got - First + 1)
      BY <2>1, <2>2, <2>4 DEF Ones
    <2>6. got - First + 1 \in (Len(Got) + 1)..Sent
      BY <1>2, <2>1, <2>2, <2>3 DEF Sent
    <2>7. Sent' = Sent
      BY <2>1, <2>2 DEF Sent
    <2> QED
      BY <2>1, <2>5, <2>6, <2>7 DEF Over
  <1>12. CASE UpstreamError
    <2>1. UNCHANGED <<script, put, upstream>> /\ ~Over /\ Over' = TRUE
      BY <1>12 DEF UpstreamError, Over
    <2> QED
      BY <1>4, <2>1
  <1>13. CASE HangUp
    <2>1. UNCHANGED <<script, put, upstream>> /\ Over' = TRUE
      BY <1>13 DEF HangUp, Over
    <2> QED
      BY <1>4, <2>1 DEF Over
  <1>14. CASE UNCHANGED gatewayVars
    <2>1. UNCHANGED <<script, put, phase, upstream>>
      BY <1>14 DEF gatewayVars
    <2> QED
      BY <1>4, <2>1 DEF Over
  <1> QED
    BY <1>6, <1>7, <1>8, <1>9, <1>10, <1>11, <1>12, <1>13, <1>14 DEF GatewayNext

\* The gateway implements the channel: the container receives the client's startup message
\* first and then every unit in order, whatever the script, the chunks and the number of
\* rounds.
THEOREM GatewayIsAChannel == GatewaySpec => PipesInOrder
  <1>1. GatewayInit => Pipe!Init
    BY GatewayInitPipe, PgGatewayAssumption
  <1>2. GInv => Landed
    BY GotIs DEF Landed
  <1>3. GInv /\ Landed' /\ [GatewayNext]_gatewayVars => [Pipe!Next]_(Pipe!channelVars)
    BY GatewayStepPipe, PgGatewayAssumption
  <1> QED
    BY <1>1, <1>2, <1>3, GatewayInvariant, PTL DEF GatewaySpec, PipesInOrder, Pipe!Spec

-----------------------------------------------------------------------------
(* The legacy migration.                                                     *)

LegacySpec == LegacyInit /\ [][LegacyNext]_legacyVars

MoverPcs == {"idle", "drop", "dump", "restore", "cleanup", "closerun", "close", "catch"}

LegacyTyped ==
    /\ wish \in [scope : SUBSET Databases, drop : BOOLEAN, same : BOOLEAN]
    /\ migration \in [status : {"pending", "running", "done", "failed"}, temp : Nat]
    /\ mover \in [pc : MoverPcs, todo : SUBSET Databases, temp : Nat]
    /\ legacyCrashes \in Nat

\* What of the scope is not to do has been dumped into the attempt's own directory; the job is
\* never handed out again once its row says done.
Moved ==
    /\ source = Databases
    /\ mover.pc = "dump" => wish.scope \ mover.todo \subseteq Dumped(mover.temp)
    /\ mover.pc = "restore" => wish.scope \subseteq Dumped(mover.temp)
    /\ mover.pc \in {"cleanup", "closerun", "close"} => wish.scope \subseteq target
    /\ migration.status = "done"
         => wish.scope \subseteq target /\ mover.pc = "idle" /\ legacyState = "completed"

LegacyInv == LegacyTyped /\ (~wish.same => Moved)

\* Dumping a database adds it to the attempt's directory.
LEMMA DumpAdds ==
  ASSUME NEW t, NEW d, NEW R,
         tempDirs' = (tempDirs \ DirOfAttempt(t)) \cup {[of |-> t, holds |-> Dumped(t) \cup ({d} \cap R)]}
  PROVE  Dumped(t)' = Dumped(t) \cup ({d} \cap R)
  <1>1. DirOfAttempt(t)' = {[of |-> t, holds |-> Dumped(t) \cup ({d} \cap R)]}
    BY DEF DirOfAttempt
  <1> QED BY <1>1 DEF Dumped

\* Every step keeps the invariant.
LEMMA LegacyKeepsInv ==
  ASSUME LegacyAssumption, LegacyInv, [LegacyNext]_legacyVars
  PROVE  LegacyInv'
  <1>a. /\ wish \in [scope : SUBSET Databases, drop : BOOLEAN, same : BOOLEAN]
        /\ migration \in [status : {"pending", "running", "done", "failed"}, temp : Nat]
        /\ mover \in [pc : MoverPcs, todo : SUBSET Databases, temp : Nat] /\ legacyCrashes \in Nat
        /\ wish.scope \subseteq Databases /\ mover.temp \in Nat /\ mover.todo \subseteq Databases
    BY DEF LegacyInv, LegacyTyped
  <1>b. ASSUME NEW pc \in MoverPcs
        PROVE  /\ [mover EXCEPT !.pc = pc] \in [pc : MoverPcs, todo : SUBSET Databases, temp : Nat]
               /\ [mover EXCEPT !.pc = pc].pc = pc
    BY <1>a
  <1>c. IdleMover \in [pc : MoverPcs, todo : SUBSET Databases, temp : Nat] /\ IdleMover.pc = "idle"
    BY DEF IdleMover, MoverPcs
  <1>0. CASE UNCHANGED legacyVars
    BY <1>0 DEF legacyVars, LegacyInv, LegacyTyped, Moved, Dumped, DirOfAttempt
  <1>1. CASE LegacyBegin
    <2>1. PICK t \in Nat : t = legacyCrashes + 1
      BY <1>a
    <2>2. PICK pc \in {"drop", "dump"} : mover' = [pc |-> pc, todo |-> wish.scope, temp |-> t]
      BY <1>1, <2>1 DEF LegacyBegin
    <2>3. migration' = [status |-> "running", temp |-> t] /\ UNCHANGED <<wish, source, target, legacyCrashes>>
      BY <1>1, <2>1 DEF LegacyBegin
    <2>4. LegacyTyped'
      BY <1>a, <2>2, <2>3 DEF LegacyTyped, MoverPcs
    <2> QED BY <2>2, <2>3, <2>4 DEF LegacyInv, Moved
  <1>2. CASE LegacyDrop
    <2>1. UNCHANGED <<wish, migration, legacyState, tempDirs, legacyCrashes>> /\ mover.pc = "drop"
      BY <1>2 DEF LegacyDrop
    <2>2. CASE mover.todo = {}
      <3>1. mover' = [mover EXCEPT !.pc = "dump", !.todo = wish.scope] /\ UNCHANGED source
        BY <1>2, <2>2 DEF LegacyDrop
      <3>2. mover' \in [pc : MoverPcs, todo : SUBSET Databases, temp : Nat] /\ mover'.pc = "dump" /\ mover'.todo = wish.scope
        BY <1>a, <3>1 DEF MoverPcs
      <3>3. wish'.scope \ mover'.todo = {}
        BY <2>1, <3>2
      <3> QED BY <1>a, <2>1, <3>1, <3>2, <3>3 DEF LegacyInv, LegacyTyped, Moved
    <2>3. CASE mover.todo # {}
      <3>1. PICK d : mover' = [mover EXCEPT !.todo = @ \ {d}] /\ source' = IF wish.same THEN source \ {d} ELSE source
        BY <1>2, <2>3 DEF LegacyDrop
      <3>2. mover' \in [pc : MoverPcs, todo : SUBSET Databases, temp : Nat] /\ mover'.pc = "drop"
        BY <1>a, <2>1, <3>1
      <3> QED BY <1>a, <2>1, <3>1, <3>2 DEF LegacyInv, LegacyTyped, Moved
    <2> QED BY <2>2, <2>3
  <1>3. CASE LegacyDump
    <2>1. UNCHANGED <<wish, migration, legacyState, source, target, legacyCrashes>> /\ mover.pc = "dump"
      BY <1>3 DEF LegacyDump
    <2>2. CASE mover.todo = {}
      <3>1. mover' = [mover EXCEPT !.pc = "restore"] /\ UNCHANGED tempDirs
        BY <1>3, <2>2 DEF LegacyDump
      <3>2. mover' \in [pc : MoverPcs, todo : SUBSET Databases, temp : Nat] /\ mover'.pc = "restore" /\ mover'.temp = mover.temp
        BY <1>a, <3>1 DEF MoverPcs
      <3>3. Dumped(mover.temp)' = Dumped(mover.temp)
        BY <3>1, <3>2 DEF Dumped, DirOfAttempt
      <3>4. ~wish.same => wish.scope \subseteq Dumped(mover.temp)
        BY <2>1, <2>2 DEF LegacyInv, Moved
      <3> QED BY <1>a, <2>1, <3>2, <3>3, <3>4 DEF LegacyInv, LegacyTyped, Moved
    <2>3. CASE mover.todo # {}
      <3>1. PICK d \in mover.todo :
              /\ mover' = [mover EXCEPT !.todo = @ \ {d}]
              /\ tempDirs' = (tempDirs \ DirOfAttempt(mover.temp)) \cup
                     {[of |-> mover.temp, holds |-> Dumped(mover.temp) \cup ({d} \cap Readable)]}
        BY <1>3, <2>3 DEF LegacyDump
      <3>2. PICK t \in Nat : t = mover.temp
        BY <1>a
      <3>3. /\ mover' \in [pc : MoverPcs, todo : SUBSET Databases, temp : Nat]
            /\ mover'.pc = "dump" /\ mover'.temp = t /\ mover'.todo = mover.todo \ {d}
        BY <1>a, <2>1, <3>1, <3>2
      <3>4. Dumped(t)' = Dumped(t) \cup ({d} \cap Readable)
        BY <3>1, <3>2, DumpAdds
      <3>5. ~wish.same => d \in Readable
        BY <1>a DEF LegacyInv, Moved, Readable
      <3>6. ~wish.same => wish.scope \ mover'.todo \subseteq Dumped(t)'
        BY <2>1, <3>2, <3>3, <3>4, <3>5 DEF LegacyInv, Moved
      <3>7. Dumped(mover.temp)' = Dumped(t)'
        BY <3>3
      <3> QED BY <1>a, <2>1, <3>3, <3>6, <3>7 DEF LegacyInv, LegacyTyped, Moved
    <2> QED BY <2>2, <2>3
  <1>4. CASE LegacyRestore
    <2>1. /\ UNCHANGED <<wish, migration, legacyState, source, legacyCrashes>> /\ mover.pc = "restore"
          /\ target' = target \cup Dumped(mover.temp) /\ mover' = [mover EXCEPT !.pc = "cleanup"]
      BY <1>4 DEF LegacyRestore
    <2>2. mover' \in [pc : MoverPcs, todo : SUBSET Databases, temp : Nat] /\ mover'.pc = "cleanup"
      BY <1>b, <2>1 DEF MoverPcs
    <2> QED BY <1>a, <2>1, <2>2 DEF LegacyInv, LegacyTyped, Moved
  <1>5. CASE LegacyCleanup \/ LegacyCloseRun \/ LegacyFail
    <2>1. PICK pc \in {"closerun", "close", "catch"} :
            /\ mover' = [mover EXCEPT !.pc = pc] /\ UNCHANGED <<wish, migration, legacyState, source, target, legacyCrashes>>
            /\ mover.pc \in {"drop", "dump", "restore", "cleanup", "closerun", "close"}
            /\ pc # "catch" => mover.pc \in {"cleanup", "closerun"}
      BY <1>5 DEF LegacyCleanup, LegacyCloseRun, LegacyFail
    <2>2. mover' \in [pc : MoverPcs, todo : SUBSET Databases, temp : Nat] /\ mover'.pc = pc
      BY <1>b, <2>1 DEF MoverPcs
    <2> QED BY <1>a, <2>1, <2>2 DEF LegacyInv, LegacyTyped, Moved
  <1>6. CASE LegacyClose \/ LegacyCatch
    <2>1. /\ mover' = IdleMover /\ UNCHANGED <<wish, source, target, legacyCrashes>>
          /\ \/ /\ mover.pc = "close" /\ legacyState' = "completed"
                /\ migration' = [status |-> "done", temp |-> 0]
             \/ migration' = [status |-> "failed", temp |-> 0]
      BY <1>6 DEF LegacyClose, LegacyCatch
    <2> QED BY <1>a, <1>c, <2>1 DEF LegacyInv, LegacyTyped, Moved
  <1>7. CASE LegacyCrash
    <2>1. /\ mover' = IdleMover /\ UNCHANGED <<wish, migration, source, target>> /\ legacyCrashes' = legacyCrashes + 1
          /\ mover.pc = "idle" => legacyState' = legacyState
      BY <1>7 DEF LegacyCrash
    <2>2. legacyCrashes' \in Nat
      BY <1>a, <2>1
    <2> QED BY <1>a, <1>c, <2>1, <2>2 DEF LegacyInv, LegacyTyped, Moved
  <1> QED BY <1>0, <1>1, <1>2, <1>3, <1>4, <1>5, <1>6, <1>7 DEF LegacyNext

\* A migration reported as done holds its whole scope, whatever attempt failed or died before
\* (migration.service.ts, migration.job.ts).
THEOREM DoneHoldsSource == LegacySpec => []LegacyDoneHoldsSource
  <1>1. LegacyInit => LegacyInv
    BY DEF LegacyInit, LegacyInv, LegacyTyped, Moved, IdleMover, MoverPcs
  <1>2. LegacyInv /\ [LegacyNext]_legacyVars => LegacyInv'
    BY LegacyKeepsInv, LegacyAssumption
  <1>3. LegacyInv => LegacyDoneHoldsSource
    BY DEF LegacyInv, Moved, LegacyDoneHoldsSource
  <1> QED BY <1>1, <1>2, <1>3, PTL DEF LegacySpec

-----------------------------------------------------------------------------
(* The PivotDB import.                                                       *)

PivotSpec == ImportInit /\ [][ImportNext]_importVars

ImporterPcs == {"idle", "users", "adduser", "profiles", "addspace", "point", "rows", "done", "failed", "refused"}
Importers == [pc : ImporterPcs, dry : BOOLEAN, todo : SUBSET (Users \cup Profiles),
              cur : Users \cup Profiles \cup {Nobody}, placed : [Profiles -> Nat], table : Nat, told : Nat,
              hit : BOOLEAN, seen : SUBSET (Users \cup Strangers \cup {Nobody}), starts : Nat]
SpaceRows == [id : Nat \ {0}, owner : Emails \cup {Nobody}, legacy : Users \cup Strangers \cup {Nobody}]

ImportTyped ==
    /\ pivot \in Pivots /\ accounts \subseteq Emails /\ member \in [Emails -> Nat]
    /\ spaces \subseteq SpaceRows /\ IsFiniteSet(spaces)
    /\ importer \in Importers

\* Whom the import is at.
AtHand ==
    /\ importer.pc \in {"users", "adduser", "point"} => importer.todo \subseteq Users
    /\ importer.pc \in {"profiles", "addspace", "rows"} => importer.todo \subseteq Profiles
    /\ importer.pc = "adduser" => importer.cur \in importer.todo
    /\ importer.pc = "addspace" => importer.cur \in importer.todo

\* A profile is placed in the workspace that stands for it, and placed at all once it has been
\* looked at.
PlaceStands(n, p) == \E s \in spaces : s.id = n /\ StandsFor(s, p)
Placed ==
    /\ \A p \in Profiles : importer.placed[p] # 0 => PlaceStands(importer.placed[p], p)
    /\ importer.pc \in {"profiles", "addspace"} /\ ~importer.dry =>
         \A p \in Profiles \ importer.todo : importer.placed[p] # 0
    /\ importer.pc \in {"point", "rows"} /\ ~importer.dry => \A p \in Profiles : importer.placed[p] # 0

\* A row is there once, in its place; of the tables gone through, each row is there or was
\* refused, or one that it refers to was.
RowLanded(p, t) == There(p, t) \/ \E n \in 1..t : <<p, n>> \in spoiled
RowsLand ==
    /\ \A r, q \in imported : r.profile = q.profile /\ r.table = q.table => r = q
    /\ \A r \in imported : r.table \in Scoped => PlaceStands(r.space, r.profile)
    /\ importer.pc \in {"users", "adduser", "profiles", "addspace", "point"} => importer.table = 1
    /\ importer.pc = "rows" => importer.table \in 1..Tables
    /\ importer.pc = "rows" /\ ~importer.dry =>
         /\ \A p \in Profiles : \A t \in 1..(importer.table - 1) : RowLanded(p, t)
         /\ \A p \in Profiles \ importer.todo : RowLanded(p, importer.table)
    /\ importer.pc = "done" /\ ~importer.dry => \A p \in Profiles : \A t \in 1..Tables : RowLanded(p, t)

\* An account that was pointed is in a workspace that stands for the profile of a user of
\* that e-mail.
Pointed(u) ==
    pivot.home[u] # NoProfile =>
      \E v \in Users : /\ pivot.email[v] = pivot.email[u] /\ pivot.home[v] # NoProfile
                       /\ PlaceStands(member[pivot.email[u]], pivot.home[v])
AccountsPointed ==
    /\ importer.pc = "point" /\ ~importer.dry => \A u \in Users \ importer.todo : Pointed(u)
    /\ importer.pc \in {"rows", "done"} /\ ~importer.dry => \A u \in Users : Pointed(u)

\* What this start has not met in its way.  A workspace that keeps an administrator's id was
\* there when the import was started, or is that of a profile already placed.
Resuming ==
    /\ \A s \in spaces : s.legacy = Nobody \/ \E p \in Profiles : s.legacy = pivot.admin[p] /\ s.owner = Owner(p)
    /\ ~importer.hit =>
         /\ importer.pc = "adduser" => pivot.email[importer.cur] \notin accounts
         /\ importer.pc = "addspace" => OwnedSpaces(importer.cur) = {}
         /\ importer.pc \in {"users", "adduser"} => \A s \in spaces : s.legacy \in importer.seen
         /\ importer.pc \in {"profiles", "addspace"} =>
              \A s \in spaces : \/ s.legacy \in importer.seen \cup {Nobody}
                                \/ \E p \in Profiles \ importer.todo : s.legacy = pivot.admin[p]
    /\ ImportResumes

PivotInv == ImportTyped /\ AtHand /\ Placed /\ RowsLand /\ AccountsPointed /\ Resuming

\* What PivotDB holds.
LEMMA PivotHolds ==
  ASSUME ImportAssumption, ImportTyped
  PROVE  /\ pivot.email \in [Users -> Emails] /\ pivot.admin \in [Profiles -> Users \cup Strangers]
         /\ pivot.home \in [Users -> Profiles \cup {NoProfile}]
         /\ \A p, q \in Profiles : pivot.admin[p] = pivot.admin[q] => p = q
         /\ \A p \in Profiles : Owner(p) \in Emails \cup {Nobody} /\ (Owner(p) = Nobody => pivot.admin[p] \in Strangers)
         /\ \A p \in Profiles : pivot.admin[p] # Nobody
  <1>1. /\ pivot.email \in [Users -> Emails] /\ pivot.admin \in [Profiles -> Users \cup Strangers]
        /\ pivot.home \in [Users -> Profiles \cup {NoProfile}]
        /\ \A p, q \in Profiles : pivot.admin[p] = pivot.admin[q] => p = q
    BY DEF ImportTyped, Pivots
  <1>2. \A p \in Profiles : Owner(p) \in Emails \cup {Nobody} /\ (Owner(p) = Nobody => pivot.admin[p] \in Strangers)
    BY <1>1 DEF Owner, ImportAssumption
  <1>3. \A p \in Profiles : pivot.admin[p] # Nobody
    BY <1>1 DEF ImportAssumption
  <1> QED BY <1>1, <1>2, <1>3

\* The next workspace is a workspace.
LEMMA NextSpaceIs ==
  ASSUME ImportTyped
  PROVE  NextSpace \in Nat \ {0}
  <1>1. Cardinality(spaces) \in Nat
    BY FS_CardinalityType DEF ImportTyped
  <1> QED BY <1>1 DEF NextSpace

\* Nothing is taken back: what stands and what landed remains.
LEMMA WorldGrows ==
  ASSUME UNCHANGED pivot, spaces \subseteq spaces', imported \subseteq imported', spoiled \subseteq spoiled'
  PROVE  /\ \A n, p : PlaceStands(n, p) => PlaceStands(n, p)'
         /\ \A p, t : RowLanded(p, t) => RowLanded(p, t)'
         /\ member' = member => \A u : Pointed(u) => Pointed(u)'
         /\ \A p : Owner(p)' = Owner(p)
  <1>1. \A p : Owner(p)' = Owner(p)
    BY DEF Owner
  <1>2. \A n, p : PlaceStands(n, p) => PlaceStands(n, p)'
    BY <1>1 DEF PlaceStands, StandsFor
  <1>3. \A p, t : RowLanded(p, t) => RowLanded(p, t)'
    BY DEF RowLanded, There
  <1>4. ASSUME member' = member, NEW u, Pointed(u) PROVE Pointed(u)'
    <2>1. CASE pivot.home[u] = NoProfile
      BY <2>1 DEF Pointed
    <2>2. CASE pivot.home[u] # NoProfile
      <3>1. PICK v \in Users : /\ pivot.email[v] = pivot.email[u] /\ pivot.home[v] # NoProfile
                               /\ PlaceStands(member[pivot.email[u]], pivot.home[v])
        BY <1>4, <2>2 DEF Pointed
      <3>2. PICK n, p : n = member[pivot.email[u]] /\ p = pivot.home[v]
        OBVIOUS
      <3>3. PlaceStands(n, p)'
        BY <1>2, <3>1, <3>2
      <3>4. PlaceStands(member[pivot.email[u]], pivot.home[v])'
        BY <1>4, <3>2, <3>3 DEF PlaceStands, StandsFor
      <3> QED BY <3>1, <3>4 DEF Pointed
    <2> QED BY <2>1, <2>2
  <1> QED BY <1>1, <1>2, <1>3, <1>4

\* A step of the import that writes nothing and keeps the placements.
LEMMA ImporterMoves ==
  ASSUME PivotInv, NEW x \in Importers, importer' = x, x.placed = importer.placed,
         accounts' \subseteq Emails, UNCHANGED <<pivot, member, spaces, imported, spoiled>>
  PROVE  /\ ImportTyped'
         /\ (\A p \in Profiles : importer.placed[p] # 0 => PlaceStands(importer.placed[p], p))'
         /\ \A r, q \in imported' : r.profile = q.profile /\ r.table = q.table => r = q
         /\ \A r \in imported' : r.table \in Scoped => PlaceStands(r.space, r.profile)'
         /\ \A p, t : RowLanded(p, t) => RowLanded(p, t)'
         /\ \A u : Pointed(u) => Pointed(u)'
         /\ \A s \in spaces' : s.legacy = Nobody
              \/ \E p \in Profiles : s.legacy = pivot'.admin[p] /\ s.owner = Owner(p)'
         /\ \A p : OwnedSpaces(p)' = OwnedSpaces(p)
  <1>1. ImportTyped'
    BY DEF PivotInv, ImportTyped
  <1>2. /\ \A n, p : PlaceStands(n, p) => PlaceStands(n, p)'
        /\ \A p, t : RowLanded(p, t) => RowLanded(p, t)'
        /\ \A u : Pointed(u) => Pointed(u)'
        /\ \A p : Owner(p)' = Owner(p)
    BY WorldGrows
  <1>3. (\A p \in Profiles : importer.placed[p] # 0 => PlaceStands(importer.placed[p], p))'
    <2>1. ASSUME NEW p \in Profiles, x.placed[p] # 0 PROVE PlaceStands(importer.placed[p], p)'
      <3>1. PICK n : n = x.placed[p]
        OBVIOUS
      <3>2. PlaceStands(n, p)'
        BY <1>2, <2>1, <3>1 DEF PivotInv, Placed
      <3> QED BY <3>1, <3>2 DEF PlaceStands, StandsFor
    <2> QED BY <2>1
  <1>4. ASSUME NEW r \in imported', r.table \in Scoped PROVE PlaceStands(r.space, r.profile)'
    BY <1>2, <1>4 DEF PivotInv, RowsLand
  <1>5. \A p : OwnedSpaces(p)' = OwnedSpaces(p)
    BY <1>2 DEF OwnedSpaces, SpacesOf
  <1>6. \A s \in spaces' : s.legacy = Nobody
          \/ \E p \in Profiles : s.legacy = pivot'.admin[p] /\ s.owner = Owner(p)'
    BY <1>2 DEF PivotInv, Resuming
  <1>7. \A r, q \in imported' : r.profile = q.profile /\ r.table = q.table => r = q
    BY DEF PivotInv, RowsLand
  <1> QED BY <1>1, <1>2, <1>3, <1>4, <1>5, <1>6, <1>7

\* The import that looks, and writes nothing.
LEMMA LookingKeepsInv ==
  ASSUME ImportAssumption, PivotInv, StartImport \/ FindUser \/ FindSpace \/ ImportFail \/ NextTable
  PROVE  PivotInv'
  <1>a. /\ importer \in Importers /\ importer.todo \subseteq Users \cup Profiles /\ importer.placed \in [Profiles -> Nat]
        /\ importer.table \in Nat /\ importer.pc \in ImporterPcs /\ spaces \subseteq SpaceRows
        /\ importer.dry \in BOOLEAN
    BY DEF PivotInv, ImportTyped, Importers
  <1>b. UNCHANGED <<pivot, accounts, member, spaces, imported, spoiled>>
    BY DEF StartImport, FindUser, FindSpace, ImportFail, NextTable
  <1>c. ASSUME NEW p PROVE There(p, 0)' = There(p, 0) /\ \A t : There(p, t)' = There(p, t)
    BY <1>b DEF There
  <1>1. CASE StartImport
    <2>1. PICK dry \in BOOLEAN, pc \in {"users", "refused"} :
            importer' = [NotStarted EXCEPT !.pc = pc, !.dry = dry, !.todo = Users,
                                           !.seen = {s.legacy : s \in spaces}, !.starts = importer.starts + 1]
      BY <1>1 DEF StartImport
    <2>2. PICK seen : seen = {s.legacy : s \in spaces}
      OBVIOUS
    <2>3. seen \in SUBSET (Users \cup Strangers \cup {Nobody}) /\ \A s \in spaces : s.legacy \in seen
      BY <1>a, <2>2 DEF SpaceRows
    <2>4. PICK n \in Nat : n = importer.starts + 1
      BY <1>a DEF Importers
    <2>5. PICK x : x = [NotStarted EXCEPT !.pc = pc, !.dry = dry, !.todo = Users, !.seen = seen, !.starts = n]
      OBVIOUS
    <2>6. Unplaced \in [Profiles -> Nat] /\ \A p \in Profiles : Unplaced[p] = 0
      BY DEF Unplaced
    <2>7. x \in Importers /\ x.pc = pc /\ x.todo = Users /\ x.seen = seen /\ x.placed = Unplaced /\ ~x.hit /\ x.table = 1
      BY <2>3, <2>5, <2>6 DEF NotStarted, Importers, ImporterPcs
    <2>8. importer' = x
      BY <2>1, <2>2, <2>4, <2>5
    <2>9. ImportTyped'
      BY <1>b, <2>7, <2>8 DEF PivotInv, ImportTyped
    <2>10. /\ \A n1, p : PlaceStands(n1, p) => PlaceStands(n1, p)'
           /\ \A p, t : RowLanded(p, t) => RowLanded(p, t)'
           /\ \A p : Owner(p)' = Owner(p)
      BY <1>b, WorldGrows
    <2>11. AtHand' /\ Placed' /\ AccountsPointed'
      BY <2>6, <2>7, <2>8 DEF AtHand, Placed, AccountsPointed
    <2>12. RowsLand'
      BY <1>b, <2>7, <2>8, <2>10 DEF PivotInv, RowsLand
    <2>13. Resuming'
      BY <1>b, <2>3, <2>7, <2>8, <2>10 DEF PivotInv, Resuming, ImportResumes
    <2> QED BY <2>9, <2>11, <2>12, <2>13 DEF PivotInv
  \* The others go on from where they were.
  <1>d. ASSUME NEW x \in Importers, importer' = x, x.placed = importer.placed
        PROVE  /\ ImportTyped'
               /\ (\A p \in Profiles : importer.placed[p] # 0 => PlaceStands(importer.placed[p], p))'
               /\ \A r, q \in imported' : r.profile = q.profile /\ r.table = q.table => r = q
               /\ \A r \in imported' : r.table \in Scoped => PlaceStands(r.space, r.profile)'
               /\ \A p, t : RowLanded(p, t) => RowLanded(p, t)'
               /\ \A u : Pointed(u) => Pointed(u)'
               /\ \A s \in spaces' : s.legacy = Nobody
                    \/ \E p \in Profiles : s.legacy = pivot'.admin[p] /\ s.owner = Owner(p)'
               /\ \A p : OwnedSpaces(p)' = OwnedSpaces(p)
    <2>1. accounts' \subseteq Emails
      BY <1>b DEF PivotInv, ImportTyped
    <2> QED BY <1>b, <1>d, <2>1, ImporterMoves
  <1>2. CASE FindUser /\ importer.todo = {}
    <2>1. PICK x : x = [importer EXCEPT !.pc = "profiles", !.todo = Profiles]
      OBVIOUS
    <2>2. /\ x \in Importers /\ x.pc = "profiles" /\ x.todo = Profiles /\ x.placed = importer.placed
          /\ x.hit = importer.hit /\ x.seen = importer.seen /\ x.table = importer.table
      BY <1>a, <2>1 DEF Importers, ImporterPcs
    <2>3. importer' = x /\ importer.pc = "users"
      BY <1>2, <2>1 DEF FindUser
    <2>4. AtHand' /\ AccountsPointed'
      BY <2>2, <2>3 DEF AtHand, AccountsPointed
    <2>5. Placed'
      BY <1>d, <2>2, <2>3 DEF Placed
    <2>6. RowsLand'
      BY <1>d, <2>2, <2>3 DEF PivotInv, RowsLand
    <2>7. Resuming'
      BY <1>b, <1>d, <2>2, <2>3 DEF PivotInv, Resuming, ImportResumes
    <2> QED BY <1>d, <2>2, <2>3, <2>4, <2>5, <2>6, <2>7 DEF PivotInv
  <1>3. CASE FindUser /\ importer.todo # {}
    <2>1. PICK u \in importer.todo :
            importer' = IF pivot.email[u] \in accounts \/ importer.dry
                        THEN [importer EXCEPT !.todo = @ \ {u}]
                        ELSE [importer EXCEPT !.pc = "adduser", !.cur = u]
      BY <1>3 DEF FindUser
    <2>2. importer.pc = "users" /\ u \in Users /\ importer.todo \subseteq Users
      BY <1>3 DEF FindUser, PivotInv, AtHand
    <2>3. PICK x : x = IF pivot.email[u] \in accounts \/ importer.dry
                       THEN [importer EXCEPT !.todo = @ \ {u}]
                       ELSE [importer EXCEPT !.pc = "adduser", !.cur = u]
      OBVIOUS
    <2>4. /\ x \in Importers /\ x.pc \in {"users", "adduser"} /\ x.todo \subseteq Users /\ x.placed = importer.placed
          /\ x.hit = importer.hit /\ x.seen = importer.seen /\ x.table = importer.table
          /\ x.pc = "adduser" => x.cur = u /\ pivot.email[u] \notin accounts /\ x.todo = importer.todo
      <3>1. [importer EXCEPT !.todo = @ \ {u}] \in Importers
        BY <1>a DEF Importers
      <3>2. [importer EXCEPT !.pc = "adduser", !.cur = u] \in Importers
        BY <1>a, <2>2 DEF Importers, ImporterPcs
      <3> QED BY <1>a, <2>2, <2>3, <3>1, <3>2 DEF Importers
    <2>5. importer' = x
      BY <2>1, <2>3
    <2>6. AtHand' /\ AccountsPointed'
      BY <2>1, <2>4, <2>5 DEF AtHand, AccountsPointed
    <2>7. Placed'
      BY <1>d, <2>4, <2>5 DEF Placed
    <2>8. RowsLand'
      BY <1>d, <2>2, <2>4, <2>5 DEF PivotInv, RowsLand
    <2>9. Resuming'
      BY <1>b, <1>d, <2>2, <2>4, <2>5 DEF PivotInv, Resuming, ImportResumes
    <2> QED BY <1>d, <2>4, <2>5, <2>6, <2>7, <2>8, <2>9 DEF PivotInv
  <1>4. CASE FindSpace /\ importer.todo = {}
    <2>1. PICK todo : todo = IF importer.dry THEN {} ELSE Users
      OBVIOUS
    <2>2. PICK x : x = [importer EXCEPT !.pc = "point", !.todo = todo]
      OBVIOUS
    <2>3. /\ x \in Importers /\ x.pc = "point" /\ x.todo \subseteq Users /\ x.placed = importer.placed
          /\ x.dry = importer.dry /\ (~x.dry => x.todo = Users) /\ x.table = importer.table
      BY <1>a, <2>1, <2>2 DEF Importers, ImporterPcs
    <2>4. importer' = x /\ importer.pc = "profiles"
      BY <1>4, <2>1, <2>2 DEF FindSpace
    <2>5. AtHand' /\ AccountsPointed'
      BY <2>3, <2>4 DEF AtHand, AccountsPointed
    <2>6. Placed'
      BY <1>4, <1>d, <2>3, <2>4 DEF PivotInv, Placed
    <2>7. RowsLand'
      BY <1>d, <2>3, <2>4 DEF PivotInv, RowsLand
    <2>8. Resuming'
      BY <1>d, <2>3, <2>4 DEF Resuming, ImportResumes
    <2> QED BY <1>d, <2>3, <2>4, <2>5, <2>6, <2>7, <2>8 DEF PivotInv
  <1>5. CASE FindSpace /\ importer.todo # {}
    <2>0. importer.pc = "profiles" /\ importer.todo \subseteq Profiles
      BY <1>5 DEF FindSpace, PivotInv, AtHand
    <2>1. PICK p \in Profiles :
            /\ p \in importer.todo
            /\ \/ /\ importer.dry
                  /\ importer' = [importer EXCEPT !.todo = @ \ {p}]
               \/ /\ ~importer.dry
                  /\ \E s \in OwnedSpaces(p) :
                       importer' = [importer EXCEPT !.todo = @ \ {p}, !.placed[p] = s.id]
               \/ /\ ~importer.dry /\ OwnedSpaces(p) = {}
                  /\ importer' = [importer EXCEPT !.pc = "addspace", !.cur = p]
      BY <1>5, <2>0 DEF FindSpace
    <2>2. CASE importer.dry
      <3>1. PICK x : x = [importer EXCEPT !.todo = @ \ {p}]
        OBVIOUS
      <3>2. /\ x \in Importers /\ x.pc = "profiles" /\ x.todo = importer.todo \ {p} /\ x.placed = importer.placed
            /\ x.hit = importer.hit /\ x.seen = importer.seen /\ x.dry /\ x.table = importer.table
        BY <1>a, <2>0, <2>2, <3>1 DEF Importers
      <3>3. importer' = x
        BY <2>1, <2>2, <3>1
      <3>4. AtHand' /\ AccountsPointed'
        BY <2>0, <3>2, <3>3 DEF AtHand, AccountsPointed
      <3>5. Placed'
        BY <1>d, <3>2, <3>3 DEF Placed
      <3>6. RowsLand'
        BY <1>d, <2>0, <3>2, <3>3 DEF PivotInv, RowsLand
      <3>7. Resuming'
        BY <1>b, <1>d, <2>0, <3>2, <3>3 DEF PivotInv, Resuming, ImportResumes
      <3> QED BY <1>d, <3>2, <3>3, <3>4, <3>5, <3>6, <3>7 DEF PivotInv
    <2>3. ASSUME ~importer.dry, NEW s \in OwnedSpaces(p),
                 importer' = [importer EXCEPT !.todo = @ \ {p}, !.placed[p] = s.id]
          PROVE  PivotInv'
      <3>1. PICK n \in Nat \ {0} : n = s.id
        BY <1>a DEF OwnedSpaces, SpacesOf, SpaceRows
      <3>2. PlaceStands(n, p)
        BY <2>3, <3>1 DEF OwnedSpaces, SpacesOf, PlaceStands, StandsFor
      <3>3. PICK f : f = [importer.placed EXCEPT ![p] = n]
        OBVIOUS
      <3>4. f \in [Profiles -> Nat] /\ f[p] = n /\ \A q \in Profiles \ {p} : f[q] = importer.placed[q]
        BY <1>a, <3>3
      <3>5. PICK x : x = [importer EXCEPT !.todo = @ \ {p}, !.placed = f]
        OBVIOUS
      <3>6. /\ x \in Importers /\ x.pc = "profiles" /\ x.todo = importer.todo \ {p} /\ x.placed = f
            /\ x.hit = importer.hit /\ x.seen = importer.seen /\ x.dry = importer.dry /\ x.table = importer.table
        BY <1>a, <2>0, <3>4, <3>5 DEF Importers
      <3>7. importer' = x
        BY <1>a, <2>3, <3>1, <3>3, <3>5 DEF Importers
      <3>8. ImportTyped'
        BY <1>b, <3>6, <3>7 DEF PivotInv, ImportTyped
      <3>9. /\ \A n1, q : PlaceStands(n1, q) => PlaceStands(n1, q)'
            /\ \A q, t : RowLanded(q, t) => RowLanded(q, t)'
            /\ \A q : Owner(q)' = Owner(q)
        BY <1>b, WorldGrows
      <3>10. AtHand' /\ AccountsPointed'
        BY <2>0, <3>6, <3>7 DEF AtHand, AccountsPointed
      <3>11. \A q \in Profiles : f[q] # 0 => PlaceStands(f[q], q)
        BY <3>2, <3>4 DEF PivotInv, Placed
      <3>12. (\A q \in Profiles : importer.placed[q] # 0 => PlaceStands(importer.placed[q], q))'
        <4>1. ASSUME NEW q \in Profiles, f[q] # 0 PROVE PlaceStands(importer.placed[q], q)'
          <5>1. PICK m : m = f[q]
            OBVIOUS
          <5>2. PlaceStands(m, q)'
            BY <3>9, <3>11, <4>1, <5>1
          <5> QED BY <3>6, <3>7, <5>1, <5>2 DEF PlaceStands, StandsFor
        <4> QED BY <3>6, <3>7, <4>1
      <3>a. ASSUME NEW q \in Profiles \ x.todo PROVE f[q] # 0
        <4>1. \A r \in Profiles \ importer.todo : importer.placed[r] # 0
          BY <2>0, <2>3 DEF PivotInv, Placed
        <4> QED BY <3>1, <3>4, <3>6, <4>1
      <3>13. Placed'
        <4>1. (\A q \in Profiles \ importer.todo : importer.placed[q] # 0)'
          BY <3>6, <3>7, <3>a
        <4> QED BY <3>6, <3>7, <3>12, <4>1 DEF Placed
      <3>14. RowsLand'
        BY <1>b, <2>0, <3>6, <3>7, <3>9 DEF PivotInv, RowsLand
      <3>15. Resuming'
        BY <1>b, <2>0, <3>6, <3>7, <3>9 DEF PivotInv, Resuming, ImportResumes
      <3> QED BY <3>8, <3>10, <3>13, <3>14, <3>15 DEF PivotInv
    <2>4. CASE ~importer.dry /\ OwnedSpaces(p) = {} /\ importer' = [importer EXCEPT !.pc = "addspace", !.cur = p]
      <3>1. PICK x : x = [importer EXCEPT !.pc = "addspace", !.cur = p]
        OBVIOUS
      <3>2. /\ x \in Importers /\ x.pc = "addspace" /\ x.todo = importer.todo /\ x.placed = importer.placed
            /\ x.hit = importer.hit /\ x.seen = importer.seen /\ x.dry = importer.dry /\ x.cur = p /\ x.table = importer.table
        BY <1>a, <2>0, <3>1 DEF Importers, ImporterPcs
      <3>3. importer' = x
        BY <2>4, <3>1
      <3>4. AtHand' /\ AccountsPointed'
        BY <2>0, <2>1, <3>2, <3>3 DEF AtHand, AccountsPointed
      <3>5. Placed'
        BY <1>d, <2>0, <3>2, <3>3 DEF PivotInv, Placed
      <3>6. RowsLand'
        BY <1>d, <2>0, <3>2, <3>3 DEF PivotInv, RowsLand
      <3>7. OwnedSpaces(importer.cur)' = {}
        BY <1>b, <2>4, <3>2, <3>3 DEF OwnedSpaces, SpacesOf, Owner
      <3>8. Resuming'
        BY <1>b, <1>d, <2>0, <3>2, <3>3, <3>7 DEF PivotInv, Resuming, ImportResumes
      <3> QED BY <1>d, <3>2, <3>3, <3>4, <3>5, <3>6, <3>8 DEF PivotInv
    <2> QED BY <2>1, <2>2, <2>3, <2>4
  <1>6. CASE ImportFail
    <2>1. PICK x : x = [importer EXCEPT !.pc = "failed", !.hit = TRUE]
      OBVIOUS
    <2>2. x \in Importers /\ x.pc = "failed" /\ x.hit /\ x.placed = importer.placed
      BY <1>a, <2>1 DEF Importers, ImporterPcs
    <2>3. importer' = x
      BY <1>6, <2>1 DEF ImportFail
    <2>4. AtHand' /\ AccountsPointed'
      BY <2>2, <2>3 DEF AtHand, AccountsPointed
    <2>5. Placed' /\ RowsLand'
      BY <1>d, <2>2, <2>3 DEF Placed, RowsLand
    <2>6. Resuming'
      BY <1>d, <2>2, <2>3 DEF Resuming, ImportResumes
    <2> QED BY <1>d, <2>2, <2>3, <2>4, <2>5, <2>6 DEF PivotInv
  <1>7. CASE NextTable
    <2>0. importer.pc = "rows" /\ importer.todo = {} /\ importer.table \in 1..Tables /\ Tables \in Nat
      BY <1>7 DEF NextTable, PivotInv, RowsLand, ImportAssumption
    <2>a. ASSUME ~importer.dry, NEW p \in Profiles, NEW t \in 1..importer.table PROVE RowLanded(p, t)
      <3>1. t \in 1..(importer.table - 1) \/ t = importer.table
        BY <2>0
      <3> QED BY <2>0, <2>a, <3>1 DEF PivotInv, RowsLand
    <2>1. CASE importer.table < Tables
      <3>1. PICK n \in 1..Tables : n = importer.table + 1
        BY <2>0, <2>1
      <3>2. PICK x : x = [importer EXCEPT !.table = n, !.todo = Profiles]
        OBVIOUS
      <3>3. /\ x \in Importers /\ x.pc = "rows" /\ x.todo = Profiles /\ x.placed = importer.placed
            /\ x.dry = importer.dry /\ x.table = n
        <4>1. n \in Nat
          BY <3>1
        <4> QED BY <1>a, <2>0, <3>2, <4>1 DEF Importers
      <3>4. importer' = x
        BY <1>7, <1>a, <2>1, <3>1, <3>2 DEF NextTable, Importers
      <3>5. AtHand' /\ AccountsPointed'
        BY <1>d, <2>0, <3>3, <3>4 DEF PivotInv, AtHand, AccountsPointed
      <3>6. Placed'
        BY <1>d, <2>0, <3>3, <3>4 DEF PivotInv, Placed
      <3>7. 1..(n - 1) = 1..importer.table
        BY <2>0, <3>1
      <3>8. RowsLand'
        BY <1>d, <2>a, <3>1, <3>3, <3>4, <3>7 DEF RowsLand
      <3>9. Resuming'
        BY <1>d, <3>3, <3>4 DEF Resuming, ImportResumes
      <3> QED BY <1>d, <3>3, <3>4, <3>5, <3>6, <3>8, <3>9 DEF PivotInv
    <2>2. CASE ~(importer.table < Tables)
      <3>1. PICK x : x = [importer EXCEPT !.pc = "done"]
        OBVIOUS
      <3>2. x \in Importers /\ x.pc = "done" /\ x.placed = importer.placed /\ x.dry = importer.dry
        BY <1>a, <3>1 DEF Importers, ImporterPcs
      <3>3. importer' = x
        BY <1>7, <2>2, <3>1 DEF NextTable, Go
      <3>4. AtHand' /\ AccountsPointed'
        BY <1>d, <2>0, <3>2, <3>3 DEF PivotInv, AtHand, AccountsPointed
      <3>5. Placed'
        BY <1>d, <3>2, <3>3 DEF Placed
      <3>6. importer.table = Tables
        BY <2>0, <2>2
      <3>7. RowsLand'
        BY <1>d, <2>a, <3>2, <3>3, <3>6 DEF RowsLand
      <3>8. Resuming'
        BY <1>d, <3>2, <3>3 DEF Resuming, ImportResumes
      <3> QED BY <1>d, <3>2, <3>3, <3>4, <3>5, <3>7, <3>8 DEF PivotInv
    <2> QED BY <2>1, <2>2
  <1> QED BY <1>1, <1>2, <1>3, <1>4, <1>5, <1>6, <1>7

\* The import that opens an account, or finds that it has come into being since.
LEMMA AddUserKeepsInv ==
  ASSUME ImportAssumption, PivotInv, AddUser
  PROVE  PivotInv'
  <1>a. /\ importer \in Importers /\ importer.todo \subseteq Users \cup Profiles /\ importer.pc = "adduser"
        /\ importer.todo \subseteq Users /\ importer.cur \in Users /\ accounts \subseteq Emails
        /\ importer.table = 1
    BY DEF PivotInv, ImportTyped, Importers, AddUser, AtHand, RowsLand
  <1>b. UNCHANGED <<pivot, member, spaces, imported, spoiled>>
    BY DEF AddUser
  <1>c. ASSUME NEW x \in Importers, importer' = x, x.placed = importer.placed, accounts' \subseteq Emails
        PROVE  /\ ImportTyped'
               /\ (\A p \in Profiles : importer.placed[p] # 0 => PlaceStands(importer.placed[p], p))'
               /\ \A r, q \in imported' : r.profile = q.profile /\ r.table = q.table => r = q
               /\ \A r \in imported' : r.table \in Scoped => PlaceStands(r.space, r.profile)'
               /\ \A s \in spaces' : s.legacy = Nobody
                    \/ \E p \in Profiles : s.legacy = pivot'.admin[p] /\ s.owner = Owner(p)'
    BY <1>b, <1>c, ImporterMoves
  <1>d. PICK e \in Emails : e = pivot.email[importer.cur]
    BY <1>a, PivotHolds DEF PivotInv
  <1>1. CASE e \in accounts
    <2>1. PICK x : x = [importer EXCEPT !.pc = "failed"]
      OBVIOUS
    <2>2. x \in Importers /\ x.pc = "failed" /\ x.placed = importer.placed /\ x.hit = importer.hit
      BY <1>a, <2>1 DEF Importers, ImporterPcs
    <2>3. importer' = x /\ accounts' = accounts
      BY <1>1, <1>d, <2>1 DEF AddUser, Go
    <2>4. importer.hit
      BY <1>1, <1>a, <1>d DEF PivotInv, Resuming
    <2>5. AtHand' /\ AccountsPointed'
      BY <2>2, <2>3 DEF AtHand, AccountsPointed
    <2>6. Placed' /\ RowsLand'
      BY <1>a, <1>c, <2>2, <2>3 DEF Placed, RowsLand
    <2>7. Resuming'
      BY <1>a, <1>c, <2>2, <2>3, <2>4 DEF Resuming, ImportResumes
    <2> QED BY <1>a, <1>c, <2>2, <2>3, <2>5, <2>6, <2>7 DEF PivotInv
  <1>2. CASE e \notin accounts
    <2>1. PICK x : x = [importer EXCEPT !.pc = "users", !.todo = @ \ {importer.cur}]
      OBVIOUS
    <2>2. /\ x \in Importers /\ x.pc = "users" /\ x.placed = importer.placed /\ x.hit = importer.hit
          /\ x.seen = importer.seen /\ x.todo \subseteq Users /\ x.table = 1
      BY <1>a, <2>1 DEF Importers, ImporterPcs
    <2>3. importer' = x /\ accounts' \subseteq Emails
      BY <1>2, <1>a, <1>d, <2>1 DEF AddUser
    <2>5. AtHand' /\ AccountsPointed'
      BY <2>2, <2>3 DEF AtHand, AccountsPointed
    <2>6. Placed' /\ RowsLand'
      BY <1>a, <1>c, <2>2, <2>3 DEF Placed, RowsLand
    <2>7. Resuming'
      BY <1>a, <1>b, <1>c, <2>2, <2>3 DEF PivotInv, Resuming, ImportResumes
    <2> QED BY <1>a, <1>c, <2>2, <2>3, <2>5, <2>6, <2>7 DEF PivotInv
  <1> QED BY <1>1, <1>2

\* The import that opens a workspace, or finds its place taken.
LEMMA AddSpaceKeepsInv ==
  ASSUME ImportAssumption, PivotInv, AddSpace
  PROVE  PivotInv'
  <1>a. /\ importer \in Importers /\ importer.pc = "addspace" /\ importer.placed \in [Profiles -> Nat]
        /\ importer.todo \subseteq Profiles /\ importer.cur \in importer.todo /\ accounts \subseteq Emails
        /\ importer.table = 1 /\ spaces \subseteq SpaceRows /\ IsFiniteSet(spaces)
    BY DEF PivotInv, ImportTyped, Importers, AddSpace, AtHand, RowsLand
  <1>b. UNCHANGED <<pivot, accounts, member, imported, spoiled>>
    BY DEF AddSpace
  <1>c. PICK p \in Profiles : p = importer.cur
    BY <1>a
  <1>d. PICK rivals : rivals = OwnedSpaces(p) \cup {s \in spaces : s.legacy = pivot.admin[p]}
    OBVIOUS
  <1>1. CASE rivals # {}
    <2>1. PICK x : x = [importer EXCEPT !.pc = "failed"]
      OBVIOUS
    <2>2. /\ x \in Importers /\ x.pc = "failed" /\ x.placed = importer.placed /\ x.hit = importer.hit
          /\ x.seen = importer.seen
      BY <1>a, <2>1 DEF Importers, ImporterPcs
    <2>3. importer' = x /\ spaces' = spaces
      BY <1>1, <1>c, <1>d, <2>1 DEF AddSpace, Go
    <2>4. /\ ImportTyped'
          /\ (\A q \in Profiles : importer.placed[q] # 0 => PlaceStands(importer.placed[q], q))'
          /\ \A r, q \in imported' : r.profile = q.profile /\ r.table = q.table => r = q
          /\ \A r \in imported' : r.table \in Scoped => PlaceStands(r.space, r.profile)'
          /\ \A s \in spaces' : s.legacy = Nobody
               \/ \E q \in Profiles : s.legacy = pivot'.admin[q] /\ s.owner = Owner(q)'
      <3>1. accounts' \subseteq Emails
        BY <1>a, <1>b
      <3> QED BY <1>b, <2>2, <2>3, <3>1, ImporterMoves
    <2>5. AtHand' /\ AccountsPointed'
      BY <2>2, <2>3 DEF AtHand, AccountsPointed
    <2>6. Placed' /\ RowsLand'
      BY <1>a, <2>2, <2>3, <2>4 DEF Placed, RowsLand
    \* Unless something came in between, it is the workspace of an administrator who is no more.
    <2>7. ASSUME ~importer.hit PROVE importer.seen \cap Strangers # {}
      <3>1. PICK s \in spaces : s.legacy = pivot.admin[p]
        <4>1. OwnedSpaces(p) = {}
          BY <1>a, <1>c, <2>7 DEF PivotInv, Resuming
        <4> QED BY <1>1, <1>d, <4>1
      <3>2. pivot.admin[p] # Nobody
        BY PivotHolds DEF PivotInv
      <3>3. s.owner = Owner(p)
        <4>1. PICK q \in Profiles : s.legacy = pivot.admin[q] /\ s.owner = Owner(q)
          BY <3>1, <3>2 DEF PivotInv, Resuming
        <4>2. q = p
          BY <3>1, <4>1, PivotHolds DEF PivotInv
        <4> QED BY <4>1, <4>2
      <3>4. Owner(p) = Nobody
        <4>1. OwnedSpaces(p) = {}
          BY <1>a, <1>c, <2>7 DEF PivotInv, Resuming
        <4> QED BY <3>3, <4>1 DEF OwnedSpaces, SpacesOf
      <3>5. pivot.admin[p] \in Strangers
        BY <3>4, PivotHolds DEF PivotInv
      <3>6. s.legacy \in importer.seen
        <4>1. ASSUME NEW q \in Profiles \ importer.todo, s.legacy = pivot.admin[q] PROVE FALSE
          <5>1. q = p
            BY <3>1, <4>1, PivotHolds DEF PivotInv
          <5> QED BY <1>a, <1>c, <4>1, <5>1
        <4>2. s.legacy \in importer.seen \cup {Nobody} \/ \E q \in Profiles \ importer.todo : s.legacy = pivot.admin[q]
          BY <1>a, <2>7, <3>1 DEF PivotInv, Resuming
        <4> QED BY <3>1, <3>2, <4>1, <4>2
      <3> QED BY <3>1, <3>5, <3>6
    <2>8. Resuming'
      BY <2>2, <2>3, <2>4, <2>7 DEF Resuming, ImportResumes
    <2> QED BY <2>2, <2>3, <2>4, <2>5, <2>6, <2>8 DEF PivotInv
  <1>2. CASE rivals = {}
    <2>1. PICK n \in Nat \ {0} : n = NextSpace
      BY NextSpaceIs DEF PivotInv
    <2>2. PICK row : row = [id |-> n, owner |-> Owner(p), legacy |-> pivot.admin[p]]
      OBVIOUS
    <2>3. row \in SpaceRows /\ row.id = n /\ row.owner = Owner(p) /\ row.legacy = pivot.admin[p]
      <3>1. Owner(p) \in Emails \cup {Nobody} /\ pivot.admin[p] \in Users \cup Strangers
        BY PivotHolds DEF PivotInv
      <3> QED BY <2>2, <3>1 DEF SpaceRows
    <2>4. PICK f : f = [importer.placed EXCEPT ![p] = n]
      OBVIOUS
    <2>5. f \in [Profiles -> Nat] /\ f[p] = n /\ \A q \in Profiles \ {p} : f[q] = importer.placed[q]
      BY <1>a, <2>4
    <2>6. PICK x : x = [importer EXCEPT !.pc = "profiles", !.todo = @ \ {p}, !.placed = f]
      OBVIOUS
    <2>7. /\ x \in Importers /\ x.pc = "profiles" /\ x.todo = importer.todo \ {p} /\ x.placed = f /\ x.table = 1
          /\ x.hit = importer.hit /\ x.seen = importer.seen /\ x.dry = importer.dry
      BY <1>a, <2>5, <2>6 DEF Importers, ImporterPcs
    <2>8. importer' = x /\ spaces' = spaces \cup {row}
      BY <1>2, <1>a, <1>c, <1>d, <2>1, <2>2, <2>4, <2>6 DEF AddSpace, Importers
    <2>9. ImportTyped'
      <3>1. IsFiniteSet(spaces')
        BY <1>a, <2>8, FS_AddElement
      <3> QED BY <1>a, <1>b, <2>3, <2>7, <2>8, <3>1 DEF PivotInv, ImportTyped
    <2>10. /\ \A m, q : PlaceStands(m, q) => PlaceStands(m, q)'
           /\ \A q : Owner(q)' = Owner(q)
      BY <1>b, <2>8, WorldGrows
    <2>11. AtHand' /\ AccountsPointed'
      BY <1>a, <2>7, <2>8 DEF AtHand, AccountsPointed
    <2>12. PlaceStands(n, p)'
      BY <1>b, <2>3, <2>8, <2>10 DEF PlaceStands, StandsFor
    <2>13. (\A q \in Profiles : importer.placed[q] # 0 => PlaceStands(importer.placed[q], q))'
      <3>1. ASSUME NEW q \in Profiles, f[q] # 0 PROVE PlaceStands(importer.placed[q], q)'
        <4>1. PICK m : m = f[q]
          OBVIOUS
        <4>2. PlaceStands(m, q)'
          <5>1. CASE q = p
            BY <2>5, <2>12, <4>1, <5>1
          <5>2. CASE q # p
            BY <2>5, <2>10, <3>1, <4>1, <5>2 DEF PivotInv, Placed
          <5> QED BY <5>1, <5>2
        <4> QED BY <2>7, <2>8, <4>1, <4>2 DEF PlaceStands, StandsFor
      <3> QED BY <2>7, <2>8, <3>1
    <2>14. Placed'
      <3>1. ASSUME ~importer.dry, NEW q \in Profiles \ x.todo PROVE f[q] # 0
        <4>1. \A r \in Profiles \ importer.todo : importer.placed[r] # 0
          BY <1>a, <3>1 DEF PivotInv, Placed
        <4> QED BY <2>5, <2>7, <3>1, <4>1
      <3>2. (~importer.dry => \A q \in Profiles \ importer.todo : importer.placed[q] # 0)'
        BY <2>7, <2>8, <3>1
      <3> QED BY <2>7, <2>8, <2>13, <3>2 DEF Placed
    <2>15. RowsLand'
      BY <1>a, <1>b, <2>7, <2>8, <2>10 DEF PivotInv, RowsLand
    <2>16. Resuming'
      <3>1. \A s \in spaces' : s.legacy = Nobody
              \/ \E q \in Profiles : s.legacy = pivot'.admin[q] /\ s.owner = Owner(q)'
        BY <1>b, <2>3, <2>8, <2>10 DEF PivotInv, Resuming
      <3>2. ASSUME ~importer.hit, NEW s \in spaces'
            PROVE  \/ s.legacy \in importer.seen \cup {Nobody}
                   \/ \E q \in Profiles \ x.todo : s.legacy = pivot.admin[q]
        <4>1. CASE s = row
          BY <2>3, <2>7, <4>1
        <4>2. CASE s \in spaces
          BY <1>a, <2>7, <3>2, <4>2 DEF PivotInv, Resuming
        <4> QED BY <2>8, <4>1, <4>2
      <3> QED BY <1>b, <2>7, <2>8, <3>1, <3>2 DEF Resuming, ImportResumes
    <2> QED BY <2>9, <2>11, <2>14, <2>15, <2>16 DEF PivotInv
  <1> QED BY <1>1, <1>2

\* The import that points the accounts at their workspaces.
LEMMA PointUserKeepsInv ==
  ASSUME ImportAssumption, PivotInv, PointUser
  PROVE  PivotInv'
  <1>a. /\ importer \in Importers /\ importer.pc = "point" /\ importer.placed \in [Profiles -> Nat]
        /\ importer.todo \subseteq Users /\ importer.table = 1 /\ member \in [Emails -> Nat]
        /\ accounts \subseteq Emails /\ Tables \in Nat \ {0}
    BY DEF PivotInv, ImportTyped, Importers, PointUser, AtHand, RowsLand, ImportAssumption
  <1>b. UNCHANGED <<pivot, accounts, spaces, imported, spoiled>>
    BY DEF PointUser
  <1>c. /\ \A n, p : PlaceStands(n, p) => PlaceStands(n, p)'
        /\ \A p, t : RowLanded(p, t) => RowLanded(p, t)'
        /\ member' = member => \A u : Pointed(u) => Pointed(u)'
        /\ \A p : Owner(p)' = Owner(p)
    BY <1>b, WorldGrows
  <1>d. ASSUME NEW x \in Importers, importer' = x, x.placed = importer.placed, x.pc \in {"point", "rows"},
               x.dry = importer.dry, member' \in [Emails -> Nat]
        PROVE  ImportTyped' /\ Placed' /\ Resuming'
    <2>1. ImportTyped'
      BY <1>a, <1>b, <1>d DEF PivotInv, ImportTyped
    <2>2. (\A p \in Profiles : importer.placed[p] # 0 => PlaceStands(importer.placed[p], p))'
      <3>1. ASSUME NEW p \in Profiles, x.placed[p] # 0 PROVE PlaceStands(importer.placed[p], p)'
        <4>1. PICK n : n = x.placed[p]
          OBVIOUS
        <4>2. PlaceStands(n, p)'
          BY <1>c, <1>d, <3>1, <4>1 DEF PivotInv, Placed
        <4> QED BY <1>d, <4>1, <4>2 DEF PlaceStands, StandsFor
      <3> QED BY <1>d, <3>1
    <2>3. Placed'
      BY <1>a, <1>d, <2>2 DEF PivotInv, Placed
    <2>4. Resuming'
      BY <1>a, <1>b, <1>c, <1>d DEF PivotInv, Resuming, ImportResumes
    <2> QED BY <2>1, <2>3, <2>4
  <1>1. CASE importer.todo = {}
    <2>1. PICK x : x = [importer EXCEPT !.pc = "rows", !.todo = Profiles]
      OBVIOUS
    <2>2. /\ x \in Importers /\ x.pc = "rows" /\ x.placed = importer.placed /\ x.dry = importer.dry
          /\ x.todo = Profiles /\ x.table = 1
      BY <1>a, <2>1 DEF Importers, ImporterPcs
    <2>3. importer' = x /\ member' = member
      BY <1>1, <2>1 DEF PointUser
    <2>4. AtHand'
      BY <2>2, <2>3 DEF AtHand
    <2>5. AccountsPointed'
      BY <1>1, <1>a, <1>c, <2>2, <2>3 DEF PivotInv, AccountsPointed
    <2>6. RowsLand'
      <3>1. importer.table' = 1 /\ 1..(1 - 1) = {} /\ 1 \in 1..Tables
        BY <1>a, <2>2, <2>3
      <3> QED BY <1>b, <1>c, <2>2, <2>3, <3>1 DEF PivotInv, RowsLand
    <2> QED BY <1>a, <1>d, <2>2, <2>3, <2>4, <2>5, <2>6 DEF PivotInv
  <1>2. ASSUME NEW u \in importer.todo, importer' = [importer EXCEPT !.todo = @ \ {u}],
               member' = IF pivot.home[u] = NoProfile THEN member
                         ELSE [member EXCEPT ![pivot.email[u]] = importer.placed[pivot.home[u]]]
        PROVE  PivotInv'
    <2>1. PICK x : x = [importer EXCEPT !.todo = @ \ {u}]
      OBVIOUS
    <2>2. /\ x \in Importers /\ x.pc = "point" /\ x.placed = importer.placed /\ x.dry = importer.dry
          /\ x.todo = importer.todo \ {u} /\ x.table = 1
      BY <1>a, <2>1 DEF Importers
    <2>3. importer' = x
      BY <1>2, <2>1
    <2>4. AtHand'
      BY <1>a, <2>2, <2>3 DEF AtHand
    <2>5. RowsLand'
      BY <1>b, <1>c, <2>2, <2>3 DEF PivotInv, RowsLand
    <2>6. u \in Users
      BY <1>a
    <2>7. PICK e \in Emails : e = pivot.email[u]
      BY <2>6, PivotHolds DEF PivotInv
    <2>8. CASE pivot.home[u] = NoProfile
      <3>1. member' = member
        BY <1>2, <2>8
      <3>2. Pointed(u)'
        BY <1>b, <2>8 DEF Pointed
      <3>3. AccountsPointed'
        BY <1>a, <1>c, <2>2, <2>3, <3>1, <3>2 DEF PivotInv, AccountsPointed
      <3> QED BY <1>a, <1>d, <2>2, <2>3, <2>4, <2>5, <3>1, <3>3 DEF PivotInv
    <2>9. CASE pivot.home[u] # NoProfile
      <3>1. PICK h \in Profiles : h = pivot.home[u]
        BY <2>6, <2>9, PivotHolds DEF PivotInv
      <3>2. PICK n \in Nat : n = importer.placed[h]
        BY <1>a
      <3>3. member' = [member EXCEPT ![e] = n]
        BY <1>2, <2>7, <2>9, <3>1, <3>2
      <3>4. PICK f : f = [member EXCEPT ![e] = n]
        OBVIOUS
      <3>5. f \in [Emails -> Nat] /\ f[e] = n /\ \A g \in Emails \ {e} : f[g] = member[g]
        BY <1>a, <3>4
      <3>6. ASSUME ~importer.dry PROVE PlaceStands(n, h)'
        BY <1>a, <1>c, <3>2, <3>6 DEF PivotInv, Placed
      <3>7. ASSUME ~importer.dry, NEW w \in Users \ x.todo PROVE Pointed(w)'
        <4>1. CASE pivot.home[w] = NoProfile
          BY <1>b, <4>1 DEF Pointed
        <4>2. CASE pivot.email[w] = e
          <5>1. PICK v \in Users : v = u
            BY <2>6
          <5>2. PlaceStands(member[pivot.email[w]], pivot.home[v])'
            BY <1>b, <3>1, <3>3, <3>4, <3>5, <3>6, <3>7, <4>2, <5>1 DEF PlaceStands, StandsFor
          <5>3. pivot.email[v] = pivot.email[w] /\ pivot.home[v] # NoProfile
            BY <2>7, <2>9, <4>2, <5>1
          <5> QED BY <1>b, <5>2, <5>3 DEF Pointed
        <4>3. CASE pivot.email[w] # e /\ pivot.home[w] # NoProfile
          <5>1. Pointed(w)
            <6>1. w \in Users \ importer.todo
              BY <2>2, <2>7, <3>7, <4>3
            <6> QED BY <1>a, <3>7, <6>1 DEF PivotInv, AccountsPointed
          <5>2. PICK v \in Users : /\ pivot.email[v] = pivot.email[w] /\ pivot.home[v] # NoProfile
                                   /\ PlaceStands(member[pivot.email[w]], pivot.home[v])
            BY <4>3, <5>1 DEF Pointed
          <5>3. PICK m, p : m = member[pivot.email[w]] /\ p = pivot.home[v]
            OBVIOUS
          <5>4. PlaceStands(m, p)'
            BY <1>c, <5>2, <5>3
          <5>5. pivot.email[w] \in Emails
            BY PivotHolds DEF PivotInv
          <5>6. f[pivot.email[w]] = m
            BY <3>5, <4>3, <5>3, <5>5
          <5>7. PlaceStands(member[pivot.email[w]], pivot.home[v])'
            BY <1>b, <3>3, <3>4, <5>3, <5>4, <5>6 DEF PlaceStands, StandsFor
          <5> QED BY <1>b, <5>2, <5>7 DEF Pointed
        <4> QED BY <4>1, <4>2, <4>3
      <3>8. AccountsPointed'
        BY <2>2, <2>3, <3>7 DEF AccountsPointed
      <3>9. member' \in [Emails -> Nat]
        BY <3>3, <3>4, <3>5
      <3> QED BY <1>a, <1>d, <2>2, <2>3, <2>4, <2>5, <3>8, <3>9 DEF PivotInv
    <2> QED BY <2>8, <2>9
  <1> QED BY <1>1, <1>2 DEF PointUser

\* The import that copies a row.
LEMMA CopyRowKeepsInv ==
  ASSUME ImportAssumption, PivotInv, CopyRow
  PROVE  PivotInv'
  <1>a. /\ importer \in Importers /\ importer.pc = "rows" /\ importer.placed \in [Profiles -> Nat]
        /\ importer.todo \subseteq Profiles /\ importer.table \in 1..Tables /\ importer.told \in Nat
        /\ accounts \subseteq Emails /\ Tables \in Nat \ {0}
    BY DEF PivotInv, ImportTyped, Importers, CopyRow, AtHand, RowsLand, ImportAssumption
  <1>b. UNCHANGED <<pivot, accounts, member, spaces>>
    BY DEF CopyRow
  <1>c. PICK t \in 1..Tables : t = importer.table
    BY <1>a
  <1>d. PICK p \in Profiles, usable \in BOOLEAN, lands \in BOOLEAN :
          /\ p \in importer.todo
          /\ usable = (t \notin Scoped \/ importer.placed[p] # 0)
          /\ lands = (usable /\ ~There(p, t) /\ (t = 1 \/ There(p, t - 1)))
          /\ importer' = [importer EXCEPT !.todo = @ \ {p}, !.told = IF usable THEN @ + 1 ELSE @]
          /\ IF lands /\ ~importer.dry
             THEN \/ /\ imported' = imported \cup {Row(p, t)}
                     /\ UNCHANGED <<spoiled, importFaults>>
                  \/ /\ spoiled' = spoiled \cup {<<p, t>>}
                     /\ UNCHANGED imported
             ELSE UNCHANGED <<imported, spoiled, importFaults>>
    BY <1>a, <1>c DEF CopyRow
  <1>1. PICK n \in Nat : n = IF usable THEN importer.told + 1 ELSE importer.told
    BY <1>a
  <1>2. PICK x : x = [importer EXCEPT !.todo = @ \ {p}, !.told = n]
    OBVIOUS
  <1>3. /\ x \in Importers /\ x.pc = "rows" /\ x.placed = importer.placed /\ x.dry = importer.dry
        /\ x.todo = importer.todo \ {p} /\ x.table = t
    BY <1>a, <1>c, <1>1, <1>2 DEF Importers
  <1>4. importer' = x
    BY <1>a, <1>d, <1>1, <1>2 DEF Importers
  <1>5. imported \subseteq imported' /\ spoiled \subseteq spoiled'
    BY <1>d
  <1>6. /\ \A m, q : PlaceStands(m, q) => PlaceStands(m, q)'
        /\ \A q, k : RowLanded(q, k) => RowLanded(q, k)'
        /\ \A u : Pointed(u) => Pointed(u)'
        /\ \A q : Owner(q)' = Owner(q)
    BY <1>b, <1>5, WorldGrows
  <1>7. ImportTyped' /\ AtHand' /\ AccountsPointed' /\ Resuming'
    <2>1. ImportTyped'
      BY <1>b, <1>3, <1>4 DEF PivotInv, ImportTyped
    <2>2. AtHand'
      BY <1>a, <1>3, <1>4 DEF AtHand
    <2>3. AccountsPointed'
      BY <1>a, <1>3, <1>4, <1>6 DEF PivotInv, AccountsPointed
    <2>4. Resuming'
      BY <1>a, <1>b, <1>3, <1>4, <1>6 DEF PivotInv, Resuming, ImportResumes
    <2> QED BY <2>1, <2>2, <2>3, <2>4
  <1>8. Placed'
    <2>1. ASSUME NEW q \in Profiles, x.placed[q] # 0 PROVE PlaceStands(importer.placed[q], q)'
      <3>1. PICK m : m = x.placed[q]
        OBVIOUS
      <3>2. PlaceStands(m, q)'
        BY <1>3, <1>6, <2>1, <3>1 DEF PivotInv, Placed
      <3> QED BY <1>4, <3>1, <3>2 DEF PlaceStands, StandsFor
    <2>2. (\A q \in Profiles : importer.placed[q] # 0 => PlaceStands(importer.placed[q], q))'
      BY <1>4, <2>1
    <2> QED BY <1>a, <1>3, <1>4, <2>2 DEF PivotInv, Placed
  <1>9. PICK row : row = Row(p, t)
    OBVIOUS
  <1>10. row.profile = p /\ row.table = t /\ row.space = IF t \in Scoped THEN importer.placed[p] ELSE 0
    BY <1>9 DEF Row
  \* It lands once, and in its place.
  <1>11. /\ \A r, q \in imported' : r.profile = q.profile /\ r.table = q.table => r = q
         /\ \A r \in imported' : r.table \in Scoped => PlaceStands(r.space, r.profile)'
    <2>0. /\ \A r, q \in imported : r.profile = q.profile /\ r.table = q.table => r = q
          /\ \A r \in imported : r.table \in Scoped => PlaceStands(r.space, r.profile)'
      BY <1>6 DEF PivotInv, RowsLand
    <2>1. CASE lands /\ ~importer.dry /\ imported' = imported \cup {row}
      <3>1. \A r \in imported : ~(r.profile = p /\ r.table = t)
        BY <1>d, <2>1 DEF There
      <3>2. ASSUME t \in Scoped PROVE PlaceStands(row.space, row.profile)'
        <4>1. PlaceStands(importer.placed[p], p)
          BY <1>d, <2>1, <3>2 DEF PivotInv, Placed
        <4>2. PICK m : m = importer.placed[p]
          OBVIOUS
        <4>3. PlaceStands(m, p)'
          BY <1>6, <4>1, <4>2
        <4> QED BY <1>10, <3>2, <4>2, <4>3
      <3> QED BY <1>10, <2>0, <2>1, <3>1, <3>2
    <2>2. CASE imported' = imported
      BY <2>0, <2>2
    <2> QED BY <1>d, <1>9, <2>1, <2>2
  <1>12. ASSUME ~importer.dry PROVE RowLanded(p, t)'
    <2>1. CASE imported' = imported \cup {row}
      BY <1>10, <2>1 DEF RowLanded, There
    <2>2. CASE spoiled' = spoiled \cup {<<p, t>>}
      <3>1. t \in 1..t
        BY <1>c
      <3> QED BY <2>2, <3>1 DEF RowLanded
    <2>3. CASE ~lands
      <3>1. usable
        BY <1>a, <1>d, <1>12 DEF PivotInv, Placed
      <3>2. CASE There(p, t)
        BY <1>6, <3>2 DEF RowLanded
      <3>3. CASE t # 1 /\ ~There(p, t - 1)
        <4>1. t - 1 \in 1..(t - 1) /\ \A k \in 1..(t - 1) : k \in 1..t
          BY <1>c, <3>3
        <4>2. RowLanded(p, t - 1)
          BY <1>a, <1>c, <1>12, <4>1 DEF PivotInv, RowsLand
        <4>3. \E k \in 1..t : <<p, k>> \in spoiled
          BY <3>3, <4>1, <4>2 DEF RowLanded
        <4> QED BY <1>5, <4>3 DEF RowLanded
      <3> QED BY <1>d, <2>3, <3>1, <3>2, <3>3
    <2> QED BY <1>d, <1>9, <1>12, <2>1, <2>2, <2>3
  <1>13. RowsLand'
    <2>1. ASSUME ~importer.dry PROVE /\ \A q \in Profiles : \A k \in 1..(t - 1) : RowLanded(q, k)'
                                     /\ \A q \in Profiles \ x.todo : RowLanded(q, t)'
      BY <1>a, <1>c, <1>3, <1>6, <1>12, <2>1 DEF PivotInv, RowsLand
    <2>2. importer' = x /\ x.table = t /\ x.pc = "rows" /\ x.dry = importer.dry
      BY <1>3, <1>4
    <2>3. (~importer.dry => /\ \A q \in Profiles : \A k \in 1..(importer.table - 1) : RowLanded(q, k)
                            /\ \A q \in Profiles \ importer.todo : RowLanded(q, importer.table))'
      <3>1. \A q : RowLanded(q, importer.table)' = RowLanded(q, t)'
        BY <2>2 DEF RowLanded, There
      <3> QED BY <2>1, <2>2, <3>1
    <2> QED BY <1>11, <2>2, <2>3 DEF RowsLand
  <1> QED BY <1>7, <1>8, <1>13 DEF PivotInv

\* Others who sign up and open workspaces meanwhile.
LEMMA OthersKeepInv ==
  ASSUME ImportAssumption, PivotInv, SignUp \/ EnsureSpace
  PROVE  PivotInv'
  <1>a. /\ importer \in Importers /\ accounts \subseteq Emails /\ member \in [Emails -> Nat]
        /\ spaces \subseteq SpaceRows /\ IsFiniteSet(spaces)
    BY DEF PivotInv, ImportTyped
  <1>b. UNCHANGED <<pivot, imported, spoiled>>
    BY DEF SignUp, EnsureSpace
  <1>1. PICK x : x = [importer EXCEPT !.hit = TRUE]
    OBVIOUS
  <1>2. /\ x \in Importers /\ x.hit /\ x.pc = importer.pc /\ x.placed = importer.placed /\ x.dry = importer.dry
        /\ x.todo = importer.todo /\ x.table = importer.table /\ x.cur = importer.cur
    BY <1>a, <1>1 DEF Importers
  <1>3. importer' = x
    BY <1>1 DEF SignUp, EnsureSpace
  <1>4. /\ accounts' \subseteq Emails /\ member' \in [Emails -> Nat]
        /\ spaces \subseteq spaces' /\ spaces' \subseteq SpaceRows /\ IsFiniteSet(spaces')
        /\ \A s \in spaces' \ spaces : s.legacy = Nobody
        /\ \A e \in Emails : member[e] # 0 => member'[e] = member[e]
    <2>1. CASE SignUp
      BY <1>a, <2>1 DEF SignUp
    <2>2. CASE EnsureSpace
      <3>1. PICK e \in Emails :
              /\ member[e] = 0
              /\ \/ \E s \in SpacesOf(e) : member' = [member EXCEPT ![e] = s.id] /\ UNCHANGED spaces
                 \/ /\ spaces' = spaces \cup {[id |-> NextSpace, owner |-> e, legacy |-> Nobody]}
                    /\ member' = [member EXCEPT ![e] = NextSpace]
        BY <1>a, <2>2 DEF EnsureSpace
      <3>2. accounts' = accounts
        BY <2>2 DEF EnsureSpace
      <3>3. ASSUME NEW s \in SpacesOf(e), member' = [member EXCEPT ![e] = s.id], UNCHANGED spaces
            PROVE  member' \in [Emails -> Nat]
        <4>1. s.id \in Nat
          BY <1>a DEF SpacesOf, SpaceRows
        <4> QED BY <1>a, <3>3, <4>1
      <3>4. ASSUME spaces' = spaces \cup {[id |-> NextSpace, owner |-> e, legacy |-> Nobody]},
                   member' = [member EXCEPT ![e] = NextSpace]
            PROVE  /\ member' \in [Emails -> Nat] /\ spaces' \subseteq SpaceRows /\ IsFiniteSet(spaces')
                   /\ \A s \in spaces' \ spaces : s.legacy = Nobody
        <4>1. PICK n \in Nat \ {0} : n = NextSpace
          BY NextSpaceIs DEF PivotInv
        <4>2. PICK row \in SpaceRows : row = [id |-> n, owner |-> e, legacy |-> Nobody]
          BY DEF SpaceRows
        <4>3. IsFiniteSet(spaces \cup {row})
          BY <1>a, FS_AddElement
        <4> QED BY <1>a, <3>4, <4>1, <4>2, <4>3
      <3>5. \A f \in Emails : member[f] # 0 => member'[f] = member[f]
        BY <1>a, <3>1
      <3> QED BY <1>a, <3>1, <3>2, <3>3, <3>4, <3>5
    <2> QED BY <2>1, <2>2
  <1>5. /\ \A n, p : PlaceStands(n, p) => PlaceStands(n, p)'
        /\ \A p, t : RowLanded(p, t) => RowLanded(p, t)'
        /\ \A p : Owner(p)' = Owner(p)
    BY <1>b, <1>4, WorldGrows
  <1>6. ImportTyped' /\ AtHand' /\ RowsLand'
    <2>1. ImportTyped'
      BY <1>b, <1>2, <1>3, <1>4 DEF PivotInv, ImportTyped
    <2>2. AtHand'
      BY <1>2, <1>3 DEF PivotInv, AtHand
    <2>3. /\ \A r, q \in imported' : r.profile = q.profile /\ r.table = q.table => r = q
          /\ \A r \in imported' : r.table \in Scoped => PlaceStands(r.space, r.profile)'
      BY <1>b, <1>5 DEF PivotInv, RowsLand
    <2>4. RowsLand'
      BY <1>2, <1>3, <1>5, <2>3 DEF PivotInv, RowsLand
    <2> QED BY <2>1, <2>2, <2>4
  <1>7. Placed'
    <2>1. ASSUME NEW q \in Profiles, x.placed[q] # 0 PROVE PlaceStands(importer.placed[q], q)'
      <3>1. PICK m : m = x.placed[q]
        OBVIOUS
      <3>2. PlaceStands(m, q)'
        BY <1>2, <1>5, <2>1, <3>1 DEF PivotInv, Placed
      <3> QED BY <1>3, <3>1, <3>2 DEF PlaceStands, StandsFor
    <2>2. (\A q \in Profiles : importer.placed[q] # 0 => PlaceStands(importer.placed[q], q))'
      BY <1>3, <2>1
    <2> QED BY <1>2, <1>3, <2>2 DEF PivotInv, Placed
  \* An account that was pointed has a workspace, and keeps it.
  <1>8. ASSUME NEW u \in Users, Pointed(u) PROVE Pointed(u)'
    <2>1. CASE pivot.home[u] = NoProfile
      BY <1>b, <2>1 DEF Pointed
    <2>2. CASE pivot.home[u] # NoProfile
      <3>1. PICK v \in Users : /\ pivot.email[v] = pivot.email[u] /\ pivot.home[v] # NoProfile
                               /\ PlaceStands(member[pivot.email[u]], pivot.home[v])
        BY <1>8, <2>2 DEF Pointed
      <3>2. PICK m, p : m = member[pivot.email[u]] /\ p = pivot.home[v]
        OBVIOUS
      <3>3. m # 0
        BY <1>a, <3>1, <3>2 DEF PlaceStands, SpaceRows
      <3>4. pivot.email[u] \in Emails
        BY PivotHolds DEF PivotInv
      <3>5. member'[pivot.email[u]] = m
        BY <1>4, <3>2, <3>3, <3>4
      <3>6. PlaceStands(m, p)'
        BY <1>5, <3>1, <3>2
      <3>7. PlaceStands(member[pivot.email[u]], pivot.home[v])'
        BY <1>b, <3>2, <3>5, <3>6 DEF PlaceStands, StandsFor
      <3> QED BY <1>b, <3>1, <3>7 DEF Pointed
    <2> QED BY <2>1, <2>2
  <1>9. AccountsPointed'
    BY <1>2, <1>3, <1>8 DEF PivotInv, AccountsPointed
  <1>10. Resuming'
    <2>1. \A s \in spaces' : s.legacy = Nobody
            \/ \E p \in Profiles : s.legacy = pivot'.admin[p] /\ s.owner = Owner(p)'
      BY <1>b, <1>4, <1>5 DEF PivotInv, Resuming
    <2> QED BY <1>2, <1>3, <2>1 DEF Resuming, ImportResumes
  <1> QED BY <1>6, <1>7, <1>9, <1>10 DEF PivotInv

\* PivotInv is an invariant of the import.
LEMMA PivotInvariant == ASSUME ImportAssumption PROVE PivotSpec => []PivotInv
  <1>1. ImportInit => PivotInv
    <2> SUFFICES ASSUME ImportInit PROVE PivotInv
      OBVIOUS
    <2>1. Unplaced \in [Profiles -> Nat] /\ \A p \in Profiles : Unplaced[p] = 0
      BY DEF Unplaced
    <2>2. NotStarted \in Importers /\ NotStarted.pc = "idle" /\ NotStarted.placed = Unplaced
      BY <2>1 DEF NotStarted, Importers, ImporterPcs
    <2>3. importer.pc = "idle" /\ importer.placed = Unplaced
      BY <2>2 DEF ImportInit
    <2>4. ImportTyped
      BY <2>2, FS_EmptySet DEF ImportInit, ImportTyped
    <2>5. AtHand /\ Placed /\ AccountsPointed
      BY <2>1, <2>3 DEF AtHand, Placed, AccountsPointed
    <2>6. RowsLand /\ Resuming
      BY <2>3 DEF ImportInit, RowsLand, Resuming, ImportResumes
    <2> QED BY <2>4, <2>5, <2>6 DEF PivotInv
  <1>2. PivotInv /\ [ImportNext]_importVars => PivotInv'
    <2> SUFFICES ASSUME PivotInv, [ImportNext]_importVars PROVE PivotInv'
      OBVIOUS
    <2>1. CASE UNCHANGED importVars
      <3>0. UNCHANGED <<pivot, accounts, member, spaces, imported, spoiled, importer>>
        BY <2>1 DEF importVars
      <3>1. ImportTyped' /\ AtHand' /\ Resuming'
        BY <3>0 DEF PivotInv, ImportTyped, AtHand, Resuming, ImportResumes, OwnedSpaces, SpacesOf, Owner
      <3>2. Placed'
        BY <3>0 DEF PivotInv, Placed, PlaceStands, StandsFor, Owner
      <3>3. RowsLand'
        BY <3>0 DEF PivotInv, RowsLand, RowLanded, There, PlaceStands, StandsFor, Owner
      <3>4. AccountsPointed'
        BY <3>0 DEF PivotInv, AccountsPointed, Pointed, PlaceStands, StandsFor, Owner
      <3> QED BY <3>1, <3>2, <3>3, <3>4 DEF PivotInv
    <2> QED BY <2>1, LookingKeepsInv, AddUserKeepsInv, AddSpaceKeepsInv, PointUserKeepsInv, CopyRowKeepsInv,
               OthersKeepInv DEF ImportNext
  <1> QED BY <1>1, <1>2, PTL DEF PivotSpec

\* However often the import was broken off and started again, and whoever signed up
\* meanwhile, a row of PivotDB lands once and in the workspace that stands for its profile,
\* and an import that reports success left out no more than the rows that were refused and
\* those that refer to them, and pointed every account.
THEOREM ImportDoesLand == ASSUME ImportAssumption PROVE PivotSpec => []ImportLands
  <1>1. PivotInv => ImportLands
    <2> SUFFICES ASSUME PivotInv PROVE ImportLands
      OBVIOUS
    <2>1. \A r \in imported : r.table \in Scoped =>
            \E s \in spaces : s.id = r.space /\ StandsFor(s, r.profile)
      BY DEF PivotInv, RowsLand, PlaceStands
    <2>2. importer.pc = "done" /\ ~importer.dry =>
            \A p \in Profiles, t \in 1..Tables : There(p, t) \/ \E n \in 1..t : <<p, n>> \in spoiled
      BY DEF PivotInv, RowsLand, RowLanded
    <2>3. importer.pc = "done" /\ ~importer.dry =>
            \A u \in Users : pivot.home[u] # NoProfile =>
               \E v \in Users : /\ pivot.email[v] = pivot.email[u] /\ pivot.home[v] # NoProfile
                                /\ \E s \in spaces : /\ s.id = member[pivot.email[u]]
                                                     /\ StandsFor(s, pivot.home[v])
      BY DEF PivotInv, AccountsPointed, Pointed, PlaceStands
    <2>4. \A r, q \in imported : r.profile = q.profile /\ r.table = q.table => r = q
      BY DEF PivotInv, RowsLand
    <2> QED BY <2>1, <2>2, <2>3, <2>4 DEF ImportLands
  <1> QED BY <1>1, PivotInvariant, PTL

\* An import that is started again never trips over what the one before it left, unless a
\* profile's administrator is no more.
THEOREM ImportDoesResume == ASSUME ImportAssumption PROVE PivotSpec => []ImportResumes
  <1>1. PivotInv => ImportResumes
    BY DEF PivotInv, Resuming
  <1> QED BY <1>1, PivotInvariant, PTL

=============================================================================
