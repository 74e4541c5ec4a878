--------------------------- MODULE TransfersProofs ---------------------------
(***************************************************************************)
(* Proofs about how data moves.  A migration run, for any namespaces, sizes *)
(* of tables and batches, lanes, faults and deaths of the process: what it  *)
(* reports as succeeded is there, and no row lands twice but in a table     *)
(* without a key.  An import, for any number of imports, batches, faults    *)
(* and crashes: what it reports as done is there, if it was alone.  A field *)
(* between two engines, for any sample: what was read is held as it was,    *)
(* refused, or altered for a named cause.                                   *)
(***************************************************************************)
EXTENDS MigrationRun, DataImport, ColumnMapping, FiniteSetTheorems, TLAPS

Row == [old : Nat, copies : Nat]
LaneRec == [pc : LanePcs, ns : SUBSET Namespaces, next : Nat \ {0}, written : Nat, failed : Nat,
            writtenBefore : Nat, failedBefore : Nat]
Summary == [succeeded : Nat, failed : Nat, totalWritten : Nat, totalFailed : Nat, errors : SUBSET Namespaces]

RunTyped ==
    /\ run \in [present : BOOLEAN, phase : Phases, cancelRequested : BOOLEAN]
    /\ plan \in [writer : Writers, dropExisting : BOOLEAN, keyed : BOOLEAN, dryRun : BOOLEAN]
    /\ job \in Jobs /\ worker \in WorkerPcs
    /\ queue \subseteq Namespaces
    /\ lane \in [Lanes -> LaneRec]
    /\ summary \in Summary
    /\ faults \in 0..MaxFaults /\ stalls \in 0..MaxStalls
    /\ dest = [n \in Namespaces |-> dest[n]]
    /\ \A n \in Namespaces : dest[n] \in [RowsOf(n) -> Row]

\* Only an active job has a worker, only the stage of the lanes has lanes and a queue, and a
\* run that succeeded is done with.
Stages ==
    /\ worker # "idle" <=> job = "active"
    /\ worker # "lanes" => queue = {} /\ \A l \in Lanes : lane[l].pc = "idle"
    /\ run.phase = "succeeded" => job = "completed"

\* A namespace is in one hand, and not taken up yet while it is still queued.
Hand(l) == /\ lane[l].pc = "idle" \/ \E n \in Namespaces : lane[l].ns = {n}
           /\ lane[l].pc \in {"infer", "init"} => lane[l].next = 1
At(l, n) == lane[l].pc # "idle" /\ n \in lane[l].ns
OneHand ==
    /\ \A l \in Lanes : Hand(l)
    /\ \A n \in Namespaces : /\ n \in queue => \A l \in Lanes : ~At(l, n)
                             /\ \A l, k \in Lanes : At(l, n) /\ At(k, n) => l = k

Landed(n, r) == dest[n][r].copies > 0 \/ (plan.writer = "mongo" /\ dest[n][r].old > 0)
Whole(n) == \A r \in RowsOf(n) : Landed(n, r)
Clean == summary.failed = 0 /\ summary.errors = {} /\ summary.totalFailed = 0

\* What has been written without a failure is there, at each of the hand-overs.
LaneLands(l) ==
    \A n \in lane[l].ns :
      /\ lane[l].pc = "write" /\ lane[l].failed = 0 =>
           \A r \in RowsOf(n) : r < lane[l].next => Landed(n, r)
      /\ lane[l].pc = "finalize" /\ lane[l].failed = 0 => Whole(n)
NoLoss ==
    ~plan.dryRun =>
      /\ \A l \in Lanes : LaneLands(l)
      /\ worker = "lanes" /\ Clean =>
           \A n \in Namespaces \ queue : (\A l \in Lanes : ~At(l, n)) => Whole(n)
      /\ worker \in {"flush", "finish"} /\ Clean => \A n \in Namespaces : Whole(n)
      /\ run.phase = "succeeded" => \A n \in Namespaces : Whole(n)

\* Rows without a key that are still to be written have not been.
Fresh(n) == \A r \in RowsOf(n) : dest[n][r].copies = 0
LaneFresh(l) ==
    \A n \in lane[l].ns :
      /\ lane[l].pc = "write" => \A r \in RowsOf(n) : r >= lane[l].next => dest[n][r].copies = 0
      /\ lane[l].pc \in {"infer", "init"} /\ ~plan.dropExisting => Fresh(n)
NoRepeat ==
    ~plan.keyed /\ (plan.dropExisting \/ stalls = 0) =>
      /\ \A l \in Lanes : LaneFresh(l)
      /\ ~plan.dropExisting =>
           /\ job \in {"none", "waiting"} \/ worker \in {"find", "mark", "plan", "list"} =>
                \A n \in Namespaces : Fresh(n)
           /\ \A n \in queue : Fresh(n)

RunInv == RunTyped /\ Stages /\ OneHand /\ NoLoss /\ NoRepeat /\ CopiedOnce
(* Lemmas.                                                                   *)

\* A lane's step changes its record, its namespace and the summary, and nothing else.
LEMMA LaneMove ==
  ASSUME RunInv, NEW l \in Lanes, NEW x \in LaneRec, lane' = [lane EXCEPT ![l] = x], lane[l].pc # "idle",
         worker = "lanes", UNCHANGED <<run, plan, job, worker, queue, stalls>>,
         x.pc # "idle" => x.ns = lane[l].ns, x.pc \in {"infer", "init"} => x.next = 1,
         summary' \in Summary, Clean' => Clean, faults' \in 0..MaxFaults,
         dest' = [n \in Namespaces |-> dest'[n]], \A n \in Namespaces : dest'[n] \in [RowsOf(n) -> Row],
         \A n \in Namespaces \ lane[l].ns : dest'[n] = dest[n],
         ~plan.dryRun => LaneLands(l)',
         ~plan.dryRun /\ x.pc = "idle" /\ Clean' => \A n \in lane[l].ns : Whole(n)',
         ~plan.keyed /\ (plan.dropExisting \/ stalls = 0) => LaneFresh(l)',
         plan.keyed \/ plan.dropExisting \/ stalls = 0 =>
           \A n \in lane[l].ns : \A r \in RowsOf(n) : dest'[n][r].copies <= 1
  PROVE  RunInv'
  <1>1. /\ lane \in [Lanes -> LaneRec] /\ lane'[l] = x /\ \A k \in Lanes \ {l} : lane'[k] = lane[k]
        /\ lane[l].ns \subseteq Namespaces
    BY DEF RunInv, RunTyped, LaneRec
  <1>2. RunTyped'
    BY <1>1 DEF RunInv, RunTyped, RowsOf
  <1>3. Stages'
    BY <1>1 DEF RunInv, Stages
  <1>4. \A n \in Namespaces : /\ At(l, n)' => At(l, n)
                              /\ \A k \in Lanes \ {l} : At(k, n)' <=> At(k, n)
                              /\ n \in lane[l].ns => At(l, n)
    BY <1>1 DEF At
  <1>5. OneHand'
    <2>1. ASSUME NEW k \in Lanes PROVE Hand(k)'
      BY <1>1, <2>1 DEF RunInv, OneHand, Hand
    <2> QED BY <1>4, <2>1 DEF RunInv, OneHand
  <1>6. ASSUME NEW k \in Lanes \ {l}, lane[k].pc # "idle", NEW n \in lane[k].ns
        PROVE  dest'[n] = dest[n] /\ n \in Namespaces
    <2>1. n \in Namespaces
      BY <1>1, <1>6 DEF LaneRec
    <2>2. n \notin lane[l].ns
      BY <1>6, <2>1 DEF RunInv, OneHand, At
    <2> QED BY <2>1, <2>2
  <1>7. NoLoss'
    <2>1. SUFFICES ASSUME ~plan.dryRun PROVE NoLoss'
      BY DEF NoLoss
    <2>2. ASSUME NEW k \in Lanes PROVE LaneLands(k)'
      <3>1. CASE k = l
        BY <2>1, <3>1
      <3>2. CASE k # l /\ lane[k].pc # "idle"
        <4>1. LaneLands(k) /\ lane'[k] = lane[k]
          BY <1>1, <2>1, <3>2 DEF RunInv, NoLoss
        <4> QED BY <1>6, <3>2, <4>1 DEF LaneLands, Whole, Landed, RowsOf
      <3>3. CASE k # l /\ lane[k].pc = "idle"
        BY <1>1, <3>3 DEF LaneLands
      <3> QED BY <3>1, <3>2, <3>3
    <2>3. ASSUME Clean', NEW n \in Namespaces \ queue, \A k \in Lanes : ~At(k, n)' PROVE Whole(n)'
      <3>1. CASE n \in lane[l].ns
        <4>1. x.pc = "idle"
          BY <1>1, <2>3, <3>1 DEF At
        <4> QED BY <2>1, <2>3, <3>1, <4>1
      <3>2. CASE n \notin lane[l].ns
        <4>1. \A k \in Lanes : ~At(k, n)
          BY <1>4, <2>3, <3>2 DEF At
        <4>2. Whole(n)
          BY <2>1, <2>3, <4>1 DEF RunInv, NoLoss
        <4> QED BY <3>2, <4>2 DEF Whole, Landed, RowsOf
      <3> QED BY <3>1, <3>2
    <2>4. worker' = "lanes" /\ job = "active" /\ run'.phase # "succeeded"
      BY DEF RunInv, Stages
    <2> QED BY <2>2, <2>3, <2>4 DEF NoLoss
  <1>8. NoRepeat'
    <2>1. SUFFICES ASSUME ~plan.keyed, plan.dropExisting \/ stalls = 0 PROVE NoRepeat'
      BY DEF NoRepeat
    <2>2. ASSUME NEW k \in Lanes PROVE LaneFresh(k)'
      <3>1. CASE k = l
        BY <2>1, <3>1
      <3>2. CASE k # l /\ lane[k].pc # "idle"
        <4>1. LaneFresh(k) /\ lane'[k] = lane[k]
          BY <1>1, <2>1, <3>2 DEF RunInv, NoRepeat
        <4> QED BY <1>6, <3>2, <4>1 DEF LaneFresh, Fresh, RowsOf
      <3>3. CASE k # l /\ lane[k].pc = "idle"
        BY <1>1, <3>3 DEF LaneFresh
      <3> QED BY <3>1, <3>2, <3>3
    <2>3. ASSUME ~plan.dropExisting, NEW n \in queue PROVE Fresh(n)'
      <3>1. n \in Namespaces /\ n \notin lane[l].ns /\ Fresh(n)
        BY <1>4, <2>1, <2>3 DEF RunInv, RunTyped, OneHand, NoRepeat
      <3> QED BY <3>1 DEF Fresh, RowsOf
    <2>4. job' = "active" /\ worker' = "lanes"
      BY DEF RunInv, Stages
    <2> QED BY <2>2, <2>3, <2>4 DEF NoRepeat
  <1>9. CopiedOnce'
    BY DEF RunInv, CopiedOnce, RowsOf
  <1> QED BY <1>2, <1>3, <1>5, <1>7, <1>8, <1>9 DEF RunInv

\* What an unfailing flush leaves behind: all of its rows are there.
LEMMA BatchLands ==
  ASSUME RunInv, NEW n \in Namespaces, NEW batch, batch \subseteq RowsOf(n), NEW bad \in SUBSET batch,
         dest'[n] = [r \in RowsOf(n) |-> IF r \in Lands(n, batch, bad)
                                         THEN [dest[n][r] EXCEPT !.copies = @ + 1] ELSE dest[n][r]],
         plan' = plan
  PROVE  /\ dest'[n] \in [RowsOf(n) -> Row]
         /\ \A r \in RowsOf(n) : /\ Landed(n, r) => Landed(n, r)'
                                 /\ r \in batch /\ Lost(n, batch, bad) = {} => Landed(n, r)'
                                 /\ r \notin batch => dest'[n][r] = dest[n][r]
                                 /\ dest'[n][r].copies <= dest[n][r].copies + 1
                                 /\ plan.keyed /\ dest[n][r].copies <= 1 => dest'[n][r].copies <= 1
         /\ Lands(n, batch, bad) \subseteq batch /\ Lost(n, batch, bad) \subseteq batch
  <1> DEFINE in == Lands(n, batch, bad)
             lost == Lost(n, batch, bad)
  <1>1. dest[n] \in [RowsOf(n) -> Row] /\ in \subseteq batch /\ lost \subseteq batch
    BY DEF RunInv, RunTyped, Lands, Lost
  <1>2. \A r \in in : ~(plan.keyed /\ Present(n, r))
    BY DEF Lands
  <1>3. \A r \in batch : lost = {} => r \in in \/ (plan.writer = "mongo" /\ Present(n, r))
    BY DEF Lands, Lost
  <1>4. \A r \in RowsOf(n) : Present(n, r) => dest[n][r].copies > 0 \/ dest[n][r].old > 0
    BY <1>1 DEF Present, Row
  <1>5. \A r \in RowsOf(n) : plan.keyed /\ r \in in => dest[n][r].copies = 0
    <2>1. \A r \in RowsOf(n) : ~Present(n, r) => dest[n][r].copies = 0
      BY <1>1 DEF Present, Row
    <2> QED BY <1>2, <2>1
  <1> HIDE DEF in, lost
  <1>6. ASSUME NEW r \in RowsOf(n)
        PROVE  /\ dest'[n][r] \in Row /\ dest'[n][r].old = dest[n][r].old
               /\ dest'[n][r].copies = IF r \in in THEN dest[n][r].copies + 1 ELSE dest[n][r].copies
               /\ r \notin in => dest'[n][r] = dest[n][r]
    <2>1. dest[n][r] \in Row /\ dest'[n][r] = IF r \in in THEN [dest[n][r] EXCEPT !.copies = @ + 1] ELSE dest[n][r]
      BY <1>1 DEF in
    <2> QED BY <2>1 DEF Row
  <1>7. dest'[n] \in [RowsOf(n) -> Row]
    BY <1>6
  <1>8. \A r \in RowsOf(n) : dest[n][r] \in Row
    BY <1>1
  <1>9. ASSUME NEW r \in RowsOf(n)
        PROVE  /\ Landed(n, r) => Landed(n, r)'
               /\ r \in batch /\ lost = {} => Landed(n, r)'
               /\ r \notin batch => dest'[n][r] = dest[n][r]
               /\ dest'[n][r].copies <= dest[n][r].copies + 1
               /\ plan.keyed /\ dest[n][r].copies <= 1 => dest'[n][r].copies <= 1
    BY <1>1, <1>3, <1>4, <1>5, <1>6, <1>8 DEF Landed, Row
  <1> QED BY <1>1, <1>7, <1>9 DEF in, lost

\* The batch of a lane, of the one namespace it holds.
LEMMA BatchIs ==
  ASSUME RunTyped, NEW l \in Lanes, NEW n \in Namespaces, lane[l].ns = {n}
  PROVE  /\ Batch(l) = {r \in RowsOf(n) : lane[l].next <= r /\ r < lane[l].next + BatchSize}
         /\ \A S \in SUBSET Batch(l) : Cardinality(S) \in Nat /\ (Cardinality(S) = 0 => S = {})
  <1>1. Batch(l) = {r \in RowsOf(n) : lane[l].next <= r /\ r < lane[l].next + BatchSize}
    BY DEF Batch
  <1>2. Size[n] \in Nat
    BY MigrationRunAssumption DEF MigrationRunAssumption
  <1>3. IsFiniteSet(RowsOf(n))
    BY <1>2, FS_Interval DEF RowsOf
  <1>4. ASSUME NEW S \in SUBSET Batch(l) PROVE Cardinality(S) \in Nat /\ (Cardinality(S) = 0 => S = {})
    <2>1. S \subseteq RowsOf(n)
      BY <1>1
    <2>2. IsFiniteSet(S)
      BY <1>3, <2>1, FS_Subset
    <2> QED BY <2>2, FS_CardinalityType, FS_EmptySet
  <1> QED BY <1>1, <1>4

\* What Counted reports as clean had nothing failed.
LEMMA CountedIs ==
  ASSUME NEW s \in Summary, NEW l \in Lanes, lane[l] \in LaneRec
  PROVE  LET c == Counted(l, s) IN
         /\ c \in Summary
         /\ c.failed = 0 /\ c.errors = {} /\ c.totalFailed = 0 =>
              s.failed = 0 /\ s.errors = {} /\ s.totalFailed = 0
  <1> DEFINE c == Counted(l, s)
             s1 == [s EXCEPT !.failed = @ + 1]
             s2 == [s EXCEPT !.succeeded = @ + 1]
             s3 == [s1 EXCEPT !.errors = @ \cup lane[l].ns]
             s4 == [s2 EXCEPT !.errors = @ \cup lane[l].ns]
  <1>1. s1 \in Summary /\ s2 \in Summary /\ s1.failed = s.failed + 1
        /\ s2.failed = s.failed /\ s2.errors = s.errors /\ s2.totalFailed = s.totalFailed
        /\ s.failed \in Nat
    BY DEF Summary
  <1>2. lane[l].ns \subseteq Namespaces
    BY DEF LaneRec
  <1>3. c \in {s2, s3, s4}
    BY DEF Counted
  <1> HIDE DEF c, s1, s2
  <1>4. s3 \in Summary /\ s3.failed = s1.failed /\ s4 \in Summary /\ s4.failed = s2.failed
        /\ s4.errors = s2.errors \cup lane[l].ns /\ s4.totalFailed = s2.totalFailed
    BY <1>1, <1>2 DEF Summary
  <1> HIDE DEF s3, s4
  <1> QED BY <1>1, <1>3, <1>4 DEF c

\* A namespace that threw is on record.
LEMMA ThrownIs ==
  ASSUME RunInv, NEW l \in Lanes, Thrown(l)
  PROVE  /\ summary' \in Summary /\ ~Clean' /\ lane' = [lane EXCEPT ![l] = NoLane]
         /\ NoLane \in LaneRec /\ NoLane.pc = "idle"
  <1>1. summary \in Summary /\ lane[l].ns \subseteq Namespaces
    BY DEF RunInv, RunTyped, LaneRec
  <1>2. summary' \in Summary /\ summary'.failed # 0
    <2> DEFINE f == summary.failed + 1
               e == summary.errors \cup lane[l].ns
    <2>1. summary' = [summary EXCEPT !.failed = f, !.errors = e]
      BY DEF Thrown
    <2>2. f \in Nat /\ f # 0 /\ e \in SUBSET Namespaces
      BY <1>1 DEF Summary
    <2> HIDE DEF f, e
    <2> QED BY <1>1, <2>1, <2>2 DEF Summary
  <1> QED BY <1>2 DEF Thrown, Clean, NoLane, LaneRec, LanePcs

\* A lane takes a namespace.
LEMMA LaneTakes ==
  ASSUME RunInv, NEW l \in Lanes, Take(l)
  PROVE  RunInv'
  <1>1. PICK n \in queue : queue' = queue \ {n} /\ lane' = [lane EXCEPT ![l] = [NoLane EXCEPT !.pc = "infer", !.ns = {n},
                         !.writtenBefore = summary.totalWritten, !.failedBefore = summary.totalFailed]]
    BY DEF Take
  <1> DEFINE x == [NoLane EXCEPT !.pc = "infer", !.ns = {n}, !.writtenBefore = summary.totalWritten,
                                 !.failedBefore = summary.totalFailed]
  <1>2. n \in Namespaces /\ summary \in Summary /\ lane \in [Lanes -> LaneRec]
    BY DEF RunInv, RunTyped
  <1>3. x \in LaneRec /\ x.pc = "infer" /\ x.ns = {n} /\ x.next = 1
    <2>1. summary.totalWritten \in Nat /\ summary.totalFailed \in Nat /\ {n} \in SUBSET Namespaces
      BY <1>2 DEF Summary
    <2>2. PICK w, f : w = summary.totalWritten /\ f = summary.totalFailed
      OBVIOUS
    <2>3. PICK N : N = {n}
      OBVIOUS
    <2>4. NoLane \in LaneRec /\ NoLane.next = 1
      BY DEF NoLane, LaneRec, LanePcs
    <2>5. x = [NoLane EXCEPT !.pc = "infer", !.ns = N, !.writtenBefore = w, !.failedBefore = f]
      BY <2>2, <2>3
    <2> HIDE DEF x
    <2> QED BY <2>1, <2>2, <2>3, <2>4, <2>5 DEF LaneRec, LanePcs
  <1>4. lane' = [lane EXCEPT ![l] = x]
    BY <1>1
  <1> HIDE DEF x
  <1>5. lane' \in [Lanes -> LaneRec] /\ lane'[l] = x /\ \A k \in Lanes \ {l} : lane'[k] = lane[k]
    BY <1>2, <1>3, <1>4
  <1>6. UNCHANGED <<run, plan, job, worker, summary, dest, faults, stalls>> /\ lane[l].pc = "idle" /\ worker = "lanes"
    BY DEF Take, Busy
  <1>7. RunTyped'
    BY <1>1, <1>5, <1>6 DEF RunInv, RunTyped, RowsOf
  <1>8. Stages'
    BY <1>6 DEF RunInv, Stages
  <1>9. \A m \in Namespaces : /\ At(l, m)' <=> m = n
                              /\ \A k \in Lanes \ {l} : At(k, m)' <=> At(k, m)
                              /\ ~At(l, m)
    BY <1>3, <1>5, <1>6 DEF At
  <1>10. OneHand'
    <2>1. ASSUME NEW k \in Lanes PROVE Hand(k)'
      BY <1>2, <1>3, <1>5 DEF RunInv, OneHand, Hand
    <2> QED BY <1>1, <1>9, <2>1 DEF RunInv, OneHand
  <1>11. \A m \in Namespaces : (Whole(m) <=> Whole(m)') /\ (Fresh(m) <=> Fresh(m)')
    BY <1>6 DEF Whole, Landed, Fresh, RowsOf
  <1>12. NoLoss'
    <2>1. SUFFICES ASSUME ~plan.dryRun PROVE NoLoss'
      BY <1>6 DEF NoLoss
    <2>2. ASSUME NEW k \in Lanes PROVE LaneLands(k)'
      <3>1. CASE k = l
        BY <1>3, <1>5, <3>1 DEF LaneLands
      <3>2. CASE k # l
        BY <1>5, <1>6, <2>1, <3>2 DEF RunInv, NoLoss, LaneLands, Whole, Landed, RowsOf
      <3> QED BY <3>1, <3>2
    <2>3. ASSUME Clean', NEW m \in Namespaces \ queue', \A k \in Lanes : ~At(k, m)' PROVE Whole(m)'
      <3>1. m \notin queue /\ \A k \in Lanes : ~At(k, m)
        BY <1>1, <1>9, <2>3
      <3> QED BY <1>6, <1>11, <2>1, <2>3, <3>1 DEF RunInv, NoLoss, Clean
    <2> QED BY <1>6, <2>1, <2>2, <2>3, <1>8 DEF NoLoss, Stages, RunInv
  <1>13. NoRepeat'
    <2>1. SUFFICES ASSUME ~plan.keyed, plan.dropExisting \/ stalls = 0 PROVE NoRepeat'
      BY <1>6 DEF NoRepeat
    <2>2. ~plan.dropExisting => \A m \in queue : Fresh(m)
      BY <2>1 DEF RunInv, NoRepeat
    <2>3. ASSUME NEW k \in Lanes PROVE LaneFresh(k)'
      <3>1. CASE k = l
        BY <1>2, <1>3, <1>5, <1>6, <1>11, <2>2, <3>1 DEF LaneFresh
      <3>2. CASE k # l
        BY <1>5, <1>6, <2>1, <3>2 DEF RunInv, NoRepeat, LaneFresh, Fresh, RowsOf
      <3> QED BY <3>1, <3>2
    <2>4. job' = "active" /\ worker' = "lanes"
      BY <1>6 DEF RunInv, Stages
    <2>5. ASSUME ~plan.dropExisting, NEW m \in queue' PROVE Fresh(m)'
      <3>1. m \in queue /\ m \in Namespaces
        BY <1>1, <2>5 DEF RunInv, RunTyped
      <3> QED BY <1>11, <2>2, <2>5, <3>1
    <2> QED BY <1>6, <2>3, <2>4, <2>5 DEF NoRepeat
  <1>14. CopiedOnce'
    BY <1>6 DEF RunInv, CopiedOnce, RowsOf
  <1> QED BY <1>7, <1>8, <1>10, <1>12, <1>13, <1>14 DEF RunInv

\* What a lane at work has in its hand.
LEMMA LaneHas ==
  ASSUME RunInv, NEW l \in Lanes, lane[l].pc # "idle"
  PROVE  /\ worker = "lanes" /\ lane[l] \in LaneRec /\ lane \in [Lanes -> LaneRec]
         /\ \E n \in Namespaces : lane[l].ns = {n}
  BY DEF RunInv, RunTyped, Stages, OneHand, Hand

\* A lane is done with its namespace.
LEMMA LaneLeaves ==
  ASSUME RunInv, NEW l \in Lanes, lane[l].pc # "idle", lane' = [lane EXCEPT ![l] = NoLane],
         UNCHANGED <<run, plan, job, worker, queue, dest, stalls>>, faults' \in 0..MaxFaults,
         summary' \in Summary, Clean' => Clean,
         ~plan.dryRun /\ Clean' => \A n \in lane[l].ns : Whole(n)
  PROVE  RunInv'
  <1>1. NoLane \in LaneRec /\ NoLane.pc = "idle"
    BY DEF NoLane, LaneRec, LanePcs
  <1>2. lane'[l] = NoLane /\ worker = "lanes" /\ lane[l].ns \subseteq Namespaces
    BY <1>1, LaneHas DEF LaneRec
  <1>3. LaneLands(l)' /\ LaneFresh(l)'
    BY <1>1, <1>2 DEF LaneLands, LaneFresh
  <1>4. ~plan.dryRun /\ Clean' => \A n \in lane[l].ns : Whole(n)'
    BY <1>2 DEF Whole, Landed, RowsOf
  <1>5. /\ dest' = [n \in Namespaces |-> dest'[n]] /\ \A n \in Namespaces : dest'[n] \in [RowsOf(n) -> Row]
        /\ plan.keyed \/ plan.dropExisting \/ stalls = 0 =>
             \A n \in lane[l].ns : \A r \in RowsOf(n) : dest'[n][r].copies <= 1
    BY <1>2 DEF RunInv, RunTyped, CopiedOnce
  <1> QED BY <1>1, <1>2, <1>3, <1>4, <1>5, LaneMove

\* The schema is inferred, or an await rejects.
LEMMA LaneInfers ==
  ASSUME RunInv, NEW l \in Lanes, Infer(l) \/ Throw(l)
  PROVE  RunInv'
  <1>1. lane[l].pc # "idle"
    BY DEF Infer, Throw
  <1>2. /\ worker = "lanes" /\ lane[l] \in LaneRec /\ lane \in [Lanes -> LaneRec] /\ summary \in Summary
        /\ faults \in 0..MaxFaults /\ MaxFaults \in Nat
    BY <1>1, LaneHas, MigrationRunAssumption DEF RunInv, RunTyped, MigrationRunAssumption
  <1>3. CASE Throw(l)
    <2>1. summary' \in Summary /\ ~Clean' /\ lane' = [lane EXCEPT ![l] = NoLane]
      BY <1>3, ThrownIs DEF Throw
    <2>2. faults' \in 0..MaxFaults
      BY <1>2, <1>3 DEF Throw, Fault
    <2> QED BY <1>1, <1>3, <2>1, <2>2, LaneLeaves DEF Throw
  <1>4. CASE Infer(l) /\ plan.dryRun
    <2>1. summary' = Counted(l, summary) /\ lane' = [lane EXCEPT ![l] = NoLane]
      BY <1>4 DEF Infer
    <2>2. summary' \in Summary /\ (Clean' => Clean)
      BY <1>2, <2>1, CountedIs DEF Clean
    <2> QED BY <1>1, <1>2, <1>4, <2>1, <2>2, LaneLeaves DEF Infer
  <1>5. CASE Infer(l) /\ ~plan.dryRun
    <2> DEFINE x == [lane[l] EXCEPT !.pc = "init"]
    <2>1. lane' = [lane EXCEPT ![l] = x] /\ lane[l].pc = "infer"
          /\ UNCHANGED <<run, plan, job, worker, queue, summary, dest, faults, stalls>>
      BY <1>2, <1>5 DEF Infer
    <2>2. x \in LaneRec /\ x.pc = "init" /\ x.ns = lane[l].ns /\ x.next = lane[l].next
      BY <1>2 DEF LaneRec, LanePcs
    <2> HIDE DEF x
    <2>3. lane'[l] = x /\ x.next = 1
      BY <1>2, <2>1, <2>2 DEF RunInv, OneHand, Hand
    <2>4. LaneLands(l)'
      BY <2>2, <2>3 DEF LaneLands
    <2>5. ~plan.keyed /\ (plan.dropExisting \/ stalls = 0) => LaneFresh(l)'
      BY <2>1, <2>2, <2>3 DEF RunInv, NoRepeat, LaneFresh, Fresh, RowsOf
    <2>6. /\ dest' = [n \in Namespaces |-> dest'[n]] /\ \A n \in Namespaces : dest'[n] \in [RowsOf(n) -> Row]
          /\ lane[l].ns \subseteq Namespaces
          /\ plan.keyed \/ plan.dropExisting \/ stalls = 0 =>
               \A n \in lane[l].ns : \A r \in RowsOf(n) : dest'[n][r].copies <= 1
      BY <1>2, <2>1 DEF RunInv, RunTyped, CopiedOnce, LaneRec
    <2>7. Clean' => Clean
      BY <2>1 DEF Clean
    <2>8. x.pc # "idle"
      BY <2>2
    <2> QED BY <1>1, <1>2, <2>1, <2>2, <2>3, <2>4, <2>5, <2>6, <2>7, <2>8, LaneMove
  <1> QED BY <1>3, <1>4, <1>5

\* The destination table is dropped, or kept.
LEMMA LaneInits ==
  ASSUME RunInv, NEW l \in Lanes, InitDestination(l)
  PROVE  RunInv'
  <1>1. lane[l].pc = "init" /\ UNCHANGED <<run, plan, job, worker, queue, summary, faults, stalls>>
    BY DEF InitDestination
  <1>2. /\ worker = "lanes" /\ lane[l] \in LaneRec /\ lane \in [Lanes -> LaneRec] /\ summary \in Summary
        /\ faults \in 0..MaxFaults /\ lane[l].ns \subseteq Namespaces /\ lane[l].next = 1
        /\ dest = [n \in Namespaces |-> dest[n]] /\ \A n \in Namespaces : dest[n] \in [RowsOf(n) -> Row]
    BY <1>1, LaneHas DEF RunInv, RunTyped, OneHand, Hand, LaneRec
  <1> DEFINE x == [lane[l] EXCEPT !.pc = "write"]
  <1>3. lane' = [lane EXCEPT ![l] = x]
    BY DEF InitDestination
  <1>4. x \in LaneRec /\ x.pc = "write" /\ x.ns = lane[l].ns /\ x.next = 1
    BY <1>2 DEF LaneRec, LanePcs
  <1> HIDE DEF x
  <1>5. lane'[l] = x
    BY <1>2, <1>3, <1>4
  <1>6. dest' = [n \in Namespaces |-> IF plan.dropExisting /\ n \in lane[l].ns THEN [r \in RowsOf(n) |-> Missing]
                                      ELSE dest[n]]
    BY <1>2 DEF InitDestination
  <1>7. Missing \in Row /\ Missing.copies = 0
    BY DEF Missing, Row
  <1>8. \A n \in Namespaces : dest'[n] = IF plan.dropExisting /\ n \in lane[l].ns THEN [r \in RowsOf(n) |-> Missing]
                                         ELSE dest[n]
    BY <1>6
  <1>9. dest' = [n \in Namespaces |-> dest'[n]] /\ \A n \in Namespaces : dest'[n] \in [RowsOf(n) -> Row]
    BY <1>2, <1>6, <1>7, <1>8
  <1>10. LaneLands(l)'
    BY <1>2, <1>4, <1>5 DEF LaneLands, RowsOf
  <1>11. ASSUME ~plan.keyed, plan.dropExisting \/ stalls = 0 PROVE LaneFresh(l)'
    <2>1. LaneFresh(l)
      BY <1>11 DEF RunInv, NoRepeat
    <2>2. ASSUME NEW n \in lane[l].ns, NEW r \in RowsOf(n) PROVE dest'[n][r].copies = 0
      <3>1. n \in Namespaces
        BY <1>2
      <3>2. CASE plan.dropExisting
        BY <1>7, <1>8, <2>2, <3>1, <3>2
      <3>3. CASE ~plan.dropExisting
        <4>1. Fresh(n)
          BY <1>1, <2>1, <3>3 DEF LaneFresh
        <4> QED BY <1>8, <2>2, <3>1, <3>3, <4>1 DEF Fresh
      <3> QED BY <3>2, <3>3
    <2> QED BY <1>4, <1>5, <2>2 DEF LaneFresh, RowsOf
  <1>12. plan.keyed \/ plan.dropExisting \/ stalls = 0 =>
               \A n \in lane[l].ns : \A r \in RowsOf(n) : dest'[n][r].copies <= 1
    <2>1. ASSUME plan.keyed \/ plan.dropExisting \/ stalls = 0, NEW n \in lane[l].ns, NEW r \in RowsOf(n)
          PROVE  dest'[n][r].copies <= 1
      <3>1. n \in Namespaces /\ dest[n][r].copies <= 1
        BY <1>2, <2>1 DEF RunInv, CopiedOnce
      <3>2. CASE plan.dropExisting
        <4>1. dest'[n][r] = Missing
          BY <1>8, <2>1, <3>1, <3>2
        <4> QED BY <1>7, <4>1
      <3>3. CASE ~plan.dropExisting
        BY <1>8, <3>1, <3>3
      <3> QED BY <3>2, <3>3
    <2> QED BY <2>1
  <1>13. Clean' => Clean
    BY <1>1 DEF Clean
  <1>14. \A n \in Namespaces \ lane[l].ns : dest'[n] = dest[n]
    BY <1>8
  <1>15. summary' \in Summary /\ faults' \in 0..MaxFaults /\ lane[l].pc # "idle" /\ x.pc # "idle"
    BY <1>1, <1>2, <1>4
  <1> QED BY <1>1, <1>2, <1>3, <1>4, <1>9, <1>10, <1>11, <1>12, <1>13, <1>14, <1>15, LaneMove

\* A batch is flushed.
LEMMA LaneWrites ==
  ASSUME RunInv, NEW l \in Lanes, WriteBatch(l)
  PROVE  RunInv'
  <1>1. lane[l].pc = "write" /\ UNCHANGED <<run, plan, job, worker, queue, stalls>>
    BY DEF WriteBatch
  <1>2. PICK n \in Namespaces : lane[l].ns = {n}
    BY <1>1, LaneHas
  <1>3. /\ worker = "lanes" /\ lane[l] \in LaneRec /\ lane \in [Lanes -> LaneRec] /\ summary \in Summary
        /\ faults \in 0..MaxFaults /\ MaxFaults \in Nat /\ BatchSize \in Nat \ {0}
        /\ dest = [m \in Namespaces |-> dest[m]] /\ \A m \in Namespaces : dest[m] \in [RowsOf(m) -> Row]
    BY <1>1, LaneHas, MigrationRunAssumption DEF RunInv, RunTyped, MigrationRunAssumption
  <1>4. PICK bad \in SUBSET Batch(l) :
          /\ IF bad = {} THEN UNCHANGED faults ELSE Fault
          /\ dest' = [dest EXCEPT ![n] = [r \in RowsOf(n) |->
                        IF r \in Lands(n, Batch(l), bad) THEN [dest[n][r] EXCEPT !.copies = @ + 1] ELSE dest[n][r]]]
          /\ IF plan.writer = "mysql" /\ Lands(n, Batch(l), bad) = {}
             THEN Thrown(l)
             ELSE /\ lane' = [lane EXCEPT ![l].next = @ + BatchSize,
                                ![l].written = @ + Cardinality(Lands(n, Batch(l), bad)),
                                ![l].failed = @ + Cardinality(Lost(n, Batch(l), bad))]
                  /\ UNCHANGED summary
    BY <1>2 DEF WriteBatch
  <1>5. PICK batch : batch = Batch(l)
    OBVIOUS
  <1>6. batch = {r \in RowsOf(n) : lane[l].next <= r /\ r < lane[l].next + BatchSize}
    BY <1>2, <1>5, BatchIs DEF RunInv
  <1>7. dest'[n] = [r \in RowsOf(n) |-> IF r \in Lands(n, batch, bad)
                                         THEN [dest[n][r] EXCEPT !.copies = @ + 1] ELSE dest[n][r]]
        /\ dest' = [m \in Namespaces |-> dest'[m]] /\ \A m \in Namespaces \ lane[l].ns : dest'[m] = dest[m]
    <2> DEFINE D == [r \in RowsOf(n) |-> IF r \in Lands(n, batch, bad)
                                         THEN [dest[n][r] EXCEPT !.copies = @ + 1] ELSE dest[n][r]]
               E == [r \in RowsOf(n) |-> IF r \in Lands(n, Batch(l), bad)
                                         THEN [dest[n][r] EXCEPT !.copies = @ + 1] ELSE dest[n][r]]
    <2>1. dest' = [dest EXCEPT ![n] = D]
      <3>1. dest' = [dest EXCEPT ![n] = E]
        BY <1>4
      <3>2. E = D
        BY <1>5
      <3> QED BY <3>1, <3>2
    <2>2. DOMAIN dest = Namespaces
      BY <1>3
    <2> HIDE DEF D
    <2>3. dest'[n] = D /\ DOMAIN dest' = Namespaces /\ \A m \in Namespaces \ {n} : dest'[m] = dest[m]
      BY <2>1, <2>2
    <2>4. dest' = [m \in Namespaces |-> dest'[m]]
      BY <2>1, <2>2, <2>3
    <2> QED BY <1>2, <2>3, <2>4 DEF D
  <1>8. bad \in SUBSET batch /\ batch \subseteq RowsOf(n) /\ plan' = plan
    BY <1>1, <1>5, <1>6
  <1>9. /\ dest'[n] \in [RowsOf(n) -> Row]
        /\ \A r \in RowsOf(n) : /\ Landed(n, r) => Landed(n, r)'
                                /\ r \in batch /\ Lost(n, batch, bad) = {} => Landed(n, r)'
                                /\ r \notin batch => dest'[n][r] = dest[n][r]
                                /\ dest'[n][r].copies <= dest[n][r].copies + 1
                                /\ plan.keyed /\ dest[n][r].copies <= 1 => dest'[n][r].copies <= 1
        /\ Lands(n, batch, bad) \subseteq batch /\ Lost(n, batch, bad) \subseteq batch
    BY <1>7, <1>8, BatchLands
  <1>10. PICK in, lost : in = Lands(n, batch, bad) /\ lost = Lost(n, batch, bad)
    OBVIOUS
  <1>11. Cardinality(in) \in Nat /\ Cardinality(lost) \in Nat /\ (Cardinality(lost) = 0 => lost = {})
    BY <1>2, <1>5, <1>9, <1>10, BatchIs DEF RunInv
  <1>12. \A m \in Namespaces : dest'[m] \in [RowsOf(m) -> Row]
    BY <1>2, <1>3, <1>7, <1>9
  <1>13. faults' \in 0..MaxFaults
    BY <1>3, <1>4 DEF Fault
  <1>14. ASSUME plan.keyed \/ plan.dropExisting \/ stalls = 0, NEW r \in RowsOf(n) PROVE dest'[n][r].copies <= 1
    <2>1. dest[n][r].copies <= 1 /\ dest[n][r] \in Row /\ dest'[n][r] \in Row
      BY <1>3, <1>9, <1>14 DEF RunInv, CopiedOnce
    <2>2. CASE plan.keyed
      BY <1>9, <2>1, <2>2
    <2>3. CASE ~plan.keyed
      <3>1. r >= lane[l].next => dest[n][r].copies = 0
        BY <1>1, <1>2, <1>14, <2>3 DEF RunInv, NoRepeat, LaneFresh
      <3>2. r \in batch => dest[n][r].copies = 0
        BY <1>6, <3>1
      <3> QED BY <1>9, <2>1, <3>2 DEF Row
    <2> QED BY <2>2, <2>3
  <1>15. CASE Thrown(l)
    <2>1. summary' \in Summary /\ ~Clean' /\ lane' = [lane EXCEPT ![l] = NoLane] /\ NoLane \in LaneRec /\ NoLane.pc = "idle"
      BY <1>15, ThrownIs
    <2>2. lane'[l] = NoLane
      BY <1>3, <2>1
    <2>3. LaneLands(l)' /\ LaneFresh(l)'
      BY <2>1, <2>2 DEF LaneLands, LaneFresh
    <2>4. \A m \in lane[l].ns : plan.keyed \/ plan.dropExisting \/ stalls = 0 => \A r \in RowsOf(m) : dest'[m][r].copies <= 1
      BY <1>2, <1>14
    <2> QED BY <1>1, <1>3, <1>7, <1>12, <1>13, <2>1, <2>3, <2>4, LaneMove
  <1>16. CASE ~(plan.writer = "mysql" /\ in = {})
    <2> DEFINE x == [lane[l] EXCEPT !.next = lane[l].next + BatchSize, !.written = lane[l].written + Cardinality(in),
                                    !.failed = lane[l].failed + Cardinality(lost)]
    <2>1. lane' = [lane EXCEPT ![l] = x] /\ UNCHANGED summary
      BY <1>3, <1>4, <1>5, <1>10, <1>16
    <2>2. PICK nx, w, f : nx = lane[l].next + BatchSize /\ w = lane[l].written + Cardinality(in)
                          /\ f = lane[l].failed + Cardinality(lost)
      OBVIOUS
    <2>3. nx \in Nat \ {0} /\ w \in Nat /\ f \in Nat /\ (f = 0 => lane[l].failed = 0 /\ Cardinality(lost) = 0)
      BY <1>3, <1>11, <2>2 DEF LaneRec
    <2>4. x = [lane[l] EXCEPT !.next = nx, !.written = w, !.failed = f]
      BY <2>2
    <2> HIDE DEF x
    <2>5. x \in LaneRec /\ x.pc = "write" /\ x.ns = lane[l].ns /\ x.next = nx /\ x.failed = f
      BY <1>1, <1>3, <2>3, <2>4 DEF LaneRec
    <2>6. lane'[l] = x
      BY <1>3, <2>1, <2>5
    <2>7. ASSUME ~plan.dryRun PROVE LaneLands(l)'
      <3>1. LaneLands(l)
        BY <2>7 DEF RunInv, NoLoss
      <3>2. ASSUME f = 0, NEW r \in RowsOf(n), r < nx PROVE Landed(n, r)'
        <4>1. lane[l].failed = 0 /\ lost = {}
          BY <1>11, <2>3, <3>2
        <4>2. r < lane[l].next => Landed(n, r)
          BY <1>1, <1>2, <3>1, <4>1 DEF LaneLands
        <4>3. r < lane[l].next \/ r \in batch
          BY <1>3, <1>6, <2>2, <3>2 DEF LaneRec, RowsOf
        <4> QED BY <1>9, <1>10, <4>1, <4>2, <4>3
      <3> QED BY <1>2, <2>5, <2>6, <3>2 DEF LaneLands, RowsOf
    <2>8. ASSUME ~plan.keyed, plan.dropExisting \/ stalls = 0 PROVE LaneFresh(l)'
      <3>1. ASSUME NEW r \in RowsOf(n), r >= nx PROVE dest'[n][r].copies = 0
        <4>1. r \notin batch /\ r >= lane[l].next
          BY <1>3, <1>6, <2>2, <3>1 DEF LaneRec, RowsOf
        <4>2. dest[n][r].copies = 0
          BY <1>1, <1>2, <2>8, <4>1 DEF RunInv, NoRepeat, LaneFresh
        <4> QED BY <1>9, <4>1, <4>2
      <3> QED BY <1>2, <2>5, <2>6, <3>1 DEF LaneFresh, RowsOf
    <2>9. \A m \in lane[l].ns : plan.keyed \/ plan.dropExisting \/ stalls = 0 => \A r \in RowsOf(m) : dest'[m][r].copies <= 1
      BY <1>2, <1>14
    <2>10. (Clean' => Clean) /\ summary' \in Summary /\ lane[l].pc # "idle" /\ x.pc # "idle" /\ x.pc \notin {"infer", "init"}
      BY <1>1, <1>3, <2>1, <2>5 DEF Clean
    <2> QED BY <1>1, <1>3, <1>7, <1>12, <1>13, <2>1, <2>5, <2>7, <2>8, <2>9, <2>10, LaneMove
  <1> QED BY <1>4, <1>5, <1>10, <1>15, <1>16

\* The namespace is finished, and its counts reach the totals.
LEMMA LaneFinishes ==
  ASSUME RunInv, NEW l \in Lanes, Finalize(l) \/ CountNamespace(l)
  PROVE  RunInv'
  <1>1. lane[l].pc \in {"write", "finalize"} /\ UNCHANGED <<run, plan, job, worker, queue, dest, faults, stalls>>
    BY DEF Finalize, CountNamespace
  <1>2. PICK n \in Namespaces : lane[l].ns = {n}
    BY <1>1, LaneHas
  <1>3. /\ worker = "lanes" /\ lane[l] \in LaneRec /\ lane \in [Lanes -> LaneRec] /\ summary \in Summary
        /\ faults \in 0..MaxFaults /\ BatchSize \in Nat \ {0}
    BY <1>1, LaneHas, MigrationRunAssumption DEF RunInv, RunTyped, MigrationRunAssumption
  <1>4. CASE Finalize(l)
    <2> DEFINE x == [lane[l] EXCEPT !.pc = "finalize"]
    <2>1. lane' = [lane EXCEPT ![l] = x] /\ lane[l].pc = "write" /\ UNCHANGED summary /\ Batch(l) = {}
      BY <1>3, <1>4 DEF Finalize
    <2>2. x \in LaneRec /\ x.pc = "finalize" /\ x.ns = lane[l].ns /\ x.failed = lane[l].failed
      BY <1>3 DEF LaneRec, LanePcs
    <2> HIDE DEF x
    <2>3. lane'[l] = x
      BY <1>3, <2>1, <2>2
    <2>4. ASSUME ~plan.dryRun PROVE LaneLands(l)'
      <3>1. ASSUME lane[l].failed = 0 PROVE Whole(n)
        <4>1. \A r \in RowsOf(n) : r < lane[l].next => Landed(n, r)
          BY <1>2, <2>1, <2>4, <3>1 DEF RunInv, NoLoss, LaneLands
        <4>2. \A r \in RowsOf(n) : r < lane[l].next
          <5>1. Batch(l) = {r \in RowsOf(n) : lane[l].next <= r /\ r < lane[l].next + BatchSize}
            BY <1>2, BatchIs DEF RunInv
          <5>2. Size[n] \in Nat /\ lane[l].next \in Nat \ {0}
            BY <1>3, MigrationRunAssumption DEF MigrationRunAssumption, LaneRec
          <5>3. lane[l].next \notin RowsOf(n)
            BY <1>3, <2>1, <5>1, <5>2
          <5> QED BY <5>2, <5>3 DEF RowsOf
        <4> QED BY <4>1, <4>2 DEF Whole
      <3>2. lane[l].failed = 0 => Whole(n)'
        BY <1>1, <3>1 DEF Whole, Landed, RowsOf
      <3> QED BY <1>2, <2>2, <2>3, <3>2 DEF LaneLands
    <2>5. LaneFresh(l)'
      BY <2>2, <2>3 DEF LaneFresh
    <2>6. /\ dest' = [m \in Namespaces |-> dest'[m]] /\ \A m \in Namespaces : dest'[m] \in [RowsOf(m) -> Row]
          /\ plan.keyed \/ plan.dropExisting \/ stalls = 0 =>
               \A m \in lane[l].ns : \A r \in RowsOf(m) : dest'[m][r].copies <= 1
      BY <1>1, <1>2 DEF RunInv, RunTyped, CopiedOnce
    <2>7. (Clean' => Clean) /\ summary' \in Summary /\ lane[l].pc # "idle" /\ x.pc # "idle" /\ x.pc \notin {"infer", "init"}
          /\ faults' \in 0..MaxFaults
      BY <1>1, <1>3, <2>1, <2>2 DEF Clean
    <2> QED BY <1>1, <1>3, <2>1, <2>2, <2>4, <2>5, <2>6, <2>7, LaneMove
  <1>5. CASE CountNamespace(l)
    <2> DEFINE s == [summary EXCEPT !.totalWritten = summary.totalWritten + lane[l].written,
                                    !.totalFailed = summary.totalFailed + lane[l].failed]
    <2>1. summary' = Counted(l, s) /\ lane' = [lane EXCEPT ![l] = NoLane] /\ lane[l].pc = "finalize"
      BY <1>5 DEF CountNamespace
    <2>2. PICK w, f : w = summary.totalWritten + lane[l].written /\ f = summary.totalFailed + lane[l].failed
      OBVIOUS
    <2>3. w \in Nat /\ f \in Nat /\ (f = 0 => summary.totalFailed = 0 /\ lane[l].failed = 0)
      BY <1>3, <2>2 DEF Summary, LaneRec
    <2>4. s = [summary EXCEPT !.totalWritten = w, !.totalFailed = f]
      BY <2>2
    <2> HIDE DEF s
    <2>5. s \in Summary /\ s.failed = summary.failed /\ s.errors = summary.errors /\ s.totalFailed = f
      BY <1>3, <2>3, <2>4 DEF Summary
    <2>6. /\ summary' \in Summary
          /\ summary'.failed = 0 /\ summary'.errors = {} /\ summary'.totalFailed = 0 =>
               s.failed = 0 /\ s.errors = {} /\ s.totalFailed = 0
      BY <1>3, <2>1, <2>5, CountedIs
    <2>7. Clean' => Clean /\ lane[l].failed = 0
      BY <2>3, <2>5, <2>6 DEF Clean
    <2>8. ~plan.dryRun /\ Clean' => \A m \in lane[l].ns : Whole(m)
      BY <2>1, <2>7 DEF RunInv, NoLoss, LaneLands
    <2> QED BY <1>1, <1>3, <2>1, <2>6, <2>7, <2>8, LaneLeaves
  <1> QED BY <1>4, <1>5

\* What is said of the lanes stays true when neither they nor the destination change.
LEMMA LanesStay ==
  ASSUME RunInv, UNCHANGED <<plan, queue, lane, summary, dest, stalls>>
  PROVE  /\ OneHand' /\ (\A l \in Lanes : (LaneLands(l) => LaneLands(l)') /\ (LaneFresh(l) => LaneFresh(l)'))
         /\ \A n \in Namespaces : (Whole(n) <=> Whole(n)') /\ (Fresh(n) <=> Fresh(n)')
         /\ (Clean' <=> Clean) /\ (\A l \in Lanes : \A n \in Namespaces : At(l, n)' <=> At(l, n))
  <1>1. \A n \in Namespaces : (Whole(n) <=> Whole(n)') /\ (Fresh(n) <=> Fresh(n)')
    BY DEF Whole, Landed, Fresh, RowsOf
  <1>2. ASSUME NEW l \in Lanes PROVE (LaneLands(l) => LaneLands(l)') /\ (LaneFresh(l) => LaneFresh(l)')
    BY DEF LaneLands, LaneFresh, Whole, Landed, Fresh, RowsOf
  <1>3. OneHand' /\ (\A l \in Lanes : \A n \in Namespaces : At(l, n)' <=> At(l, n))
    BY DEF RunInv, OneHand, Hand, At
  <1> QED BY <1>1, <1>2, <1>3 DEF Clean

\* The routes, and the worker while no lane is at work.
LEMMA OutsideLanes ==
  ASSUME RunInv, \/ Enqueue \/ Cancel \/ DeleteJob \/ Pick \/ Find \/ MarkRunning \/ BuildPlan
                 \/ FlushProgress \/ Finalise \/ FinaliseFailed
  PROVE  RunInv'
  <1>1. UNCHANGED <<plan, queue, lane, summary, dest, stalls>>
    BY DEF Enqueue, Cancel, DeleteJob, Pick, Find, MarkRunning, BuildPlan, FlushProgress, Finalise, FinaliseFailed
  <1>2. /\ OneHand' /\ (\A l \in Lanes : (LaneLands(l) => LaneLands(l)') /\ (LaneFresh(l) => LaneFresh(l)'))
        /\ \A n \in Namespaces : (Whole(n) <=> Whole(n)') /\ (Fresh(n) <=> Fresh(n)')
        /\ (Clean' <=> Clean) /\ (\A l \in Lanes : \A n \in Namespaces : At(l, n)' <=> At(l, n))
    BY <1>1, LanesStay
  <1>3. /\ run \in [present : BOOLEAN, phase : Phases, cancelRequested : BOOLEAN] /\ MaxFaults \in Nat
        /\ faults \in 0..MaxFaults /\ job \in Jobs /\ worker \in WorkerPcs
    BY MigrationRunAssumption DEF RunInv, RunTyped, MigrationRunAssumption
  <1>4. run' \in [present : BOOLEAN, phase : Phases, cancelRequested : BOOLEAN]
        /\ (run'.phase = run.phase \/ run'.phase \in {"running", "failed"}
            \/ (worker = "finish" /\ job' = "completed" /\ run'.phase = PhaseOf(summary)))
    BY <1>3 DEF Enqueue, Cancel, DeleteJob, Pick, Find, MarkRunning, BuildPlan, FlushProgress, Finalise, FinaliseFailed,
                Ends, PhaseOf, Phases, Terminal
  <1>5. /\ faults' \in 0..MaxFaults
        /\ job' \in Jobs /\ worker' \in WorkerPcs /\ (worker' # "idle" <=> job' = "active")
        /\ (worker' = "lanes" <=> worker = "lanes")
        /\ (worker' = worker \/ worker' \notin {"flush", "finish"} \/ (worker = "flush" /\ worker' = "finish"))
        /\ (job' \in {"none", "waiting"} \/ worker' \in {"find", "mark", "plan", "list"}
              => job \in {"none", "waiting"} \/ worker \in {"find", "mark", "plan", "list"})
        /\ (job = "completed" => job' = "completed")
    BY <1>3 DEF RunInv, Stages, Enqueue, Cancel, DeleteJob, Pick, Find, MarkRunning, BuildPlan, FlushProgress,
                Finalise, FinaliseFailed, Ends, Fault, Jobs, WorkerPcs
  <1>6. RunTyped'
    BY <1>1, <1>4, <1>5 DEF RunInv, RunTyped, RowsOf
  <1>7. Stages'
    BY <1>1, <1>4, <1>5 DEF RunInv, Stages
  <1>8. NoLoss'
    <2>1. SUFFICES ASSUME ~plan.dryRun PROVE NoLoss'
      BY <1>1 DEF NoLoss
    <2>2. ASSUME run'.phase = "succeeded" PROVE \A n \in Namespaces : Whole(n)
      <3>1. CASE run.phase = "succeeded"
        BY <2>1, <3>1 DEF RunInv, NoLoss
      <3>2. CASE worker = "finish" /\ PhaseOf(summary) = "succeeded"
        <4>1. Clean
          BY <3>2 DEF PhaseOf, Clean, RunInv, RunTyped, Summary
        <4> QED BY <2>1, <3>2, <4>1 DEF RunInv, NoLoss
      <3> QED BY <1>4, <2>2, <3>1, <3>2
    <2>3. worker' \in {"flush", "finish"} => worker \in {"flush", "finish"}
      BY <1>5
    <2> QED BY <1>1, <1>2, <1>5, <2>1, <2>2, <2>3 DEF RunInv, NoLoss
  <1>9. NoRepeat'
    <2>1. queue \subseteq Namespaces
      BY DEF RunInv, RunTyped
    <2> QED BY <1>1, <1>2, <1>5, <2>1 DEF RunInv, NoRepeat
  <1>10. CopiedOnce'
    BY <1>1 DEF RunInv, CopiedOnce, RowsOf
  <1> QED BY <1>2, <1>6, <1>7, <1>8, <1>9, <1>10 DEF RunInv

\* The lanes begin, and are done; the process dies.
LEMMA AroundLanes ==
  ASSUME RunInv, ListNamespaces \/ AllLanesDone \/ Stall
  PROVE  RunInv'
  <1>1. UNCHANGED <<run, plan, dest>> /\ MaxFaults \in Nat /\ MaxStalls \in Nat
    BY MigrationRunAssumption DEF ListNamespaces, AllLanesDone, Stall, MigrationRunAssumption
  <1>2. NoLane \in LaneRec /\ NoLane.pc = "idle" /\ NoLane.next = 1
    BY DEF NoLane, LaneRec, LanePcs
  <1>3. \A n \in Namespaces : (Whole(n) <=> Whole(n)') /\ (Fresh(n) <=> Fresh(n)')
    BY <1>1 DEF Whole, Landed, Fresh, RowsOf
  <1>4. lane' \in [Lanes -> LaneRec] /\ \A l \in Lanes : lane'[l].pc = "idle"
    <2>1. CASE AllLanesDone
      BY <2>1 DEF AllLanesDone, RunInv, RunTyped
    <2>2. CASE ListNamespaces \/ Stall
      BY <1>2, <2>2 DEF ListNamespaces, Stall
    <2> QED BY <2>1, <2>2
  <1>5. NoSummary \in Summary
    BY DEF NoSummary, Summary
  <1>6. RunTyped'
    BY <1>1, <1>4, <1>5 DEF ListNamespaces, AllLanesDone, Stall, Fault, Ends, RunInv, RunTyped, RowsOf, Jobs, WorkerPcs
  <1>7. \A l \in Lanes : lane'[l].pc = "idle"
    BY <1>4
  <1>8. Stages'
    <2>1. CASE ListNamespaces
      BY <1>1, <1>7, <2>1 DEF ListNamespaces, RunInv, Stages
    <2>2. CASE AllLanesDone
      BY <1>1, <1>7, <2>2 DEF AllLanesDone, Busy, RunInv, Stages
    <2>3. CASE Stall
      BY <1>1, <1>7, <2>3 DEF Stall, Ends, RunInv, Stages
    <2> QED BY <2>1, <2>2, <2>3
  <1>9. OneHand'
    BY <1>7 DEF OneHand, Hand, At
  <1>10. \A l \in Lanes : LaneLands(l)' /\ LaneFresh(l)'
    BY <1>7 DEF LaneLands, LaneFresh
  <1>11. NoLoss'
    <2>1. SUFFICES ASSUME ~plan.dryRun PROVE NoLoss'
      BY <1>1 DEF NoLoss
    <2>2. run.phase = "succeeded" => \A n \in Namespaces : Whole(n)
      BY <2>1 DEF RunInv, NoLoss
    <2>3. worker' = "lanes" => Namespaces \ queue' = {}
      BY DEF ListNamespaces, AllLanesDone, Stall, Ends
    <2>4. ASSUME worker' \in {"flush", "finish"}, Clean' PROVE \A n \in Namespaces : Whole(n)
      <3>1. AllLanesDone
        BY <2>4 DEF ListNamespaces, AllLanesDone, Stall, Ends
      <3>2. /\ worker = "lanes" /\ queue = {} /\ \A l \in Lanes : lane[l].pc = "idle"
            /\ summary' = summary
        BY <3>1 DEF AllLanesDone, Busy
      <3>3. Clean /\ \A l \in Lanes : \A n \in Namespaces : ~At(l, n)
        BY <2>4, <3>2 DEF Clean, At
      <3> QED BY <2>1, <3>2, <3>3 DEF RunInv, NoLoss
    <2> QED BY <1>1, <1>3, <1>10, <2>2, <2>3, <2>4 DEF NoLoss
  <1>12. NoRepeat'
    <2>1. SUFFICES ASSUME ~plan.keyed, plan.dropExisting \/ stalls' = 0 PROVE NoRepeat'
      BY <1>1 DEF NoRepeat
    <2>2. CASE plan.dropExisting
      BY <1>1, <1>10, <2>2 DEF NoRepeat
    <2>3. CASE ~plan.dropExisting
      <3>1. stalls' = 0 /\ stalls = 0 /\ (ListNamespaces \/ AllLanesDone)
        BY <2>1, <2>3 DEF ListNamespaces, AllLanesDone, Stall, RunInv, RunTyped
      <3>2. CASE ListNamespaces
        <4>1. \A n \in Namespaces : Fresh(n)
          BY <2>1, <2>3, <3>1, <3>2 DEF ListNamespaces, RunInv, NoRepeat
        <4>2. queue' \subseteq Namespaces
          BY <1>6 DEF RunTyped
        <4> QED BY <1>1, <1>3, <1>10, <4>1, <4>2 DEF NoRepeat
      <3>3. CASE AllLanesDone
        <4>1. queue' = {} /\ job' = "active" /\ worker' = "flush"
          BY <3>3 DEF AllLanesDone, Busy, RunInv, Stages
        <4> QED BY <1>1, <1>10, <4>1 DEF NoRepeat
      <3> QED BY <3>1, <3>2, <3>3
    <2> QED BY <2>2, <2>3
  <1>13. CopiedOnce'
    <2>1. stalls' = 0 => stalls = 0
      BY DEF ListNamespaces, AllLanesDone, Stall, RunInv, RunTyped
    <2> QED BY <1>1, <2>1 DEF RunInv, CopiedOnce, RowsOf
  <1> QED BY <1>6, <1>8, <1>9, <1>11, <1>12, <1>13 DEF RunInv

\* The invariant holds of a run that has been created,
LEMMA RunBegins == Init => RunInv
  <1> SUFFICES ASSUME Init PROVE RunInv
    OBVIOUS
  <1>1. NoLane \in LaneRec /\ NoLane.pc = "idle" /\ NoSummary \in Summary
    BY DEF NoLane, LaneRec, LanePcs, NoSummary, Summary
  <1>2. PICK filled \in {{}} \cup {{n} : n \in Namespaces} :
           dest = [n \in Namespaces |-> [r \in RowsOf(n) |-> [old |-> IF n \in filled THEN 1 ELSE 0, copies |-> 0]]]
    BY DEF Init
  <1>3. dest = [n \in Namespaces |-> dest[n]]
    BY <1>2
  <1>4. ASSUME NEW n \in Namespaces PROVE dest[n] \in [RowsOf(n) -> Row] /\ Fresh(n)
    <2>1. dest[n] = [r \in RowsOf(n) |-> [old |-> IF n \in filled THEN 1 ELSE 0, copies |-> 0]]
      BY <1>2
    <2> QED BY <2>1 DEF Row, Fresh
  <1>5. \A l \in Lanes : lane[l].pc = "idle"
    BY <1>1 DEF Init
  <1>6. RunTyped
    BY <1>1, <1>3, <1>4, MigrationRunAssumption
       DEF Init, RunTyped, Phases, Terminal, Jobs, WorkerPcs, MigrationRunAssumption
  <1>7. Stages /\ OneHand
    BY <1>5 DEF Init, Stages, OneHand, Hand, At
  <1>8. NoLoss /\ NoRepeat
    BY <1>4, <1>5 DEF Init, NoLoss, NoRepeat, LaneLands, LaneFresh
  <1>9. CopiedOnce
    BY <1>4 DEF CopiedOnce, Fresh
  <1> QED BY <1>6, <1>7, <1>8, <1>9 DEF RunInv

\* and every step keeps it.
LEMMA RunInvariance == Spec => []RunInv
  <1>1. RunInv /\ [Next]_vars => RunInv'
    <2>1. RunInv /\ UNCHANGED vars => RunInv'
      <3> SUFFICES ASSUME RunInv, UNCHANGED vars PROVE RunInv'
        OBVIOUS
      <3>1. UNCHANGED <<run, plan, job, worker, queue, lane, summary, dest, faults, stalls>>
        BY DEF vars
      <3>2. /\ OneHand' /\ (\A l \in Lanes : (LaneLands(l) => LaneLands(l)') /\ (LaneFresh(l) => LaneFresh(l)'))
            /\ \A n \in Namespaces : (Whole(n) <=> Whole(n)') /\ (Fresh(n) <=> Fresh(n)')
            /\ (Clean' <=> Clean) /\ (\A l \in Lanes : \A n \in Namespaces : At(l, n)' <=> At(l, n))
        BY <3>1, LanesStay
      <3>3. RunTyped' /\ Stages' /\ CopiedOnce'
        BY <3>1 DEF RunInv, RunTyped, Stages, CopiedOnce, RowsOf
      <3>4. NoLoss' /\ NoRepeat'
        BY <3>1, <3>2 DEF RunInv, RunTyped, NoLoss, NoRepeat
      <3> QED BY <3>2, <3>3, <3>4 DEF RunInv
    <2> QED BY <2>1, OutsideLanes, AroundLanes, LaneTakes, LaneInfers, LaneInits, LaneWrites, LaneFinishes
            DEF Next, WorkerStep, LaneStep
  <1> QED BY <1>1, RunBegins, PTL DEF Spec

\* Every variable of the model of a migration run keeps its type.
THEOREM RunTypeCorrect == Spec => []TypeOK
  <1>1. RunInv => TypeOK
    BY DEF RunInv, RunTyped, TypeOK, LaneRec, Summary
  <1> QED BY <1>1, RunInvariance, PTL

\* A run whose row says succeeded has lost nothing, whatever its lanes did in whatever
\* order, and however often the job was handed out (worker.ts, pipeline.ts, the writers).
THEOREM SucceededRunsAreWhole == Spec => []SucceededLostNothing
  <1>1. RunInv => SucceededLostNothing
    BY DEF RunInv, NoLoss, Whole, Landed, SucceededLostNothing
  <1> QED BY <1>1, RunInvariance, PTL

\* Where a key, a dropped table or a process that lived guards against it, no row lands twice.
THEOREM RowsLandOnce == Spec => []CopiedOnce
  <1>1. RunInv => CopiedOnce
    BY DEF RunInv
  <1> QED BY <1>1, RunInvariance, PTL

-----------------------------------------------------------------------------
(* An import into one database.                                              *)

ImportSpec == ImportInit /\ [][ImportNext]_importVars

CrewRec == [pc : {"idle", "drop", "create", "insert", "clear", "stage", "load", "wipe", "wipeFailed",
                  "done", "error", "exit"}, next : 1..(Batches + 1)]

\* A worker thread runs exactly while its job does, and knows the steps of its kind.
ImportTyped ==
    /\ kind \in Kinds
    /\ jobTable \in [Imports -> {"none", "running", "done", "error", "gone"}]
    /\ crew \in [Imports -> CrewRec]
    /\ table = [there |-> table.there, rows |-> table.rows]
    /\ \A i \in Imports : crew[i].pc # "idle" <=> jobTable[i] = "running"
    /\ \A i \in Imports : /\ crew[i].pc = "insert" => kind \notin {"zip", "sql"} /\ crew[i].next <= Batches
                          /\ crew[i].pc \in {"drop", "create"} => kind \in {"table", "copy"} /\ crew[i].next = 1
                          /\ crew[i].pc \in {"clear", "stage", "load", "wipe"} => kind \in {"zip", "sql"}

\* What has got into the target by the steps of an import that nobody else disturbs.
Upto(i, m) == {i} \X (1..m)
SoFar(i) == Upto(i, crew[i].next - 1)
ImportStage(i) ==
    /\ crew[i].pc = "create" => table.rows = {}
    /\ crew[i].pc = "insert" => IF kind \in Replacing THEN table.rows = SoFar(i) ELSE SoFar(i) \subseteq table.rows
    /\ crew[i].pc = "load" => staged = {i}
    /\ crew[i].pc \in {"wipe", "done"} \/ jobTable[i] = "done" =>
         IF kind \in Replacing THEN table.rows = RowsOfImport(i) ELSE RowsOfImport(i) \subseteq table.rows

\* An import that is not disturbed has the target to itself.
ImportAlone(i) ==
    i \notin disturbed /\ jobTable[i] # "none" =>
        /\ \A j \in Imports \ {i} : crew[j].pc = "idle"
        /\ ImportStage(i)

ImportInv ==
    /\ ImportTyped
    /\ \A i \in Imports : ImportAlone(i)
    /\ kind \notin Replacing => OldRows \subseteq table.rows

\* A worker thread's step, which only it can take that has the target to itself.
LEMMA CrewStep ==
  ASSUME ImportInv, NEW i \in Imports, crew[i].pc # "idle", NEW x \in CrewRec, crew' = [crew EXCEPT ![i] = x],
         UNCHANGED <<kind, disturbed>>,
         IF x.pc # "idle" THEN UNCHANGED jobTable
         ELSE \E s \in {"done", "error"} : jobTable' = [jobTable EXCEPT ![i] = s],
         x.pc = "insert" => kind \notin {"zip", "sql"} /\ x.next <= Batches,
         x.pc \in {"drop", "create"} => kind \in {"table", "copy"} /\ x.next = 1,
         x.pc \in {"clear", "stage", "load", "wipe"} => kind \in {"zip", "sql"},
         ImportStage(i) => ImportStage(i)', table' = [there |-> table'.there, rows |-> table'.rows],
         kind \notin Replacing => table.rows \subseteq table'.rows
  PROVE  ImportInv'
  <1>1. /\ crew \in [Imports -> CrewRec] /\ jobTable \in [Imports -> {"none", "running", "done", "error", "gone"}]
        /\ crew'[i] = x /\ (\A j \in Imports \ {i} : crew'[j] = crew[j]) /\ jobTable[i] = "running"
    BY DEF ImportInv, ImportTyped
  <1>2. /\ jobTable' \in [Imports -> {"none", "running", "done", "error", "gone"}] /\ crew' \in [Imports -> CrewRec]
        /\ (\A j \in Imports \ {i} : jobTable'[j] = jobTable[j])
        /\ (x.pc # "idle" <=> jobTable'[i] = "running")
    BY <1>1
  <1>3. ImportTyped'
    BY <1>1, <1>2 DEF ImportInv, ImportTyped
  <1>4. ASSUME NEW j \in Imports PROVE ImportAlone(j)'
    <2>1. CASE j = i
      BY <1>1, <2>1 DEF ImportInv, ImportAlone
    <2>2. CASE j # i
      BY <1>2, <2>2 DEF ImportInv, ImportAlone
    <2> QED BY <2>1, <2>2
  <1> QED BY <1>3, <1>4 DEF ImportInv

\* A step of a thread that changes its pc alone.
LEMMA AdvanceIs ==
  ASSUME ImportTyped, NEW i \in Imports, NEW pc, Advance(i, pc),
         pc \in {"idle", "drop", "create", "insert", "clear", "stage", "load", "wipe", "wipeFailed", "done", "error", "exit"}
  PROVE  \E x \in CrewRec : crew' = [crew EXCEPT ![i] = x] /\ x.pc = pc /\ x.next = crew[i].next /\ crew'[i] = x
  <1>1. crew[i] \in CrewRec /\ crew \in [Imports -> CrewRec]
    BY DEF ImportTyped
  <1>2. [crew[i] EXCEPT !.pc = pc] \in CrewRec /\ [crew[i] EXCEPT !.pc = pc].pc = pc
        /\ [crew[i] EXCEPT !.pc = pc].next = crew[i].next
    BY <1>1 DEF CrewRec
  <1> QED BY <1>1, <1>2 DEF Advance

\* A thread that fails, and a thread whose end is reported.
LEMMA CrewEnds ==
  ASSUME ImportInv, NEW i \in Imports, BreakImport(i) \/ ReportImport(i)
  PROVE  ImportInv'
  <1>1. UNCHANGED <<kind, table, staged, disturbed>> /\ crew[i].pc # "idle" /\ ImportTyped
    BY DEF BreakImport, ReportImport, ImportInv
  <1>0. table' = [there |-> table'.there, rows |-> table'.rows]
    BY <1>1 DEF ImportTyped
  <1>2. CASE BreakImport(i)
    <2>1. PICK pc \in {"wipeFailed", "error", "exit"} : Advance(i, pc)
      BY <1>2 DEF BreakImport, Failed
    <2>2. PICK x \in CrewRec : crew' = [crew EXCEPT ![i] = x] /\ x.pc = pc /\ crew'[i] = x
      BY <1>1, <2>1, AdvanceIs
    <2>3. UNCHANGED jobTable /\ jobTable[i] # "done"
      BY <1>1, <1>2 DEF BreakImport, ImportTyped
    <2>4. ImportStage(i)'
      BY <2>1, <2>2, <2>3 DEF ImportStage
    <2> QED BY <1>0, <1>1, <2>1, <2>2, <2>3, <2>4, CrewStep
  <1>3. CASE ReportImport(i)
    <2>1. Advance(i, "idle") /\ crew[i].pc \in {"done", "error", "exit"}
      BY <1>3 DEF ReportImport
    <2>2. PICK x \in CrewRec : crew' = [crew EXCEPT ![i] = x] /\ x.pc = "idle" /\ crew'[i] = x
      BY <1>1, <2>1, AdvanceIs
    <2>3. PICK s \in {"done", "error"} : jobTable' = [jobTable EXCEPT ![i] = s] /\ (s = "done" => crew[i].pc = "done")
      BY <1>3 DEF ReportImport
    <2>4. jobTable'[i] = s
      BY <1>1, <2>3 DEF ImportTyped
    <2>5. ImportStage(i) => ImportStage(i)'
      BY <1>1, <2>2, <2>3, <2>4 DEF ImportStage, RowsOfImport
    <2>6. table.rows \subseteq table'.rows
      BY <1>1
    <2> QED BY <1>0, <1>1, <2>2, <2>3, <2>5, <2>6, CrewStep
  <1> QED BY <1>2, <1>3

\* The target is dropped, created, and filled batch by batch.
LEMMA CrewFills ==
  ASSUME ImportInv, NEW i \in Imports, DropTarget(i) \/ CreateTarget(i) \/ FindNothing(i) \/ InsertBatch(i)
  PROVE  ImportInv'
  <1>1. UNCHANGED <<kind, jobTable, staged, disturbed>> /\ crew[i].pc \in {"drop", "create", "insert"} /\ ImportTyped
        /\ Batches \in Nat \ {0}
    BY DataImportAssumption DEF DropTarget, CreateTarget, FindNothing, InsertBatch, ImportInv, DataImportAssumption
  <1>2. /\ crew[i] \in CrewRec /\ crew[i].next \in Nat \ {0} /\ jobTable[i] = "running" /\ kind \in Kinds
        /\ crew \in [Imports -> CrewRec]
    BY <1>1 DEF ImportTyped, CrewRec
  <1>3. CASE DropTarget(i)
    <2>1. PICK pc \in {"create", "insert"} : Advance(i, pc) /\ (pc = "create" => kind = "table")
      BY <1>3 DEF DropTarget
    <2>2. PICK x \in CrewRec : crew' = [crew EXCEPT ![i] = x] /\ x.pc = pc /\ x.next = crew[i].next /\ crew'[i] = x
      BY <1>1, <2>1, AdvanceIs
    <2>3. x.next = 1 /\ kind \in {"table", "copy"} /\ table'.rows = {}
          /\ table' = [there |-> table'.there, rows |-> table'.rows]
      BY <1>1, <1>3, <2>2 DEF DropTarget, ImportTyped
    <2>4. kind \in Replacing
      BY <2>3 DEF Replacing
    <2>5. SoFar(i)' = {}
      BY <2>2, <2>3 DEF SoFar, Upto
    <2>6. ImportStage(i)'
      BY <1>1, <1>2, <2>1, <2>2, <2>3, <2>4, <2>5 DEF ImportStage
    <2>7. 1 <= Batches
      BY <1>1
    <2> QED BY <1>1, <2>1, <2>2, <2>3, <2>4, <2>6, <2>7, CrewStep
  <1>4. CASE CreateTarget(i)
    <2>1. PICK pc \in {"wipeFailed", "error", "insert"} : Advance(i, pc)
      BY <1>4 DEF CreateTarget, Failed
    <2>2. PICK x \in CrewRec : crew' = [crew EXCEPT ![i] = x] /\ x.pc = pc /\ x.next = crew[i].next /\ crew'[i] = x
      BY <1>1, <2>1, AdvanceIs
    <2>3. x.next = 1 /\ kind \in {"table", "copy"} /\ crew[i].pc = "create" /\ table'.rows = table.rows
          /\ table' = [there |-> table'.there, rows |-> table'.rows]
      BY <1>1, <1>4, <2>2 DEF CreateTarget, ImportTyped
    <2>4. kind \in Replacing
      BY <2>3 DEF Replacing
    <2>5. SoFar(i)' = {}
      BY <2>2, <2>3 DEF SoFar, Upto
    <2>6. ImportStage(i) => ImportStage(i)'
      BY <1>1, <1>2, <2>1, <2>2, <2>3, <2>4, <2>5 DEF ImportStage
    <2>7. 1 <= Batches
      BY <1>1
    <2> QED BY <1>1, <2>1, <2>2, <2>3, <2>4, <2>6, <2>7, CrewStep
  <1>5. CASE InsertBatch(i) /\ ~Accepts(i)
    <2>1. PICK pc \in {"wipeFailed", "error"} : Advance(i, pc)
      BY <1>5 DEF InsertBatch, Failed
    <2>2. PICK x \in CrewRec : crew' = [crew EXCEPT ![i] = x] /\ x.pc = pc /\ crew'[i] = x
      BY <1>1, <2>1, AdvanceIs
    <2>3. ImportStage(i)' /\ UNCHANGED table
      BY <1>1, <1>2, <1>5, <2>1, <2>2 DEF ImportStage, InsertBatch
    <2>4. table' = [there |-> table'.there, rows |-> table'.rows]
      BY <1>1, <2>3 DEF ImportTyped
    <2> QED BY <1>1, <2>1, <2>2, <2>3, <2>4, CrewStep
  <1>6. CASE InsertBatch(i) /\ Accepts(i)
    <2>1. PICK k : k = crew[i].next
      OBVIOUS
    <2>2. PICK n, p : n = k + 1 /\ p = IF k = Batches THEN "done" ELSE "insert"
      OBVIOUS
    <2> DEFINE x == [crew[i] EXCEPT !.next = n, !.pc = p]
    <2>3. /\ crew' = [crew EXCEPT ![i] = x] /\ crew[i].pc = "insert"
          /\ table'.rows = table.rows \cup {<<i, k>>} /\ table' = [there |-> table'.there, rows |-> table'.rows]
      <3>1. crew[i].pc = "insert" /\ table' = [there |-> TRUE, rows |-> table.rows \cup {<<i, k>>}]
            /\ crew' = [crew EXCEPT ![i].next = @ + 1, ![i].pc = IF crew[i].next = Batches THEN "done" ELSE @]
        BY <1>6, <2>1 DEF InsertBatch
      <3>2. crew' = [crew EXCEPT ![i] = x]
        BY <1>2, <2>1, <2>2, <3>1 DEF CrewRec
      <3> QED BY <3>1, <3>2
    <2>4. kind \in {"append", "table", "copy"} /\ k <= Batches
      BY <1>1, <1>2, <1>6, <2>1, <2>3 DEF ImportTyped, InsertBatch, Kinds
    <2>5. n \in 1..(Batches + 1) /\ p \in {"done", "insert"}
      BY <1>1, <1>2, <2>1, <2>2, <2>4
    <2>6. x \in CrewRec /\ x.next = n /\ x.pc = p
      BY <1>1, <1>2, <2>5 DEF CrewRec
    <2> HIDE DEF x
    <2>7. x \in CrewRec /\ x.next = k + 1 /\ x.pc = (IF k = Batches THEN "done" ELSE "insert")
      BY <2>2, <2>6
    <2>8. crew'[i] = x
      BY <1>2, <2>3, <2>7
    <2>9. SoFar(i)' = SoFar(i) \cup {<<i, k>>}
      <3>1. k + 1 - 1 = k /\ 1..k = 1..(k - 1) \cup {k}
        BY <1>2, <2>1
      <3>2. Upto(i, k) = Upto(i, k - 1) \cup {<<i, k>>}
        <4> DEFINE S == 1..(k - 1)
        <4> HIDE DEF S
        <4>1. {i} \X (S \cup {k}) = ({i} \X S) \cup {<<i, k>>}
          OBVIOUS
        <4> QED BY <3>1, <4>1 DEF S, Upto
      <3>3. crew'[i].next - 1 = k /\ crew[i].next - 1 = k - 1
        BY <1>2, <2>1, <2>7, <2>8, <3>1
      <3> QED BY <3>2, <3>3 DEF SoFar
    <2>10. k = Batches => RowsOfImport(i) = SoFar(i)'
      <3>1. crew'[i].next - 1 = k
        BY <1>2, <2>1, <2>7, <2>8
      <3> QED BY <2>4, <3>1 DEF RowsOfImport, SoFar, Upto
    <2>11. ASSUME ImportStage(i) PROVE ImportStage(i)'
      <3>1. IF kind \in Replacing THEN table.rows = SoFar(i) ELSE SoFar(i) \subseteq table.rows
        BY <2>3, <2>11 DEF ImportStage
      <3>2. IF kind \in Replacing THEN table'.rows = SoFar(i)' ELSE SoFar(i)' \subseteq table'.rows
        BY <2>3, <2>9, <3>1
      <3>3. RowsOfImport(i)' = RowsOfImport(i)
        BY <1>1 DEF RowsOfImport
      <3> QED BY <1>1, <1>2, <2>7, <2>8, <2>10, <3>2, <3>3 DEF ImportStage
    <2>12. k # Batches => k + 1 <= Batches
      BY <1>1, <1>2, <2>1, <2>4
    <2>13. table.rows \subseteq table'.rows
      BY <2>3
    <2> QED BY <1>1, <2>3, <2>4, <2>7, <2>11, <2>12, <2>13, CrewStep
  <1>7. CASE FindNothing(i)
    <2>1. Advance(i, "done") /\ kind = "empty" /\ UNCHANGED table
      BY <1>7 DEF FindNothing
    <2>2. PICK x \in CrewRec : crew' = [crew EXCEPT ![i] = x] /\ x.pc = "done" /\ crew'[i] = x
      BY <1>1, <2>1, AdvanceIs
    <2>3. kind \notin Replacing /\ RowsOfImport(i)' = {}
      BY <1>1, <2>1 DEF Replacing, RowsOfImport
    <2>4. ImportStage(i)'
      BY <1>1, <1>2, <2>2, <2>3 DEF ImportStage
    <2>5. table' = [there |-> table'.there, rows |-> table'.rows]
      BY <1>1, <2>1 DEF ImportTyped
    <2> QED BY <1>1, <2>1, <2>2, <2>4, <2>5, CrewStep
  <1> QED BY <1>3, <1>4, <1>5, <1>6, <1>7

\* The container's path is cleared, takes a file, is loaded and wiped.
LEMMA CrewStages ==
  ASSUME ImportInv, NEW i \in Imports, ClearStage(i) \/ StageFile(i) \/ LoadStaged(i) \/ WipeStage(i)
  PROVE  ImportInv'
  <1>1. UNCHANGED <<kind, jobTable, disturbed>> /\ crew[i].pc \in {"clear", "stage", "load", "wipe", "wipeFailed"}
        /\ ImportTyped
    BY DEF ClearStage, StageFile, LoadStaged, WipeStage, ImportInv
  <1>2. jobTable[i] = "running" /\ kind \in Kinds /\ i # 0
    BY <1>1 DEF ImportTyped, Imports
  <1>3. crew[i].pc # "wipeFailed" => kind \in {"zip", "sql"}
    BY <1>1 DEF ImportTyped
  <1>4. RowsOfImport(i)' = RowsOfImport(i)
    BY <1>1 DEF RowsOfImport
  <1>5. CASE ClearStage(i) \/ StageFile(i)
    <2>1. PICK pc \in {"stage", "load"} : Advance(i, pc) /\ (pc = "load" => staged' = {i})
      BY <1>5 DEF ClearStage, StageFile
    <2>2. PICK x \in CrewRec : crew' = [crew EXCEPT ![i] = x] /\ x.pc = pc /\ crew'[i] = x
      BY <1>1, <2>1, AdvanceIs
    <2>3. UNCHANGED table /\ crew[i].pc \in {"clear", "stage"} /\ table' = [there |-> table'.there, rows |-> table'.rows]
      BY <1>1, <1>5 DEF ClearStage, StageFile, ImportTyped
    <2>4. ImportStage(i)'
      BY <1>1, <1>2, <2>1, <2>2 DEF ImportStage
    <2> QED BY <1>1, <1>3, <2>1, <2>2, <2>3, <2>4, CrewStep
  <1>6. CASE LoadStaged(i)
    <2>1. PICK pc \in {"wipeFailed", "error", "wipe"} :
            /\ Advance(i, pc)
            /\ pc # "wipe" => UNCHANGED table
            /\ pc = "wipe" => table'.rows = IF kind = "zip" THEN StagedRows ELSE table.rows \cup StagedRows
            /\ UNCHANGED table \/ table' = [there |-> table'.there, rows |-> table'.rows]
      BY <1>6 DEF LoadStaged, Failed
    <2>2. PICK x \in CrewRec : crew' = [crew EXCEPT ![i] = x] /\ x.pc = pc /\ crew'[i] = x
      BY <1>1, <2>1, AdvanceIs
    <2>3. crew[i].pc = "load"
      BY <1>6 DEF LoadStaged
    <2>4. ASSUME ImportStage(i) PROVE ImportStage(i)'
      <3>1. staged \ {0} = {i}
        BY <1>2, <2>3, <2>4 DEF ImportStage
      <3>2. StagedRows = RowsOfImport(i)
        BY <3>1 DEF StagedRows
      <3>3. kind \in Replacing <=> kind = "zip"
        BY <1>3, <2>3 DEF Replacing
      <3> QED BY <1>1, <1>2, <1>4, <2>1, <2>2, <3>2, <3>3 DEF ImportStage
    <2>5. kind \notin Replacing => table.rows \subseteq table'.rows
      BY <2>1 DEF Replacing
    <2>6. table' = [there |-> table'.there, rows |-> table'.rows]
      BY <1>1, <2>1 DEF ImportTyped
    <2> QED BY <1>1, <1>3, <2>1, <2>2, <2>3, <2>4, <2>5, <2>6, CrewStep
  <1>7. CASE WipeStage(i)
    <2>1. PICK pc \in {"done", "error"} : Advance(i, pc) /\ (pc = "done" => crew[i].pc = "wipe")
      BY <1>7 DEF WipeStage
    <2>2. PICK x \in CrewRec : crew' = [crew EXCEPT ![i] = x] /\ x.pc = pc /\ crew'[i] = x
      BY <1>1, <2>1, AdvanceIs
    <2>3. UNCHANGED table /\ table' = [there |-> table'.there, rows |-> table'.rows]
      BY <1>1, <1>7 DEF WipeStage, ImportTyped
    <2>4. ImportStage(i) => ImportStage(i)'
      BY <1>1, <1>2, <1>4, <2>1, <2>2, <2>3 DEF ImportStage
    <2> QED BY <1>1, <2>1, <2>2, <2>3, <2>4, CrewStep
  <1> QED BY <1>5, <1>6, <1>7

\* An import is accepted.
LEMMA ImportAccepted ==
  ASSUME ImportInv, NEW i \in Imports, AcceptImport(i)
  PROVE  ImportInv'
  <1>1. /\ jobTable[i] = "none" /\ jobTable' = [jobTable EXCEPT ![i] = "running"]
        /\ crew' = [crew EXCEPT ![i] = [pc |-> FirstStep, next |-> 1]]
        /\ disturbed' = disturbed \cup {j \in Imports : jobTable[j] # "none"}
                              \cup (IF Running = {} THEN {} ELSE {i})
        /\ UNCHANGED <<kind, table, staged>> /\ ImportTyped /\ Batches \in Nat \ {0}
    BY DataImportAssumption DEF AcceptImport, ImportInv, DataImportAssumption
  <1>2. FirstStep \in {"insert", "drop", "clear", "stage"} /\ (FirstStep = "insert" => kind \in {"append", "empty"})
        /\ (FirstStep = "drop" => kind \in {"table", "copy"}) /\ (FirstStep \in {"clear", "stage"} => kind \in {"zip", "sql"})
    BY <1>1 DEF FirstStep, ImportTyped, Kinds
  <1> DEFINE x == [pc |-> FirstStep, next |-> 1]
  <1>3. x \in CrewRec /\ x.pc = FirstStep /\ x.next = 1
    BY <1>1, <1>2 DEF CrewRec
  <1>4. crew' = [crew EXCEPT ![i] = x]
    BY <1>1
  <1> HIDE DEF x
  <1>5. /\ crew' \in [Imports -> CrewRec] /\ crew'[i] = x /\ \A j \in Imports \ {i} : crew'[j] = crew[j]
        /\ jobTable' \in [Imports -> {"none", "running", "done", "error", "gone"}]
        /\ jobTable'[i] = "running" /\ \A j \in Imports \ {i} : jobTable'[j] = jobTable[j]
    BY <1>1, <1>3, <1>4 DEF ImportTyped
  <1>6. ImportTyped'
    BY <1>1, <1>2, <1>3, <1>5 DEF ImportTyped
  <1>7. ASSUME NEW j \in Imports PROVE ImportAlone(j)'
    <2>1. CASE j = i
      <3>1. i \notin disturbed' => \A k \in Imports \ {i} : crew'[k].pc = "idle"
        BY <1>1, <1>5 DEF Running
      <3>2. kind \in {"append", "empty"} => kind \notin Replacing
        BY DEF Replacing
      <3>3. SoFar(i)' = {}
        BY <1>3, <1>5 DEF SoFar, Upto
      <3>4. ImportStage(i)'
        BY <1>1, <1>2, <1>3, <1>5, <3>2, <3>3 DEF ImportStage
      <3> QED BY <2>1, <3>1, <3>4 DEF ImportAlone
    <2>2. CASE j # i
      BY <1>1, <1>5, <2>2 DEF ImportAlone
    <2> QED BY <2>1, <2>2
  <1> QED BY <1>1, <1>6, <1>7 DEF ImportInv

\* A settled job is forgotten; the process dies; the pages start, poll and give up.
LEMMA ImportElsewhere ==
  ASSUME ImportInv, \/ \E i \in Imports : \/ ExpireImport(i) \/ TrackImport(i) \/ LoseImport(i) \/ SendPoll(i)
                    \/ StartImport \/ Upload \/ PasteUrl \/ AnswerPoll \/ DeliverPoll
                    \/ ImportCrash \/ UNCHANGED importVars
  PROVE  ImportInv'
  <1>1. CASE ImportCrash
    <2>1. UNCHANGED <<kind, table, staged, disturbed>> /\ (\A i \in Imports : crew'[i] = [pc |-> "idle", next |-> 1])
          /\ jobTable' \in [Imports -> {"none", "gone"}] /\ Batches \in Nat \ {0}
      BY <1>1, DataImportAssumption DEF ImportCrash, DataImportAssumption
    <2>2. [pc |-> "idle", next |-> 1] \in CrewRec
      BY <2>1 DEF CrewRec
    <2>3. crew' \in [Imports -> CrewRec]
      BY <1>1, <2>2 DEF ImportCrash
    <2>4. ImportTyped'
      BY <2>1, <2>3 DEF ImportInv, ImportTyped
    <2>5. \A i \in Imports : ImportAlone(i)'
      BY <2>1 DEF ImportAlone, ImportStage
    <2> QED BY <2>1, <2>4, <2>5 DEF ImportInv
  <1>2. ASSUME NEW i \in Imports, ExpireImport(i) PROVE ImportInv'
    <2>1. jobTable[i] \in {"done", "error"} /\ jobTable' = [jobTable EXCEPT ![i] = "gone"]
          /\ UNCHANGED <<kind, crew, table, staged, disturbed>>
      BY <1>2 DEF ExpireImport
    <2>2. jobTable'[i] = "gone" /\ \A j \in Imports \ {i} : jobTable'[j] = jobTable[j]
      BY <2>1 DEF ImportInv, ImportTyped
    <2>3. ImportTyped'
      BY <2>1, <2>2 DEF ImportInv, ImportTyped
    <2>4. ASSUME NEW j \in Imports PROVE ImportAlone(j)'
      BY <2>1, <2>2 DEF ImportInv, ImportAlone, ImportStage, SoFar, RowsOfImport
    <2> QED BY <2>1, <2>3, <2>4 DEF ImportInv
  <1>3. CASE UNCHANGED <<kind, jobTable, crew, table, staged, disturbed>>
    BY <1>3 DEF ImportInv, ImportTyped, ImportAlone, ImportStage, SoFar, RowsOfImport
  <1> QED BY <1>1, <1>2, <1>3 DEF TrackImport, LoseImport, SendPoll, StartImport, Upload, PasteUrl, AnswerPoll,
                                  DeliverPoll, importVars

\* The invariant of the imports, under every step.
LEMMA ImportInvariance == ImportSpec => []ImportInv
  <1>1. ImportInit => ImportInv
    <2> SUFFICES ASSUME ImportInit PROVE ImportInv
      OBVIOUS
    <2>1. Batches \in Nat \ {0}
      BY DataImportAssumption DEF DataImportAssumption
    <2>2. [pc |-> "idle", next |-> 1] \in CrewRec
      BY <2>1 DEF CrewRec
    <2> QED BY <2>2 DEF ImportInit, ImportInv, ImportTyped, ImportAlone
  <1>2. ImportInv /\ [ImportNext]_importVars => ImportInv'
    BY CrewEnds, CrewFills, CrewStages, ImportAccepted, ImportElsewhere DEF ImportNext, ImportStep
  <1> QED BY <1>1, <1>2, PTL DEF ImportSpec

\* An import that is reported as done, and that no other import ran beside or after, has
\* left all of its file in the target, whatever failed (dataImport.js, importRunner.js).
THEOREM DoneImportsLand == ImportSpec => []DoneImportLanded
  <1>1. ImportInv => DoneImportLanded
    <2> SUFFICES ASSUME ImportInv, NEW i \in Imports, jobTable[i] = "done", i \notin disturbed
                 PROVE  /\ RowsOfImport(i) \subseteq table.rows
                        /\ IF kind \in Replacing THEN table.rows = RowsOfImport(i) ELSE OldRows \subseteq table.rows
      BY DEF DoneImportLanded
    <2>1. ImportStage(i)
      BY DEF ImportInv, ImportAlone
    <2> QED BY <2>1 DEF ImportStage, ImportInv
  <1> QED BY <1>1, ImportInvariance, PTL

-----------------------------------------------------------------------------
(* One field between two engines.                                           *)

Types == {"null", "array", "timestamp", "objectid", "decimal", "long", "binary", "jsonb", "double",
          "int", "boolean", "string"}

\* What the destination holds of a mapped value in a column c.
Arrived(to, c, w) == Store(to, c, Encode(to, w))

\* It holds what was read, but for the named causes.
Fine(from, to, type, v, h) ==
    \/ h.is = v.is
    \/ IF h = Rejected
         THEN \/ v.is = "wide" /\ type = "int"
              \/ v.is = "text" /\ type \in {"json", "jsonb"} /\ from # "mongo" /\ to # "mongo"
         ELSE \/ v.is = "bytes" /\ to = "postgres"
              \/ v.is = "huge" /\ "mysql" \in {from, to}
              \/ v.is = "exact" /\ to = "mysql"
              \/ v.is = "small" /\ type = "boolean" /\ from = "mysql"
\* The columns of Postgres with the values they hold.
PostgresPairs ==
    {<<"int", V("small", "number")>>, <<"long", V("small", "string")>>,
          <<"long", V("wide", "string")>>, <<"long", V("huge", "string")>>,
          <<"double", V("small", "number")>>, <<"double", V("fraction", "number")>>,
          <<"decimal", V("small", "string")>>, <<"decimal", V("exact", "string")>>,
          <<"boolean", V("true", "boolean")>>, <<"boolean", V("false", "boolean")>>,
          <<"string", V("text", "string")>>, <<"uuid", V("text", "string")>>,
          <<"jsonb", V("object", "object")>>, <<"jsonb", V("text", "string")>>,
          <<"array", V("list", "array")>>, <<"binary", V("bytes", "Buffer")>>,
          <<"timestamp", V("instant", "Date")>>}

\* The columns of MySQL with the values they hold.
MysqlPairs ==
    {<<"int", V("small", "number")>>, <<"long", V("small", "number")>>,
          <<"long", V("wide", "number")>>, <<"long", V("huge", "rounded")>>,
          <<"double", V("small", "number")>>, <<"double", V("fraction", "number")>>,
          <<"decimal", V("small", "string")>>, <<"decimal", V("exact", "string")>>,
          <<"boolean", V("true", "number")>>, <<"boolean", V("false", "number")>>,
          <<"boolean", V("small", "number")>>, <<"string", V("text", "string")>>,
          <<"json", V("object", "object")>>, <<"json", V("text", "string")>>,
          <<"binary", V("bytes", "Buffer")>>, <<"timestamp", V("instant", "Date")>>}

\* The tables list the declared columns in full.
LEMMA DeclaredPairs ==
  /\ \A c \in PostgresColumns : \A v \in c.holds : <<c.type, v>> \in PostgresPairs
  /\ \A c \in MysqlColumns : \A v \in c.holds : <<c.type, v>> \in MysqlPairs
  <1>1. ASSUME NEW c \in PostgresColumns, NEW v \in c.holds PROVE <<c.type, v>> \in PostgresPairs
    BY DEF PostgresColumns, PostgresPairs
  <1>2. ASSUME NEW c \in MysqlColumns, NEW v \in c.holds PROVE <<c.type, v>> \in MysqlPairs
    BY DEF MysqlColumns, MysqlPairs
  <1> QED BY <1>1, <1>2
\* From Postgres to Mongo, value by value.
LEMMA PostgresToMongoFine ==
  ASSUME NEW c, NEW v, <<c.type, v>> \in PostgresPairs
  PROVE  Fine("postgres", "mongo", c.type, v, Arrived("mongo", c, PostgresToMongo(c.type, v)))
  <1>1. CASE c.type = "int" /\ v = V("small", "number")
    BY <1>1 DEF Fine, PostgresToMongo, Arrived, Encode, Store, Fits, Kept, Tolerant, Numbers, V, Nothing, Rejected
  <1>2. CASE c.type = "long" /\ v = V("small", "string")
    BY <1>2 DEF Fine, PostgresToMongo, Arrived, Encode, Store, Fits, Kept, Tolerant, Numbers, V, Nothing, Rejected
  <1>3. CASE c.type = "long" /\ v = V("wide", "string")
    BY <1>3 DEF Fine, PostgresToMongo, Arrived, Encode, Store, Fits, Kept, Tolerant, Numbers, V, Nothing, Rejected
  <1>4. CASE c.type = "long" /\ v = V("huge", "string")
    BY <1>4 DEF Fine, PostgresToMongo, Arrived, Encode, Store, Fits, Kept, Tolerant, Numbers, V, Nothing, Rejected
  <1>5. CASE c.type = "double" /\ v = V("small", "number")
    BY <1>5 DEF Fine, PostgresToMongo, Arrived, Encode, Store, Fits, Kept, Tolerant, Numbers, V, Nothing, Rejected
  <1>6. CASE c.type = "double" /\ v = V("fraction", "number")
    BY <1>6 DEF Fine, PostgresToMongo, Arrived, Encode, Store, Fits, Kept, Tolerant, Numbers, V, Nothing, Rejected
  <1>7. CASE c.type = "decimal" /\ v = V("small", "string")
    BY <1>7 DEF Fine, PostgresToMongo, Arrived, Encode, Store, Fits, Kept, Tolerant, Numbers, V, Nothing, Rejected
  <1>8. CASE c.type = "decimal" /\ v = V("exact", "string")
    BY <1>8 DEF Fine, PostgresToMongo, Arrived, Encode, Store, Fits, Kept, Tolerant, Numbers, V, Nothing, Rejected
  <1>9. CASE c.type = "boolean" /\ v = V("true", "boolean")
    BY <1>9 DEF Fine, PostgresToMongo, Arrived, Encode, Store, Fits, Kept, Tolerant, Numbers, V, Nothing, Rejected
  <1>10. CASE c.type = "boolean" /\ v = V("false", "boolean")
    BY <1>10 DEF Fine, PostgresToMongo, Arrived, Encode, Store, Fits, Kept, Tolerant, Numbers, V, Nothing, Rejected
  <1>11. CASE c.type = "string" /\ v = V("text", "string")
    BY <1>11 DEF Fine, PostgresToMongo, Arrived, Encode, Store, Fits, Kept, Tolerant, Numbers, V, Nothing, Rejected
  <1>12. CASE c.type = "uuid" /\ v = V("text", "string")
    BY <1>12 DEF Fine, PostgresToMongo, Arrived, Encode, Store, Fits, Kept, Tolerant, Numbers, V, Nothing, Rejected
  <1>13. CASE c.type = "jsonb" /\ v = V("object", "object")
    BY <1>13 DEF Fine, PostgresToMongo, Arrived, Encode, Store, Fits, Kept, Tolerant, Numbers, V, Nothing, Rejected
  <1>14. CASE c.type = "jsonb" /\ v = V("text", "string")
    <2>1. PostgresToMongo("jsonb", V("text", "string")) = V("text", "string")
      BY DEF PostgresToMongo, V
    <2>2. Arrived("mongo", c, V("text", "string")) = V("text", "string")
      BY DEF Arrived, Encode, Store, Kept, V, Nothing
    <2> QED BY <1>14, <2>1, <2>2 DEF Fine, V
  <1>15. CASE c.type = "array" /\ v = V("list", "array")
    BY <1>15 DEF Fine, PostgresToMongo, Arrived, Encode, Store, Fits, Kept, Tolerant, Numbers, V, Nothing, Rejected
  <1>16. CASE c.type = "binary" /\ v = V("bytes", "Buffer")
    BY <1>16 DEF Fine, PostgresToMongo, Arrived, Encode, Store, Fits, Kept, Tolerant, Numbers, V, Nothing, Rejected
  <1>17. CASE c.type = "timestamp" /\ v = V("instant", "Date")
    BY <1>17 DEF Fine, PostgresToMongo, Arrived, Encode, Store, Fits, Kept, Tolerant, Numbers, V, Nothing, Rejected
  <1> QED BY <1>1, <1>2, <1>3, <1>4, <1>5, <1>6, <1>7, <1>8, <1>9, <1>10, <1>11, <1>12, <1>13, <1>14, <1>15, <1>16, <1>17 DEF PostgresPairs
\* From Postgres to MySQL, value by value.
LEMMA PostgresToMysqlFine ==
  ASSUME NEW c, NEW v, <<c.type, v>> \in PostgresPairs
  PROVE  Fine("postgres", "mysql", c.type, v, Arrived("mysql", c, PostgresToMysql(c.type, v)))
  <1>1. CASE c.type = "int" /\ v = V("small", "number")
    BY <1>1 DEF Fine, PostgresToMysql, Truth, Number, Json, Arrived, Encode, Store, Fits, Kept, Tolerant, Numbers, V, Nothing, Rejected
  <1>2. CASE c.type = "long" /\ v = V("small", "string")
    BY <1>2 DEF Fine, PostgresToMysql, Truth, Number, Json, Arrived, Encode, Store, Fits, Kept, Tolerant, Numbers, V, Nothing, Rejected
  <1>3. CASE c.type = "long" /\ v = V("wide", "string")
    BY <1>3 DEF Fine, PostgresToMysql, Truth, Number, Json, Arrived, Encode, Store, Fits, Kept, Tolerant, Numbers, V, Nothing, Rejected
  <1>4. CASE c.type = "long" /\ v = V("huge", "string")
    BY <1>4 DEF Fine, PostgresToMysql, Truth, Number, Json, Arrived, Encode, Store, Fits, Kept, Tolerant, Numbers, V, Nothing, Rejected
  <1>5. CASE c.type = "double" /\ v = V("small", "number")
    BY <1>5 DEF Fine, PostgresToMysql, Truth, Number, Json, Arrived, Encode, Store, Fits, Kept, Tolerant, Numbers, V, Nothing, Rejected
  <1>6. CASE c.type = "double" /\ v = V("fraction", "number")
    BY <1>6 DEF Fine, PostgresToMysql, Truth, Number, Json, Arrived, Encode, Store, Fits, Kept, Tolerant, Numbers, V, Nothing, Rejected
  <1>7. CASE c.type = "decimal" /\ v = V("small", "string")
    BY <1>7 DEF Fine, PostgresToMysql, Truth, Number, Json, Arrived, Encode, Store, Fits, Kept, Tolerant, Numbers, V, Nothing, Rejected
  <1>8. CASE c.type = "decimal" /\ v = V("exact", "string")
    BY <1>8 DEF Fine, PostgresToMysql, Truth, Number, Json, Arrived, Encode, Store, Fits, Kept, Tolerant, Numbers, V, Nothing, Rejected
  <1>9. CASE c.type = "boolean" /\ v = V("true", "boolean")
    BY <1>9 DEF Fine, PostgresToMysql, Truth, Number, Json, Arrived, Encode, Store, Fits, Kept, Tolerant, Numbers, V, Nothing, Rejected
  <1>10. CASE c.type = "boolean" /\ v = V("false", "boolean")
    BY <1>10 DEF Fine, PostgresToMysql, Truth, Number, Json, Arrived, Encode, Store, Fits, Kept, Tolerant, Numbers, V, Nothing, Rejected
  <1>11. CASE c.type = "string" /\ v = V("text", "string")
    BY <1>11 DEF Fine, PostgresToMysql, Truth, Number, Json, Arrived, Encode, Store, Fits, Kept, Tolerant, Numbers, V, Nothing, Rejected
  <1>12. CASE c.type = "uuid" /\ v = V("text", "string")
    BY <1>12 DEF Fine, PostgresToMysql, Truth, Number, Json, Arrived, Encode, Store, Fits, Kept, Tolerant, Numbers, V, Nothing, Rejected
  <1>13. CASE c.type = "jsonb" /\ v = V("object", "object")
    BY <1>13 DEF Fine, PostgresToMysql, Truth, Number, Json, Arrived, Encode, Store, Fits, Kept, Tolerant, Numbers, V, Nothing, Rejected
  <1>14. CASE c.type = "jsonb" /\ v = V("text", "string")
    BY <1>14 DEF Fine, PostgresToMysql, Truth, Number, Json, Arrived, Encode, Store, Fits, Kept, Tolerant, Numbers, V, Nothing, Rejected
  <1>15. CASE c.type = "array" /\ v = V("list", "array")
    BY <1>15 DEF Fine, PostgresToMysql, Truth, Number, Json, Arrived, Encode, Store, Fits, Kept, Tolerant, Numbers, V, Nothing, Rejected
  <1>16. CASE c.type = "binary" /\ v = V("bytes", "Buffer")
    BY <1>16 DEF Fine, PostgresToMysql, Truth, Number, Json, Arrived, Encode, Store, Fits, Kept, Tolerant, Numbers, V, Nothing, Rejected
  <1>17. CASE c.type = "timestamp" /\ v = V("instant", "Date")
    BY <1>17 DEF Fine, PostgresToMysql, Truth, Number, Json, Arrived, Encode, Store, Fits, Kept, Tolerant, Numbers, V, Nothing, Rejected
  <1> QED BY <1>1, <1>2, <1>3, <1>4, <1>5, <1>6, <1>7, <1>8, <1>9, <1>10, <1>11, <1>12, <1>13, <1>14, <1>15, <1>16, <1>17 DEF PostgresPairs
\* From MySQL to Mongo, value by value.
LEMMA MysqlToMongoFine ==
  ASSUME NEW c, NEW v, <<c.type, v>> \in MysqlPairs
  PROVE  Fine("mysql", "mongo", c.type, v, Arrived("mongo", c, MysqlToMongo(c.type, v)))
  <1>1. CASE c.type = "int" /\ v = V("small", "number")
    BY <1>1 DEF Fine, MysqlToMongo, Truth, Arrived, Encode, Store, Fits, Kept, Tolerant, Numbers, V, Nothing, Rejected
  <1>2. CASE c.type = "long" /\ v = V("small", "number")
    BY <1>2 DEF Fine, MysqlToMongo, Truth, Arrived, Encode, Store, Fits, Kept, Tolerant, Numbers, V, Nothing, Rejected
  <1>3. CASE c.type = "long" /\ v = V("wide", "number")
    BY <1>3 DEF Fine, MysqlToMongo, Truth, Arrived, Encode, Store, Fits, Kept, Tolerant, Numbers, V, Nothing, Rejected
  <1>4. CASE c.type = "long" /\ v = V("huge", "rounded")
    BY <1>4 DEF Fine, MysqlToMongo, Truth, Arrived, Encode, Store, Fits, Kept, Tolerant, Numbers, V, Nothing, Rejected
  <1>5. CASE c.type = "double" /\ v = V("small", "number")
    BY <1>5 DEF Fine, MysqlToMongo, Truth, Arrived, Encode, Store, Fits, Kept, Tolerant, Numbers, V, Nothing, Rejected
  <1>6. CASE c.type = "double" /\ v = V("fraction", "number")
    BY <1>6 DEF Fine, MysqlToMongo, Truth, Arrived, Encode, Store, Fits, Kept, Tolerant, Numbers, V, Nothing, Rejected
  <1>7. CASE c.type = "decimal" /\ v = V("small", "string")
    BY <1>7 DEF Fine, MysqlToMongo, Truth, Arrived, Encode, Store, Fits, Kept, Tolerant, Numbers, V, Nothing, Rejected
  <1>8. CASE c.type = "decimal" /\ v = V("exact", "string")
    BY <1>8 DEF Fine, MysqlToMongo, Truth, Arrived, Encode, Store, Fits, Kept, Tolerant, Numbers, V, Nothing, Rejected
  <1>9. CASE c.type = "boolean" /\ v = V("true", "number")
    BY <1>9 DEF Fine, MysqlToMongo, Truth, Arrived, Encode, Store, Fits, Kept, Tolerant, Numbers, V, Nothing, Rejected
  <1>10. CASE c.type = "boolean" /\ v = V("false", "number")
    BY <1>10 DEF Fine, MysqlToMongo, Truth, Arrived, Encode, Store, Fits, Kept, Tolerant, Numbers, V, Nothing, Rejected
  <1>11. CASE c.type = "boolean" /\ v = V("small", "number")
    BY <1>11 DEF Fine, MysqlToMongo, Truth, Arrived, Encode, Store, Fits, Kept, Tolerant, Numbers, V, Nothing, Rejected
  <1>12. CASE c.type = "string" /\ v = V("text", "string")
    BY <1>12 DEF Fine, MysqlToMongo, Truth, Arrived, Encode, Store, Fits, Kept, Tolerant, Numbers, V, Nothing, Rejected
  <1>13. CASE c.type = "json" /\ v = V("object", "object")
    BY <1>13 DEF Fine, MysqlToMongo, Truth, Arrived, Encode, Store, Fits, Kept, Tolerant, Numbers, V, Nothing, Rejected
  <1>14. CASE c.type = "json" /\ v = V("text", "string")
    <2>1. MysqlToMongo("json", V("text", "string")) = V("text", "string")
      BY DEF MysqlToMongo, V
    <2>2. Arrived("mongo", c, V("text", "string")) = V("text", "string")
      BY DEF Arrived, Encode, Store, Kept, V, Nothing
    <2> QED BY <1>14, <2>1, <2>2 DEF Fine, V
  <1>15. CASE c.type = "binary" /\ v = V("bytes", "Buffer")
    BY <1>15 DEF Fine, MysqlToMongo, Truth, Arrived, Encode, Store, Fits, Kept, Tolerant, Numbers, V, Nothing, Rejected
  <1>16. CASE c.type = "timestamp" /\ v = V("instant", "Date")
    BY <1>16 DEF Fine, MysqlToMongo, Truth, Arrived, Encode, Store, Fits, Kept, Tolerant, Numbers, V, Nothing, Rejected
  <1> QED BY <1>1, <1>2, <1>3, <1>4, <1>5, <1>6, <1>7, <1>8, <1>9, <1>10, <1>11, <1>12, <1>13, <1>14, <1>15, <1>16 DEF MysqlPairs
\* From MySQL to Postgres, value by value.
LEMMA MysqlToPostgresFine ==
  ASSUME NEW c, NEW v, <<c.type, v>> \in MysqlPairs
  PROVE  Fine("mysql", "postgres", c.type, v, Arrived("postgres", c, MysqlToPostgres(c.type, v)))
  <1>1. CASE c.type = "int" /\ v = V("small", "number")
    BY <1>1 DEF Fine, MysqlToPostgres, Truth, Json, Arrived, Encode, Store, Fits, Kept, Tolerant, Numbers, V, Nothing, Rejected
  <1>2. CASE c.type = "long" /\ v = V("small", "number")
    BY <1>2 DEF Fine, MysqlToPostgres, Truth, Json, Arrived, Encode, Store, Fits, Kept, Tolerant, Numbers, V, Nothing, Rejected
  <1>3. CASE c.type = "long" /\ v = V("wide", "number")
    BY <1>3 DEF Fine, MysqlToPostgres, Truth, Json, Arrived, Encode, Store, Fits, Kept, Tolerant, Numbers, V, Nothing, Rejected
  <1>4. CASE c.type = "long" /\ v = V("huge", "rounded")
    BY <1>4 DEF Fine, MysqlToPostgres, Truth, Json, Arrived, Encode, Store, Fits, Kept, Tolerant, Numbers, V, Nothing, Rejected
  <1>5. CASE c.type = "double" /\ v = V("small", "number")
    BY <1>5 DEF Fine, MysqlToPostgres, Truth, Json, Arrived, Encode, Store, Fits, Kept, Tolerant, Numbers, V, Nothing, Rejected
  <1>6. CASE c.type = "double" /\ v = V("fraction", "number")
    BY <1>6 DEF Fine, MysqlToPostgres, Truth, Json, Arrived, Encode, Store, Fits, Kept, Tolerant, Numbers, V, Nothing, Rejected
  <1>7. CASE c.type = "decimal" /\ v = V("small", "string")
    BY <1>7 DEF Fine, MysqlToPostgres, Truth, Json, Arrived, Encode, Store, Fits, Kept, Tolerant, Numbers, V, Nothing, Rejected
  <1>8. CASE c.type = "decimal" /\ v = V("exact", "string")
    BY <1>8 DEF Fine, MysqlToPostgres, Truth, Json, Arrived, Encode, Store, Fits, Kept, Tolerant, Numbers, V, Nothing, Rejected
  <1>9. CASE c.type = "boolean" /\ v = V("true", "number")
    BY <1>9 DEF Fine, MysqlToPostgres, Truth, Json, Arrived, Encode, Store, Fits, Kept, Tolerant, Numbers, V, Nothing, Rejected
  <1>10. CASE c.type = "boolean" /\ v = V("false", "number")
    BY <1>10 DEF Fine, MysqlToPostgres, Truth, Json, Arrived, Encode, Store, Fits, Kept, Tolerant, Numbers, V, Nothing, Rejected
  <1>11. CASE c.type = "boolean" /\ v = V("small", "number")
    BY <1>11 DEF Fine, MysqlToPostgres, Truth, Json, Arrived, Encode, Store, Fits, Kept, Tolerant, Numbers, V, Nothing, Rejected
  <1>12. CASE c.type = "string" /\ v = V("text", "string")
    BY <1>12 DEF Fine, MysqlToPostgres, Truth, Json, Arrived, Encode, Store, Fits, Kept, Tolerant, Numbers, V, Nothing, Rejected
  <1>13. CASE c.type = "json" /\ v = V("object", "object")
    BY <1>13 DEF Fine, MysqlToPostgres, Truth, Json, Arrived, Encode, Store, Fits, Kept, Tolerant, Numbers, V, Nothing, Rejected
  <1>14. CASE c.type = "json" /\ v = V("text", "string")
    BY <1>14 DEF Fine, MysqlToPostgres, Truth, Json, Arrived, Encode, Store, Fits, Kept, Tolerant, Numbers, V, Nothing, Rejected
  <1>15. CASE c.type = "binary" /\ v = V("bytes", "Buffer")
    BY <1>15 DEF Fine, MysqlToPostgres, Truth, Json, Arrived, Encode, Store, Fits, Kept, Tolerant, Numbers, V, Nothing, Rejected
  <1>16. CASE c.type = "timestamp" /\ v = V("instant", "Date")
    BY <1>16 DEF Fine, MysqlToPostgres, Truth, Json, Arrived, Encode, Store, Fits, Kept, Tolerant, Numbers, V, Nothing, Rejected
  <1> QED BY <1>1, <1>2, <1>3, <1>4, <1>5, <1>6, <1>7, <1>8, <1>9, <1>10, <1>11, <1>12, <1>13, <1>14, <1>15, <1>16 DEF MysqlPairs
\* A document's value in a column of its own type.
LEMMA OwnTypeFine ==
  ASSUME NEW v \in MongoValues, v.is # "nothing", NEW c, c.type = canonicalBsonType(v), c.type # "string"
  PROVE  /\ Fine("mongo", "postgres", c.type, v, Arrived("postgres", c, MongoToPostgres(c.type, v)))
         /\ Fine("mongo", "mysql", c.type, v, Arrived("mysql", c, MongoToMysql(c.type, v)))
  <1>a. <<c.type, v>> \in
        {<<"int", V("small", "number")>>, <<"int", V("wide", "number")>>,
          <<"long", V("huge", "Long")>>, <<"double", V("fraction", "number")>>,
          <<"decimal", V("exact", "Decimal128")>>, <<"boolean", V("true", "boolean")>>,
          <<"boolean", V("false", "boolean")>>, <<"timestamp", V("instant", "Date")>>,
          <<"objectid", V("id", "ObjectId")>>, <<"binary", V("bytes", "Binary")>>,
          <<"jsonb", V("object", "object")>>, <<"array", V("list", "array")>>}
    BY DEF MongoValues, canonicalBsonType, V, Nothing, Absent
  <1>1. CASE c.type = "int" /\ v = V("small", "number")
    <2>1. MongoToPostgres("int", V("small", "number")) = V("small", "number")
      BY DEF MongoToPostgres, Tolerant, Text, Truth, DateOf, Json, V
    <2>2. MongoToMysql("int", V("small", "number")) = V("small", "number")
      BY DEF MongoToMysql, Tolerant, Trunc, Number, Text, Truth, DateOf, Json, V
    <2>3. Arrived("postgres", c, V("small", "number")) = V("small", "number")
      BY <1>1 DEF Arrived, Encode, Store, Fits, Kept, Tolerant, Numbers, V, Nothing, Rejected
    <2>4. Arrived("mysql", c, V("small", "number")) = V("small", "number")
      BY <1>1 DEF Arrived, Encode, Store, Fits, Kept, Tolerant, Numbers, V, Nothing, Rejected
    <2> QED BY <1>1, <2>1, <2>2, <2>3, <2>4 DEF Fine, V, Rejected
  <1>2. CASE c.type = "int" /\ v = V("wide", "number")
    <2>1. MongoToPostgres("int", V("wide", "number")) = V("wide", "number")
      BY DEF MongoToPostgres, Tolerant, Text, Truth, DateOf, Json, V
    <2>2. MongoToMysql("int", V("wide", "number")) = V("wide", "number")
      BY DEF MongoToMysql, Tolerant, Trunc, Number, Text, Truth, DateOf, Json, V
    <2>3. Arrived("postgres", c, V("wide", "number")) = Rejected
      BY <1>2 DEF Arrived, Encode, Store, Fits, Kept, Tolerant, Numbers, V, Nothing, Rejected
    <2>4. Arrived("mysql", c, V("wide", "number")) = Rejected
      BY <1>2 DEF Arrived, Encode, Store, Fits, Kept, Tolerant, Numbers, V, Nothing, Rejected
    <2> QED BY <1>2, <2>1, <2>2, <2>3, <2>4 DEF Fine, V, Rejected
  <1>3. CASE c.type = "long" /\ v = V("huge", "Long")
    <2>1. MongoToPostgres("long", V("huge", "Long")) = V("huge", "string")
      BY DEF MongoToPostgres, Tolerant, Text, Truth, DateOf, Json, V
    <2>2. MongoToMysql("long", V("huge", "Long")) = V("huge", "rounded")
      BY DEF MongoToMysql, Tolerant, Trunc, Number, Text, Truth, DateOf, Json, V
    <2>3. Arrived("postgres", c, V("huge", "string")) = V("huge", "string")
      BY <1>3 DEF Arrived, Encode, Store, Fits, Kept, Tolerant, Numbers, V, Nothing, Rejected
    <2>4. Arrived("mysql", c, V("huge", "rounded")) = V("rounded", "rounded")
      BY <1>3 DEF Arrived, Encode, Store, Fits, Kept, Tolerant, Numbers, V, Nothing, Rejected
    <2> QED BY <1>3, <2>1, <2>2, <2>3, <2>4 DEF Fine, V, Rejected
  <1>4. CASE c.type = "double" /\ v = V("fraction", "number")
    <2>1. MongoToPostgres("double", V("fraction", "number")) = V("fraction", "number")
      BY DEF MongoToPostgres, Tolerant, Text, Truth, DateOf, Json, V
    <2>2. MongoToMysql("double", V("fraction", "number")) = V("fraction", "number")
      BY DEF MongoToMysql, Tolerant, Trunc, Number, Text, Truth, DateOf, Json, V
    <2>3. Arrived("postgres", c, V("fraction", "number")) = V("fraction", "number")
      BY <1>4 DEF Arrived, Encode, Store, Fits, Kept, Tolerant, Numbers, V, Nothing, Rejected
    <2>4. Arrived("mysql", c, V("fraction", "number")) = V("fraction", "number")
      BY <1>4 DEF Arrived, Encode, Store, Fits, Kept, Tolerant, Numbers, V, Nothing, Rejected
    <2> QED BY <1>4, <2>1, <2>2, <2>3, <2>4 DEF Fine, V, Rejected
  <1>5. CASE c.type = "decimal" /\ v = V("exact", "Decimal128")
    <2>1. MongoToPostgres("decimal", V("exact", "Decimal128")) = V("exact", "string")
      BY DEF MongoToPostgres, Tolerant, Text, Truth, DateOf, Json, V
    <2>2. MongoToMysql("decimal", V("exact", "Decimal128")) = V("exact", "string")
      BY DEF MongoToMysql, Tolerant, Trunc, Number, Text, Truth, DateOf, Json, V
    <2>3. Arrived("postgres", c, V("exact", "string")) = V("exact", "string")
      BY <1>5 DEF Arrived, Encode, Store, Fits, Kept, Tolerant, Numbers, V, Nothing, Rejected
    <2>4. Arrived("mysql", c, V("exact", "string")) = V("rounded", "string")
      BY <1>5 DEF Arrived, Encode, Store, Fits, Kept, Tolerant, Numbers, V, Nothing, Rejected
    <2> QED BY <1>5, <2>1, <2>2, <2>3, <2>4 DEF Fine, V, Rejected
  <1>6. CASE c.type = "boolean" /\ v = V("true", "boolean")
    <2>1. MongoToPostgres("boolean", V("true", "boolean")) = V("true", "boolean")
      BY DEF MongoToPostgres, Tolerant, Text, Truth, DateOf, Json, V
    <2>2. MongoToMysql("boolean", V("true", "boolean")) = V("true", "boolean")
      BY DEF MongoToMysql, Tolerant, Trunc, Number, Text, Truth, DateOf, Json, V
    <2>3. Arrived("postgres", c, V("true", "boolean")) = V("true", "boolean")
      BY <1>6 DEF Arrived, Encode, Store, Fits, Kept, Tolerant, Numbers, V, Nothing, Rejected
    <2>4. Arrived("mysql", c, V("true", "boolean")) = V("true", "boolean")
      BY <1>6 DEF Arrived, Encode, Store, Fits, Kept, Tolerant, Numbers, V, Nothing, Rejected
    <2> QED BY <1>6, <2>1, <2>2, <2>3, <2>4 DEF Fine, V, Rejected
  <1>7. CASE c.type = "boolean" /\ v = V("false", "boolean")
    <2>1. MongoToPostgres("boolean", V("false", "boolean")) = V("false", "boolean")
      BY DEF MongoToPostgres, Tolerant, Text, Truth, DateOf, Json, V
    <2>2. MongoToMysql("boolean", V("false", "boolean")) = V("false", "boolean")
      BY DEF MongoToMysql, Tolerant, Trunc, Number, Text, Truth, DateOf, Json, V
    <2>3. Arrived("postgres", c, V("false", "boolean")) = V("false", "boolean")
      BY <1>7 DEF Arrived, Encode, Store, Fits, Kept, Tolerant, Numbers, V, Nothing, Rejected
    <2>4. Arrived("mysql", c, V("false", "boolean")) = V("false", "boolean")
      BY <1>7 DEF Arrived, Encode, Store, Fits, Kept, Tolerant, Numbers, V, Nothing, Rejected
    <2> QED BY <1>7, <2>1, <2>2, <2>3, <2>4 DEF Fine, V, Rejected
  <1>8. CASE c.type = "timestamp" /\ v = V("instant", "Date")
    <2>1. MongoToPostgres("timestamp", V("instant", "Date")) = V("instant", "Date")
      BY DEF MongoToPostgres, Tolerant, Text, Truth, DateOf, Json, V
    <2>2. MongoToMysql("timestamp", V("instant", "Date")) = V("instant", "Date")
      BY DEF MongoToMysql, Tolerant, Trunc, Number, Text, Truth, DateOf, Json, V
    <2>3. Arrived("postgres", c, V("instant", "Date")) = V("instant", "Date")
      BY <1>8 DEF Arrived, Encode, Store, Fits, Kept, Tolerant, Numbers, V, Nothing, Rejected
    <2>4. Arrived("mysql", c, V("instant", "Date")) = V("instant", "Date")
      BY <1>8 DEF Arrived, Encode, Store, Fits, Kept, Tolerant, Numbers, V, Nothing, Rejected
    <2> QED BY <1>8, <2>1, <2>2, <2>3, <2>4 DEF Fine, V, Rejected
  <1>9. CASE c.type = "objectid" /\ v = V("id", "ObjectId")
    <2>1. MongoToPostgres("objectid", V("id", "ObjectId")) = V("id", "string")
      BY DEF MongoToPostgres, Tolerant, Text, Truth, DateOf, Json, V
    <2>2. MongoToMysql("objectid", V("id", "ObjectId")) = V("id", "string")
      BY DEF MongoToMysql, Tolerant, Trunc, Number, Text, Truth, DateOf, Json, V
    <2>3. Arrived("postgres", c, V("id", "string")) = V("id", "string")
      BY <1>9 DEF Arrived, Encode, Store, Fits, Kept, Tolerant, Numbers, V, Nothing, Rejected
    <2>4. Arrived("mysql", c, V("id", "string")) = V("id", "string")
      BY <1>9 DEF Arrived, Encode, Store, Fits, Kept, Tolerant, Numbers, V, Nothing, Rejected
    <2> QED BY <1>9, <2>1, <2>2, <2>3, <2>4 DEF Fine, V, Rejected
  <1>10. CASE c.type = "binary" /\ v = V("bytes", "Binary")
    <2>1. MongoToPostgres("binary", V("bytes", "Binary")) = V("bytes", "Buffer")
      BY DEF MongoToPostgres, Tolerant, Text, Truth, DateOf, Json, V
    <2>2. MongoToMysql("binary", V("bytes", "Binary")) = V("bytes", "Buffer")
      BY DEF MongoToMysql, Tolerant, Trunc, Number, Text, Truth, DateOf, Json, V
    <2>3. Arrived("postgres", c, V("bytes", "Buffer")) = V("digits", "string")
      BY <1>10 DEF Arrived, Encode, Store, Fits, Kept, Tolerant, Numbers, V, Nothing, Rejected
    <2>4. Arrived("mysql", c, V("bytes", "Buffer")) = V("bytes", "Buffer")
      BY <1>10 DEF Arrived, Encode, Store, Fits, Kept, Tolerant, Numbers, V, Nothing, Rejected
    <2> QED BY <1>10, <2>1, <2>2, <2>3, <2>4 DEF Fine, V, Rejected
  <1>11. CASE c.type = "jsonb" /\ v = V("object", "object")
    <2>1. MongoToPostgres("jsonb", V("object", "object")) = V("object", "json")
      BY DEF MongoToPostgres, Tolerant, Text, Truth, DateOf, Json, V
    <2>2. MongoToMysql("jsonb", V("object", "object")) = V("object", "json")
      BY DEF MongoToMysql, Tolerant, Trunc, Number, Text, Truth, DateOf, Json, V
    <2>3. Arrived("postgres", c, V("object", "json")) = V("object", "json")
      BY <1>11 DEF Arrived, Encode, Store, Fits, Kept, Tolerant, Numbers, V, Nothing, Rejected
    <2>4. Arrived("mysql", c, V("object", "json")) = V("object", "json")
      BY <1>11 DEF Arrived, Encode, Store, Fits, Kept, Tolerant, Numbers, V, Nothing, Rejected
    <2> QED BY <1>11, <2>1, <2>2, <2>3, <2>4 DEF Fine, V, Rejected
  <1>12. CASE c.type = "array" /\ v = V("list", "array")
    <2>1. MongoToPostgres("array", V("list", "array")) = V("list", "json")
      BY DEF MongoToPostgres, Tolerant, Text, Truth, DateOf, Json, V
    <2>2. MongoToMysql("array", V("list", "array")) = V("list", "json")
      BY DEF MongoToMysql, Tolerant, Trunc, Number, Text, Truth, DateOf, Json, V
    <2>3. Arrived("postgres", c, V("list", "json")) = V("list", "json")
      BY <1>12 DEF Arrived, Encode, Store, Fits, Kept, Tolerant, Numbers, V, Nothing, Rejected
    <2>4. Arrived("mysql", c, V("list", "json")) = V("list", "json")
      BY <1>12 DEF Arrived, Encode, Store, Fits, Kept, Tolerant, Numbers, V, Nothing, Rejected
    <2> QED BY <1>12, <2>1, <2>2, <2>3, <2>4 DEF Fine, V, Rejected
  <1> QED BY <1>a, <1>1, <1>2, <1>3, <1>4, <1>5, <1>6, <1>7, <1>8, <1>9, <1>10, <1>11, <1>12
\* A column of text takes every document's value as it is; one of JSON takes it or refuses it.
LEMMA TextTakesAll ==
  ASSUME NEW v \in MongoValues, v.is # "nothing", NEW c, c.type \in Tolerant,
         NEW to \in {"postgres", "mysql"}
  PROVE  /\ Arrived("postgres", c, MongoToPostgres(c.type, v)).is = v.is
         /\ Arrived("mysql", c, MongoToMysql(c.type, v)).is = v.is
  <1>1. PICK type \in Tolerant : type = c.type
    OBVIOUS
  <1>2. MongoToPostgres(type, v) \in {V(v.is, "string"), V(v.is, "json")}
    BY DEF MongoToPostgres, Text, V, Tolerant, Json, MongoValues
  <1>3. MongoToMysql(type, v) \in {V(v.is, "string"), V(v.is, "json")}
    BY DEF MongoToMysql, Text, V, Tolerant, Json, MongoValues
  <1>4. ASSUME NEW x, x.as \in {"string", "json"}, x.is # "nothing", NEW d \in {"postgres", "mysql"}
        PROVE  Arrived(d, c, x) = x
    BY <1>4 DEF Arrived, Encode, Store, Fits, Kept, Tolerant, V
  <1>5. \A x \in {V(v.is, "string"), V(v.is, "json")} : x.as \in {"string", "json"} /\ x.is = v.is
    BY DEF V
  <1> QED BY <1>1, <1>2, <1>3, <1>4, <1>5

\* The same of a column of JSON, which refuses what is no JSON text.
LEMMA JsonTakesOrRefuses ==
  ASSUME NEW v \in MongoValues, v.is # "nothing", NEW c, c.type \in {"jsonb", "array"}
  PROVE  /\ LET h == Arrived("postgres", c, MongoToPostgres(c.type, v)) IN h.is = v.is \/ h = Rejected
         /\ LET h == Arrived("mysql", c, MongoToMysql(c.type, v)) IN h.is = v.is \/ h = Rejected
  <1>1. PICK type \in {"jsonb", "array"} : type = c.type
    OBVIOUS
  <1>2. MongoToPostgres(type, v) \in {V(v.is, "string"), V(v.is, "json")}
    BY DEF MongoToPostgres, V, Tolerant, Json
  <1>3. MongoToMysql(type, v) \in {V(v.is, "string"), V(v.is, "json")}
    <2>1. CASE v.as = "ObjectId"
      BY <2>1 DEF MongoToMysql, Text, V
    <2>2. CASE v.as = "string"
      <3>1. v = V("text", "string")
        BY <2>2 DEF MongoValues, V, Nothing, Absent
      <3> QED BY <3>1 DEF MongoToMysql, V, Tolerant
    <2>3. CASE v.as \notin {"ObjectId", "string"}
      BY <2>3 DEF MongoToMysql, V, Tolerant, Json
    <2> QED BY <2>1, <2>2, <2>3
  <1>4. ASSUME NEW x, x.as \in {"string", "json"}, x.is # "nothing", NEW d \in {"postgres", "mysql"}
        PROVE  Arrived(d, c, x) \in {x, Rejected}
    BY <1>4 DEF Arrived, Encode, Store, Fits, Kept, Tolerant, V, Nothing
  <1>5. \A x \in {V(v.is, "string"), V(v.is, "json")} : x.as \in {"string", "json"} /\ x.is = v.is
    BY DEF V
  <1> QED BY <1>1, <1>2, <1>3, <1>4, <1>5

\* A null or absent value stays null, or is refused by a column that admits none.
LEMMA NothingLands ==
  ASSUME NEW c, NEW to
  PROVE  Arrived(to, c, Nothing) \in {Nothing} \cup (IF to # "mongo" /\ ~c.nullable THEN {Rejected} ELSE {})
  <1>1. Encode(to, Nothing) = Nothing
    BY DEF Encode, Nothing, V
  <1>2. Kept(to, c.type, Nothing) = Nothing
    BY DEF Kept, Nothing, V
  <1>3. Nothing.is = "nothing"
    BY DEF Nothing, V
  <1> QED BY <1>1, <1>2, <1>3 DEF Arrived, Store

\* A declared column's value arrives but for the named causes.
LEMMA DeclaredFine ==
  ASSUME NEW from \in {"postgres", "mysql"}, NEW to \in {"mongo", "postgres", "mysql"}, from # to,
         NEW d \in Declared(from), NEW v \in d.holds, NEW c, c.type = d.type
  PROVE  v.is # "nothing" /\ Fine(from, to, c.type, v, Arrived(to, c, Coerce(from, to, c.type, v)))
  <1>1. CASE from = "postgres"
    <2>1. <<c.type, v>> \in PostgresPairs
      BY <1>1, DeclaredPairs DEF Declared
    <2>2. v.is # "nothing"
      BY <2>1 DEF PostgresPairs, V
    <2>3. CASE to = "mongo"
      <3>1. Coerce("postgres", "mongo", c.type, v) = PostgresToMongo(c.type, v)
        BY <2>2 DEF Coerce
      <3> QED BY <1>1, <2>1, <2>2, <2>3, <3>1, PostgresToMongoFine
    <2>4. CASE to = "mysql"
      <3>1. Coerce("postgres", "mysql", c.type, v) = PostgresToMysql(c.type, v)
        BY <2>2 DEF Coerce
      <3> QED BY <1>1, <2>1, <2>2, <2>4, <3>1, PostgresToMysqlFine
    <2> QED BY <1>1, <2>3, <2>4
  <1>2. CASE from = "mysql"
    <2>1. <<c.type, v>> \in MysqlPairs
      BY <1>2, DeclaredPairs DEF Declared
    <2>2. v.is # "nothing"
      BY <2>1 DEF MysqlPairs, V
    <2>3. CASE to = "mongo"
      <3>1. Coerce("mysql", "mongo", c.type, v) = MysqlToMongo(c.type, v)
        BY <2>2 DEF Coerce
      <3> QED BY <1>2, <2>1, <2>2, <2>3, <3>1, MysqlToMongoFine
    <2>4. CASE to = "postgres"
      <3>1. Coerce("mysql", "postgres", c.type, v) = MysqlToPostgres(c.type, v)
        BY <2>2 DEF Coerce
      <3> QED BY <1>2, <2>1, <2>2, <2>4, <3>1, MysqlToPostgresFine
    <2> QED BY <1>2, <2>3, <2>4
  <1> QED BY <1>1, <1>2

\* A document's value in a column of its own type, or of text, arrives but for the named causes;
\* in any column of text as it is, in one of JSON as it is or not at all.
LEMMA DocumentFine ==
  ASSUME NEW to \in {"postgres", "mysql"}, NEW v \in MongoValues, v.is # "nothing", NEW c
  PROVE  LET h == Arrived(to, c, Coerce("mongo", to, c.type, v))
         IN /\ c.type \in {canonicalBsonType(v), "mixed"} => Fine("mongo", to, c.type, v, h)
            /\ c.type \in Tolerant => h.is = v.is
            /\ c.type \in {"jsonb", "array"} => h.is = v.is \/ h = Rejected
  <1>1. Coerce("mongo", to, c.type, v) =
          IF to = "postgres" THEN MongoToPostgres(c.type, v) ELSE MongoToMysql(c.type, v)
    BY DEF Coerce
  <1>2. PICK h : h = Arrived(to, c, Coerce("mongo", to, c.type, v))
    OBVIOUS
  <1>3. c.type \in Tolerant => h.is = v.is
    BY <1>1, <1>2, TextTakesAll
  <1>4. c.type \in {"jsonb", "array"} => h.is = v.is \/ h = Rejected
    BY <1>1, <1>2, JsonTakesOrRefuses
  <1>5. ASSUME c.type \in {canonicalBsonType(v), "mixed"} PROVE Fine("mongo", to, c.type, v, h)
    <2>1. CASE c.type \in {"string", "mixed"}
      BY <1>3, <2>1 DEF Tolerant, Fine
    <2>2. CASE c.type \notin {"string", "mixed"}
      BY <1>1, <1>2, <1>5, <2>2, OwnTypeFine
    <2> QED BY <2>1, <2>2
  <1> QED BY <1>2, <1>3, <1>4, <1>5

\* Four values are finitely many.
LEMMA FourAreFinite ==
  ASSUME NEW a, NEW b, NEW c, NEW d
  PROVE  IsFiniteSet({a, b, c, d})
  <1>1. IsFiniteSet({a} \cup {b})
    BY FS_Singleton, FS_AddElement
  <1>2. IsFiniteSet(({a} \cup {b}) \cup {c})
    BY <1>1, FS_AddElement
  <1>3. IsFiniteSet((({a} \cup {b}) \cup {c}) \cup {d})
    BY <1>2, FS_AddElement
  <1>4. {a, b, c, d} = (({a} \cup {b}) \cup {c}) \cup {d}
    OBVIOUS
  <1> QED BY <1>3, <1>4

\* The column of a sample: none if no document has the field; of the type of every value that is
\* sampled, or of text; and nullable if a document lacks the field or has null.
LEMMA SampledIs ==
  ASSUME NEW S \in SUBSET MongoValues, S # {}
  PROVE  /\ SampledColumn(S) = {} => S = {Absent}
         /\ SampledColumn(S) # {} => \E c : SampledColumn(S) = {c}
         /\ \A c \in SampledColumn(S) :
              /\ \A v \in MongoValues : v.is # "nothing" /\ canonicalBsonType(v) \in Observed(S) =>
                    c.type \in {canonicalBsonType(v), "mixed"}
              /\ ~c.nullable => S \cap {Nothing, Absent} = {}
  <1>1. PICK O : O = Observed(S)
    OBVIOUS
  <1>2. PICK c : c = [type |-> Resolve(O), nullable |-> Absent \in S \/ "null" \in O]
    OBVIOUS
  <1>3. SampledColumn(S) = IF O = {} THEN {} ELSE {c}
    BY <1>1, <1>2 DEF SampledColumn
  <1>4. O = {} => S = {Absent}
    BY <1>1 DEF Observed
  <1>5. ASSUME NEW v \in MongoValues, v.is # "nothing", canonicalBsonType(v) \in O
        PROVE  Resolve(O) \in {canonicalBsonType(v), "mixed"}
    <2>1. PICK t : t = canonicalBsonType(v)
      OBVIOUS
    <2>2. t \in O \ {"null"}
      BY <1>5, <2>1 DEF MongoValues, canonicalBsonType, V, Nothing, Absent
    <2>3. ASSUME Cardinality(O \ {"null"}) = 1 PROVE (CHOOSE u \in O : u # "null") = t
      <3>1. \A w \in MongoValues : canonicalBsonType(w) \in Types
        BY DEF MongoValues, canonicalBsonType, Types, V, Nothing, Absent
      <3>2. O \ {"null"} \subseteq Types
        BY <1>1, <3>1 DEF Observed
      <3>3. IsFiniteSet(Types)
        <4>1. IsFiniteSet({"null", "array", "timestamp", "objectid"})
          BY FourAreFinite
        <4>2. IsFiniteSet({"decimal", "long", "binary", "jsonb"})
          BY FourAreFinite
        <4>3. IsFiniteSet({"double", "int", "boolean", "string"})
          BY FourAreFinite
        <4>4. IsFiniteSet(({"null", "array", "timestamp", "objectid"} \cup {"decimal", "long", "binary", "jsonb"})
                           \cup {"double", "int", "boolean", "string"})
          BY <4>1, <4>2, <4>3, FS_Union
        <4>5. Types = ({"null", "array", "timestamp", "objectid"} \cup {"decimal", "long", "binary", "jsonb"})
                        \cup {"double", "int", "boolean", "string"}
          BY DEF Types
        <4> QED BY <4>4, <4>5
      <3>4. IsFiniteSet(O \ {"null"})
        BY <3>2, <3>3, FS_Subset
      <3>5. PICK x : O \ {"null"} = {x}
        BY <2>3, <3>4, FS_Singleton
      <3> QED BY <2>2, <3>5
    <2> QED BY <2>1, <2>2, <2>3 DEF Resolve
  <1>6. ASSUME ~(Absent \in S \/ "null" \in O) PROVE S \cap {Nothing, Absent} = {}
    <2>1. canonicalBsonType(Nothing) = "null" /\ Nothing # Absent
      BY DEF canonicalBsonType, Nothing, Absent, V
    <2>2. Nothing \in S => canonicalBsonType(Nothing) \in O
      BY <1>1, <2>1 DEF Observed
    <2>3. "null" \notin O /\ Absent \notin S
      BY <1>6
    <2>4. Nothing \notin S
      BY <2>1, <2>2, <2>3
    <2> QED BY <2>3, <2>4
  <1>7. ASSUME NEW d \in SampledColumn(S) PROVE d = c
    BY <1>3, <1>7
  <1>8. c.type = Resolve(O) /\ (~c.nullable => ~(Absent \in S \/ "null" \in O))
    BY <1>2
  <1>9. ~c.nullable => S \cap {Nothing, Absent} = {}
    BY <1>6, <1>8
  <1>10. \A v \in MongoValues : v.is # "nothing" /\ canonicalBsonType(v) \in Observed(S) =>
            c.type \in {canonicalBsonType(v), "mixed"}
    BY <1>1, <1>5, <1>8
  <1>11. /\ SampledColumn(S) = {} => S = {Absent}
         /\ SampledColumn(S) # {} => SampledColumn(S) = {c}
    BY <1>3, <1>4
  <1> QED BY <1>7, <1>9, <1>10, <1>11

\* What the stages leave: the column comes of the sample or is a declared one; the value read is
\* one there is, the cell is what the mapper makes of it and the outcome what the writer does.
Mapped == {Coerce(route.from, route.to, c.type, v) : c \in column, v \in source}
Written ==
    IF naming.table /\ route.to # "mongo" THEN {Rejected}
    ELSE {Store(route.to, c, Encode(route.to, LookedUp(route.from, route.to, naming.field, v))) :
            c \in column, v \in cell}

Inferred ==
    IF route.from = "mongo"
      THEN sample \in SUBSET MongoValues /\ sample # {} /\ column = SampledColumn(sample)
      ELSE \E d \in Declared(route.from), nullable \in BOOLEAN :
             /\ sample = d.holds \cup (IF nullable THEN {Nothing} ELSE {})
             /\ column = {[type |-> d.type, nullable |-> nullable]}

MappingInv ==
    /\ route \in Routes /\ naming \in [field : BOOLEAN, table : BOOLEAN]
    /\ stage = "infer" => source = {}
    /\ stage # "infer" => Inferred
    /\ source # {} => \E v \in IF route.from = "mongo" THEN MongoValues ELSE sample : source = {v}
    /\ stage = "write" => cell = Mapped
    /\ stage = "read" /\ source # {} => cell = Mapped /\ outcome = Written

\* It is an invariant.
LEMMA MappingInvariant ==
  ASSUME ColumnMappingAssumption
  PROVE  MappingSpec => []MappingInv
  <1>1. MappingInit => MappingInv
    BY DEF MappingInit, MappingInv
  <1>2. MappingInv /\ [MappingNext]_mappingVars => MappingInv'
    <2> SUFFICES ASSUME MappingInv, [MappingNext]_mappingVars PROVE MappingInv'
      OBVIOUS
    <2>a. route \in Routes /\ naming \in [field : BOOLEAN, table : BOOLEAN]
      BY DEF MappingInv
    <2>1. CASE InferSampled
      <3>1. /\ stage = "infer" /\ route.from = "mongo" /\ stage' = "read"
            /\ UNCHANGED <<route, naming, source, cell, outcome>> /\ column' = SampledColumn(sample')
            /\ sample' \in SUBSET MongoValues /\ Cardinality(sample') \in 1..SampleSize
        BY <2>1 DEF InferSampled
      <3>2. sample' # {}
        BY <3>1, FS_EmptySet DEF ColumnMappingAssumption
      <3>3. source = {}
        BY <3>1 DEF MappingInv
      <3>4. Inferred'
        BY <3>1, <3>2 DEF Inferred
      <3> QED BY <2>a, <3>1, <3>3, <3>4 DEF MappingInv
    <2>2. CASE InferDeclared
      <3>1. /\ stage = "infer" /\ route.from # "mongo" /\ stage' = "read"
            /\ UNCHANGED <<route, naming, source, cell, outcome>>
        BY <2>2 DEF InferDeclared
      <3>2. Inferred'
        BY <2>2, <3>1 DEF InferDeclared, Inferred
      <3>3. source = {}
        BY <3>1 DEF MappingInv
      <3> QED BY <2>a, <3>1, <3>2, <3>3 DEF MappingInv
    <2>3. CASE ReadRecord
      <3>1. stage = "read" /\ stage' = "map" /\ UNCHANGED <<route, naming, sample, column>>
        BY <2>3 DEF ReadRecord
      <3>2. Inferred'
        BY <3>1 DEF MappingInv, Inferred
      <3>3. (source # {} => \E v \in IF route.from = "mongo" THEN MongoValues ELSE sample : source = {v})'
        BY <2>3, <3>1 DEF ReadRecord
      <3> QED BY <2>a, <3>1, <3>2, <3>3 DEF MappingInv
    <2>4. CASE MapRecord
      <3>1. /\ stage = "map" /\ stage' = "write" /\ UNCHANGED <<route, naming, sample, column, source, outcome>>
            /\ cell' = Mapped
        BY <2>4 DEF MapRecord, Mapped
      <3>2. Inferred' /\ Mapped' = Mapped
        BY <3>1 DEF MappingInv, Inferred, Mapped
      <3>3. (source # {} => \E v \in IF route.from = "mongo" THEN MongoValues ELSE sample : source = {v})'
        BY <3>1 DEF MappingInv
      <3> QED BY <2>a, <3>1, <3>2, <3>3 DEF MappingInv
    <2>5. CASE WriteRecord
      <3>1. /\ stage = "write" /\ stage' = "read" /\ UNCHANGED <<route, naming, sample, column, source, cell>>
            /\ outcome' = Written
        BY <2>5 DEF WriteRecord, Written
      <3>2. Inferred' /\ Mapped' = Mapped /\ Written' = Written
        BY <3>1 DEF MappingInv, Inferred, Mapped, Written
      <3>3. (source # {} => \E v \in IF route.from = "mongo" THEN MongoValues ELSE sample : source = {v})'
        BY <3>1 DEF MappingInv
      <3>4. cell = Mapped
        BY <3>1 DEF MappingInv
      <3> QED BY <2>a, <3>1, <3>2, <3>3, <3>4 DEF MappingInv
    <2>6. CASE UNCHANGED mappingVars
      BY <2>6 DEF mappingVars, MappingInv, Inferred, Mapped, Written
    <2> QED BY <2>1, <2>2, <2>3, <2>4, <2>5, <2>6 DEF MappingNext
  <1> QED BY <1>1, <1>2, PTL DEF MappingSpec

\* What a value read comes to, by where it is from.
LEMMA OutcomeFine ==
  ASSUME MappingInv, stage = "read", NEW v \in source, NEW c \in column
  PROVE  \/ Held.is = v.is
         \/ /\ v.is = "nothing" /\ Held = Rejected
            /\ naming.table \/ sample \cap {Nothing, Absent} = {}
         \/ Sampled(v) /\ (IF Held = Rejected THEN RefusedOf(c.type, v) ELSE NarrowedOf(c.type, v))
         \/ /\ ~Sampled(v) /\ v.is # "nothing"
            /\ IF Held = Rejected THEN naming.table \/ c.type \notin Tolerant
               ELSE c.type \notin Tolerant \cup {"jsonb", "array"}
  <1>1. /\ route \in Routes /\ naming \in [field : BOOLEAN, table : BOOLEAN] /\ Inferred
        /\ source = {v} /\ v \in (IF route.from = "mongo" THEN MongoValues ELSE sample)
        /\ cell = Mapped /\ outcome = Written
    BY DEF MappingInv
  <1>2. PICK from, to : from = route.from /\ to = route.to
    OBVIOUS
  <1>3. from \in {"mongo", "postgres", "mysql"} /\ to \in {"mongo", "postgres", "mysql"} /\ from # to
    BY <1>1, <1>2 DEF Routes
  <1>4. column = {c}
    <2>1. CASE from = "mongo"
      BY <1>1, <1>2, <2>1, SampledIs DEF Inferred
    <2>2. CASE from # "mongo"
      BY <1>1, <1>2, <2>2 DEF Inferred
    <2> QED BY <2>1, <2>2
  <1>5. PICK w : w = Coerce(from, to, c.type, v)
    OBVIOUS
  <1>6. cell = {w}
    BY <1>1, <1>2, <1>4, <1>5 DEF Mapped
  <1>7. CASE naming.table /\ to # "mongo"
    <2>1. outcome = {Rejected}
      BY <1>1, <1>2, <1>7 DEF Written
    <2>2. Held = Rejected
      BY <2>1 DEF Held
    <2> QED BY <1>7, <2>2 DEF RefusedOf
  <1>8. CASE ~(naming.table /\ to # "mongo")
    <2>1. PICK h : h = Arrived(to, c, LookedUp(from, to, naming.field, w))
      OBVIOUS
    <2>2. outcome = {h}
      BY <1>1, <1>2, <1>4, <1>6, <1>8, <2>1 DEF Written, Arrived
    <2>3. Held = h
      BY <2>2 DEF Held
    <2>4. LookedUp(from, to, naming.field, w) =
            IF naming.field /\ from # "mongo" /\ to # "mongo" THEN Nothing ELSE w
      BY DEF LookedUp, FiledUnder
    <2>5. ~c.nullable => sample \cap {Nothing, Absent} = {} \/ from # "mongo"
      BY <1>1, <1>2, SampledIs DEF Inferred
    <2>6. CASE v.is = "nothing"
      <3>1. w = Nothing
        BY <1>5, <2>6 DEF Coerce
      <3>2. h \in {Nothing} \cup (IF to # "mongo" /\ ~c.nullable THEN {Rejected} ELSE {})
        BY <2>1, <2>4, <3>1, NothingLands
      <3>3. ASSUME ~c.nullable PROVE sample \cap {Nothing, Absent} = {}
        <4>1. CASE from = "mongo"
          BY <2>5, <3>3, <4>1
        <4>2. CASE from # "mongo"
          <5>1. PICK d \in Declared(from), nullable \in BOOLEAN :
                  /\ sample = d.holds \cup (IF nullable THEN {Nothing} ELSE {})
                  /\ column = {[type |-> d.type, nullable |-> nullable]}
            BY <1>1, <1>2, <4>2 DEF Inferred
          <5>2. ~nullable /\ sample = d.holds
            BY <3>3, <5>1
          <5>3. \A u \in d.holds : u.is # "nothing"
            BY <1>3, <4>2, DeclaredFine, <5>1
          <5>4. Nothing.is = "nothing" /\ Absent.is = "nothing"
            BY DEF Nothing, Absent, V
          <5> QED BY <5>2, <5>3, <5>4
        <4> QED BY <4>1, <4>2
      <3>4. Nothing.is = "nothing"
        BY DEF Nothing, V
      <3> QED BY <2>3, <2>6, <3>2, <3>3, <3>4
    <2>7. CASE v.is # "nothing" /\ from # "mongo"
      <3>1. Sampled(v)
        BY <1>2, <2>7 DEF Sampled
      <3>2. CASE naming.field /\ to # "mongo"
        <4>1. BetweenSql
          BY <1>2, <2>7, <3>2 DEF BetweenSql
        <4> QED BY <2>3, <3>1, <3>2, <4>1 DEF RefusedOf, NarrowedOf
      <3>3. CASE ~(naming.field /\ to # "mongo")
        <4>1. PICK d \in Declared(from), nullable \in BOOLEAN :
                /\ sample = d.holds \cup (IF nullable THEN {Nothing} ELSE {})
                /\ column = {[type |-> d.type, nullable |-> nullable]}
          BY <1>1, <1>2, <2>7 DEF Inferred
        <4>2. c.type = d.type /\ v \in d.holds
          <5>1. Nothing.is = "nothing"
            BY DEF Nothing, V
          <5> QED BY <1>1, <1>2, <2>7, <4>1, <5>1
        <4>4. Fine(from, to, c.type, v, h)
          BY <1>3, <1>5, <2>1, <2>4, <2>7, <3>3, <4>2, DeclaredFine
        <4> QED BY <1>2, <2>3, <2>7, <3>1, <4>4 DEF Fine, RefusedOf, NarrowedOf, BetweenSql
      <3> QED BY <3>2, <3>3
    <2>8. CASE v.is # "nothing" /\ from = "mongo"
      <3>1. h = Arrived(to, c, Coerce("mongo", to, c.type, v)) /\ to \in {"postgres", "mysql"} /\ v \in MongoValues
        BY <1>1, <1>2, <1>3, <1>5, <2>1, <2>4, <2>8
      <3>2. /\ c.type \in {canonicalBsonType(v), "mixed"} => Fine("mongo", to, c.type, v, h)
            /\ c.type \in Tolerant => h.is = v.is
            /\ c.type \in {"jsonb", "array"} => h.is = v.is \/ h = Rejected
        BY <2>8, <3>1, DocumentFine
      <3>3. CASE Sampled(v)
        <4>1. c.type \in {canonicalBsonType(v), "mixed"}
          BY <1>1, <1>2, <2>8, <3>1, <3>3, SampledIs DEF Inferred, Sampled
        <4>2. Fine("mongo", to, c.type, v, h)
          BY <3>2, <4>1
        <4> QED BY <1>2, <2>3, <2>8, <3>3, <4>2 DEF Fine, RefusedOf, NarrowedOf
      <3>4. CASE ~Sampled(v)
        BY <2>3, <2>8, <3>2, <3>4
      <3> QED BY <3>3, <3>4
    <2> QED BY <2>6, <2>7, <2>8
  <1> QED BY <1>7, <1>8

\* What was read is held as it was, refused, or altered for one of the named causes, whatever the
\* size of the sample the column was inferred from.
THEOREM ColumnsKeepValues ==
  ASSUME ColumnMappingAssumption
  PROVE  MappingSpec => []ColumnKeepsValues
  <1>1. MappingInv => ColumnKeepsValues
    <2> SUFFICES ASSUME MappingInv PROVE ColumnKeepsValues
      OBVIOUS
    <2>1. ASSUME stage # "infer", column = {} PROVE sample = {Absent}
      <3>1. Inferred
        BY <2>1 DEF MappingInv
      <3>2. CASE route.from = "mongo"
        BY <2>1, <3>1, <3>2, SampledIs DEF Inferred
      <3>3. CASE route.from # "mongo"
        BY <2>1, <3>1, <3>3 DEF Inferred
      <3> QED BY <3>2, <3>3
    <2> QED BY <2>1, OutcomeFine DEF ColumnKeepsValues
  <1> QED BY <1>1, MappingInvariant, PTL

=============================================================================
