-------------------------- MODULE CdcStreamProofs --------------------------
(***************************************************************************)
(* The zero-gap guarantee of a Mongo sync with a snapshot, for any rows,    *)
(* any number of changes and any failures.                                  *)
(*                                                                         *)
(* The argument follows the stream's position, the last change the worker   *)
(* has dealt with.  The queue holds later changes in order, whose values    *)
(* are at least as new as they are; between two of them lie only updates    *)
(* whose document was gone.  The destination covers the position, and the   *)
(* persisted cursor is never ahead of it; so whatever end an attempt comes  *)
(* to, the next one starts from a covered position.                         *)
(***************************************************************************)
EXTENDS CdcStream, SequenceTheorems, WellFoundedInduction, TLAPS

Entry == [row : Rows, op : {"put", "update", "delete"}, end : Nat]
Item == [n : Nat, value : Nat]

\* The syncs the guarantee is about.
ZeroGap == engine = "mongodb" /\ bootstrap = "snapshot"

\* The last change of row r in log l up to position p.
LastChange(l, r, p) == Max({0} \cup {n \in 1 .. p : l[n].row = r})

Typed ==
    /\ log \in Seq(Entry) /\ (\A n \in 1 .. Len(log) : log[n].end = n)
    /\ dest \in [Rows -> Nat]
    /\ cursor \in (0 .. Len(log)) \cup {None}
    /\ copied \in BOOLEAN
    /\ worker \in {"idle", "copy", "open", "stream"}
    /\ toCopy \subseteq Rows
    /\ lookups = {}
    /\ rejected \subseteq 1 .. Len(log)

Staged ==
    /\ worker = "copy" => ~copied /\ cursor # None
    /\ worker \in {"open", "stream"} => copied
    /\ copied => cursor # None

Lost(r) == \E n \in rejected : log[n].row = r

\* The last change up to p was an update, and the row was deleted after p.
Vanished(l, r, p) ==
    /\ LastChange(l, r, p) # 0 /\ l[LastChange(l, r, p)].op = "update"
    /\ \E n \in p + 1 .. Len(l) : l[n].row = r /\ l[n].op = "delete"

\* The destination is as new as position p.
Covers(p) == \A r \in Rows : dest[r] >= LastChange(log, r, p) \/ Vanished(log, r, p) \/ Lost(r)

\* The rows copied so far are as new as the cursor captured before the copy.
CopyCovers == worker = "copy" => \A r \in Rows \ toCopy : dest[r] >= LastChange(log, r, cursor)

\* Change n is an update whose row was deleted after it.
Passed(n) ==
    /\ log[n].op = "update"
    /\ \E m \in n + 1 .. Len(log) : log[m].row = log[n].row /\ log[m].op = "delete"

\* Nothing but such updates lies between two changes.
Gap(a, b) == \A n \in a + 1 .. b - 1 : Passed(n)

\* The change after the i-th of the queue, and the first.
Following(i) == IF i < Len(queue) THEN queue[i + 1].n ELSE received + 1
First == IF Len(queue) = 0 THEN received + 1 ELSE queue[1].n

\* The position of the stream: the last change the worker has dealt with.
Done == IF hand = None THEN First - 1 ELSE IF step = "apply" THEN hand.n - 1 ELSE hand.n

Ordered ==
    /\ received \in 0 .. Len(log)
    /\ queue \in Seq(Item)
    /\ \A i \in 1 .. Len(queue) : /\ queue[i].n \in 1 .. received /\ queue[i].value >= queue[i].n
                                  /\ queue[i].n < Following(i) /\ Gap(queue[i].n, Following(i))
    /\ hand # None => /\ hand \in Item /\ hand.n \in 1 .. received /\ hand.value >= hand.n
                      /\ hand.n < First /\ Gap(hand.n, First)
    /\ step \in {"apply", "persist"}

Streamed == worker = "stream" => Ordered /\ cursor <= Done /\ Covers(Done)

Copied == copied => Covers(cursor)

ZInv == ZeroGap => Typed /\ Staged /\ CopyCovers /\ Streamed /\ Copied

-----------------------------------------------------------------------------
(* The last change of a row.                                                 *)

\* A set of numbers with a bound has a greatest element.
LEMMA MaxIs ==
  ASSUME NEW S \in SUBSET Nat, NEW b \in Nat, 0 \in S, \A x \in S : x <= b
  PROVE  Max(S) \in S /\ \A y \in S : y <= Max(S)
  <1> DEFINE T == {b - x : x \in S}
  <1>1. T \subseteq Nat /\ T # {}
    OBVIOUS
  <1>2. PICK t \in T : \A u \in T : ~(<<u, t>> \in OpToRel(<, Nat))
    BY <1>1, WFMin, NatLessThanWellFounded
  <1>3. \A u \in T : ~(u < t)
    BY <1>1, <1>2 DEF OpToRel
  <1>4. PICK x \in S : t = b - x
    OBVIOUS
  <1>5. ASSUME NEW y \in S PROVE x >= y
    <2>1. b - y \in T
      OBVIOUS
    <2>2. ~(b - y < b - x)
      BY <1>3, <1>4, <2>1
    <2>3. x \in Nat /\ y \in Nat /\ x <= b /\ y <= b
      OBVIOUS
    <2> HIDE DEF T
    <2> QED
      BY <2>2, <2>3
  <1>6. Max(S) \in S /\ \A y \in S : Max(S) >= y
    BY <1>5 DEF Max
  <1> QED
    BY <1>6

\* It is the last change of the row up to the position, or 0.
LEMMA LastIs ==
  ASSUME NEW l, NEW r, NEW p \in Nat
  PROVE  /\ LastChange(l, r, p) \in 0 .. p
         /\ LastChange(l, r, p) # 0 => l[LastChange(l, r, p)].row = r
         /\ \A n \in 1 .. p : l[n].row = r => n <= LastChange(l, r, p)
  <1> DEFINE S == {0} \cup {n \in 1 .. p : l[n].row = r}
  <1>1. S \in SUBSET Nat /\ 0 \in S /\ \A x \in S : x <= p
    OBVIOUS
  <1>2. Max(S) \in S /\ \A y \in S : y <= Max(S)
    BY <1>1, MaxIs
  <1> QED
    BY <1>1, <1>2 DEF LastChange

\* It grows with the position.
LEMMA LastGrows ==
  ASSUME NEW l, NEW r, NEW p \in Nat, NEW q \in Nat, p <= q
  PROVE  LastChange(l, r, p) <= LastChange(l, r, q)
  <1>1. LastChange(l, r, p) \in 0 .. p /\ (LastChange(l, r, p) # 0 => l[LastChange(l, r, p)].row = r)
    BY LastIs
  <1>2. LastChange(l, r, q) \in 0 .. q /\ \A n \in 1 .. q : l[n].row = r => n <= LastChange(l, r, q)
    BY LastIs
  <1> QED
    BY <1>1, <1>2

\* A change of another row does not move it.
LEMMA LastOther ==
  ASSUME NEW l, NEW r, NEW p \in Nat, l[p + 1].row # r
  PROVE  LastChange(l, r, p + 1) = LastChange(l, r, p)
  <1>1. {n \in 1 .. (p + 1) : l[n].row = r} = {n \in 1 .. p : l[n].row = r}
    OBVIOUS
  <1> QED
    BY <1>1 DEF LastChange

\* What is before the position decides it.
LEMMA LastSame ==
  ASSUME NEW l, NEW m, NEW r, NEW p \in Nat, \A n \in 1 .. p : l[n] = m[n]
  PROVE  LastChange(l, r, p) = LastChange(m, r, p)
  <1>1. {n \in 1 .. p : l[n].row = r} = {n \in 1 .. p : m[n].row = r}
    OBVIOUS
  <1> QED
    BY <1>1 DEF LastChange

\* A longer log leaves what had vanished vanished.
LEMMA VanishedStays ==
  ASSUME NEW l \in Seq(Entry), NEW m \in Seq(Entry), Len(l) <= Len(m), \A n \in 1 .. Len(l) : l[n] = m[n],
         NEW r, NEW p \in 0 .. Len(l), Vanished(l, r, p)
  PROVE  Vanished(m, r, p)
  <1>1. LastChange(m, r, p) = LastChange(l, r, p)
    BY LastSame
  <1>2. LastChange(l, r, p) \in 1 .. Len(l)
    BY LastIs DEF Vanished
  <1>3. PICK n \in p + 1 .. Len(l) : l[n].row = r /\ l[n].op = "delete"
    BY DEF Vanished
  <1>4. n \in p + 1 .. Len(m) /\ m[n] = l[n]
    BY <1>3
  <1> QED
    BY <1>1, <1>2, <1>3, <1>4 DEF Vanished

\* Over passed updates a row keeps its last change, or that is an update of a row deleted since.
LEMMA LastOver ==
  ASSUME NEW p \in Nat, NEW q \in Nat, p <= q, log \in Seq(Entry), q <= Len(log),
         \A n \in p + 1 .. q : Passed(n), NEW r
  PROVE  /\ LastChange(log, r, p) = LastChange(log, r, q) \/ Vanished(log, r, q)
         /\ Vanished(log, r, p) => Vanished(log, r, q)
  <1> DEFINE u == LastChange(log, r, q)
  <1>1. /\ u \in 0 .. q /\ (u # 0 => log[u].row = r)
        /\ \A n \in 1 .. q : log[n].row = r => n <= u
    BY LastIs
  <1>2. /\ LastChange(log, r, p) \in 0 .. p
        /\ LastChange(log, r, p) # 0 => log[LastChange(log, r, p)].row = r
        /\ \A n \in 1 .. p : log[n].row = r => n <= LastChange(log, r, p)
    BY LastIs
  <1>3. CASE u <= p
    <2>1. LastChange(log, r, p) = u
      BY <1>1, <1>2, <1>3
    <2>2. ASSUME Vanished(log, r, p) PROVE Vanished(log, r, q)
      <3>1. PICK n \in p + 1 .. Len(log) : log[n].row = r /\ log[n].op = "delete"
        BY <2>2 DEF Vanished
      <3>2. n > q
        BY <1>1, <1>3, <3>1
      <3> QED
        BY <2>1, <2>2, <3>1, <3>2 DEF Vanished
    <2> QED
      BY <2>1, <2>2
  <1>4. CASE u > p
    <2>1. u \in p + 1 .. q /\ log[u].row = r
      BY <1>1, <1>4
    <2>2. PICK n \in u + 1 .. Len(log) : log[n].row = r /\ log[n].op = "delete"
      BY <2>1 DEF Passed
    <2>3. n > q
      BY <1>1, <2>1, <2>2
    <2>4. log[u].op = "update"
      BY <2>1 DEF Passed
    <2>5. Vanished(log, r, q)
      BY <2>1, <2>2, <2>3, <2>4 DEF Vanished
    <2> QED
      BY <2>5
  <1> QED
    BY <1>1, <1>3, <1>4

\* Over passed updates the destination stays as new as the position.
LEMMA CoversOver ==
  ASSUME NEW p \in Nat, NEW q \in Nat, p <= q, log \in Seq(Entry), q <= Len(log),
         Covers(p), \A n \in p + 1 .. q : Passed(n)
  PROVE  Covers(q)
  BY LastOver DEF Covers

-----------------------------------------------------------------------------
(* The steps.                                                                *)

\* Nothing has been captured or copied at first.
LEMMA InitZInv == ASSUME CdcStreamAssumption, Init PROVE ZInv
  <1>1. log = <<>> /\ log \in Seq(Entry) /\ Len(log) = 0
    BY DEF Init
  <1>2. dest \in [Rows -> Nat]
    BY DEF Init
  <1>3. /\ Len(log) = 0 /\ log \in Seq(Entry) /\ cursor = None /\ copied = FALSE /\ worker = "idle"
        /\ toCopy = {} /\ lookups = {} /\ rejected = {}
    BY <1>1 DEF Init
  <1>4. Typed
    <2>1. \A n \in 1 .. Len(log) : log[n].end = n
      BY <1>3
    <2>2. cursor \in (0 .. Len(log)) \cup {None}
      BY <1>3
    <2>3. rejected \subseteq 1 .. Len(log) /\ toCopy \subseteq Rows
      BY <1>3
    <2> QED
      BY <1>2, <1>3, <2>1, <2>2, <2>3 DEF Typed
  <1> QED
    BY <1>3, <1>4 DEF ZInv, Staged, CopyCovers, Streamed, Copied

\* A change of the source moves no position and leaves what is before each as it was.
LEMMA SourceChangeKeeps == ASSUME CdcStreamAssumption, ZInv, SourceChange PROVE ZInv'
  <1> SUFFICES ASSUME ZeroGap PROVE (Typed /\ Staged /\ CopyCovers /\ Streamed /\ Copied)'
    BY DEF ZInv, SourceChange, ZeroGap
  <1>1. Typed /\ Staged /\ CopyCovers /\ Streamed /\ Copied
    BY DEF ZInv
  <1>2. PICK r \in Rows, o \in {"put", "update", "delete"} :
          log' = log \o [i \in DOMAIN <<r>> |-> [row |-> <<r>>[i], op |-> o, end |-> Len(log) + Len(<<r>>)]]
    BY DEF SourceChange, ZeroGap, OpsOn
  <1>3. log' = Append(log, [row |-> r, op |-> o, end |-> Len(log) + 1])
    BY <1>1, <1>2 DEF Typed
  <1>4. /\ log' \in Seq(Entry) /\ Len(log') = Len(log) + 1 /\ Len(log) \in Nat
        /\ \A n \in 1 .. Len(log) : log'[n] = log[n]
        /\ log'[Len(log) + 1].end = Len(log) + 1
    BY <1>1, <1>3 DEF Typed, Entry
  <1>5. UNCHANGED <<dest, cursor, copied, worker, toCopy, received, lookups, queue, hand, step, rejected>>
    BY DEF SourceChange, jobVars, streamVars, history
  <1>6. Typed'
    BY <1>1, <1>4, <1>5 DEF Typed
  <1>7. \A p \in 0 .. Len(log) : \A s \in Rows : LastChange(log', s, p) = LastChange(log, s, p)
    BY <1>4, LastSame
  <1>8. \A s \in Rows : Lost(s) => Lost(s)'
    BY <1>1, <1>4, <1>5 DEF Lost, Typed
  <1>9. CopyCovers'
    BY <1>1, <1>5, <1>7 DEF CopyCovers, Typed, Staged
  <1>a. \A p \in 0 .. Len(log) : \A s \in Rows : Vanished(log, s, p) => Vanished(log', s, p)
    BY <1>1, <1>4, VanishedStays DEF Typed
  <1>b. ASSUME NEW n \in 1 .. Len(log), Passed(n) PROVE Passed(n)'
    <2>1. PICK m \in n + 1 .. Len(log) : log[m].row = log[n].row /\ log[m].op = "delete"
      BY <1>b DEF Passed
    <2>2. log'[n] = log[n] /\ log'[m] = log[m] /\ m \in n + 1 .. Len(log')
      BY <1>4, <2>1
    <2> QED
      BY <1>b, <2>1, <2>2 DEF Passed
  <1>10. ASSUME NEW p \in 0 .. Len(log), Covers(p)
         PROVE  \A s \in Rows : dest'[s] >= LastChange(log', s, p) \/ Vanished(log', s, p) \/ Lost(s)'
    BY <1>5, <1>7, <1>8, <1>a, <1>10 DEF Covers
  <1>11. Copied'
    <2> SUFFICES ASSUME copied PROVE Covers(cursor)'
      BY <1>5 DEF Copied
    <2>1. cursor \in 0 .. Len(log) /\ cursor' = cursor
      BY <1>1, <1>5 DEF Typed, Staged
    <2> QED
      BY <1>1, <1>10, <2>1 DEF Copied, Covers
  <1>12. Streamed'
    <2> SUFFICES ASSUME worker = "stream" PROVE (Ordered /\ cursor <= Done /\ Covers(Done))'
      BY <1>5 DEF Streamed
    <2>1. Ordered /\ cursor <= Done /\ Covers(Done)
      BY <1>1 DEF Streamed
    <2>2. First' = First /\ Done' = Done /\ cursor' = cursor /\ \A i : Following(i)' = Following(i)
      BY <1>5 DEF Done, First, Following
    <2>3. received \in 0 .. Len(log) /\ queue \in Seq(Item) /\ received \in Nat /\ Len(queue) \in Nat
      BY <1>4, <2>1 DEF Ordered
    <2>4. ASSUME NEW i \in 1 .. Len(queue)
          PROVE  Following(i) \in 1 .. received + 1
      <3>1. CASE i < Len(queue)
        BY <2>1, <2>3, <2>4, <3>1 DEF Following, Ordered
      <3> QED
        BY <2>3, <3>1 DEF Following
    <2>5. First \in 1 .. received + 1
      BY <2>1, <2>3 DEF First, Ordered
    <2>6. ASSUME NEW a \in Nat, NEW b \in 1 .. received + 1, Gap(a, b)
          PROVE  \A n \in a + 1 .. b - 1 : Passed(n)'
      BY <1>4, <1>b, <2>3, <2>6 DEF Gap
    <2>7. ASSUME NEW i \in 1 .. Len(queue')
          PROVE  /\ queue'[i].n \in 1 .. received' /\ queue'[i].value >= queue'[i].n
                 /\ queue'[i].n < Following(i)' /\ Gap(queue[i].n, Following(i))'
      <3>1. /\ i \in 1 .. Len(queue) /\ queue[i].n \in 1 .. received /\ queue[i].value >= queue[i].n
            /\ queue[i].n < Following(i) /\ Gap(queue[i].n, Following(i))
        BY <1>5, <2>1 DEF Ordered
      <3>2. \A n \in queue[i].n + 1 .. Following(i) - 1 : Passed(n)'
        BY <2>3, <2>4, <2>6, <3>1
      <3> QED
        BY <1>5, <2>2, <3>1, <3>2 DEF Gap
    <2>8. hand' # None => /\ hand' \in Item /\ hand'.n \in 1 .. received' /\ hand'.value >= hand'.n
                          /\ hand'.n < First' /\ Gap(hand.n, First)'
      <3> SUFFICES ASSUME hand # None
                   PROVE  /\ hand' \in Item /\ hand'.n \in 1 .. received' /\ hand'.value >= hand'.n
                          /\ hand'.n < First' /\ Gap(hand.n, First)'
        BY <1>5
      <3>1. /\ hand \in Item /\ hand.n \in 1 .. received /\ hand.value >= hand.n
            /\ hand.n < First /\ Gap(hand.n, First)
        BY <2>1 DEF Ordered
      <3>2. \A n \in hand.n + 1 .. First - 1 : Passed(n)'
        BY <2>3, <2>5, <2>6, <3>1
      <3> QED
        BY <1>5, <2>2, <3>1, <3>2 DEF Gap
    <2>9. received' \in 0 .. Len(log') /\ queue' \in Seq(Item) /\ step' \in {"apply", "persist"}
      BY <1>4, <1>5, <2>1, <2>3 DEF Ordered
    <2>10. Ordered'
      BY <2>7, <2>8, <2>9 DEF Ordered
    <2>11. Done \in 0 .. Len(log)
      BY <1>4, <2>1, <2>3, <2>5 DEF Ordered, Done, Item
    <2>12. \A s \in Rows : dest'[s] >= LastChange(log', s, Done') \/ Vanished(log', s, Done') \/ Lost(s)'
      BY <1>10, <2>1, <2>2, <2>11
    <2> QED
      BY <2>1, <2>2, <2>10, <2>12 DEF Covers
  <1> QED
    BY <1>5, <1>1, <1>6, <1>9, <1>11, <1>12 DEF Staged

\* Before a copy the cursor is captured, unless an earlier attempt has captured it.
LEMMA AttemptKeeps == ASSUME CdcStreamAssumption, ZInv, Attempt PROVE ZInv'
  <1> SUFFICES ASSUME ZeroGap PROVE (Typed /\ Staged /\ CopyCovers /\ Streamed /\ Copied)'
    BY DEF ZInv, Attempt, ZeroGap
  <1>1. Typed /\ Staged /\ CopyCovers /\ Streamed /\ Copied
    BY DEF ZInv
  <1>2. UNCHANGED <<log, dest, copied, lookups, rejected>>
    BY DEF Attempt, streamVars
  <1>3. CASE NeedsSnapshot
    <2>1. /\ worker' = "copy" /\ toCopy' = Rows /\ ~copied /\ cursor' # None
          /\ cursor' \in 0 .. Len(log)
      BY <1>1, <1>3 DEF Attempt, NeedsSnapshot, Typed, CdcStreamAssumption, Entry
    <2> QED
      BY <1>1, <1>2, <2>1 DEF Typed, Staged, CopyCovers, Streamed, Copied
  <1>4. CASE ~NeedsSnapshot
    <2>1. worker' = "open" /\ copied /\ UNCHANGED <<toCopy, cursor>>
      BY <1>1, <1>4 DEF Attempt, NeedsSnapshot, ZeroGap, Typed
    <2> QED
      BY <1>1, <1>2, <2>1 DEF Typed, Staged, CopyCovers, Streamed, Copied, Covers, Lost
  <1> QED
    BY <1>3, <1>4

\* A row is copied as it is now, which is not before the cursor.
LEMMA CopyKeeps ==
  ASSUME CdcStreamAssumption, ZInv, NEW r \in Rows, Copy(r)
  PROVE  ZInv'
  <1> SUFFICES ASSUME ZeroGap PROVE (Typed /\ Staged /\ CopyCovers /\ Streamed /\ Copied)'
    BY DEF ZInv, Copy, ZeroGap
  <1>1. Typed /\ Staged /\ CopyCovers /\ Streamed /\ Copied
    BY DEF ZInv
  <1>2. /\ UNCHANGED <<log, cursor, copied, worker, lookups, rejected>>
        /\ worker = "copy" /\ toCopy' = toCopy \ {r}
        /\ dest' = [dest EXCEPT ![r] = LastChange(log, r, Len(log))]
    BY DEF Copy, Latest, LastUpTo, LastChange, streamVars, jobVars, history
  <1>3. cursor \in 0 .. Len(log) /\ ~copied /\ Len(log) \in Nat
    BY <1>1, <1>2 DEF Typed, Staged, Entry
  <1>4. /\ LastChange(log, r, Len(log)) \in Nat
        /\ LastChange(log, r, cursor) <= LastChange(log, r, Len(log))
    BY <1>3, LastIs, LastGrows
  <1>5. Typed' /\ Staged'
    BY <1>1, <1>2, <1>3, <1>4 DEF Typed, Staged
  <1>6. LastChange(log, r, cursor) \in Nat
    BY <1>3, LastIs
  <1>7. CopyCovers'
    BY <1>1, <1>2, <1>4, <1>6 DEF CopyCovers, Typed
  <1> QED
    BY <1>2, <1>3, <1>5, <1>7 DEF Streamed, Copied

\* With every row copied the destination covers the cursor.
LEMMA CopyDoneKeeps == ASSUME CdcStreamAssumption, ZInv, CopyDone PROVE ZInv'
  <1> SUFFICES ASSUME ZeroGap PROVE (Typed /\ Staged /\ CopyCovers /\ Streamed /\ Copied)'
    BY DEF ZInv, CopyDone, ZeroGap
  <1>1. Typed /\ Staged /\ CopyCovers /\ Streamed /\ Copied
    BY DEF ZInv
  <1>2. /\ UNCHANGED <<log, dest, cursor, toCopy, lookups, rejected>>
        /\ worker = "copy" /\ toCopy = {} /\ worker' = "open" /\ copied' = TRUE
    BY DEF CopyDone, streamVars, history
  <1> QED
    BY <1>1, <1>2 DEF Typed, Staged, CopyCovers, Streamed, Copied, Covers, Lost

\* A stream opens at the persisted cursor.
LEMMA OpenKeeps == ASSUME CdcStreamAssumption, ZInv, Open PROVE ZInv'
  <1> SUFFICES ASSUME ZeroGap PROVE (Typed /\ Staged /\ CopyCovers /\ Streamed /\ Copied)'
    BY DEF ZInv, Open, ZeroGap
  <1>1. Typed /\ Staged /\ CopyCovers /\ Streamed /\ Copied
    BY DEF ZInv
  <1>2. /\ UNCHANGED <<log, dest, cursor, copied, toCopy, rejected>>
        /\ worker = "open" /\ worker' = "stream" /\ lookups' = {}
        /\ queue' = <<>> /\ hand' = None /\ step' = "apply"
    BY DEF Open, jobVars
  <1>3. copied /\ cursor # None /\ cursor \in 0 .. Len(log) /\ Len(log) \in Nat
    BY <1>1, <1>2 DEF Typed, Staged, Entry
  <1>4. received' = cursor
    BY <1>3 DEF Open, StartAt, ZeroGap
  <1>5. Typed' /\ Staged' /\ CopyCovers' /\ Copied'
    BY <1>1, <1>2 DEF Typed, Staged, CopyCovers, Copied, Covers, Lost
  <1>6. Done' = cursor
    BY <1>2, <1>3, <1>4 DEF Done, First
  <1>7. Ordered'
    BY <1>2, <1>3, <1>4 DEF Ordered
  <1>8. Covers(Done)'
    BY <1>1, <1>2, <1>3, <1>6 DEF Copied, Covers, Lost
  <1> QED
    BY <1>2, <1>3, <1>5, <1>6, <1>7, <1>8 DEF Streamed

\* A received change comes next to those queued, its value no older than itself.
LEMMA ReceiveOneKeeps == ASSUME CdcStreamAssumption, ZInv, ReceiveOne PROVE ZInv'
  <1> SUFFICES ASSUME ZeroGap PROVE (Typed /\ Staged /\ CopyCovers /\ Streamed /\ Copied)'
    BY DEF ZInv, ReceiveOne, ZeroGap
  <1>1. Typed /\ Staged /\ CopyCovers /\ Streamed /\ Copied
    BY DEF ZInv
  <1> DEFINE m == received + 1
             g == log[m].row
  <1>2. /\ UNCHANGED <<log, dest, cursor, copied, worker, toCopy, lookups, hand, step, rejected>>
        /\ worker = "stream" /\ received < Len(log) /\ received' = m
    BY DEF ReceiveOne, jobVars, history
  <1>3. /\ Ordered /\ cursor <= Done /\ Covers(Done) /\ received \in Nat /\ Len(log) \in Nat /\ log \in Seq(Entry)
        /\ queue \in Seq(Item) /\ Len(queue) \in Nat /\ dest \in [Rows -> Nat] /\ cursor \in Nat
    BY <1>1, <1>2 DEF Streamed, Typed, Ordered, Staged
  <1>4. /\ Latest(g) = LastChange(log, g, Len(log)) /\ Latest(g) \in 0 .. Len(log) /\ m <= Latest(g)
        /\ Latest(g) # 0 => log[Latest(g)].row = g
    <2>1. Latest(g) = LastChange(log, g, Len(log))
      BY DEF Latest, LastUpTo, LastChange
    <2>2. m \in 1 .. Len(log)
      BY <1>2, <1>3
    <2> QED
      BY <1>3, <2>1, <2>2, LastIs
  <1>5. CASE LooksUp(m) /\ Gone(g)
    <2>1. queue' = queue
      BY <1>5 DEF ReceiveOne
    <2>2. Passed(m)
      <3>1. log[m].op = "update" /\ log[Latest(g)].op = "delete" /\ log[Latest(g)].row = g
        BY <1>3, <1>4, <1>5 DEF LooksUp, Gone
      <3>2. Latest(g) \in m + 1 .. Len(log)
        BY <1>3, <1>4, <3>1
      <3> QED
        BY <3>1, <3>2 DEF Passed
    <2>3. \A i \in 1 .. Len(queue) : Following(i)' = IF i < Len(queue) THEN Following(i) ELSE m + 1
      BY <1>2, <1>3, <2>1 DEF Following
    <2>4. First' = IF Len(queue) = 0 THEN m + 1 ELSE First
      BY <1>2, <2>1 DEF First
    <2>5. ASSUME NEW a \in Nat, Gap(a, m) PROVE Gap(a, m + 1)
      BY <1>3, <2>2, <2>5 DEF Gap
    <2>6. ASSUME NEW i \in 1 .. Len(queue)
          PROVE  /\ queue[i].n \in 1 .. m /\ queue[i].value >= queue[i].n
                 /\ queue[i].n < Following(i)' /\ Gap(queue[i].n, Following(i)')
      <3>1. /\ queue[i].n \in 1 .. received /\ queue[i].value >= queue[i].n
            /\ queue[i].n < Following(i) /\ Gap(queue[i].n, Following(i))
        BY <1>3 DEF Ordered
      <3>2. CASE i < Len(queue)
        BY <1>3, <2>3, <3>1, <3>2
      <3>3. CASE i = Len(queue)
        <4>1. Following(i) = m
          BY <3>3 DEF Following
        <4> QED
          BY <1>3, <2>3, <2>5, <3>1, <3>3, <4>1
      <3> QED
        BY <1>3, <3>2, <3>3
    <2>7. hand # None => /\ hand \in Item /\ hand.n \in 1 .. m /\ hand.value >= hand.n
                         /\ hand.n < First' /\ Gap(hand.n, First')
      <3> SUFFICES ASSUME hand # None
                   PROVE  /\ hand \in Item /\ hand.n \in 1 .. m /\ hand.value >= hand.n
                          /\ hand.n < First' /\ Gap(hand.n, First')
        OBVIOUS
      <3>1. /\ hand \in Item /\ hand.n \in 1 .. received /\ hand.value >= hand.n
            /\ hand.n < First /\ Gap(hand.n, First)
        BY <1>3 DEF Ordered
      <3>2. CASE Len(queue) = 0
        <4>1. First = m
          BY <3>2 DEF First
        <4> QED
          BY <1>3, <2>4, <2>5, <3>1, <3>2, <4>1
      <3>3. CASE Len(queue) # 0
        BY <1>3, <2>4, <3>1, <3>3
      <3> QED
        BY <3>2, <3>3
    <2>8. Ordered'
      <3>1. received' \in 0 .. Len(log') /\ step' \in {"apply", "persist"}
        BY <1>2, <1>3 DEF Ordered
      <3>2. \A i \in 1 .. Len(queue) : Gap(queue[i].n, Following(i))' <=> Gap(queue[i].n, Following(i)')
        BY <1>2, <2>1 DEF Gap, Passed
      <3>3. Gap(hand.n, First)' <=> Gap(hand.n, First')
        BY <1>2 DEF Gap, Passed
      <3> QED
        BY <1>2, <1>3, <2>1, <2>6, <2>7, <3>1, <3>2, <3>3 DEF Ordered
    <2>9. Covers(Done') /\ cursor <= Done'
      <3>1. CASE hand = None /\ Len(queue) = 0
        <4>1. Done = received /\ Done' = m
          BY <1>2, <1>3, <2>4, <3>1 DEF Done, First
        <4>2. \A n \in received + 1 .. m : Passed(n)
          BY <1>3, <2>2
        <4> QED
          BY <1>2, <1>3, <4>1, <4>2, CoversOver
      <3>2. CASE ~(hand = None /\ Len(queue) = 0)
        <4>1. Done' = Done
          BY <1>2, <2>4, <3>2 DEF Done
        <4> QED
          BY <1>3, <4>1
      <3> QED
        BY <3>1, <3>2
    <2>10. Covers(Done)'
      BY <1>2, <2>9 DEF Covers, Lost
    <2> QED
      BY <1>1, <1>2, <2>8, <2>9, <2>10 DEF Typed, Staged, CopyCovers, Streamed, Copied, Covers, Lost
  <1>6. CASE ~(LooksUp(m) /\ Gone(g))
    <2>1. PICK v : /\ v = (IF LooksUp(m) THEN Latest(g) ELSE m)
                   /\ queue' = Append(queue, [n |-> m, value |-> v])
      BY <1>6 DEF ReceiveOne
    <2>2. v \in Nat /\ v >= m
      BY <1>3, <1>4, <2>1
    <2>3. /\ queue' \in Seq(Item) /\ Len(queue') = Len(queue) + 1
          /\ \A i \in 1 .. Len(queue) : queue'[i] = queue[i]
          /\ queue'[Len(queue) + 1].n = m /\ queue'[Len(queue) + 1].value = v
      BY <1>3, <2>1, <2>2 DEF Item
    <2>4. ASSUME NEW i \in 1 .. Len(queue) PROVE Following(i)' = Following(i)
      <3>1. CASE i < Len(queue)
        <4>1. i + 1 \in 1 .. Len(queue) /\ i < Len(queue')
          BY <1>3, <2>3, <3>1
        <4>2. queue'[i + 1] = queue[i + 1]
          BY <2>3, <4>1
        <4> QED
          BY <3>1, <4>1, <4>2 DEF Following
      <3>2. CASE i = Len(queue)
        <4>1. i < Len(queue') /\ queue'[i + 1].n = m
          BY <1>3, <2>3, <3>2
        <4>2. received + 1 = m
          BY <1>3
        <4> QED
          BY <3>2, <4>1, <4>2 DEF Following
      <3> QED
        BY <1>3, <3>1, <3>2
    <2>5. \A i \in Nat : i = Len(queue) + 1 => Following(i)' = m + 1
      BY <1>2, <1>3, <2>3 DEF Following
    <2>6. First' = First
      BY <1>2, <1>3, <2>3 DEF First
    <2>7. Done' = Done
      BY <1>2, <2>6 DEF Done
    <2>8. ASSUME NEW i \in 1 .. Len(queue')
          PROVE  /\ queue'[i].n \in 1 .. received' /\ queue'[i].value >= queue'[i].n
                 /\ queue'[i].n < Following(i)' /\ Gap(queue[i].n, Following(i))'
      <3>1. CASE i \in 1 .. Len(queue)
        <4>1. /\ queue[i].n \in 1 .. received /\ queue[i].value >= queue[i].n
              /\ queue[i].n < Following(i) /\ Gap(queue[i].n, Following(i))
          BY <1>3, <3>1 DEF Ordered
        <4>2. Gap(queue[i].n, Following(i))'
          BY <1>2, <2>3, <2>4, <3>1, <4>1 DEF Gap, Passed
        <4> QED
          BY <1>2, <1>3, <2>3, <2>4, <3>1, <4>1, <4>2
      <3>2. CASE i = Len(queue) + 1
        <4>1. i \in Nat /\ Following(i)' = m + 1 /\ queue'[i].n = m /\ queue'[i].value = v
          BY <1>3, <2>3, <2>5, <3>2
        <4>2. Gap(queue[i].n, Following(i))'
          BY <1>3, <4>1 DEF Gap
        <4> QED
          BY <1>2, <1>3, <2>2, <4>1, <4>2
      <3> QED
        BY <1>3, <2>3, <3>1, <3>2
    <2>9. hand' # None => /\ hand' \in Item /\ hand'.n \in 1 .. received' /\ hand'.value >= hand'.n
                          /\ hand'.n < First' /\ Gap(hand.n, First)'
      BY <1>2, <1>3, <2>6 DEF Ordered, Gap, Passed
    <2>10. Ordered'
      <3>1. received' \in 0 .. Len(log') /\ step' \in {"apply", "persist"}
        BY <1>2, <1>3 DEF Ordered
      <3> QED
        BY <2>3, <2>8, <2>9, <3>1 DEF Ordered
    <2>11. Covers(Done)'
      BY <1>2, <1>3, <2>7 DEF Covers, Lost
    <2> QED
      BY <1>1, <1>2, <1>3, <2>7, <2>10, <2>11 DEF Typed, Staged, CopyCovers, Streamed, Copied, Covers, Lost
  <1> QED
    BY <1>5, <1>6

\* What is taken in hand is the change after the position, which stays.
LEMMA TakeKeeps == ASSUME CdcStreamAssumption, ZInv, Take PROVE ZInv'
  <1> SUFFICES ASSUME ZeroGap PROVE (Typed /\ Staged /\ CopyCovers /\ Streamed /\ Copied)'
    BY DEF ZInv, Take, ZeroGap
  <1>1. Typed /\ Staged /\ CopyCovers /\ Streamed /\ Copied
    BY DEF ZInv
  <1>2. /\ UNCHANGED <<log, dest, cursor, copied, worker, toCopy, lookups, received, rejected>>
        /\ worker = "stream" /\ hand = None /\ queue # <<>>
        /\ hand' = Head(queue) /\ queue' = Tail(queue) /\ step' = "apply"
    BY DEF Take, jobVars, history
  <1>3. Ordered /\ cursor <= Done /\ Covers(Done) /\ received \in Nat /\ Len(log) \in Nat
    BY <1>1, <1>2 DEF Streamed, Typed, Ordered
  <1>4. /\ queue' \in Seq(Item) /\ Len(queue) \in Nat \ {0} /\ Len(queue') = Len(queue) - 1
        /\ \A i \in 1 .. Len(queue') : queue'[i] = queue[i + 1]
        /\ hand' = queue[1] /\ hand' \in Item
    BY <1>2, <1>3 DEF Ordered
  <1>5. hand' # None
    BY <1>4 DEF Item, CdcStreamAssumption
  <1>6. \A i \in 1 .. Len(queue) : /\ queue[i].n \in 1 .. received /\ queue[i].value >= queue[i].n
                                   /\ queue[i].n < Following(i) /\ Gap(queue[i].n, Following(i))
    BY <1>3 DEF Ordered
  <1>7. First' = Following(1) /\ First = queue[1].n
    BY <1>2, <1>4 DEF First, Following
  <1>8. \A i \in 1 .. Len(queue') : Following(i)' = Following(i + 1)
    <2>1. ASSUME NEW i \in 1 .. Len(queue') PROVE Following(i)' = Following(i + 1)
      <3>1. CASE i < Len(queue')
        BY <1>2, <1>4, <3>1 DEF Following
      <3>2. CASE i = Len(queue')
        BY <1>2, <1>4, <3>2 DEF Following
      <3> QED
        BY <1>4, <3>1, <3>2
    <2> QED
      BY <2>1
  <1>9. Ordered'
    <2>1. ASSUME NEW i \in 1 .. Len(queue')
          PROVE  /\ queue'[i].n \in 1 .. received' /\ queue'[i].value >= queue'[i].n
                 /\ queue'[i].n < Following(i)' /\ Gap(queue[i].n, Following(i))'
      <3>1. i + 1 \in 1 .. Len(queue) /\ queue'[i] = queue[i + 1]
        BY <1>4
      <3>2. /\ queue[i + 1].n \in 1 .. received /\ queue[i + 1].value >= queue[i + 1].n
            /\ queue[i + 1].n < Following(i + 1) /\ Gap(queue[i + 1].n, Following(i + 1))
        BY <1>6, <3>1
      <3>3. Gap(queue[i].n, Following(i))'
        BY <1>2, <1>8, <3>1, <3>2 DEF Gap, Passed
      <3> QED
        BY <1>2, <1>8, <3>1, <3>2, <3>3
    <2>2. /\ hand'.n \in 1 .. received' /\ hand'.value >= hand'.n
          /\ hand'.n < First' /\ Gap(hand.n, First)'
      <3>1. /\ queue[1].n \in 1 .. received /\ queue[1].value >= queue[1].n
            /\ queue[1].n < Following(1) /\ Gap(queue[1].n, Following(1))
        BY <1>4, <1>6
      <3>2. Gap(hand.n, First)'
        BY <1>2, <1>4, <1>7, <3>1 DEF Gap, Passed
      <3> QED
        BY <1>2, <1>4, <1>7, <3>1, <3>2
    <2>3. received' \in 0 .. Len(log') /\ step' \in {"apply", "persist"}
      BY <1>2, <1>3 DEF Ordered
    <2> QED
      BY <1>4, <2>1, <2>2, <2>3 DEF Ordered
  <1>10. Done' = Done
    BY <1>2, <1>4, <1>5, <1>7 DEF Done
  <1>11. Covers(Done)'
    BY <1>2, <1>3, <1>10 DEF Covers, Lost
  <1> QED
    BY <1>1, <1>2, <1>3, <1>9, <1>10, <1>11 DEF Typed, Staged, CopyCovers, Streamed, Copied, Covers, Lost

\* The change in hand moves the position past itself, applied or rejected.
LEMMA ApplyKeeps == ASSUME CdcStreamAssumption, ZInv, Apply PROVE ZInv'
  <1> SUFFICES ASSUME ZeroGap PROVE (Typed /\ Staged /\ CopyCovers /\ Streamed /\ Copied)'
    BY DEF ZInv, Apply, ZeroGap
  <1>1. Typed /\ Staged /\ CopyCovers /\ Streamed /\ Copied
    BY DEF ZInv
  <1>2. /\ UNCHANGED <<log, cursor, copied, worker, toCopy, lookups, queue, received>>
        /\ worker = "stream" /\ hand # None /\ step = "apply"
    BY DEF Apply, jobVars
  <1>3. /\ Ordered /\ cursor <= Done /\ Covers(Done) /\ received \in Nat /\ Len(log) \in Nat
        /\ copied /\ cursor \in Nat /\ queue \in Seq(Item) /\ Len(queue) \in Nat
        /\ log \in Seq(Entry) /\ rejected \subseteq 1 .. Len(log) /\ dest \in [Rows -> Nat]
    BY <1>1, <1>2 DEF Streamed, Typed, Ordered, Staged
  <1>4. /\ hand \in Item /\ hand.n \in 1 .. received /\ received <= Len(log)
        /\ hand.value \in Nat /\ hand.value >= hand.n
        /\ hand.n < First /\ Gap(hand.n, First) /\ Done = hand.n - 1
    BY <1>2, <1>3 DEF Ordered, Item, Done
  <1>5. PICK m \in 1 .. Len(log) : m = hand.n
    BY <1>3, <1>4
  <1>6. log[m] \in Entry
    BY <1>3, <1>5
  <1>7. PICK s \in Rows : s = log[m].row
    BY <1>6 DEF Entry
  <1>8. m \in Nat /\ m - 1 \in Nat /\ (m - 1) + 1 = m /\ cursor <= m - 1 /\ Covers(m - 1)
    BY <1>3, <1>4, <1>5
  <1>9. \A r \in Rows : LastChange(log, r, m) \in 0 .. m
    BY <1>8, LastIs
  <1>10. ASSUME NEW r \in Rows, r # s
         PROVE  /\ LastChange(log, r, m) = LastChange(log, r, m - 1)
                /\ Vanished(log, r, m - 1) => Vanished(log, r, m)
    <2>1. LastChange(log, r, m) = LastChange(log, r, m - 1)
      BY <1>7, <1>8, <1>10, LastOther
    <2>2. ASSUME Vanished(log, r, m - 1) PROVE Vanished(log, r, m)
      <3>1. PICK n \in m .. Len(log) : log[n].row = r /\ log[n].op = "delete"
        BY <1>8, <2>2 DEF Vanished
      <3>2. n \in m + 1 .. Len(log)
        BY <1>7, <1>8, <1>10, <3>1
      <3> QED
        BY <2>1, <2>2, <3>1, <3>2 DEF Vanished
    <2> QED
      BY <2>1, <2>2
  <1>11. /\ dest' \in [Rows -> Nat] /\ rejected' \subseteq 1 .. Len(log)
         /\ \A r \in Rows \ {s} : dest'[r] = dest[r]
         /\ \A r \in Rows : Lost(r) => Lost(r)'
         /\ dest'[s] >= m \/ Lost(s)'
         /\ \/ hand' = hand /\ step' = "persist"
            \/ hand' = None /\ step' = step
    <2>1. CASE /\ dest' = [dest EXCEPT ![s] = hand.value] /\ step' = "persist"
               /\ UNCHANGED <<hand, rejected>>
      <3>2. dest' \in [Rows -> Nat] /\ dest'[s] = hand.value /\ \A r \in Rows \ {s} : dest'[r] = dest[r]
        BY <1>3, <1>4, <2>1
      <3> QED
        BY <1>2, <1>3, <1>4, <1>5, <2>1, <3>2 DEF Lost
    <2>2. CASE /\ rejected' = rejected \cup {m} /\ hand' = None
               /\ UNCHANGED <<dest, step>>
      <3>2. Lost(s)' /\ \A r \in Rows : Lost(r) => Lost(r)'
        BY <1>2, <1>7, <2>2 DEF Lost
      <3> QED
        BY <1>2, <1>3, <2>2, <3>2
    <2> QED
      BY <1>5, <1>7, <2>1, <2>2 DEF Apply
  <1>12. Covers(m)'
    <2> SUFFICES ASSUME NEW r \in Rows
                 PROVE  dest'[r] >= LastChange(log, r, m) \/ Vanished(log, r, m) \/ Lost(r)'
      BY <1>2 DEF Covers
    <2>1. CASE r = s
      <3>1. LastChange(log, s, m) \in Nat /\ LastChange(log, s, m) <= m /\ dest'[s] \in Nat
        BY <1>9, <1>11
      <3> QED
        BY <1>8, <1>11, <2>1, <3>1
    <2>2. CASE r # s
      BY <1>8, <1>10, <1>11, <2>2 DEF Covers
    <2> QED
      BY <2>1, <2>2
  <1>13. Covers(cursor)'
    <2> SUFFICES ASSUME NEW r \in Rows
                 PROVE  dest'[r] >= LastChange(log, r, cursor) \/ Vanished(log, r, cursor) \/ Lost(r)'
      BY <1>2 DEF Covers
    <2>1. CASE r = s
      <3>1. LastChange(log, s, cursor) \in 0 .. cursor /\ dest'[s] \in Nat
        BY <1>3, <1>11, LastIs
      <3> QED
        BY <1>3, <1>8, <1>11, <2>1, <3>1
    <2>2. CASE r # s
      BY <1>1, <1>3, <1>11, <2>2 DEF Copied, Covers
    <2> QED
      BY <2>1, <2>2
  <1>14. First' = First /\ \A i : Following(i)' = Following(i)
    BY <1>2 DEF First, Following
  <1>15. Ordered'
    <2>1. ASSUME NEW i \in 1 .. Len(queue')
          PROVE  /\ queue'[i].n \in 1 .. received' /\ queue'[i].value >= queue'[i].n
                 /\ queue'[i].n < Following(i)' /\ Gap(queue[i].n, Following(i))'
      <3>1. /\ queue[i].n \in 1 .. received /\ queue[i].value >= queue[i].n
            /\ queue[i].n < Following(i) /\ Gap(queue[i].n, Following(i))
        BY <1>2, <1>3 DEF Ordered
      <3>2. Gap(queue[i].n, Following(i))'
        BY <1>2, <1>14, <3>1 DEF Gap, Passed
      <3> QED
        BY <1>2, <1>14, <3>1, <3>2
    <2>2. hand' # None => /\ hand' \in Item /\ hand'.n \in 1 .. received' /\ hand'.value >= hand'.n
                          /\ hand'.n < First' /\ Gap(hand.n, First)'
      BY <1>2, <1>4, <1>11, <1>14 DEF Gap, Passed
    <2>3. received' \in 0 .. Len(log') /\ queue' \in Seq(Item) /\ step' \in {"apply", "persist"}
      BY <1>2, <1>3, <1>11 DEF Ordered
    <2> QED
      BY <2>1, <2>2, <2>3 DEF Ordered
  <1>16. Covers(Done)' /\ cursor' <= Done'
    <2>1. CASE hand' = hand /\ step' = "persist"
      <3>1. Done' = m
        BY <1>2, <1>5, <2>1 DEF Done
      <3> QED
        BY <1>2, <1>3, <1>8, <1>12, <3>1 DEF Covers
    <2>2. CASE hand' = None
      <3>1. First \in 1 .. received + 1
        BY <1>3 DEF First, Ordered
      <3>2. Done' = First - 1 /\ First - 1 \in Nat /\ m <= First - 1 /\ First - 1 <= Len(log)
        BY <1>3, <1>4, <1>5, <1>14, <2>2, <3>1 DEF Done
      <3>3. \A n \in m + 1 .. First - 1 : Passed(n)'
        BY <1>2, <1>4, <1>5 DEF Gap, Passed
      <3>4. Covers(First - 1)'
        <4>1. log' \in Seq(Entry) /\ dest' \in [Rows -> Nat] /\ Len(log') = Len(log)
          BY <1>2, <1>3, <1>11
        <4> SUFFICES ASSUME NEW r \in Rows
                     PROVE  dest'[r] >= LastChange(log, r, First - 1) \/ Vanished(log, r, First - 1) \/ Lost(r)'
          BY <1>2, <1>14 DEF Covers
        <4>2. dest'[r] >= LastChange(log, r, m) \/ Vanished(log, r, m) \/ Lost(r)'
          BY <1>2, <1>12 DEF Covers
        <4>3. \A n \in m + 1 .. First - 1 : Passed(n)
          BY <1>4, <1>5 DEF Gap
        <4>4. LastChange(log, r, m) = LastChange(log, r, First - 1) \/ Vanished(log, r, First - 1)
          BY <1>3, <1>8, <3>2, <4>3, LastOver
        <4>5. Vanished(log, r, m) => Vanished(log, r, First - 1)
          BY <1>3, <1>8, <3>2, <4>3, LastOver
        <4> QED
          BY <4>2, <4>4, <4>5
      <3>5. cursor <= First - 1
        BY <1>3, <1>8, <3>2
      <3> QED
        BY <1>2, <1>14, <3>2, <3>4, <3>5 DEF Covers
    <2> QED
      BY <1>11, <2>1, <2>2
  <1>17. Streamed' /\ Copied'
    BY <1>2, <1>13, <1>15, <1>16 DEF Streamed, Copied, Covers
  <1> QED
    BY <1>1, <1>2, <1>11, <1>17 DEF Typed, Staged, CopyCovers

\* The cursor is persisted as the position, or stays behind it.
LEMMA PersistKeeps == ASSUME CdcStreamAssumption, ZInv, Persist PROVE ZInv'
  <1> SUFFICES ASSUME ZeroGap PROVE (Typed /\ Staged /\ CopyCovers /\ Streamed /\ Copied)'
    BY DEF ZInv, Persist, ZeroGap
  <1>1. Typed /\ Staged /\ CopyCovers /\ Streamed /\ Copied
    BY DEF ZInv
  <1>2. /\ UNCHANGED <<log, dest, copied, worker, toCopy, lookups, queue, received, step, rejected>>
        /\ worker = "stream" /\ hand # None /\ step = "persist" /\ hand' = None
    BY DEF Persist, history
  <1>3. /\ Ordered /\ cursor <= Done /\ Covers(Done) /\ received \in Nat /\ Len(log) \in Nat
        /\ copied /\ cursor \in 0 .. Len(log) /\ log \in Seq(Entry) /\ dest \in [Rows -> Nat]
    BY <1>1, <1>2 DEF Streamed, Typed, Ordered, Staged
  <1>4. /\ Done = hand.n /\ hand.n \in 1 .. received /\ received <= Len(log)
        /\ hand.n < First /\ Gap(hand.n, First) /\ hand \in Item
    BY <1>2, <1>3 DEF Ordered, Done
  <1>5. cursor' = hand.n \/ cursor' = cursor
    <2>1. hand.n \in 1 .. Len(log)
      BY <1>3, <1>4
    <2> QED
      BY <1>1, <2>1 DEF Persist, Typed
  <1>6. First' = First /\ Done' = First - 1 /\ \A i : Following(i)' = Following(i)
    BY <1>2 DEF First, Following, Done
  <1>7. Ordered'
    <2>1. ASSUME NEW i \in 1 .. Len(queue')
          PROVE  /\ queue'[i].n \in 1 .. received' /\ queue'[i].value >= queue'[i].n
                 /\ queue'[i].n < Following(i)' /\ Gap(queue[i].n, Following(i))'
      <3>1. /\ queue[i].n \in 1 .. received /\ queue[i].value >= queue[i].n
            /\ queue[i].n < Following(i) /\ Gap(queue[i].n, Following(i))
        BY <1>2, <1>3 DEF Ordered
      <3>2. Gap(queue[i].n, Following(i))'
        BY <1>2, <1>6, <3>1 DEF Gap, Passed
      <3> QED
        BY <1>2, <1>6, <3>1, <3>2
    <2>2. received' \in 0 .. Len(log') /\ queue' \in Seq(Item) /\ step' \in {"apply", "persist"}
      BY <1>2, <1>3 DEF Ordered
    <2> QED
      BY <1>2, <2>1, <2>2 DEF Ordered
  <1>8. First \in 1 .. received + 1
    BY <1>3 DEF First, Ordered
  <1>9. Covers(First - 1) /\ cursor' <= First - 1 /\ cursor' \in 0 .. Len(log)
    <2>1. /\ hand.n \in Nat /\ First - 1 \in Nat /\ hand.n <= First - 1 /\ First - 1 <= Len(log)
      BY <1>3, <1>4, <1>8 DEF Item
    <2>2. \A n \in hand.n + 1 .. First - 1 : Passed(n)
      BY <1>4 DEF Gap
    <2>3. Covers(First - 1)
      BY <1>3, <1>4, <2>1, <2>2, CoversOver
    <2> QED
      BY <1>3, <1>4, <1>5, <2>1, <2>3
  <1>10. Covers(Done)' /\ cursor' <= Done'
    BY <1>2, <1>6, <1>9 DEF Covers, Lost
  <1>11. Covers(cursor)'
    BY <1>1, <1>2, <1>3, <1>4, <1>5 DEF Copied, Covers, Lost
  <1>12. cursor' # None
    BY <1>9, <1>3 DEF CdcStreamAssumption
  <1> QED
    BY <1>1, <1>2, <1>3, <1>7, <1>9, <1>10, <1>11, <1>12 DEF Typed, Staged, CopyCovers, Streamed, Copied

\* An attempt that ends leaves what was persisted and applied.
LEMMA AttemptEndsKeeps == ASSUME CdcStreamAssumption, ZInv, AttemptEnds PROVE ZInv'
  <1> SUFFICES ASSUME ZeroGap PROVE (Typed /\ Staged /\ CopyCovers /\ Streamed /\ Copied)'
    BY DEF ZInv, AttemptEnds, ZeroGap
  <1>1. Typed /\ Staged /\ CopyCovers /\ Streamed /\ Copied
    BY DEF ZInv
  <1>2. /\ UNCHANGED <<log, dest, cursor, copied, rejected>>
        /\ worker' = "idle" /\ toCopy' = {} /\ lookups' = {}
    BY DEF AttemptEnds, jobVars, history
  <1> QED
    BY <1>1, <1>2 DEF Typed, Staged, CopyCovers, Streamed, Copied, Covers, Lost

\* Every step preserves the invariant; MySQL's belong to no such sync.
LEMMA NextZInv == ASSUME CdcStreamAssumption, ZInv, [Next]_vars PROVE ZInv'
  <1>1. CASE UNCHANGED vars
    <2>1. UNCHANGED <<engine, bootstrap, log, dest, cursor, copied, worker, toCopy, received,
                      lookups, queue, hand, step, rejected>>
      BY <1>1 DEF vars, jobVars, streamVars, history
    <2> QED
      BY <2>1 DEF ZInv, ZeroGap, Typed, Staged, CopyCovers, Streamed, Copied, Covers, Lost,
         Ordered, Done, First, Following, Gap, Passed
  <1>2. CASE ReceiveBinlog
    BY <1>2 DEF ReceiveBinlog, ZInv, ZeroGap
  <1>3. ASSUME NEW e \in lookups, LookupAnswered(e) PROVE ZInv'
    BY <1>3 DEF LookupAnswered, ZInv, ZeroGap, Typed
  <1>4. ASSUME NEW r \in Rows, Copy(r) PROVE ZInv'
    BY <1>4, CopyKeeps
  <1> QED
    BY <1>1, <1>2, <1>3, <1>4, SourceChangeKeeps, AttemptKeeps, CopyDoneKeeps, OpenKeeps,
       ReceiveOneKeeps, TakeKeeps, ApplyKeeps, PersistKeeps, AttemptEndsKeeps DEF Next, Work

\* The invariant holds in every behaviour.
THEOREM ZeroGapInvariance == Spec => []ZInv
  <1>1. Init => ZInv
    BY InitZInv, CdcStreamAssumption
  <1>2. ZInv /\ [Next]_vars => ZInv'
    BY NextZInv, CdcStreamAssumption
  <1> QED
    BY <1>1, <1>2, PTL DEF Spec

\* Zero gap: once the copy is over the destination is at least as new as the persisted cursor,
\* but for rows whose change was rejected and updates of a document deleted since, for any number of
\* rows and changes and however often attempts end, in the copy or between apply and persist (pivot/jobs/cdc-sync.job.ts:214-340).
THEOREM ZeroGapHolds == Spec => []DestCoversCursor
  <1>1. ZInv => DestCoversCursor
    BY DEF ZInv, ZeroGap, Copied, Covers, Vanished, Lost, LastChange, LastUpTo, DeletedSince, DestCoversCursor
  <1> QED
    BY <1>1, ZeroGapInvariance, PTL

=============================================================================
