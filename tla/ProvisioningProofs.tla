------------------------- MODULE ProvisioningProofs -------------------------
(***************************************************************************)
(* Proofs about Provisioning, for every set of create requests, names and  *)
(* requests, and every number of failures: the type invariant, that a      *)
(* database inserted into an untouched slot is never disturbed, and that   *)
(* a row that is gone leaves no container and no route.                    *)
(***************************************************************************)
EXTENDS Provisioning, TLAPS

InFlight == {"prepare", "create", "start", "route", "activate",
             "rollbackContainer", "rollbackRoute", "rollbackRow"}
TearingDown == {"respond", "container", "dataDir", "route"}

\* The requests that name a row name one that was inserted, a teardown one that
\* is gone, and an ensure call one that is active or gone.
RowsNamed ==
    /\ \A d \in Requests : delete[d] # "new" =>
          /\ deleteRow[d] \in Rows
          /\ create[deleteRow[d]] \notin {"new", "checking"}
    /\ \A d \in Requests : delete[d] \in TearingDown => db[deleteRow[d]] = "absent"
    /\ \A e \in Ensurers : ensure[e] # "new" =>
          /\ ensureRow[e] \in Rows
          /\ create[ensureRow[e]] \notin {"new", "checking"}
          /\ ensure[e] # "done" => db[ensureRow[e]] # "provisioning"
    /\ \A r \in bootTodo : /\ create[r] \notin {"new", "checking"}
                           /\ db[r] # "provisioning"

\* A row exists from the insert of its request on, and is active only once the
\* request is done.
RowStage ==
    \A r \in Rows :
        /\ create[r] \in {"new", "checking"} => db[r] = "absent" /\ r \notin clean
        /\ create[r] \in InFlight => db[r] # "active"
        /\ create[r] = "done" => db[r] # "provisioning"

\* The UNIQUE constraint on (userId, dbName).
NamesUnique ==
    \A q, r \in Present : DirOf(q) = DirOf(r) => q = r

\* Nobody but the owner of a clean slot acts on it.
SoleActor ==
    \A r \in clean \cap Present :
        /\ \A q \in Rows : q # r /\ DirOf(q) = DirOf(r) => create[q] \notin InFlight
        /\ \A d \in Requests : delete[d] \in TearingDown => DirOf(deleteRow[d]) # DirOf(r)
        /\ \A e \in Ensurers :
              ensure[e] \notin {"new", "done"} /\ DirOf(ensureRow[e]) = DirOf(r)
                  => ensureRow[e] = r
        /\ \A q \in bootTodo : DirOf(q) = DirOf(r) => q = r

\* What the slot holds as its owner is provisioned.
SlotContents ==
    \A r \in clean \cap Present :
        /\ \A c \in ContainerNames : c[2] = DirOf(r) =>
              /\ container[c] \in {r, None}
              /\ c # ContainerOf(r) => container[c] = None
        /\ dataDir[DirOf(r)] \in {"missing", "empty", r}
        /\ create[r] \in {"route", "activate"} \/ db[r] = "active" =>
              /\ dataDir[DirOf(r)] = r
              /\ faults = 0 => ContainerOf(r) \in running

IInv == TypeOK /\ RowsNamed /\ RowStage /\ NamesUnique /\ SoleActor /\ SlotContents

-----------------------------------------------------------------------------
USE DEF stores, createVars, deleteVars, ensureVars, bootVars, Ensurers, Present, Active,
        NoFault, InFlight, TearingDown

\* A row's container is one of the container names, and lies on its data dir.
LEMMA Slot ==
  ASSUME TypeOK, NEW r \in Rows
  PROVE  /\ ContainerOf(r) \in ContainerNames
         /\ ContainerOf(r)[2] = DirOf(r)
         /\ DirOf(r) \in Names
  BY DEF TypeOK, ContainerOf, DirOf, ContainerNames, Engines

\* CreateLookup only reads the table, so it preserves the invariant.
LEMMA CreateLookupKeeps ==
  ASSUME ProvisioningAssumption, IInv, NEW r \in Rows, CreateLookup(r)
  PROVE  IInv'
  <1> USE DEF CreateLookup
  <1>1. TypeOK'
    BY SMTT(30) DEF IInv, TypeOK, CreatePcs, DeletePcs, EnsurePcs, BootPcs
  <1>2. RowsNamed'
    BY SMTT(30) DEF IInv, TypeOK, RowsNamed, RowStage
  <1>3. RowStage'
    BY SMTT(30) DEF IInv, TypeOK, RowsNamed, RowStage
  <1>4. NamesUnique'
    BY SMTT(30) DEF IInv, TypeOK, RowsNamed, RowStage, NamesUnique, DirOf
  <1>5. SoleActor'
    BY SMTT(30) DEF IInv, TypeOK, RowsNamed, RowStage, NamesUnique, SoleActor, DirOf
  <1>6. SlotContents'
    BY SMTT(30) DEF IInv, TypeOK, RowsNamed, RowStage, SoleActor, SlotContents, DirOf, ContainerOf, ContainerNames
  <1> QED BY <1>1, <1>2, <1>3, <1>4, <1>5, <1>6 DEF IInv

\* CreateInsert preserves the invariant: the UNIQUE constraint keeps names apart,
\* and a slot is recorded clean only when it is empty and nobody is busy with it.
LEMMA CreateInsertKeeps ==
  ASSUME ProvisioningAssumption, IInv, NEW r \in Rows, CreateInsert(r)
  PROVE  IInv'
  <1> USE DEF CreateInsert
  <1>1. TypeOK'
    <2>1. create' \in [Rows -> CreatePcs]
      BY SMTT(30) DEF IInv, TypeOK, CreatePcs
    <2>2. db' \in [Rows -> {"absent", "provisioning", "active"}]
      BY SMTT(30) DEF IInv, TypeOK
    <2>3. clean' \subseteq Rows /\ underGuard' \subseteq Rows
      BY SMTT(30) DEF IInv, TypeOK
    <2>4. UNCHANGED <<param, container, running, dataDir, route, deleteVars, ensureVars, bootVars, crashes, faults>>
      OBVIOUS
    <2> HIDE DEF CreateInsert
    <2> QED BY <2>1, <2>2, <2>3, <2>4, SMTT(30) DEF IInv, TypeOK
  <1>2. RowsNamed'
    BY SMTT(30) DEF IInv, TypeOK, RowsNamed, RowStage
  <1>3. RowStage'
    BY SMTT(30) DEF IInv, TypeOK, RowsNamed, RowStage
  <1>4. NamesUnique'
    BY SMTT(30) DEF IInv, TypeOK, RowsNamed, RowStage, NamesUnique, DirOf
  <1>5. SoleActor'
    <2> SUFFICES ASSUME NEW q \in (clean \cap Present)'
                 PROVE  /\ \A p \in Rows : p # q /\ DirOf(p) = DirOf(q) => create'[p] \notin InFlight
                        /\ \A d \in Requests : delete[d] \in TearingDown
                                                  => DirOf(deleteRow[d]) # DirOf(q)
                        /\ \A e \in Ensurers :
                              ensure[e] \notin {"new", "done"} /\ DirOf(ensureRow[e]) = DirOf(q)
                                  => ensureRow[e] = q
                        /\ \A p \in bootTodo : DirOf(p) = DirOf(q) => p = q
      BY DEF SoleActor, DirOf
    <2>1. q \in Rows /\ create \in [Rows -> CreatePcs]
      BY DEF IInv, TypeOK
    <2>2. CASE q = r /\ r \in clean'
      <3>1. ~Busy(DirOf(q))
        BY <2>1, <2>2 DEF IInv, TypeOK, RowStage, Untouched
      <3>2. \A p \in Rows : p # q => create'[p] = create[p]
        BY <2>1, <2>2
      <3> HIDE DEF CreateInsert
      <3> QED BY <3>1, <3>2, <2>1 DEF Busy, CreatePcs
    <2>3. CASE q # r
      <3>1. q \in clean \cap Present
        BY <2>1, <2>3 DEF IInv, TypeOK
      <3>2. \A p \in Rows \ {r} : create'[p] = create[p]
        BY <2>1
      <3>3. DirOf(r) = DirOf(q) => create'[r] = "failed"
        BY <2>1, <3>1
      <3> HIDE DEF CreateInsert
      <3> QED BY <3>1, <3>2, <3>3, <2>3 DEF IInv, SoleActor
    <2> QED BY <2>2, <2>3
  <1>6. SlotContents'
    <2> SUFFICES ASSUME NEW q \in (clean \cap Present)'
                 PROVE  /\ \A c \in ContainerNames : c[2] = DirOf(q) =>
                              /\ container[c] \in {q, None}
                              /\ c # ContainerOf(q) => container[c] = None
                        /\ dataDir[DirOf(q)] \in {"missing", "empty", q}
                        /\ create'[q] \in {"route", "activate"} \/ db'[q] = "active" =>
                              /\ dataDir[DirOf(q)] = q
                              /\ faults = 0 => ContainerOf(q) \in running
      BY DEF SlotContents, DirOf, ContainerOf
    <2>1. q \in Rows
      BY DEF IInv, TypeOK
    <2>2. CASE q = r /\ r \in clean'
      <3>1. create'[q] = "prepare" /\ db'[q] = "provisioning" /\ Untouched(DirOf(q))
        BY <2>1, <2>2 DEF IInv, TypeOK, RowStage
      <3>2. \A c \in ContainerNames : c[2] = DirOf(q) => container[c] = None
        BY <3>1 DEF Untouched, ContainerNames
      <3>. QED BY <3>1, <3>2 DEF Untouched
    <2>3. CASE q # r
      BY <2>1, <2>3 DEF IInv, TypeOK, SlotContents
    <2>. QED BY <2>2, <2>3
  <1> QED BY <1>1, <1>2, <1>3, <1>4, <1>5, <1>6 DEF IInv

\* CreatePrepare preserves the invariant: making a directory changes no contents.
LEMMA CreatePrepareKeeps ==
  ASSUME ProvisioningAssumption, IInv, NEW r \in Rows, CreatePrepare(r)
  PROVE  IInv'
  <1> USE DEF CreatePrepare, MakeDir, Fault
  <1>1. TypeOK'
    <2>1. create' \in [Rows -> CreatePcs]
      BY SMTT(30) DEF IInv, TypeOK, CreatePcs
    <2>2. dataDir' \in [Names -> Rows \cup {"missing", "empty"}]
      BY Slot, SMTT(30) DEF IInv, TypeOK
    <2>3. faults' \in Nat
      BY SMTT(30) DEF IInv, TypeOK
    <2>4. UNCHANGED <<param, db, container, running, route, clean, underGuard, deleteVars, ensureVars, bootVars, crashes>>
      OBVIOUS
    <2> HIDE DEF CreatePrepare
    <2> QED BY <2>1, <2>2, <2>3, <2>4, SMTT(30) DEF IInv, TypeOK
  <1>2. RowsNamed'
    BY SMTT(30) DEF IInv, TypeOK, RowsNamed, RowStage
  <1>3. RowStage'
    BY SMTT(30) DEF IInv, TypeOK, RowsNamed, RowStage
  <1>4. NamesUnique'
    BY SMTT(30) DEF IInv, TypeOK, RowsNamed, RowStage, NamesUnique, DirOf
  <1>5. SoleActor'
    BY SMTT(30) DEF IInv, TypeOK, RowsNamed, RowStage, NamesUnique, SoleActor, DirOf
  <1>6. SlotContents'
    BY SMTT(30) DEF IInv, TypeOK, RowsNamed, RowStage, SoleActor, SlotContents, DirOf, ContainerOf, ContainerNames
  <1> QED BY <1>1, <1>2, <1>3, <1>4, <1>5, <1>6 DEF IInv

\* CreateContainer preserves the invariant: the new container lies in the slot
\* of its own request.
LEMMA CreateContainerKeeps ==
  ASSUME ProvisioningAssumption, IInv, NEW r \in Rows, CreateContainer(r)
  PROVE  IInv'
  <1> USE DEF CreateContainer, Fault
  <1>1. TypeOK'
    <2>1. create' \in [Rows -> CreatePcs]
      BY SMTT(30) DEF IInv, TypeOK, CreatePcs
    <2>2. container' \in [ContainerNames -> Rows \cup {None}]
      BY Slot, SMTT(30) DEF IInv, TypeOK
    <2>3. running' \subseteq {c \in ContainerNames : container'[c] # None}
      BY Slot, SMTT(30) DEF IInv, TypeOK
    <2>4. faults' \in Nat
      BY SMTT(30) DEF IInv, TypeOK
    <2>5. UNCHANGED <<param, db, running, dataDir, route, clean, underGuard, deleteVars, ensureVars, bootVars, crashes>>
      OBVIOUS
    <2> HIDE DEF CreateContainer
    <2> QED BY <2>1, <2>2, <2>3, <2>4, <2>5, SMTT(30) DEF IInv, TypeOK
  <1>2. RowsNamed'
    BY SMTT(30) DEF IInv, TypeOK, RowsNamed, RowStage
  <1>3. RowStage'
    BY SMTT(30) DEF IInv, TypeOK, RowsNamed, RowStage
  <1>4. NamesUnique'
    BY SMTT(30) DEF IInv, TypeOK, RowsNamed, RowStage, NamesUnique, DirOf
  <1>5. SoleActor'
    BY SMTT(30) DEF IInv, TypeOK, RowsNamed, RowStage, NamesUnique, SoleActor, DirOf
  <1>6. SlotContents'
    <2> SUFFICES ASSUME NEW q \in (clean \cap Present)'
                 PROVE  /\ \A c \in ContainerNames : c[2] = DirOf(q) =>
                              /\ container'[c] \in {q, None}
                              /\ c # ContainerOf(q) => container'[c] = None
                        /\ dataDir'[DirOf(q)] \in {"missing", "empty", q}
                        /\ create'[q] \in {"route", "activate"} \/ db'[q] = "active" =>
                              /\ dataDir'[DirOf(q)] = q
                              /\ faults' = 0 => ContainerOf(q) \in running'
      BY DEF SlotContents, DirOf, ContainerOf
    <2>1. q \in Rows /\ q \in clean /\ q \in Present
      BY DEF IInv, TypeOK
    <2>2. CASE q = r
      BY <2>1, <2>2, Slot, SMTT(30) DEF IInv, TypeOK, SlotContents, RowsNamed, RowStage
    <2>3. CASE q # r
      <3>1. DirOf(r) # DirOf(q) /\ ContainerOf(r)[2] = DirOf(r)
        BY <2>1, <2>3, Slot DEF IInv, SoleActor, RowsNamed
      <3>. QED BY <2>1, <3>1, Slot, SMTT(30) DEF IInv, TypeOK, SlotContents, RowsNamed, RowStage
    <2>. QED BY <2>2, <2>3
  <1> QED BY <1>1, <1>2, <1>3, <1>4, <1>5, <1>6 DEF IInv

\* CreateStart preserves the invariant: a fresh data dir gets the credentials of
\* the row the container was created for.
LEMMA CreateStartKeeps ==
  ASSUME ProvisioningAssumption, IInv, NEW r \in Rows, CreateStart(r)
  PROVE  IInv'
  <1> USE DEF CreateStart, StartIn, Fault
  <1>1. TypeOK'
    <2>1. create' \in [Rows -> CreatePcs]
      BY SMTT(30) DEF IInv, TypeOK, CreatePcs
    <2>2. dataDir' \in [Names -> Rows \cup {"missing", "empty"}]
      BY Slot, SMTT(30) DEF IInv, TypeOK
    <2>3. running' \subseteq {c \in ContainerNames : container'[c] # None}
      BY Slot, SMTT(30) DEF IInv, TypeOK
    <2>4. faults' \in Nat
      BY SMTT(30) DEF IInv, TypeOK
    <2>5. UNCHANGED <<param, db, container, route, clean, underGuard, deleteVars, ensureVars, bootVars, crashes>>
      OBVIOUS
    <2> HIDE DEF CreateStart
    <2> QED BY <2>1, <2>2, <2>3, <2>4, <2>5, SMTT(30) DEF IInv, TypeOK
  <1>2. RowsNamed'
    BY SMTT(30) DEF IInv, TypeOK, RowsNamed, RowStage
  <1>3. RowStage'
    BY SMTT(30) DEF IInv, TypeOK, RowsNamed, RowStage
  <1>4. NamesUnique'
    BY SMTT(30) DEF IInv, TypeOK, RowsNamed, RowStage, NamesUnique, DirOf
  <1>5. SoleActor'
    BY SMTT(30) DEF IInv, TypeOK, RowsNamed, RowStage, NamesUnique, SoleActor, DirOf
  <1>6. SlotContents'
    BY SMTT(30) DEF IInv, TypeOK, RowsNamed, RowStage, SoleActor, SlotContents, DirOf, ContainerOf, ContainerNames
  <1> QED BY <1>1, <1>2, <1>3, <1>4, <1>5, <1>6 DEF IInv

\* CreateRoute preserves the invariant: it touches only the gateway.
LEMMA CreateRouteKeeps ==
  ASSUME ProvisioningAssumption, IInv, NEW r \in Rows, CreateRoute(r)
  PROVE  IInv'
  <1> USE DEF CreateRoute, Fault
  <1>1. TypeOK'
    <2>1. create' \in [Rows -> CreatePcs]
      BY SMTT(30) DEF IInv, TypeOK, CreatePcs
    <2>2. faults' \in Nat /\ route' \subseteq Rows
      BY SMTT(30) DEF IInv, TypeOK
    <2>3. UNCHANGED <<param, db, container, running, dataDir, clean, underGuard, deleteVars, ensureVars, bootVars, crashes>>
      OBVIOUS
    <2> HIDE DEF CreateRoute
    <2> QED BY <2>1, <2>2, <2>3, SMTT(30) DEF IInv, TypeOK
  <1>2. RowsNamed'
    BY SMTT(30) DEF IInv, TypeOK, RowsNamed, RowStage
  <1>3. RowStage'
    BY SMTT(30) DEF IInv, TypeOK, RowsNamed, RowStage
  <1>4. NamesUnique'
    BY SMTT(30) DEF IInv, TypeOK, RowsNamed, RowStage, NamesUnique, DirOf
  <1>5. SoleActor'
    BY SMTT(30) DEF IInv, TypeOK, RowsNamed, RowStage, NamesUnique, SoleActor, DirOf
  <1>6. SlotContents'
    BY SMTT(30) DEF IInv, TypeOK, RowsNamed, RowStage, SoleActor, SlotContents, DirOf, ContainerOf, ContainerNames
  <1> QED BY <1>1, <1>2, <1>3, <1>4, <1>5, <1>6 DEF IInv

\* CreateActivate preserves the invariant: a row becomes active only when its
\* container was started.
LEMMA CreateActivateKeeps ==
  ASSUME ProvisioningAssumption, IInv, NEW r \in Rows, CreateActivate(r)
  PROVE  IInv'
  <1> USE DEF CreateActivate, Fault
  <1>1. TypeOK'
    <2>1. create' \in [Rows -> CreatePcs]
      BY SMTT(30) DEF IInv, TypeOK, CreatePcs
    <2>2. db' \in [Rows -> {"absent", "provisioning", "active"}]
      BY SMTT(30) DEF IInv, TypeOK
    <2>3. faults' \in Nat
      BY SMTT(30) DEF IInv, TypeOK
    <2>4. UNCHANGED <<param, container, running, dataDir, route, clean, underGuard, deleteVars, ensureVars, bootVars, crashes>>
      OBVIOUS
    <2> HIDE DEF CreateActivate
    <2> QED BY <2>1, <2>2, <2>3, <2>4, SMTT(30) DEF IInv, TypeOK
  <1>2. RowsNamed'
    BY SMTT(30) DEF IInv, TypeOK, RowsNamed, RowStage
  <1>3. RowStage'
    BY SMTT(30) DEF IInv, TypeOK, RowsNamed, RowStage
  <1>4. NamesUnique'
    BY SMTT(30) DEF IInv, TypeOK, RowsNamed, RowStage, NamesUnique, DirOf
  <1>5. SoleActor'
    BY SMTT(30) DEF IInv, TypeOK, RowsNamed, RowStage, NamesUnique, SoleActor, DirOf
  <1>6. SlotContents'
    BY SMTT(30) DEF IInv, TypeOK, RowsNamed, RowStage, SoleActor, SlotContents, DirOf, ContainerOf, ContainerNames
  <1> QED BY <1>1, <1>2, <1>3, <1>4, <1>5, <1>6 DEF IInv

\* RollbackContainer preserves the invariant: a clean row that is present has no
\* other request rolling back in its slot.
LEMMA RollbackContainerKeeps ==
  ASSUME ProvisioningAssumption, IInv, NEW r \in Rows, RollbackContainer(r)
  PROVE  IInv'
  <1> USE DEF RollbackContainer, RemoveContainer, RemoveContainerFails, Fault
  <1>1. TypeOK'
    BY Slot, SMTT(30) DEF IInv, TypeOK, CreatePcs, DeletePcs, EnsurePcs, BootPcs
  <1>2. RowsNamed'
    BY SMTT(30) DEF IInv, TypeOK, RowsNamed, RowStage
  <1>3. RowStage'
    BY SMTT(30) DEF IInv, TypeOK, RowsNamed, RowStage
  <1>4. NamesUnique'
    BY SMTT(30) DEF IInv, TypeOK, RowsNamed, RowStage, NamesUnique, DirOf
  <1>5. SoleActor'
    BY SMTT(30) DEF IInv, TypeOK, RowsNamed, RowStage, NamesUnique, SoleActor, DirOf
  <1>6. SlotContents'
    <2> SUFFICES ASSUME NEW q \in (clean \cap Present)'
                 PROVE  /\ \A c \in ContainerNames : c[2] = DirOf(q) =>
                              /\ container'[c] \in {q, None}
                              /\ c # ContainerOf(q) => container'[c] = None
                        /\ dataDir'[DirOf(q)] \in {"missing", "empty", q}
                        /\ create'[q] \in {"route", "activate"} \/ db'[q] = "active" =>
                              /\ dataDir'[DirOf(q)] = q
                              /\ faults' = 0 => ContainerOf(q) \in running'
      BY DEF SlotContents, DirOf, ContainerOf
    <2>1. q \in Rows /\ q \in clean /\ q \in Present
      BY DEF IInv, TypeOK
    <2>2. CASE q = r
      BY <2>1, <2>2, Slot, SMTT(30) DEF IInv, TypeOK, SlotContents, RowsNamed, RowStage
    <2>3. CASE q # r
      <3>1. DirOf(r) # DirOf(q) /\ ContainerOf(r)[2] = DirOf(r)
        BY <2>1, <2>3, Slot DEF IInv, SoleActor, RowsNamed
      <3>. QED BY <2>1, <3>1, Slot, SMTT(30) DEF IInv, TypeOK, SlotContents, RowsNamed, RowStage
    <2>. QED BY <2>2, <2>3
  <1> QED BY <1>1, <1>2, <1>3, <1>4, <1>5, <1>6 DEF IInv

\* RollbackRoute preserves the invariant: it touches only the gateway.
LEMMA RollbackRouteKeeps ==
  ASSUME ProvisioningAssumption, IInv, NEW r \in Rows, RollbackRoute(r)
  PROVE  IInv'
  <1> USE DEF RollbackRoute
  <1>1. TypeOK'
    BY Slot, SMTT(30) DEF IInv, TypeOK, CreatePcs, DeletePcs, EnsurePcs, BootPcs
  <1>2. RowsNamed'
    BY SMTT(30) DEF IInv, TypeOK, RowsNamed, RowStage
  <1>3. RowStage'
    BY SMTT(30) DEF IInv, TypeOK, RowsNamed, RowStage
  <1>4. NamesUnique'
    BY SMTT(30) DEF IInv, TypeOK, RowsNamed, RowStage, NamesUnique, DirOf
  <1>5. SoleActor'
    BY SMTT(30) DEF IInv, TypeOK, RowsNamed, RowStage, NamesUnique, SoleActor, DirOf
  <1>6. SlotContents'
    BY SMTT(30) DEF IInv, TypeOK, RowsNamed, RowStage, SoleActor, SlotContents, DirOf, ContainerOf, ContainerNames
  <1> QED BY <1>1, <1>2, <1>3, <1>4, <1>5, <1>6 DEF IInv

\* RollbackRow preserves the invariant: the row leaves the table.
LEMMA RollbackRowKeeps ==
  ASSUME ProvisioningAssumption, IInv, NEW r \in Rows, RollbackRow(r)
  PROVE  IInv'
  <1> USE DEF RollbackRow, Fault
  <1>1. TypeOK'
    <2>1. create' \in [Rows -> CreatePcs]
      BY SMTT(30) DEF IInv, TypeOK, CreatePcs
    <2>2. db' \in [Rows -> {"absent", "provisioning", "active"}]
      BY SMTT(30) DEF IInv, TypeOK
    <2>3. faults' \in Nat
      BY SMTT(30) DEF IInv, TypeOK
    <2>4. UNCHANGED <<param, container, running, dataDir, route, clean, underGuard, deleteVars, ensureVars, bootVars, crashes>>
      OBVIOUS
    <2> HIDE DEF RollbackRow
    <2> QED BY <2>1, <2>2, <2>3, <2>4, SMTT(30) DEF IInv, TypeOK
  <1>2. RowsNamed'
    BY SMTT(30) DEF IInv, TypeOK, RowsNamed, RowStage
  <1>3. RowStage'
    BY SMTT(30) DEF IInv, TypeOK, RowsNamed, RowStage
  <1>4. NamesUnique'
    BY SMTT(30) DEF IInv, TypeOK, RowsNamed, RowStage, NamesUnique, DirOf
  <1>5. SoleActor'
    BY SMTT(30) DEF IInv, TypeOK, RowsNamed, RowStage, NamesUnique, SoleActor, DirOf
  <1>6. SlotContents'
    BY SMTT(30) DEF IInv, TypeOK, RowsNamed, RowStage, SoleActor, SlotContents, DirOf, ContainerOf, ContainerNames
  <1> QED BY <1>1, <1>2, <1>3, <1>4, <1>5, <1>6 DEF IInv

\* DeleteLookup preserves the invariant: it names a row that was inserted.
LEMMA DeleteLookupKeeps ==
  ASSUME ProvisioningAssumption, IInv, NEW d \in Requests, DeleteLookup(d)
  PROVE  IInv'
  <1> USE DEF DeleteLookup
  <1>1. TypeOK'
    BY SMTT(30) DEF IInv, RowsNamed, TypeOK, CreatePcs, DeletePcs, EnsurePcs, BootPcs
  <1>2. RowsNamed'
    BY SMTT(30) DEF IInv, TypeOK, RowsNamed, RowStage
  <1>3. RowStage'
    BY SMTT(30) DEF IInv, TypeOK, RowsNamed, RowStage
  <1>4. NamesUnique'
    BY SMTT(30) DEF IInv, TypeOK, RowsNamed, RowStage, NamesUnique, DirOf
  <1>5. SoleActor'
    BY SMTT(30) DEF IInv, TypeOK, RowsNamed, RowStage, NamesUnique, SoleActor, DirOf
  <1>6. SlotContents'
    BY SMTT(30) DEF IInv, TypeOK, RowsNamed, RowStage, SoleActor, SlotContents, DirOf, ContainerOf, ContainerNames
  <1> QED BY <1>1, <1>2, <1>3, <1>4, <1>5, <1>6 DEF IInv

\* DeleteRow preserves the invariant: whoever goes on to the teardown has deleted
\* the row itself.
LEMMA DeleteRowKeeps ==
  ASSUME ProvisioningAssumption, IInv, NEW d \in Requests, DeleteRow(d)
  PROVE  IInv'
  <1> USE DEF DeleteRow
  <1>1. TypeOK'
    <2>1. delete' \in [Requests -> DeletePcs]
      BY SMTT(30) DEF IInv, TypeOK, DeletePcs
    <2>2. db' \in [Rows -> {"absent", "provisioning", "active"}]
      BY SMTT(30) DEF IInv, TypeOK, RowsNamed
    <2>3. UNCHANGED <<param, container, running, dataDir, route, deleteRow, tearingDown,
                    createVars, ensureVars, bootVars, crashes, faults>>
      OBVIOUS
    <2> HIDE DEF DeleteRow
    <2> QED BY <2>1, <2>2, <2>3, SMTT(30) DEF IInv, TypeOK
  <1>2. RowsNamed'
    BY SMTT(30) DEF IInv, TypeOK, RowsNamed, RowStage
  <1>3. RowStage'
    BY SMTT(30) DEF IInv, TypeOK, RowsNamed, RowStage
  <1>4. NamesUnique'
    BY SMTT(30) DEF IInv, TypeOK, RowsNamed, RowStage, NamesUnique, DirOf
  <1>5. SoleActor'
    BY SMTT(30) DEF IInv, TypeOK, RowsNamed, RowStage, NamesUnique, SoleActor, DirOf
  <1>6. SlotContents'
    BY SMTT(30) DEF IInv, TypeOK, RowsNamed, RowStage, SoleActor, SlotContents, DirOf, ContainerOf, ContainerNames
  <1> QED BY <1>1, <1>2, <1>3, <1>4, <1>5, <1>6 DEF IInv

\* DeleteRespond preserves the invariant: it only raises the guard.
LEMMA DeleteRespondKeeps ==
  ASSUME ProvisioningAssumption, IInv, NEW d \in Requests, DeleteRespond(d)
  PROVE  IInv'
  <1> USE DEF DeleteRespond
  <1>1. TypeOK'
    BY Slot, SMTT(30) DEF IInv, RowsNamed, TypeOK, CreatePcs, DeletePcs, EnsurePcs, BootPcs
  <1>2. RowsNamed'
    BY SMTT(30) DEF IInv, TypeOK, RowsNamed, RowStage
  <1>3. RowStage'
    BY SMTT(30) DEF IInv, TypeOK, RowsNamed, RowStage
  <1>4. NamesUnique'
    BY SMTT(30) DEF IInv, TypeOK, RowsNamed, RowStage, NamesUnique, DirOf
  <1>5. SoleActor'
    BY SMTT(30) DEF IInv, TypeOK, RowsNamed, RowStage, NamesUnique, SoleActor, DirOf
  <1>6. SlotContents'
    BY SMTT(30) DEF IInv, TypeOK, RowsNamed, RowStage, SoleActor, SlotContents, DirOf, ContainerOf, ContainerNames
  <1> QED BY <1>1, <1>2, <1>3, <1>4, <1>5, <1>6 DEF IInv

\* TeardownContainer preserves the invariant: no teardown is in a clean slot.
LEMMA TeardownContainerKeeps ==
  ASSUME ProvisioningAssumption, IInv, NEW d \in Requests, TeardownContainer(d)
  PROVE  IInv'
  <1> USE DEF TeardownContainer, RemoveContainer, RemoveContainerFails, Fault
  <1>1. TypeOK'
    BY Slot, SMTT(30) DEF IInv, RowsNamed, TypeOK, CreatePcs, DeletePcs, EnsurePcs, BootPcs
  <1>2. RowsNamed'
    BY SMTT(30) DEF IInv, TypeOK, RowsNamed, RowStage
  <1>3. RowStage'
    BY SMTT(30) DEF IInv, TypeOK, RowsNamed, RowStage
  <1>4. NamesUnique'
    BY SMTT(30) DEF IInv, TypeOK, RowsNamed, RowStage, NamesUnique, DirOf
  <1>5. SoleActor'
    BY SMTT(30) DEF IInv, TypeOK, RowsNamed, RowStage, NamesUnique, SoleActor, DirOf
  <1>6. SlotContents'
    BY SMTT(30) DEF IInv, TypeOK, RowsNamed, RowStage, SoleActor, SlotContents, DirOf, ContainerOf, ContainerNames
  <1> QED BY <1>1, <1>2, <1>3, <1>4, <1>5, <1>6 DEF IInv

\* TeardownDataDir preserves the invariant: no teardown is in a clean slot.
LEMMA TeardownDataDirKeeps ==
  ASSUME ProvisioningAssumption, IInv, NEW d \in Requests, TeardownDataDir(d)
  PROVE  IInv'
  <1> USE DEF TeardownDataDir, Fault
  <1>1. TypeOK'
    BY Slot, SMTT(30) DEF IInv, RowsNamed, TypeOK, CreatePcs, DeletePcs, EnsurePcs, BootPcs
  <1>2. RowsNamed'
    BY SMTT(30) DEF IInv, TypeOK, RowsNamed, RowStage
  <1>3. RowStage'
    BY SMTT(30) DEF IInv, TypeOK, RowsNamed, RowStage
  <1>4. NamesUnique'
    BY SMTT(30) DEF IInv, TypeOK, RowsNamed, RowStage, NamesUnique, DirOf
  <1>5. SoleActor'
    BY SMTT(30) DEF IInv, TypeOK, RowsNamed, RowStage, NamesUnique, SoleActor, DirOf
  <1>6. SlotContents'
    BY SMTT(30) DEF IInv, TypeOK, RowsNamed, RowStage, SoleActor, SlotContents, DirOf, ContainerOf, ContainerNames
  <1> QED BY <1>1, <1>2, <1>3, <1>4, <1>5, <1>6 DEF IInv

\* TeardownRoute preserves the invariant: it touches only the gateway and the guard.
LEMMA TeardownRouteKeeps ==
  ASSUME ProvisioningAssumption, IInv, NEW d \in Requests, TeardownRoute(d)
  PROVE  IInv'
  <1> USE DEF TeardownRoute
  <1>1. TypeOK'
    BY Slot, SMTT(30) DEF IInv, RowsNamed, TypeOK, CreatePcs, DeletePcs, EnsurePcs, BootPcs
  <1>2. RowsNamed'
    BY SMTT(30) DEF IInv, TypeOK, RowsNamed, RowStage
  <1>3. RowStage'
    BY SMTT(30) DEF IInv, TypeOK, RowsNamed, RowStage
  <1>4. NamesUnique'
    BY SMTT(30) DEF IInv, TypeOK, RowsNamed, RowStage, NamesUnique, DirOf
  <1>5. SoleActor'
    BY SMTT(30) DEF IInv, TypeOK, RowsNamed, RowStage, NamesUnique, SoleActor, DirOf
  <1>6. SlotContents'
    BY SMTT(30) DEF IInv, TypeOK, RowsNamed, RowStage, SoleActor, SlotContents, DirOf, ContainerOf, ContainerNames
  <1> QED BY <1>1, <1>2, <1>3, <1>4, <1>5, <1>6 DEF IInv

\* StartLookup preserves the invariant: the row it names is active, and a clean
\* slot has no other.
LEMMA StartLookupKeeps ==
  ASSUME ProvisioningAssumption, IInv, NEW s \in Requests, StartLookup(s)
  PROVE  IInv'
  <1> USE DEF StartLookup
  <1>1. TypeOK'
    BY SMTT(30) DEF IInv, TypeOK, CreatePcs, DeletePcs, EnsurePcs, BootPcs
  <1>2. RowsNamed'
    BY SMTT(30) DEF IInv, TypeOK, RowsNamed, RowStage
  <1>3. RowStage'
    BY SMTT(30) DEF IInv, TypeOK, RowsNamed, RowStage
  <1>4. NamesUnique'
    BY SMTT(30) DEF IInv, TypeOK, RowsNamed, RowStage, NamesUnique, DirOf
  <1>5. SoleActor'
    BY SMTT(30) DEF IInv, TypeOK, RowsNamed, RowStage, NamesUnique, SoleActor, DirOf
  <1>6. SlotContents'
    BY SMTT(30) DEF IInv, TypeOK, RowsNamed, RowStage, SoleActor, SlotContents, DirOf, ContainerOf, ContainerNames
  <1> QED BY <1>1, <1>2, <1>3, <1>4, <1>5, <1>6 DEF IInv

\* StartRoute preserves the invariant: it touches only the gateway.
LEMMA StartRouteKeeps ==
  ASSUME ProvisioningAssumption, IInv, NEW s \in Requests, StartRoute(s)
  PROVE  IInv'
  <1> USE DEF StartRoute
  <1>1. TypeOK'
    BY SMTT(30) DEF IInv, TypeOK, RowsNamed, EnsurePcs
  <1>2. RowsNamed'
    BY SMTT(30) DEF IInv, TypeOK, RowsNamed, RowStage
  <1>3. RowStage'
    BY SMTT(30) DEF IInv, TypeOK, RowsNamed, RowStage
  <1>4. NamesUnique'
    BY SMTT(30) DEF IInv, TypeOK, RowsNamed, RowStage, NamesUnique, DirOf
  <1>5. SoleActor'
    BY SMTT(30) DEF IInv, TypeOK, RowsNamed, RowStage, NamesUnique, SoleActor, DirOf
  <1>6. SlotContents'
    BY SMTT(30) DEF IInv, TypeOK, RowsNamed, RowStage, SoleActor, SlotContents, DirOf, ContainerOf, ContainerNames
  <1> QED BY <1>1, <1>2, <1>3, <1>4, <1>5, <1>6 DEF IInv

\* EnsureInspect preserves the invariant: it only reads Docker's state.
LEMMA EnsureInspectKeeps ==
  ASSUME ProvisioningAssumption, IInv, NEW e \in Ensurers, EnsureInspect(e)
  PROVE  IInv'
  <1> USE DEF EnsureInspect, AfterRunning
  <1>1. TypeOK'
    BY Slot, SMTT(30) DEF IInv, RowsNamed, TypeOK, CreatePcs, DeletePcs, EnsurePcs, BootPcs
  <1>2. RowsNamed'
    BY SMTT(30) DEF IInv, TypeOK, RowsNamed, RowStage
  <1>3. RowStage'
    BY SMTT(30) DEF IInv, TypeOK, RowsNamed, RowStage
  <1>4. NamesUnique'
    BY SMTT(30) DEF IInv, TypeOK, RowsNamed, RowStage, NamesUnique, DirOf
  <1>5. SoleActor'
    BY SMTT(30) DEF IInv, TypeOK, RowsNamed, RowStage, NamesUnique, SoleActor, DirOf
  <1>6. SlotContents'
    BY SMTT(30) DEF IInv, TypeOK, RowsNamed, RowStage, SoleActor, SlotContents, DirOf, ContainerOf, ContainerNames
  <1> QED BY <1>1, <1>2, <1>3, <1>4, <1>5, <1>6 DEF IInv

\* EnsureRestart preserves the invariant: a container started by name in a clean
\* slot is the one of the slot's row.
LEMMA EnsureRestartKeeps ==
  ASSUME ProvisioningAssumption, IInv, NEW e \in Ensurers, EnsureRestart(e)
  PROVE  IInv'
  <1> USE DEF EnsureRestart, StartIn, AfterRunning
  <1>1. TypeOK'
    <2>1. ensure' \in [Ensurers -> EnsurePcs]
      BY SMTT(30) DEF IInv, TypeOK, EnsurePcs
    <2>2. dataDir' \in [Names -> Rows \cup {"missing", "empty"}]
      BY Slot, SMTT(30) DEF IInv, RowsNamed, TypeOK
    <2>3. running' \subseteq {c \in ContainerNames : container'[c] # None}
      BY Slot, SMTT(30) DEF IInv, RowsNamed, TypeOK
    <2>4. UNCHANGED <<param, db, container, route, createVars, deleteVars, ensureRow, bootVars,
                    crashes, faults>>
      OBVIOUS
    <2> HIDE DEF EnsureRestart
    <2> QED BY <2>1, <2>2, <2>3, <2>4, SMTT(30) DEF IInv, TypeOK
  <1>2. RowsNamed'
    BY SMTT(30) DEF IInv, TypeOK, RowsNamed, RowStage
  <1>3. RowStage'
    BY SMTT(30) DEF IInv, TypeOK, RowsNamed, RowStage
  <1>4. NamesUnique'
    BY SMTT(30) DEF IInv, TypeOK, RowsNamed, RowStage, NamesUnique, DirOf
  <1>5. SoleActor'
    BY SMTT(30) DEF IInv, TypeOK, RowsNamed, RowStage, NamesUnique, SoleActor, DirOf
  <1>6. SlotContents'
    BY SMTT(30) DEF IInv, TypeOK, RowsNamed, RowStage, SoleActor, SlotContents, DirOf, ContainerOf, ContainerNames
  <1> QED BY <1>1, <1>2, <1>3, <1>4, <1>5, <1>6 DEF IInv

\* EnsurePrepare preserves the invariant: making a directory changes no contents.
LEMMA EnsurePrepareKeeps ==
  ASSUME ProvisioningAssumption, IInv, NEW e \in Ensurers, EnsurePrepare(e)
  PROVE  IInv'
  <1> USE DEF EnsurePrepare, MakeDir, Fault
  <1>1. TypeOK'
    <2>1. ensure' \in [Ensurers -> EnsurePcs]
      BY SMTT(30) DEF IInv, TypeOK, EnsurePcs
    <2>2. dataDir' \in [Names -> Rows \cup {"missing", "empty"}]
      BY Slot, SMTT(30) DEF IInv, RowsNamed, TypeOK
    <2>3. faults' \in Nat
      BY SMTT(30) DEF IInv, TypeOK
    <2>4. UNCHANGED <<param, db, container, running, route, createVars, deleteVars, ensureRow, bootVars, crashes>>
      OBVIOUS
    <2> HIDE DEF EnsurePrepare
    <2> QED BY <2>1, <2>2, <2>3, <2>4, SMTT(30) DEF IInv, TypeOK
  <1>2. RowsNamed'
    BY SMTT(30) DEF IInv, TypeOK, RowsNamed, RowStage
  <1>3. RowStage'
    BY SMTT(30) DEF IInv, TypeOK, RowsNamed, RowStage
  <1>4. NamesUnique'
    BY SMTT(30) DEF IInv, TypeOK, RowsNamed, RowStage, NamesUnique, DirOf
  <1>5. SoleActor'
    BY SMTT(30) DEF IInv, TypeOK, RowsNamed, RowStage, NamesUnique, SoleActor, DirOf
  <1>6. SlotContents'
    BY SMTT(30) DEF IInv, TypeOK, RowsNamed, RowStage, SoleActor, SlotContents, DirOf, ContainerOf, ContainerNames
  <1> QED BY <1>1, <1>2, <1>3, <1>4, <1>5, <1>6 DEF IInv

\* EnsureCreate preserves the invariant: in a clean slot only the slot's own row
\* is ensured.
LEMMA EnsureCreateKeeps ==
  ASSUME ProvisioningAssumption, IInv, NEW e \in Ensurers, EnsureCreate(e)
  PROVE  IInv'
  <1> USE DEF EnsureCreate
  <1>1. TypeOK'
    BY Slot, SMTT(30) DEF IInv, RowsNamed, TypeOK, CreatePcs, DeletePcs, EnsurePcs, BootPcs
  <1>2. RowsNamed'
    BY SMTT(30) DEF IInv, TypeOK, RowsNamed, RowStage
  <1>3. RowStage'
    BY SMTT(30) DEF IInv, TypeOK, RowsNamed, RowStage
  <1>4. NamesUnique'
    BY SMTT(30) DEF IInv, TypeOK, RowsNamed, RowStage, NamesUnique, DirOf
  <1>5. SoleActor'
    BY SMTT(30) DEF IInv, TypeOK, RowsNamed, RowStage, NamesUnique, SoleActor, DirOf
  <1>6. SlotContents'
    <2> SUFFICES ASSUME NEW q \in (clean \cap Present)'
                 PROVE  /\ \A c \in ContainerNames : c[2] = DirOf(q) =>
                              /\ container'[c] \in {q, None}
                              /\ c # ContainerOf(q) => container'[c] = None
                        /\ dataDir'[DirOf(q)] \in {"missing", "empty", q}
                        /\ create'[q] \in {"route", "activate"} \/ db'[q] = "active" =>
                              /\ dataDir'[DirOf(q)] = q
                              /\ faults' = 0 => ContainerOf(q) \in running'
      BY DEF SlotContents, DirOf, ContainerOf
    <2>1. q \in Rows /\ q \in clean /\ q \in Present
      BY DEF IInv, TypeOK
    <2>2. CASE q = ensureRow[e]
      BY <2>1, <2>2, Slot, SMTT(30) DEF IInv, TypeOK, SlotContents, RowsNamed, RowStage
    <2>3. CASE q # ensureRow[e]
      <3>1. DirOf(ensureRow[e]) # DirOf(q) /\ ContainerOf(ensureRow[e])[2] = DirOf(ensureRow[e])
        BY <2>1, <2>3, Slot DEF IInv, SoleActor, RowsNamed
      <3>. QED BY <2>1, <3>1, Slot, SMTT(30) DEF IInv, TypeOK, SlotContents, RowsNamed, RowStage
    <2>. QED BY <2>2, <2>3
  <1> QED BY <1>1, <1>2, <1>3, <1>4, <1>5, <1>6 DEF IInv

\* EnsureStart preserves the invariant: it starts the container it created.
LEMMA EnsureStartKeeps ==
  ASSUME ProvisioningAssumption, IInv, NEW e \in Ensurers, EnsureStart(e)
  PROVE  IInv'
  <1> USE DEF EnsureStart, StartIn, AfterRunning
  <1>1. TypeOK'
    <2>1. ensureRow[e] \in Rows
      BY DEF IInv, RowsNamed
    <2>2. /\ ContainerOf(ensureRow[e]) \in ContainerNames
          /\ ContainerOf(ensureRow[e])[2] \in Names
      BY <2>1, Slot DEF IInv
    <2>. QED BY <2>1, <2>2, SMTT(30) DEF IInv, TypeOK, EnsurePcs
  <1>2. RowsNamed'
    BY SMTT(30) DEF IInv, TypeOK, RowsNamed, RowStage
  <1>3. RowStage'
    BY SMTT(30) DEF IInv, TypeOK, RowsNamed, RowStage
  <1>4. NamesUnique'
    BY SMTT(30) DEF IInv, TypeOK, RowsNamed, RowStage, NamesUnique, DirOf
  <1>5. SoleActor'
    BY SMTT(30) DEF IInv, TypeOK, RowsNamed, RowStage, NamesUnique, SoleActor, DirOf
  <1>6. SlotContents'
    BY SMTT(30) DEF IInv, TypeOK, RowsNamed, RowStage, SoleActor, SlotContents, DirOf, ContainerOf, ContainerNames
  <1> QED BY <1>1, <1>2, <1>3, <1>4, <1>5, <1>6 DEF IInv

\* EnsureFail preserves the invariant: it only ends a call, at the price of a fault.
LEMMA EnsureFailKeeps ==
  ASSUME ProvisioningAssumption, IInv, NEW e \in Ensurers, EnsureFail(e)
  PROVE  IInv'
  <1> USE DEF EnsureFail, Fault
  <1>1. TypeOK'
    BY Slot, SMTT(30) DEF IInv, RowsNamed, TypeOK, CreatePcs, DeletePcs, EnsurePcs, BootPcs
  <1>2. RowsNamed'
    BY SMTT(30) DEF IInv, TypeOK, RowsNamed, RowStage
  <1>3. RowStage'
    BY SMTT(30) DEF IInv, TypeOK, RowsNamed, RowStage
  <1>4. NamesUnique'
    BY SMTT(30) DEF IInv, TypeOK, RowsNamed, RowStage, NamesUnique, DirOf
  <1>5. SoleActor'
    BY SMTT(30) DEF IInv, TypeOK, RowsNamed, RowStage, NamesUnique, SoleActor, DirOf
  <1>6. SlotContents'
    BY SMTT(30) DEF IInv, TypeOK, RowsNamed, RowStage, SoleActor, SlotContents, DirOf, ContainerOf, ContainerNames
  <1> QED BY <1>1, <1>2, <1>3, <1>4, <1>5, <1>6 DEF IInv

\* BootRead preserves the invariant: the rows it queues are active, and a clean
\* slot has no other.
LEMMA BootReadKeeps ==
  ASSUME ProvisioningAssumption, IInv, BootRead
  PROVE  IInv'
  <1> USE DEF BootRead
  <1>1. TypeOK'
    BY SMTT(30) DEF IInv, TypeOK, CreatePcs, DeletePcs, EnsurePcs, BootPcs
  <1>2. RowsNamed'
    BY SMTT(30) DEF IInv, TypeOK, RowsNamed, RowStage
  <1>3. RowStage'
    BY SMTT(30) DEF IInv, TypeOK, RowsNamed, RowStage
  <1>4. NamesUnique'
    BY SMTT(30) DEF IInv, TypeOK, RowsNamed, RowStage, NamesUnique, DirOf
  <1>5. SoleActor'
    BY SMTT(30) DEF IInv, TypeOK, RowsNamed, RowStage, NamesUnique, SoleActor, DirOf
  <1>6. SlotContents'
    BY SMTT(30) DEF IInv, TypeOK, RowsNamed, RowStage, SoleActor, SlotContents, DirOf, ContainerOf, ContainerNames
  <1> QED BY <1>1, <1>2, <1>3, <1>4, <1>5, <1>6 DEF IInv

\* BootWipe preserves the invariant: it touches only the gateway.
LEMMA BootWipeKeeps ==
  ASSUME ProvisioningAssumption, IInv, BootWipe
  PROVE  IInv'
  <1> USE DEF BootWipe
  <1>1. TypeOK'
    BY Slot, SMTT(30) DEF IInv, TypeOK, CreatePcs, DeletePcs, EnsurePcs, BootPcs
  <1>2. RowsNamed'
    BY SMTT(30) DEF IInv, TypeOK, RowsNamed, RowStage
  <1>3. RowStage'
    BY SMTT(30) DEF IInv, TypeOK, RowsNamed, RowStage
  <1>4. NamesUnique'
    BY SMTT(30) DEF IInv, TypeOK, RowsNamed, RowStage, NamesUnique, DirOf
  <1>5. SoleActor'
    BY SMTT(30) DEF IInv, TypeOK, RowsNamed, RowStage, NamesUnique, SoleActor, DirOf
  <1>6. SlotContents'
    BY SMTT(30) DEF IInv, TypeOK, RowsNamed, RowStage, SoleActor, SlotContents, DirOf, ContainerOf, ContainerNames
  <1> QED BY <1>1, <1>2, <1>3, <1>4, <1>5, <1>6 DEF IInv

\* BootWrite preserves the invariant: it touches only the gateway.
LEMMA BootWriteKeeps ==
  ASSUME ProvisioningAssumption, IInv, BootWrite
  PROVE  IInv'
  <1> USE DEF BootWrite
  <1>1. TypeOK'
    BY Slot, SMTT(30) DEF IInv, TypeOK, CreatePcs, DeletePcs, EnsurePcs, BootPcs
  <1>2. RowsNamed'
    BY SMTT(30) DEF IInv, TypeOK, RowsNamed, RowStage
  <1>3. RowStage'
    BY SMTT(30) DEF IInv, TypeOK, RowsNamed, RowStage
  <1>4. NamesUnique'
    BY SMTT(30) DEF IInv, TypeOK, RowsNamed, RowStage, NamesUnique, DirOf
  <1>5. SoleActor'
    BY SMTT(30) DEF IInv, TypeOK, RowsNamed, RowStage, NamesUnique, SoleActor, DirOf
  <1>6. SlotContents'
    BY SMTT(30) DEF IInv, TypeOK, RowsNamed, RowStage, SoleActor, SlotContents, DirOf, ContainerOf, ContainerNames
  <1> QED BY <1>1, <1>2, <1>3, <1>4, <1>5, <1>6 DEF IInv

\* BootReconcile preserves the invariant: it ensures a row it queued.
LEMMA BootReconcileKeeps ==
  ASSUME ProvisioningAssumption, IInv, BootReconcile
  PROVE  IInv'
  <1> USE DEF BootReconcile
  <1>1. TypeOK'
    BY Slot, SMTT(30) DEF IInv, TypeOK, CreatePcs, DeletePcs, EnsurePcs, BootPcs
  <1>2. RowsNamed'
    BY SMTT(30) DEF IInv, TypeOK, RowsNamed, RowStage
  <1>3. RowStage'
    BY SMTT(30) DEF IInv, TypeOK, RowsNamed, RowStage
  <1>4. NamesUnique'
    BY SMTT(30) DEF IInv, TypeOK, RowsNamed, RowStage, NamesUnique, DirOf
  <1>5. SoleActor'
    BY SMTT(30) DEF IInv, TypeOK, RowsNamed, RowStage, NamesUnique, SoleActor, DirOf
  <1>6. SlotContents'
    BY SMTT(30) DEF IInv, TypeOK, RowsNamed, RowStage, SoleActor, SlotContents, DirOf, ContainerOf, ContainerNames
  <1> QED BY <1>1, <1>2, <1>3, <1>4, <1>5, <1>6 DEF IInv

\* Crash preserves the invariant: it ends every request, so it only drops actors.
LEMMA CrashKeeps ==
  ASSUME ProvisioningAssumption, IInv, Crash
  PROVE  IInv'
  <1> USE DEF Crash
  <1>1. TypeOK'
    BY SMTT(30) DEF IInv, TypeOK, CreatePcs, DeletePcs, EnsurePcs, BootPcs
  <1>2. RowsNamed'
    BY SMTT(30) DEF IInv, TypeOK, RowsNamed, RowStage
  <1>3. RowStage'
    BY SMTT(30) DEF IInv, TypeOK, RowsNamed, RowStage
  <1>4. NamesUnique'
    BY SMTT(30) DEF IInv, TypeOK, RowsNamed, RowStage, NamesUnique, DirOf
  <1>5. SoleActor'
    BY SMTT(30) DEF IInv, TypeOK, RowsNamed, RowStage, NamesUnique, SoleActor, DirOf
  <1>6. SlotContents'
    BY SMTT(30) DEF IInv, TypeOK, RowsNamed, RowStage, SoleActor, SlotContents, DirOf, ContainerOf, ContainerNames
  <1> QED BY <1>1, <1>2, <1>3, <1>4, <1>5, <1>6 DEF IInv

\* Vanish preserves the invariant: it removes or stops a container at the price of
\* a fault.
LEMMA VanishKeeps ==
  ASSUME ProvisioningAssumption, IInv, NEW c \in ContainerNames, Vanish(c)
  PROVE  IInv'
  <1> USE DEF Vanish, RemoveContainer, Fault
  <1>1. TypeOK'
    <2>1. container' \in [ContainerNames -> Rows \cup {None}]
      BY Slot, SMTT(30) DEF IInv, TypeOK
    <2>2. running' \subseteq {k \in ContainerNames : container'[k] # None}
      BY Slot, SMTT(30) DEF IInv, TypeOK
    <2>3. faults' \in Nat
      BY SMTT(30) DEF IInv, TypeOK
    <2>4. UNCHANGED <<param, db, dataDir, route, createVars, deleteVars, ensureVars, bootVars, crashes>>
      OBVIOUS
    <2> HIDE DEF Vanish
    <2> QED BY <2>1, <2>2, <2>3, <2>4, SMTT(30) DEF IInv, TypeOK
  <1>2. RowsNamed'
    BY SMTT(30) DEF IInv, TypeOK, RowsNamed, RowStage
  <1>3. RowStage'
    BY SMTT(30) DEF IInv, TypeOK, RowsNamed, RowStage
  <1>4. NamesUnique'
    BY SMTT(30) DEF IInv, TypeOK, RowsNamed, RowStage, NamesUnique, DirOf
  <1>5. SoleActor'
    BY SMTT(30) DEF IInv, TypeOK, RowsNamed, RowStage, NamesUnique, SoleActor, DirOf
  <1>6. SlotContents'
    BY SMTT(30) DEF IInv, TypeOK, RowsNamed, RowStage, SoleActor, SlotContents, DirOf, ContainerOf, ContainerNames
  <1> QED BY <1>1, <1>2, <1>3, <1>4, <1>5, <1>6 DEF IInv

-----------------------------------------------------------------------------

\* The initial states satisfy the inductive invariant.
LEMMA InitIInv ==
  ASSUME ProvisioningAssumption, Init
  PROVE  IInv
  <1>1. TypeOK
    BY SMTT(30) DEF Init, TypeOK, CreatePcs, DeletePcs, EnsurePcs, BootPcs
  <1>2. RowsNamed /\ RowStage /\ NamesUnique /\ SoleActor /\ SlotContents
    BY SMTT(30) DEF Init, RowsNamed, RowStage, NamesUnique, SoleActor, SlotContents
  <1> QED BY <1>1, <1>2 DEF IInv

\* Every step of the system preserves it: one lemma per action.
LEMMA NextIInv ==
  ASSUME ProvisioningAssumption, IInv, [Next]_vars
  PROVE  IInv'
  <1>1. ASSUME NEW r \in Rows, Create(r) PROVE IInv'
    BY <1>1, CreateLookupKeeps, CreateInsertKeeps, CreatePrepareKeeps, CreateContainerKeeps,
       CreateStartKeeps, CreateRouteKeeps, CreateActivateKeeps, RollbackContainerKeeps,
       RollbackRouteKeeps, RollbackRowKeeps DEF Create
  <1>2. ASSUME NEW d \in Requests, Delete(d) PROVE IInv'
    BY <1>2, DeleteLookupKeeps, DeleteRowKeeps, DeleteRespondKeeps, TeardownContainerKeeps,
       TeardownDataDirKeeps, TeardownRouteKeeps DEF Delete
  <1>3. ASSUME NEW s \in Requests, StartLookup(s) \/ StartRoute(s) PROVE IInv'
    BY <1>3, StartLookupKeeps, StartRouteKeeps
  <1>4. ASSUME NEW e \in Ensurers, Ensure(e) PROVE IInv'
    BY <1>4, EnsureInspectKeeps, EnsureRestartKeeps, EnsurePrepareKeeps, EnsureCreateKeeps,
       EnsureStartKeeps, EnsureFailKeeps DEF Ensure
  <1>5. CASE Bootstrap
    BY <1>5, BootReadKeeps, BootWipeKeeps, BootWriteKeeps, BootReconcileKeeps DEF Bootstrap
  <1>6. CASE Crash
    BY <1>6, CrashKeeps
  <1>7. ASSUME NEW c \in ContainerNames, Vanish(c) PROVE IInv'
    BY <1>7, VanishKeeps
  <1>8. CASE UNCHANGED vars
    <2>1. TypeOK' /\ RowsNamed'
      BY <1>8, SMTT(30) DEF vars, IInv, TypeOK, RowsNamed
    <2>2. RowStage' /\ NamesUnique'
      BY <1>8, SMTT(30) DEF vars, IInv, RowStage, NamesUnique, DirOf
    <2>3. SoleActor'
      BY <1>8, SMTT(30) DEF vars, IInv, SoleActor, DirOf
    <2>4. SlotContents'
      BY <1>8, SMTT(30) DEF vars, IInv, SlotContents, DirOf, ContainerOf
    <2> QED BY <2>1, <2>2, <2>3, <2>4 DEF IInv
  <1> QED
    BY <1>1, <1>2, <1>3, <1>4, <1>5, <1>6, <1>7, <1>8 DEF Next

\* The conjunction is invariant in every behaviour.
THEOREM Invariance == ProvisioningAssumption => (Spec => []IInv)
  <1> SUFFICES ASSUME ProvisioningAssumption PROVE Spec => []IInv
    OBVIOUS
  <1>1. Init => IInv
    BY InitIInv
  <1>2. IInv /\ [Next]_vars => IInv'
    BY NextIInv
  <1> QED
    BY <1>1, <1>2, PTL DEF Spec

\* Type correctness of every reachable state.
THEOREM TypeCorrect == Spec => []TypeOK
  <1>1. IInv => TypeOK
    BY DEF IInv
  <1> QED
    BY <1>1, Invariance, ProvisioningAssumption, PTL

\* A database inserted into an untouched slot keeps its data dir and its
\* container for as long as its row is active, whatever the other requests, the
\* bootstrap and the failures do.
THEOREM CleanUndisturbed == Spec => []CleanDatabaseUndisturbed
  <1>1. IInv => CleanDatabaseUndisturbed
    <2> SUFFICES ASSUME IInv, NEW r \in clean \cap Active
                 PROVE  /\ dataDir[DirOf(r)] = r
                        /\ \A c \in ContainerNames : c[2] = DirOf(r) =>
                              container[c] \in (IF c = ContainerOf(r) THEN {r, None} ELSE {None})
                        /\ faults = 0 => ContainerOf(r) \in running
      BY DEF CleanDatabaseUndisturbed
    <2>1. r \in clean \cap Present /\ db[r] = "active"
      OBVIOUS
    <2> QED
      BY <2>1 DEF IInv, SlotContents
  <1> QED
    BY <1>1, Invariance, ProvisioningAssumption, PTL


-----------------------------------------------------------------------------
(* NoOrphans: on top of IInv, who still has to remove the container and the  *)
(* route of a row.                                                           *)

\* Neither a start request nor bootstrap was handed row r.
NotHanded(r) == r \notin bootRows /\ \A s \in Requests : ensureRow[s] # r

\* Request d deletes row r and is at one of these steps.
DeletesAt(r, steps) == \E d \in Requests : deleteRow[d] = r /\ delete[d] \in steps

\* bootstrap reconciles only rows it read, since the last crash.
BootNamed ==
    /\ boot = "read" => bootRows = {}
    /\ \A e \in Ensurers : ensure[e] = "new" => ensureRow[e] = None
    /\ crashes = 0 => ensureRow[Boot] \in bootRows \cup {None}

\* A container is created under its row's own name.
OwnName ==
    \A c \in ContainerNames, r \in Rows : container[c] = r => c = ContainerOf(r)

\* Only a Mongo row has a route, or is about to get one.
MongoRoutes ==
    /\ \A r \in Rows : (r \in route \/ create[r] = "route") => param[r].type = "nosql"
    /\ \A e \in Ensurers : ensure[e] = "route" => param[ensureRow[e]].type = "nosql"

\* Whoever still has to remove the container or the route of a row: its own create,
\* which is not past that part of its rollback, or a delete of the row that is not past
\* that part of the teardown; or the row is still there.
ContainerOwed(r) ==
    \/ create[r] \in {"start", "route", "activate", "rollbackContainer"}
    \/ create[r] = "done" /\ (db[r] # "absent" \/ DeletesAt(r, {"respond", "container"}))

RouteOwed(r) ==
    \/ create[r] \in {"activate", "rollbackContainer", "rollbackRoute"}
    \/ create[r] = "done" /\ (db[r] # "absent" \/ DeletesAt(r, TearingDown))

Owed ==
    crashes = 0 /\ faults = 0 =>
        \A r \in Rows : NotHanded(r) =>
            /\ \A c \in ContainerNames : container[c] = r => ContainerOwed(r)
            /\ r \in route => RouteOwed(r)

OInv == BootNamed /\ OwnName /\ MongoRoutes /\ Owed

-----------------------------------------------------------------------------
\* The initial state has no container, no route and no request under way.
LEMMA InitOInv == ProvisioningAssumption /\ Init => OInv
  <1> SUFFICES ASSUME ProvisioningAssumption, Init PROVE OInv
    OBVIOUS
  <1>1. BootNamed
    BY SMTT(30) DEF Init, BootNamed
  <1>2. OwnName
    BY SMTT(30) DEF Init, OwnName, ContainerNames
  <1>3. MongoRoutes
    BY DEF Init, MongoRoutes
  <1>4. Owed
    BY SMTT(30) DEF Init, Owed
  <1> QED BY <1>1, <1>2, <1>3, <1>4 DEF OInv

\* The lookup reads the table: nothing is owed by it.
LEMMA CreateLookupOwed ==
  ASSUME ProvisioningAssumption, IInv, OInv, NEW r \in Rows, CreateLookup(r)
  PROVE  OInv'
  <1> USE DEF CreateLookup, ContainerOf, IInv, TypeOK, OInv
  <1>1. BootNamed'
    BY SMTT(30) DEF BootNamed
  <1>2. OwnName' /\ MongoRoutes'
    BY SMTT(30) DEF OwnName, MongoRoutes
  <1>3. Owed'
    BY SMTT(60) DEF Owed, ContainerOwed, RouteOwed, DeletesAt, NotHanded, BootNamed
  <1> QED BY <1>1, <1>2, <1>3

\* The inserted row has neither container nor route.
LEMMA CreateInsertOwed ==
  ASSUME ProvisioningAssumption, IInv, OInv, NEW r \in Rows, CreateInsert(r)
  PROVE  OInv'
  <1> USE DEF CreateInsert, ContainerOf, IInv, TypeOK, OInv
  <1>1. BootNamed'
    BY SMTT(30) DEF BootNamed
  <1>2. OwnName' /\ MongoRoutes'
    BY SMTT(30) DEF OwnName, MongoRoutes
  <1>3. Owed'
    BY SMTT(60) DEF Owed, ContainerOwed, RouteOwed, DeletesAt, NotHanded, BootNamed
  <1> QED BY <1>1, <1>2, <1>3

\* Data dir and image only; a failure goes to the rollback, which owes both.
LEMMA CreatePrepareOwed ==
  ASSUME ProvisioningAssumption, IInv, OInv, NEW r \in Rows, CreatePrepare(r)
  PROVE  OInv'
  <1> USE DEF CreatePrepare, ContainerOf, IInv, TypeOK, OInv
  <1>1. BootNamed'
    BY SMTT(30) DEF BootNamed, Fault
  <1>2. OwnName' /\ MongoRoutes'
    BY SMTT(30) DEF OwnName, MongoRoutes
  <1>3. Owed'
    BY SMTT(60) DEF Owed, ContainerOwed, RouteOwed, DeletesAt, NotHanded, BootNamed, Fault
  <1> QED BY <1>1, <1>2, <1>3

\* The container created is owed by the request that starts it next.
LEMMA CreateContainerOwed ==
  ASSUME ProvisioningAssumption, IInv, OInv, NEW r \in Rows, CreateContainer(r)
  PROVE  OInv'
  <1> USE DEF CreateContainer, ContainerOf, IInv, TypeOK, OInv
  <1>1. BootNamed'
    BY SMTT(30) DEF BootNamed, Fault
  <1>2. OwnName' /\ MongoRoutes'
    <2>1. OwnName'
      <3>1. container' = container \/ container' = [container EXCEPT ![ContainerOf(r)] = r]
        OBVIOUS
      <3>2. container \in [ContainerNames -> Rows \cup {None}] /\ param' = param /\ OwnName
        OBVIOUS
      <3>3. \A p \in Rows : ContainerOf(p)' = ContainerOf(p)
        BY <3>2 DEF ContainerOf
      <3> HIDE DEF CreateContainer, ContainerOf
      <3> QED BY <3>1, <3>2, <3>3, Slot, SMTT(30) DEF OwnName
    <2>2. MongoRoutes'
      BY SMTT(30) DEF MongoRoutes
    <2> QED BY <2>1, <2>2
  <1>3. Owed'
    <2>1. \A c \in ContainerNames, p \in Rows \ {r} : container'[c] = p => container[c] = p
      OBVIOUS
    <2>2. UNCHANGED <<db, route, delete, deleteRow, ensureRow, bootRows, crashes>>
      OBVIOUS
    <2>3. create'[r] \in {"start", "rollbackContainer"}
      OBVIOUS
    <2>4. \A p \in Rows \ {r} : create'[p] = create[p]
      OBVIOUS
    <2>5. create[r] = "create" /\ (faults' = 0 => faults = 0)
      BY DEF Fault
    <2>6. \A p \in Rows : (NotHanded(p)' => NotHanded(p)) /\ (\A steps : DeletesAt(p, steps)' = DeletesAt(p, steps))
      BY <2>2 DEF NotHanded, DeletesAt
    <2>7. ContainerOwed(r)' /\ ~RouteOwed(r)
      BY <2>3, <2>5 DEF ContainerOwed, RouteOwed
    <2>8. \A p \in Rows \ {r} : (ContainerOwed(p) => ContainerOwed(p)') /\ (RouteOwed(p) => RouteOwed(p)')
      BY <2>2, <2>4 DEF ContainerOwed, RouteOwed, DeletesAt
    <2> HIDE DEF CreateContainer
    <2> QED BY <2>1, <2>2, <2>5, <2>6, <2>7, <2>8, SMTT(30) DEF Owed
  <1> QED BY <1>1, <1>2, <1>3

\* Started or not, the request still owes the container.
LEMMA CreateStartOwed ==
  ASSUME ProvisioningAssumption, IInv, OInv, NEW r \in Rows, CreateStart(r)
  PROVE  OInv'
  <1> USE DEF CreateStart, ContainerOf, IInv, TypeOK, OInv
  <1>1. BootNamed'
    BY SMTT(30) DEF BootNamed, Fault
  <1>2. OwnName' /\ MongoRoutes'
    BY SMTT(30) DEF OwnName, MongoRoutes
  <1>3. Owed'
    BY SMTT(60) DEF Owed, ContainerOwed, RouteOwed, DeletesAt, NotHanded, OwnName, BootNamed, Fault
  <1> QED BY <1>1, <1>2, <1>3

\* The route written is owed by the request, which activates next or rolls back.
LEMMA CreateRouteOwed ==
  ASSUME ProvisioningAssumption, IInv, OInv, NEW r \in Rows, CreateRoute(r)
  PROVE  OInv'
  <1> USE DEF CreateRoute, ContainerOf, IInv, TypeOK, OInv
  <1>1. BootNamed'
    BY SMTT(30) DEF BootNamed, Fault
  <1>2. OwnName' /\ MongoRoutes'
    BY SMTT(30) DEF OwnName, MongoRoutes
  <1>3. Owed'
    BY SMTT(60) DEF Owed, ContainerOwed, RouteOwed, DeletesAt, NotHanded, BootNamed, Fault
  <1> QED BY <1>1, <1>2, <1>3

\* The hand-over: a row found gone sends the request to the rollback, else the row is there.
LEMMA CreateActivateOwed ==
  ASSUME ProvisioningAssumption, IInv, OInv, NEW r \in Rows, CreateActivate(r)
  PROVE  OInv'
  <1> USE DEF CreateActivate, Fault, ContainerOf, IInv, TypeOK, OInv
  <1>1. BootNamed'
    BY SMTT(30) DEF BootNamed
  <1>2. OwnName' /\ MongoRoutes'
    BY SMTT(30) DEF OwnName, MongoRoutes
  <1>3. Owed'
    BY SMTT(60) DEF Owed, ContainerOwed, RouteOwed, DeletesAt, NotHanded, BootNamed
  <1> QED BY <1>1, <1>2, <1>3

\* The container goes; the route is owed by the next step of a Mongo row.
LEMMA RollbackContainerOwed ==
  ASSUME ProvisioningAssumption, IInv, OInv, NEW r \in Rows, RollbackContainer(r)
  PROVE  OInv'
  <1> USE DEF RollbackContainer, ContainerOf, IInv, TypeOK, OInv
  <1>1. BootNamed'
    BY SMTT(30) DEF BootNamed, Fault
  <1>2. OwnName' /\ MongoRoutes'
    <2>1. OwnName'
      <3>1. \E k : container' = container \/ container' = [container EXCEPT ![k] = None]
        BY DEF RemoveContainer, RemoveContainerFails
      <3>2. container \in [ContainerNames -> Rows \cup {None}] /\ param' = param /\ OwnName
        OBVIOUS
      <3>3. \A p \in Rows : ContainerOf(p)' = ContainerOf(p)
        BY <3>2 DEF ContainerOf
      <3> HIDE DEF RollbackContainer, ContainerOf
      <3> QED BY <3>1, <3>2, <3>3, SMTT(30) DEF OwnName, ProvisioningAssumption
    <2>2. MongoRoutes'
      BY SMTT(30) DEF MongoRoutes
    <2> QED BY <2>1, <2>2
  <1>3. Owed'
    <2> SUFFICES ASSUME faults' = 0, crashes' = 0 PROVE Owed'
      BY DEF Owed
    <2>1. UNCHANGED <<db, route, delete, deleteRow, ensureRow, bootRows, crashes, faults>>
      BY DEF Fault, RemoveContainerFails
    <2>2. container' = [container EXCEPT ![ContainerOf(r)] = None] /\ create[r] = "rollbackContainer"
      BY <2>1 DEF Fault, RemoveContainer, RemoveContainerFails
    <2>3. create' = [create EXCEPT ![r] = IF param[r].type = "nosql" THEN "rollbackRoute" ELSE "rollbackRow"]
      OBVIOUS
    <2>4. \A c \in ContainerNames, p \in Rows : container'[c] = p => container[c] = p /\ p # r
      BY <2>2, Slot DEF OwnName, ProvisioningAssumption
    <2>5. \A p \in Rows \ {r} : create'[p] = create[p]
      OBVIOUS
    <2>6. r \in route => RouteOwed(r)'
      BY <2>3 DEF RouteOwed, MongoRoutes
    <2>7. \A p \in Rows : NotHanded(p)' => NotHanded(p)
      BY <2>1 DEF NotHanded
    <2>8. \A p \in Rows \ {r} : (ContainerOwed(p) => ContainerOwed(p)') /\ (RouteOwed(p) => RouteOwed(p)')
      BY <2>1, <2>5 DEF ContainerOwed, RouteOwed, DeletesAt
    <2> HIDE DEF RollbackContainer
    <2> QED BY <2>1, <2>4, <2>6, <2>7, <2>8, SMTT(30) DEF Owed
  <1> QED BY <1>1, <1>2, <1>3

\* The route goes.
LEMMA RollbackRouteOwed ==
  ASSUME ProvisioningAssumption, IInv, OInv, NEW r \in Rows, RollbackRoute(r)
  PROVE  OInv'
  <1> USE DEF RollbackRoute, ContainerOf, IInv, TypeOK, OInv
  <1>1. BootNamed'
    BY SMTT(30) DEF BootNamed
  <1>2. OwnName' /\ MongoRoutes'
    BY SMTT(30) DEF OwnName, MongoRoutes
  <1>3. Owed'
    BY SMTT(60) DEF Owed, ContainerOwed, RouteOwed, DeletesAt, NotHanded, BootNamed
  <1> QED BY <1>1, <1>2, <1>3

\* The row goes; container and route went before it.
LEMMA RollbackRowOwed ==
  ASSUME ProvisioningAssumption, IInv, OInv, NEW r \in Rows, RollbackRow(r)
  PROVE  OInv'
  <1> USE DEF RollbackRow, Fault, ContainerOf, IInv, TypeOK, OInv
  <1>1. BootNamed'
    BY SMTT(30) DEF BootNamed
  <1>2. OwnName' /\ MongoRoutes'
    BY SMTT(30) DEF OwnName, MongoRoutes
  <1>3. Owed'
    BY SMTT(60) DEF Owed, ContainerOwed, RouteOwed, DeletesAt, NotHanded, BootNamed
  <1> QED BY <1>1, <1>2, <1>3

\* The lookup reads the table.
LEMMA DeleteLookupOwed ==
  ASSUME ProvisioningAssumption, IInv, OInv, NEW d \in Requests, DeleteLookup(d)
  PROVE  OInv'
  <1> USE DEF DeleteLookup, ContainerOf, IInv, TypeOK, OInv
  <1>1. BootNamed'
    BY SMTT(30) DEF BootNamed
  <1>2. OwnName' /\ MongoRoutes'
    BY SMTT(30) DEF OwnName, MongoRoutes
  <1>3. Owed'
    BY SMTT(60) DEF Owed, ContainerOwed, RouteOwed, DeletesAt, NotHanded, BootNamed
  <1> QED BY <1>1, <1>2, <1>3

\* The hand-over: whoever finds the row present deletes it and owes the teardown.
LEMMA DeleteRowOwed ==
  ASSUME ProvisioningAssumption, IInv, OInv, NEW d \in Requests, DeleteRow(d)
  PROVE  OInv'
  <1> USE DEF DeleteRow, ContainerOf, IInv, TypeOK, OInv
  <1>1. BootNamed'
    BY SMTT(30) DEF BootNamed
  <1>2. OwnName' /\ MongoRoutes'
    BY SMTT(30) DEF OwnName, MongoRoutes
  <1>3. Owed'
    BY SMTT(60) DEF Owed, ContainerOwed, RouteOwed, DeletesAt, NotHanded, BootNamed
  <1> QED BY <1>1, <1>2, <1>3

\* The guard goes up; the teardown is owed as before.
LEMMA DeleteRespondOwed ==
  ASSUME ProvisioningAssumption, IInv, OInv, NEW d \in Requests, DeleteRespond(d)
  PROVE  OInv'
  <1> USE DEF DeleteRespond, ContainerOf, IInv, TypeOK, OInv
  <1>1. BootNamed'
    BY SMTT(30) DEF BootNamed
  <1>2. OwnName' /\ MongoRoutes'
    BY SMTT(30) DEF OwnName, MongoRoutes
  <1>3. Owed'
    BY SMTT(60) DEF Owed, ContainerOwed, RouteOwed, DeletesAt, NotHanded, BootNamed
  <1> QED BY <1>1, <1>2, <1>3

\* The container goes, by name, whoever created it.
LEMMA TeardownContainerOwed ==
  ASSUME ProvisioningAssumption, IInv, OInv, NEW d \in Requests, TeardownContainer(d)
  PROVE  OInv'
  <1> USE DEF TeardownContainer, ContainerOf, IInv, TypeOK, OInv
  <1>1. BootNamed'
    BY SMTT(30) DEF BootNamed, Fault
  <1>2. OwnName' /\ MongoRoutes'
    <2>1. OwnName'
      <3>1. \E k : container' = container \/ container' = [container EXCEPT ![k] = None]
        BY DEF RemoveContainer, RemoveContainerFails
      <3>2. container \in [ContainerNames -> Rows \cup {None}] /\ param' = param /\ OwnName
        OBVIOUS
      <3>3. \A p \in Rows : ContainerOf(p)' = ContainerOf(p)
        BY <3>2 DEF ContainerOf
      <3> HIDE DEF TeardownContainer, ContainerOf
      <3> QED BY <3>1, <3>2, <3>3, SMTT(30) DEF OwnName, ProvisioningAssumption
    <2>2. MongoRoutes'
      BY SMTT(30) DEF MongoRoutes
    <2> QED BY <2>1, <2>2
  <1>3. Owed'
    <2> DEFINE q == deleteRow[d]
    <2> SUFFICES ASSUME faults' = 0, crashes' = 0 PROVE Owed'
      BY DEF Owed
    <2>1. UNCHANGED <<db, route, create, deleteRow, ensureRow, bootRows, crashes, faults>>
      BY DEF Fault, RemoveContainerFails
    <2>2. container' = [container EXCEPT ![ContainerOf(q)] = None] /\ delete[d] = "container"
      BY <2>1 DEF Fault, RemoveContainer, RemoveContainerFails
    <2>3. delete' = [delete EXCEPT ![d] = "dataDir"]
      OBVIOUS
    <2>4. q \in Rows
      BY <2>2 DEF RowsNamed
    <2>5. \A c \in ContainerNames, p \in Rows : container'[c] = p => container[c] = p /\ p # q
      BY <2>2, <2>4, Slot DEF OwnName, ProvisioningAssumption
    <2>6. \A p \in Rows : NotHanded(p)' => NotHanded(p)
      BY <2>1 DEF NotHanded
    <2>7. \A p \in Rows \ {q} : ContainerOwed(p) => ContainerOwed(p)'
      BY <2>1, <2>3 DEF ContainerOwed, DeletesAt
    <2>8. \A p \in Rows : RouteOwed(p) => RouteOwed(p)'
      BY <2>1, <2>2, <2>3 DEF RouteOwed, DeletesAt
    <2> HIDE DEF TeardownContainer, q
    <2> QED BY <2>1, <2>5, <2>6, <2>7, <2>8, SMTT(30) DEF Owed
  <1> QED BY <1>1, <1>2, <1>3

\* The data dir is no part of what is owed.
LEMMA TeardownDataDirOwed ==
  ASSUME ProvisioningAssumption, IInv, OInv, NEW d \in Requests, TeardownDataDir(d)
  PROVE  OInv'
  <1> USE DEF TeardownDataDir, ContainerOf, IInv, TypeOK, OInv
  <1>1. BootNamed'
    BY SMTT(30) DEF BootNamed, Fault
  <1>2. OwnName' /\ MongoRoutes'
    BY SMTT(30) DEF OwnName, MongoRoutes
  <1>3. Owed'
    BY SMTT(60) DEF Owed, ContainerOwed, RouteOwed, DeletesAt, NotHanded, BootNamed, Fault
  <1> QED BY <1>1, <1>2, <1>3

\* The route goes.
LEMMA TeardownRouteOwed ==
  ASSUME ProvisioningAssumption, IInv, OInv, NEW d \in Requests, TeardownRoute(d)
  PROVE  OInv'
  <1> USE DEF TeardownRoute, ContainerOf, IInv, TypeOK, OInv
  <1>1. BootNamed'
    BY SMTT(30) DEF BootNamed
  <1>2. OwnName' /\ MongoRoutes'
    BY SMTT(30) DEF OwnName, MongoRoutes
  <1>3. Owed'
    BY SMTT(60) DEF Owed, ContainerOwed, RouteOwed, DeletesAt, NotHanded, BootNamed
  <1> QED BY <1>1, <1>2, <1>3

\* A row the start route is handed is no longer claimed for.
LEMMA StartLookupOwed ==
  ASSUME ProvisioningAssumption, IInv, OInv, NEW s \in Requests, StartLookup(s)
  PROVE  OInv'
  <1> USE DEF StartLookup, ContainerOf, IInv, TypeOK, OInv
  <1>1. BootNamed'
    BY SMTT(30) DEF BootNamed
  <1>2. OwnName' /\ MongoRoutes'
    BY SMTT(30) DEF OwnName, MongoRoutes
  <1>3. Owed'
    BY SMTT(60) DEF Owed, ContainerOwed, RouteOwed, DeletesAt, NotHanded, BootNamed
  <1> QED BY <1>1, <1>2, <1>3

\* The start route writes the route of a row it was handed.
LEMMA StartRouteOwed ==
  ASSUME ProvisioningAssumption, IInv, OInv, NEW s \in Requests, StartRoute(s)
  PROVE  OInv'
  <1> USE DEF StartRoute, ContainerOf, IInv, TypeOK, OInv
  <1>1. BootNamed'
    BY SMTT(30) DEF BootNamed
  <1>2. OwnName' /\ MongoRoutes'
    <2>1. OwnName'
      BY SMTT(30) DEF OwnName
    <2>2. MongoRoutes'
      BY SMTT(30) DEF MongoRoutes
    <2> QED BY <2>1, <2>2
  <1>3. Owed'
    BY SMTT(60) DEF Owed, ContainerOwed, RouteOwed, DeletesAt, NotHanded, BootNamed
  <1> QED BY <1>1, <1>2, <1>3

\* Inspection only reads.
LEMMA EnsureInspectOwed ==
  ASSUME ProvisioningAssumption, IInv, OInv, NEW e \in Ensurers, EnsureInspect(e)
  PROVE  OInv'
  <1> USE DEF EnsureInspect, ContainerOf, IInv, TypeOK, OInv
  <1>1. BootNamed'
    BY SMTT(30) DEF AfterRunning, BootNamed
  <1>2. OwnName' /\ MongoRoutes'
    BY SMTT(30) DEF OwnName, MongoRoutes, AfterRunning
  <1>3. Owed'
    BY SMTT(60) DEF Owed, ContainerOwed, RouteOwed, DeletesAt, NotHanded, BootNamed
  <1> QED BY <1>1, <1>2, <1>3

\* A stopped container is started: it was there before.
LEMMA EnsureRestartOwed ==
  ASSUME ProvisioningAssumption, IInv, OInv, NEW e \in Ensurers, EnsureRestart(e)
  PROVE  OInv'
  <1> USE DEF EnsureRestart, ContainerOf, IInv, TypeOK, OInv
  <1>1. BootNamed'
    BY SMTT(30) DEF AfterRunning, BootNamed
  <1>2. OwnName' /\ MongoRoutes'
    BY SMTT(30) DEF OwnName, MongoRoutes, AfterRunning
  <1>3. Owed'
    BY SMTT(60) DEF Owed, ContainerOwed, RouteOwed, DeletesAt, NotHanded, BootNamed
  <1> QED BY <1>1, <1>2, <1>3

\* Data dir only.
LEMMA EnsurePrepareOwed ==
  ASSUME ProvisioningAssumption, IInv, OInv, NEW e \in Ensurers, EnsurePrepare(e)
  PROVE  OInv'
  <1> USE DEF EnsurePrepare, Fault, ContainerOf, IInv, TypeOK, OInv
  <1>1. BootNamed'
    BY SMTT(30) DEF BootNamed
  <1>2. OwnName' /\ MongoRoutes'
    BY SMTT(30) DEF OwnName, MongoRoutes
  <1>3. Owed'
    BY SMTT(60) DEF Owed, ContainerOwed, RouteOwed, DeletesAt, NotHanded, BootNamed
  <1> QED BY <1>1, <1>2, <1>3

\* The container created is that of a row that was handed out.
LEMMA EnsureCreateOwed ==
  ASSUME ProvisioningAssumption, IInv, OInv, NEW e \in Ensurers, EnsureCreate(e)
  PROVE  OInv'
  <1> USE DEF EnsureCreate, IInv, TypeOK, OInv
  <1>1. BootNamed'
    BY SMTT(30) DEF BootNamed
  <1> DEFINE q == ensureRow[e]
  <1>0. /\ q \in Rows /\ ContainerOf(q) \in ContainerNames
        /\ crashes = 0 => ~NotHanded(q)
    BY Slot, SMTT(30) DEF RowsNamed, BootNamed, NotHanded
  <1>00. container' = container \/ container' = [container EXCEPT ![ContainerOf(q)] = q]
    OBVIOUS
  <1>2. OwnName' /\ MongoRoutes'
    <2>1. OwnName'
      <3>1. container \in [ContainerNames -> Rows \cup {None}] /\ param' = param /\ OwnName
        OBVIOUS
      <3>2. \A p \in Rows : ContainerOf(p)' = ContainerOf(p)
        BY <3>1 DEF ContainerOf
      <3> HIDE DEF EnsureCreate, q
      <3> QED BY <1>0, <1>00, <3>1, <3>2, SMTT(30) DEF OwnName
    <2>2. MongoRoutes'
      BY SMTT(30) DEF MongoRoutes
    <2> QED BY <2>1, <2>2
  <1>3. Owed'
    <2>1. \A c \in ContainerNames, p \in Rows \ {q} : container'[c] = p => container[c] = p
      BY <1>0, <1>00
    <2>2. UNCHANGED <<db, route, create, delete, deleteRow, ensureRow, bootRows, crashes, faults>>
      OBVIOUS
    <2>3. \A p \in Rows : ContainerOwed(p)' = ContainerOwed(p) /\ RouteOwed(p)' = RouteOwed(p)
                          /\ NotHanded(p)' = NotHanded(p)
      BY <2>2 DEF ContainerOwed, RouteOwed, DeletesAt, NotHanded
    <2> HIDE DEF EnsureCreate, q
    <2> QED BY <1>0, <2>1, <2>2, <2>3, SMTT(30) DEF Owed
  <1> QED BY <1>1, <1>2, <1>3

\* The container was created before.
LEMMA EnsureStartOwed ==
  ASSUME ProvisioningAssumption, IInv, OInv, NEW e \in Ensurers, EnsureStart(e)
  PROVE  OInv'
  <1> USE DEF EnsureStart, ContainerOf, IInv, TypeOK, OInv
  <1>1. BootNamed'
    BY SMTT(30) DEF AfterRunning, BootNamed
  <1>2. OwnName' /\ MongoRoutes'
    BY SMTT(30) DEF OwnName, MongoRoutes, AfterRunning
  <1>3. Owed'
    BY SMTT(60) DEF Owed, ContainerOwed, RouteOwed, DeletesAt, NotHanded, BootNamed
  <1> QED BY <1>1, <1>2, <1>3

\* A failing call is a fault: nothing is claimed any more.
LEMMA EnsureFailOwed ==
  ASSUME ProvisioningAssumption, IInv, OInv, NEW e \in Ensurers, EnsureFail(e)
  PROVE  OInv'
  <1> USE DEF EnsureFail, ContainerOf, IInv, TypeOK, OInv
  <1>1. BootNamed'
    BY SMTT(30) DEF BootNamed, Fault
  <1>2. OwnName' /\ MongoRoutes'
    BY SMTT(30) DEF OwnName, MongoRoutes
  <1>3. Owed'
    BY SMTT(60) DEF Owed, ContainerOwed, RouteOwed, DeletesAt, NotHanded, BootNamed, Fault
  <1> QED BY <1>1, <1>2, <1>3

\* The rows read by bootstrap() are no longer claimed for.
LEMMA BootReadOwed ==
  ASSUME ProvisioningAssumption, IInv, OInv, BootRead
  PROVE  OInv'
  <1> USE DEF BootRead, ContainerOf, IInv, TypeOK, OInv
  <1>1. BootNamed'
    BY SMTT(30) DEF BootNamed
  <1>2. OwnName' /\ MongoRoutes'
    BY SMTT(30) DEF OwnName, MongoRoutes
  <1>3. Owed'
    BY SMTT(60) DEF Owed, ContainerOwed, RouteOwed, DeletesAt, NotHanded, BootNamed
  <1> QED BY <1>1, <1>2, <1>3

\* Routes only go.
LEMMA BootWipeOwed ==
  ASSUME ProvisioningAssumption, IInv, OInv, BootWipe
  PROVE  OInv'
  <1> USE DEF BootWipe, ContainerOf, IInv, TypeOK, OInv
  <1>1. BootNamed'
    BY SMTT(30) DEF BootNamed
  <1>2. OwnName' /\ MongoRoutes'
    BY SMTT(30) DEF OwnName, MongoRoutes
  <1>3. Owed'
    BY SMTT(60) DEF Owed, ContainerOwed, RouteOwed, DeletesAt, NotHanded, BootNamed
  <1> QED BY <1>1, <1>2, <1>3

\* Only routes of rows bootstrap() read are written.
LEMMA BootWriteOwed ==
  ASSUME ProvisioningAssumption, IInv, OInv, BootWrite
  PROVE  OInv'
  <1> USE DEF BootWrite, ContainerOf, IInv, TypeOK, OInv
  <1>1. BootNamed'
    BY SMTT(30) DEF BootNamed
  <1>2. OwnName' /\ MongoRoutes'
    BY SMTT(30) DEF OwnName, MongoRoutes
  <1>3. Owed'
    BY SMTT(60) DEF Owed, ContainerOwed, RouteOwed, DeletesAt, NotHanded, BootNamed
  <1> QED BY <1>1, <1>2, <1>3

\* A row bootstrap() reconciles is one it read.
LEMMA BootReconcileOwed ==
  ASSUME ProvisioningAssumption, IInv, OInv, BootReconcile
  PROVE  OInv'
  <1> USE DEF BootReconcile, ContainerOf, IInv, TypeOK, OInv
  <1>1. BootNamed'
    BY SMTT(30) DEF BootNamed
  <1>2. OwnName' /\ MongoRoutes'
    BY SMTT(30) DEF OwnName, MongoRoutes
  <1>3. Owed'
    BY SMTT(60) DEF Owed, ContainerOwed, RouteOwed, DeletesAt, NotHanded, BootNamed
  <1> QED BY <1>1, <1>2, <1>3

\* After a crash nothing is claimed any more.
LEMMA CrashOwed ==
  ASSUME ProvisioningAssumption, IInv, OInv, Crash
  PROVE  OInv'
  <1> USE DEF Crash, ContainerOf, IInv, TypeOK, OInv
  <1>1. BootNamed'
    BY SMTT(30) DEF BootNamed
  <1>2. OwnName' /\ MongoRoutes'
    BY SMTT(30) DEF OwnName, MongoRoutes
  <1>3. Owed'
    BY SMTT(60) DEF Owed, ContainerOwed, RouteOwed, DeletesAt, NotHanded, BootNamed
  <1> QED BY <1>1, <1>2, <1>3

\* A container that vanishes is a fault: nothing is claimed any more.
LEMMA VanishOwed ==
  ASSUME ProvisioningAssumption, IInv, OInv, NEW c \in ContainerNames, Vanish(c)
  PROVE  OInv'
  <1> USE DEF Vanish, ContainerOf, IInv, TypeOK, OInv
  <1>1. BootNamed'
    BY SMTT(30) DEF BootNamed, Fault
  <1>2. OwnName' /\ MongoRoutes'
    BY SMTT(30) DEF OwnName, MongoRoutes, RemoveContainer
  <1>3. Owed'
    BY SMTT(60) DEF Owed, ContainerOwed, RouteOwed, DeletesAt, NotHanded, BootNamed, RemoveContainer, Fault
  <1> QED BY <1>1, <1>2, <1>3

\* Every step of the system preserves it: one lemma per action.
LEMMA NextOInv ==
  ASSUME ProvisioningAssumption, IInv, OInv, [Next]_vars
  PROVE  OInv'
  <1>1. ASSUME NEW r \in Rows, Create(r) PROVE OInv'
    BY <1>1, CreateLookupOwed, CreateInsertOwed, CreatePrepareOwed, CreateContainerOwed,
       CreateStartOwed, CreateRouteOwed, CreateActivateOwed, RollbackContainerOwed,
       RollbackRouteOwed, RollbackRowOwed DEF Create
  <1>2. ASSUME NEW d \in Requests, Delete(d) PROVE OInv'
    BY <1>2, DeleteLookupOwed, DeleteRowOwed, DeleteRespondOwed, TeardownContainerOwed,
       TeardownDataDirOwed, TeardownRouteOwed DEF Delete
  <1>3. ASSUME NEW s \in Requests, StartLookup(s) \/ StartRoute(s) PROVE OInv'
    BY <1>3, StartLookupOwed, StartRouteOwed
  <1>4. ASSUME NEW e \in Ensurers, Ensure(e) PROVE OInv'
    BY <1>4, EnsureInspectOwed, EnsureRestartOwed, EnsurePrepareOwed, EnsureCreateOwed,
       EnsureStartOwed, EnsureFailOwed DEF Ensure
  <1>5. CASE Bootstrap
    BY <1>5, BootReadOwed, BootWipeOwed, BootWriteOwed, BootReconcileOwed DEF Bootstrap
  <1>6. CASE Crash
    BY <1>6, CrashOwed
  <1>7. ASSUME NEW c \in ContainerNames, Vanish(c) PROVE OInv'
    BY <1>7, VanishOwed
  <1>8. CASE UNCHANGED vars
    <2> USE <1>8 DEF vars, OInv
    <2>1. BootNamed' /\ OwnName' /\ MongoRoutes'
      BY DEF BootNamed, OwnName, MongoRoutes, ContainerOf
    <2>2. Owed'
      BY DEF Owed, NotHanded, ContainerOwed, RouteOwed, DeletesAt
    <2> QED BY <2>1, <2>2
  <1> QED
    BY <1>1, <1>2, <1>3, <1>4, <1>5, <1>6, <1>7, <1>8 DEF Next

\* Without failures, a row nobody but its own create and its deletes was handed leaves
\* neither a container nor a gateway route once it is gone and they have ended, for any
\* number of concurrent requests: create's rollback and the teardown of DELETE
\* cover each other in every interleaving.
THEOREM NothingOrphaned == Spec => []NoOrphans
  <1>1. Init => OInv
    BY InitOInv, ProvisioningAssumption
  <1>2. IInv /\ OInv /\ [Next]_vars => OInv'
    BY NextOInv, ProvisioningAssumption
  <1>3. IInv /\ OInv => NoOrphans
    <2> SUFFICES ASSUME IInv, OInv, NEW r \in Rows,
                        create[r] \in {"done", "failed"}, db[r] = "absent",
                        \A d \in Requests : deleteRow[d] = r => delete[d] = "done",
                        NotHanded(r), crashes = 0, faults = 0
                 PROVE  (\A c \in ContainerNames : container[c] # r) /\ r \notin route
      BY DEF NoOrphans, NotHanded
    <2>1. ~ContainerOwed(r) /\ ~RouteOwed(r)
      BY DEF ContainerOwed, RouteOwed, DeletesAt
    <2> QED BY <2>1 DEF OInv, Owed
  <1> QED
    BY <1>1, <1>2, <1>3, Invariance, ProvisioningAssumption, PTL DEF Spec

=============================================================================
