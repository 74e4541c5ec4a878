------------------------------ MODULE Admission ------------------------------
(***************************************************************************)
(* How POST /databases/create comes to insert a row: the wizard of          *)
(* databases/new/page.jsx, the name, quota and port each looked up in a     *)
(* query of its own, the unique indexes that the insert meets, and the      *)
(* pass at boot that moves older Mongo rows to the gateway.  What follows   *)
(* the insert is one step here; Provisioning looks into it.                 *)
(***************************************************************************)
EXTENDS Integers, FiniteSets

CONSTANTS
    Owners,        \* users
    Pages,         \* open "new database" pages
    OwnerOf,       \* whose each of them is
    Prefix,        \* the digits of a user's id that go into the names of containers
    Titles,        \* database names a page may ask for
    Limit,         \* DB_LIMIT
    Ports,         \* ports of each engine's range are 1..Ports
    MaxSubmits     \* bound on submitted forms and restarts of the process

ASSUME AdmissionAssumption ==
    /\ OwnerOf \in [Pages -> Owners] /\ IsFiniteSet(Pages)
    /\ Limit \in Nat \ {0} /\ Ports \in Nat
    /\ MaxSubmits \in Nat

VARIABLES
    held,         \* rows: [by, owner, title, type, port, routing, status, late]
    form,         \* each page and its request: [pc, title, type, port]
    gateway,      \* MONGO_GATEWAY_ENABLED
    submits,
    late,         \* history: pages whose owner got a row since they counted
    overtaken         \* history: pages since whose first look a row was inserted

admissionVars == <<held, form, gateway, submits, late, overtaken>>

DbTypes == {"nosql", "sql"}
SharedPort == 0                 \* outside both ranges
Owned(u) == {r \in held : r.owner = u}
OwnedBy(p) == Owned(OwnerOf[p])
Idle == [pc |-> "form", title |-> "", type |-> "nosql", port |-> SharedPort]

\* Rows from before the gateway: bound to a port of their own, directly or by nginx.
OldRow(u, routing) == [by |-> "nobody", owner |-> u, title |-> "old", type |-> "nosql", port |-> 1,
                       routing |-> routing, status |-> "active", late |-> FALSE]

AdmissionInit ==
    /\ held \in {{}} \cup {{OldRow(u, g)} : u \in Owners, g \in {"direct", "nginx"}}
    /\ gateway \in BOOLEAN
    /\ form = [p \in Pages |-> Idle]
    /\ submits = 0
    /\ late = {} /\ overtaken = {}

To(p, pc) == form' = [form EXCEPT ![p].pc = pc]

\* The answer: the page shows an error, a conflict or the new database.
Answer(p, pc) == form' = [form EXCEPT ![p] = [Idle EXCEPT !.pc = pc]]
Pass(p, refused, pc) == IF refused THEN Answer(p, "form") ELSE To(p, pc)

\* validateCreateBody: the wizard itself only asks for some name.
Valid(title) == title \in Titles

\* onSubmit: the button is disabled while its request is busy, and gone with a result.
Submit(p) ==
    /\ form[p].pc \in {"form", "conflict"}
    /\ submits < MaxSubmits /\ submits' = submits + 1
    /\ \E n \in Titles \cup {"9"}, t \in DbTypes :
         form' = [form EXCEPT ![p] = IF Valid(n) THEN [pc |-> "find", title |-> n, type |-> t,
                                                       port |-> SharedPort]
                                     ELSE Idle]
    /\ overtaken' = overtaken \ {p}
    /\ UNCHANGED <<held, gateway, late>>

FindTitle(p) ==
    /\ form[p].pc = "find"
    /\ Pass(p, \E r \in OwnedBy(p) : r.title = form[p].title, "count")
    /\ UNCHANGED <<held, gateway, submits, late, overtaken>>

CountOwnedMutant(p) ==
    /\ form[p].pc = "count"
    /\ Pass(p, Cardinality({r \in OwnedBy(p) : r.status = "active"}) >= Limit, "port")
    /\ late' = late \ {p}
    /\ UNCHANGED <<held, gateway, submits, overtaken>>

\* Rows still being provisioned count, also those a dead process left behind.
CountOwned(p) ==
    /\ form[p].pc = "count"
    /\ Pass(p, Cardinality(OwnedBy(p)) >= Limit, "port")
    /\ late' = late \ {p}
    /\ UNCHANGED <<held, gateway, submits, overtaken>>

FreePorts(type) == (1..Ports) \ {r.port : r \in {s \in held : s.type = type}}
Lowest(S) == CHOOSE n \in S : \A k \in S : n <= k
OnGateway(p) == form[p].type = "nosql" /\ gateway

PickPortMutant(p) ==
    /\ form[p].pc = "port"
    /\ OnGateway(p) \/ FreePorts(form[p].type) # {}
    /\ form' = [form EXCEPT ![p].pc = "insert",
                            ![p].port = IF OnGateway(p) THEN SharedPort ELSE 1]
    /\ UNCHANGED <<held, gateway, submits, late, overtaken>>

\* Mongo rows share the gateway's port; others get the lowest of their engine's range.  A name
\* that is still being torn down is refused; Provisioning knows when, here it may be.
PickPort(p) ==
    /\ form[p].pc = "port"
    /\ OnGateway(p) \/ FreePorts(form[p].type) # {}
    /\ \/ form' = [form EXCEPT ![p].pc = "insert",
                               ![p].port = IF OnGateway(p) THEN SharedPort
                                           ELSE Lowest(FreePorts(form[p].type))]
       \/ Answer(p, "form")
    /\ UNCHANGED <<held, gateway, submits, late, overtaken>>

RowOf(p) == [by |-> p, owner |-> OwnerOf[p], title |-> form[p].title, type |-> form[p].type,
             port |-> form[p].port, routing |-> IF OnGateway(p) THEN "mongo-gateway" ELSE "nginx",
             status |-> "provisioning", late |-> p \in late]

\* The unique indexes: (userId, dbName), (type, port) of rows off the gateway, and the name of
\* the container, which older rows do not have.
Clashes(r) ==
    \E s \in held : \/ s.owner = r.owner /\ s.title = r.title
                    \/ /\ "mongo-gateway" \notin {s.routing, r.routing}
                       /\ s.type = r.type /\ s.port = r.port
                    \/ /\ s.type = r.type /\ s.title = r.title
                       /\ Prefix[s.owner] = Prefix[r.owner]

\* Any other error is told as one.
InsertRow(p) ==
    /\ form[p].pc = "insert"
    /\ \/ /\ Answer(p, IF Clashes(RowOf(p)) THEN "conflict" ELSE "form")
          /\ UNCHANGED <<held, late, overtaken>>
       \/ /\ ~Clashes(RowOf(p))
          /\ held' = held \cup {RowOf(p)}
          /\ To(p, "provision")
          /\ late' = (late \ {p}) \cup {q \in Pages \ {p} : /\ OwnerOf[q] = OwnerOf[p]
                                                          /\ form[q].pc \in {"port", "insert"}}
          /\ overtaken' = overtaken \cup {q \in Pages \ {p} :
                                    form[q].pc \in {"find", "count", "port", "insert"}}
    /\ UNCHANGED <<gateway, submits>>

\* The container is up, or the row is deleted again. The row may be gone by then.
Provisioned(p) ==
    /\ form[p].pc = "provision"
    /\ LET mine == {r \in held : r.by = p /\ r.title = form[p].title} IN
       \/ /\ mine # {}
          /\ held' = (held \ mine) \cup {[r EXCEPT !.status = "active"] : r \in mine}
          /\ Answer(p, "created")
       \/ /\ held' = held \ mine
          /\ Answer(p, "form")
    /\ UNCHANGED <<gateway, submits, late, overtaken>>

\* DELETE /:id, of a row in any status.
Discard ==
    /\ \E r \in held : held' = held \ {r}
    /\ UNCHANGED <<form, gateway, submits, late, overtaken>>

\* The process ends, as it does by itself when getNextAvailablePort throws: it is called
\* outside of any try. The next one, perhaps configured otherwise, migrates the rows whose
\* routing is not null: SQL's <> passes over the others.
Restart ==
    /\ submits < MaxSubmits /\ submits' = submits + 1
    /\ gateway' \in BOOLEAN
    /\ held' = {IF gateway' /\ r.type = "nosql" /\ r.routing = "nginx"
                THEN [r EXCEPT !.routing = "mongo-gateway", !.port = SharedPort] ELSE r : r \in held}
    /\ form' = [p \in Pages |-> IF form[p].pc \in {"conflict", "created"} THEN form[p] ELSE Idle]
    /\ UNCHANGED <<late, overtaken>>

AdmissionNext ==
    \/ Discard \/ Restart
    \/ \E p \in Pages : \/ Submit(p) \/ FindTitle(p) \/ CountOwned(p)
                        \/ PickPort(p) \/ InsertRow(p) \/ Provisioned(p)

-----------------------------------------------------------------------------
AdmissionTypeOK ==
    /\ \A r \in held : /\ r.owner \in Owners /\ r.type \in DbTypes /\ r.port \in 0..Ports
                       /\ r.routing \in {"direct", "nginx", "mongo-gateway"}
                       /\ r.status \in {"provisioning", "active"}
    /\ form \in [Pages -> [pc : {"form", "find", "count", "port", "insert",
                                 "conflict", "provision", "created"},
                           title : Titles \cup {""}, type : DbTypes, port : 0..Ports]]

\* A user has more databases than the limit only by those whose request counted before
\* another of the same user had inserted (databases.js:150-157: the count and the insert
\* are two awaits), however many fail, are deleted or were left by a process that died.
LimitPassedByOverlapOnly ==
    \A u \in Owners :
        Cardinality(Owned(u)) <= Limit + Cardinality({r \in Owned(u) : r.late})

Namesakes(u) == {v \in Owners \ {u} : Prefix[v] = Prefix[u]}

\* "Port or name conflict, please retry" is only said to a request beside which another
\* inserted: the name and the port it looked up were free, so a retry can do better
\* (databases.js:198, portManager.js:25: the reads and the index agree on what is taken),
\* unless another user's id begins with the same digits: no query looks for the name of the
\* container, which the two then share.
ConflictMeansRace ==
    \A p \in Pages : form[p].pc = "conflict" => p \in overtaken \/ Namesakes(OwnerOf[p]) # {}

=============================================================================
