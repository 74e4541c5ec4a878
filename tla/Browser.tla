------------------------------- MODULE Browser -------------------------------
(***************************************************************************)
(* The data browser: one page of app/browse/page.jsx with its edit panel,   *)
(* the document routes of databases.js and dataBrowser.js behind them, and  *)
(* other clients of the same customer database.                             *)
(*                                                                          *)
(* A table holds rows at places.  For Postgres the place is the ctid that   *)
(* the page sends to name a row; an update moves the row to another place,  *)
(* and a vacuum lets a place be taken again.  A Mongo document is named by  *)
(* its _id, which is the row itself.                                        *)
(***************************************************************************)
EXTENDS Integers

CONSTANTS
    Tables, Columns, Rows, Places,
    HasColumns,     \* the columns each table has
    Nobody,         \* no row, no place
    Kinds,          \* subset of {"nosql", "sql"}
    MaxClicks,      \* bound on what the user does
    MaxOthers       \* bound on what other clients, or vacuum, do

ASSUME BrowserAssumption ==
    /\ Kinds \subseteq {"nosql", "sql"} /\ Nobody \notin Rows \cup Places
    /\ HasColumns \in [Tables -> SUBSET Columns]
    /\ MaxClicks \in Nat /\ MaxOthers \in Nat

VARIABLES
    kind,        \* the database's type
    exists,      \* tables there are
    at,          \* at[t][p]: the row at a place, Nobody: none visible
    dead,        \* <<t, p>>: places of old versions that no vacuum has freed yet
    cells,       \* cells[r][c] = <<whose row it was written for, by whom>>
    selected,    \* selectedDbId, selectedSchema and selectedColl together
    page,        \* browseData: [table, docs]
    panel,       \* DocSlideOver: the document it is given, and its own state
    request,     \* the save or delete under way
    clicks, others,
    reused,      \* history: <<t, p>> that came to hold another row
    strays       \* history: the unintended effects of the user's saves and deletes

browserVars == <<kind, exists, at, dead, cells, selected, page, panel, request, clicks,
                 others, reused, strays>>

store == <<exists, at, dead, cells>>

Doc(t, p) == [row |-> at[t][p], place |-> p, cells |-> cells[at[t][p]]]

Occupied(t) == {p \in Places : at[t][p] # Nobody}

Empty == [p \in Places |-> Nobody]

Free(t) == {p \in Places : at[t][p] = Nobody /\ <<t, p>> \notin dead}

NoPage == [table |-> Nobody, docs |-> {}]

NoPanel == [stage |-> "none"]

NoRequest == [op |-> "none"]

Fresh(r) == [c \in Columns |-> <<r, "first">>]

BrowserInit ==
    /\ kind \in Kinds
    /\ exists = Tables
    /\ \E placed \in [Tables -> [Places -> Rows \cup {Nobody}]] :
         /\ \A t \in Tables : \E p \in Places : placed[t][p] # Nobody
         /\ \A t, u \in Tables, p, q \in Places :
               placed[t][p] # Nobody /\ placed[t][p] = placed[u][q] => t = u /\ p = q
         /\ at = placed
    /\ dead = {} /\ cells = [r \in Rows |-> Fresh(r)]
    /\ selected \in Tables
    /\ page = NoPage /\ panel = NoPanel /\ request = NoRequest
    /\ clicks = 0 /\ others = 0 /\ reused = {} /\ strays = {}

Click == clicks < MaxClicks /\ clicks' = clicks + 1

-----------------------------------------------------------------------------
(* The page.                                                                *)

\* browsePostgresTable and browseMongoCollection: the rows of the selected table, each
\* with its place; also the refetch after a save, and React Query's own.
Browse ==
    /\ selected \in exists
    /\ page' = [table |-> selected, docs |-> {Doc(selected, p) : p \in Occupied(selected)}]
    /\ page' # page
    /\ UNCHANGED <<kind, store, selected, panel, request, clicks, others, reused, strays>>

\* Another database, schema or table is chosen: the query's key changes and its data are
\* gone.  selectedDoc stays, and with it the panel.
Select(t) ==
    /\ t # selected /\ Click
    /\ selected' = t /\ page' = NoPage
    /\ UNCHANGED <<kind, store, panel, request, others, reused, strays>>

\* A row is clicked.  The panel has one key for every document, so that its text and
\* values are initialised only when it is not on the page yet.
Pick(d) ==
    /\ d \in page.docs /\ Click
    /\ panel' =
         IF panel.stage = "none"
           THEN [stage |-> "open", doc |-> d, table |-> page.table, from |-> d,
                 edited |-> {}, values |-> d.cells]
           ELSE [panel EXCEPT !.stage = "open", !.doc = d, !.table = page.table]
    /\ UNCHANGED <<kind, store, selected, page, request, others, reused, strays>>

Edit(c) ==
    /\ panel.stage = "open" /\ c \in HasColumns[panel.table] \ panel.edited /\ Click
    /\ panel' = [panel EXCEPT !.edited = @ \cup {c}, !.values[c] = <<panel.from.row, "user">>]
    /\ UNCHANGED <<kind, store, selected, page, request, others, reused, strays>>

\* Cancel, and the end of the animation that keeps the closed panel, and its state, for a
\* quarter of a second.
Cancel ==
    /\ panel.stage = "open" /\ Click
    /\ panel' = [panel EXCEPT !.stage = "leaving"]
    /\ UNCHANGED <<kind, store, selected, page, request, others, reused, strays>>

Exit ==
    /\ panel.stage = "leaving"
    /\ panel' = NoPanel
    /\ UNCHANGED <<kind, store, selected, page, request, clicks, others, reused, strays>>

\* Columns of the row shown in the panel whose values differ from the document's.
Changed == {c \in HasColumns[panel.table] : panel.values[c] # panel.doc.cells[c]}

\* Why a request may touch something else than the row whose values the panel shows.
Causes ==
    (IF selected # panel.table THEN {"selection"} ELSE {})
      \cup (IF panel.doc.row # panel.from.row THEN {"repicked"} ELSE {})
      \cup (IF kind = "nosql" THEN {"whole"} ELSE {})

Ask(op, columns) ==
    /\ panel.stage = "open" /\ Click
    /\ request' = [op |-> op, table |-> selected, doc |-> panel.doc, columns |-> columns,
                   values |-> panel.values, meant |-> panel.from, edited |-> panel.edited,
                   why |-> Causes]
    /\ UNCHANGED <<kind, store, selected, page, panel, others, reused, strays>>

\* The whole document is sent for Mongo, the changed columns for Postgres.  The button is
\* disabled while a save runs; that the Delete icon is not is left out: one request at a time.
Save == /\ request = NoRequest
        /\ Ask("save", IF kind = "nosql" THEN HasColumns[panel.table] ELSE Changed)

Delete == request = NoRequest /\ Ask("delete", {})

-----------------------------------------------------------------------------
(* The server.                                                              *)

\* Where the routes find the row a request names, Nobody: "not found".
FoundMutant ==
    IF request.table \in exists /\ Occupied(request.table) # {}
      THEN CHOOSE p \in Occupied(request.table) : TRUE ELSE Nobody

Found ==
    LET t == request.table
        there == IF kind = "sql" THEN {request.doc.place} \cap Occupied(t)
                                 ELSE {p \in Occupied(t) : at[t][p] = request.doc.row}
    IN IF t \in exists /\ there # {} THEN CHOOSE p \in there : TRUE ELSE Nobody

\* The panel of an answered request closes, whichever document it shows by now; after an
\* error it stays.
Closes == IF panel.stage = "open" THEN [panel EXCEPT !.stage = "leaving"] ELSE panel

Refuse ==
    /\ request # NoRequest
    /\ \/ Found = Nobody
       \/ request.op = "save" /\ request.columns \cap HasColumns[request.table] = {}
    /\ request' = NoRequest
    /\ UNCHANGED <<kind, store, selected, page, panel, clicks, others, reused, strays>>

\* A row takes a new place, its old one is dead until the next vacuum (Postgres).
Move(t, p, q) ==
    /\ at' = [at EXCEPT ![t][p] = Nobody, ![t][q] = at[t][p]]
    /\ dead' = dead \cup {<<t, p>>}
    /\ reused' = reused \cup {<<t, q>>}

Rewrite(t, p) ==
    IF kind = "sql" THEN \E q \in Free(t) : Move(t, p, q) ELSE UNCHANGED <<at, dead, reused>>

\* What a save did beyond the columns the user edited in the row the panel was opened on:
\* a history, with the reasons that were present.
Beyond(r, written) ==
    LET t == request.table
        taken == IF <<t, request.doc.place>> \in reused THEN {"reused"} ELSE {}
        extra == IF r = request.meant.row /\ r = request.doc.row
                   THEN {c \in written \ request.edited : cells[r][c] # request.values[c]}
                   ELSE written
    IN IF extra = {} THEN {} ELSE {request.why \cup taken}

ApplySave ==
    /\ request.op = "save" /\ Found # Nobody
    /\ LET t == request.table
           r == at[t][Found]
           written == request.columns \cap HasColumns[t]
       IN /\ written # {}
          /\ cells' = [cells EXCEPT ![r] =
                         [c \in Columns |-> IF c \in written THEN request.values[c] ELSE @[c]]]
          /\ strays' = strays \cup Beyond(r, written)
          /\ Rewrite(t, Found)
    /\ request' = NoRequest /\ panel' = Closes
    /\ UNCHANGED <<kind, exists, selected, page, clicks, others>>

ApplyDelete ==
    /\ request.op = "delete" /\ Found # Nobody
    /\ LET t == request.table
       IN /\ at' = [at EXCEPT ![t][Found] = Nobody]
          /\ dead' = IF kind = "sql" THEN dead \cup {<<t, Found>>} ELSE dead
          /\ strays' = strays \cup
               IF at[t][Found] = request.doc.row THEN {}
                 ELSE {(request.why \ {"whole", "repicked"})
                         \cup (IF <<t, request.doc.place>> \in reused THEN {"reused"} ELSE {})}
    /\ request' = NoRequest /\ panel' = Closes
    /\ UNCHANGED <<kind, exists, cells, selected, page, clicks, others, reused>>

-----------------------------------------------------------------------------
(* Other clients of the database.                                           *)

Other == others < MaxOthers /\ others' = others + 1

OtherWrites(t, p, c) ==
    /\ Other /\ p \in Occupied(t) /\ c \in HasColumns[t]
    /\ cells' = [cells EXCEPT ![at[t][p]][c] = <<at[t][p], "other">>]
    /\ Rewrite(t, p)
    /\ UNCHANGED <<kind, exists, selected, page, panel, request, clicks, strays>>

OtherInserts(t, p, r) ==
    /\ Other /\ t \in exists /\ p \in Free(t)
    /\ \A u \in Tables, q \in Places : at[u][q] # r
    /\ cells[r] = Fresh(r) /\ (panel # NoPanel => panel.doc.row # r)
    /\ at' = [at EXCEPT ![t][p] = r]
    /\ reused' = reused \cup {<<t, p>>}
    /\ UNCHANGED <<kind, exists, dead, cells, selected, page, panel, request, clicks, strays>>

Vacuum(t) ==
    /\ Other /\ \E p \in Places : <<t, p>> \in dead
    /\ dead' = {tp \in dead : tp[1] # t}
    /\ UNCHANGED <<kind, exists, at, cells, selected, page, panel, request, clicks, reused,
                   strays>>

\* The DELETE and POST routes of a table, from this page or another: a table of the same
\* name starts over with its first place.  The page that dropped its table selects another.
DropTable(t) ==
    /\ Other /\ t \in exists
    /\ exists' = exists \ {t}
    /\ at' = [at EXCEPT ![t] = Empty]
    /\ dead' = {tp \in dead : tp[1] # t}
    /\ selected' \in {selected} \cup (IF selected = t THEN exists \ {t} ELSE {})
    /\ page' = IF selected' = selected THEN page ELSE NoPage
    /\ UNCHANGED <<kind, cells, panel, request, clicks, reused, strays>>

CreateTable(t) ==
    /\ t \notin exists
    /\ exists' = exists \cup {t}
    /\ UNCHANGED <<kind, at, dead, cells, selected, page, panel, request, clicks, others,
                   reused, strays>>

BrowserNext ==
    \/ Browse \/ Cancel \/ Exit \/ Save \/ Delete \/ Refuse \/ ApplySave \/ ApplyDelete
    \/ \E t \in Tables : Select(t) \/ Vacuum(t) \/ DropTable(t) \/ CreateTable(t)
    \/ \E d \in page.docs : Pick(d)
    \/ \E c \in Columns : Edit(c)
    \/ \E t \in Tables, p \in Places, c \in Columns : OtherWrites(t, p, c)
    \/ \E t \in Tables, p \in Places, r \in Rows : OtherInserts(t, p, r)

-----------------------------------------------------------------------------
BrowserTypeOK ==
    /\ kind \in Kinds /\ exists \subseteq Tables /\ selected \in Tables
    /\ at \in [Tables -> [Places -> Rows \cup {Nobody}]]
    /\ dead \subseteq Tables \X Places /\ reused \subseteq Tables \X Places
    /\ cells \in [Rows -> [Columns -> Rows \X {"first", "user", "other"}]]
    /\ page.table \in Tables \cup {Nobody}
    /\ \A t \in Tables, p \in Places : <<t, p>> \in dead => at[t][p] = Nobody

\* A save or a delete goes beyond the edits of the row the panel was opened on only if the
\* selection changed under the open panel, another row was picked before the panel had
\* left, the row's place came to hold another row (dataBrowser.js:350-352), or, for a save,
\* the whole Mongo document was replaced: other columns that someone else changed in
\* between are otherwise kept.
EditsStay == {} \notin strays

=============================================================================
