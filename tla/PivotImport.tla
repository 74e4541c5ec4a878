---------------------------- MODULE PivotImport ----------------------------
(***************************************************************************)
(* The one-time import of a PivotDB metadata database into the merged       *)
(* schema (import-pivotdb.ts), which may be started again after it failed,  *)
(* on a server where people sign up and open workspaces meanwhile           *)
(* (profileBridge.js).  Accounts are named by their lower-case e-mail,      *)
(* which is unique; the rows of a profile stand in tables 1..Tables, each   *)
(* row referring to the one of the table before.                            *)
(***************************************************************************)
EXTENDS Integers, FiniteSets

CONSTANTS
    Users, Profiles,  \* of PivotDB
    Strangers,        \* adminIds of profiles whose user is no more
    Emails,
    NoProfile,
    Tables,           \* number of tables, parents first
    Scoped,           \* those whose rows carry a workspace id
    MaxImports,       \* bound on how often it is started
    MaxImportFaults,  \* bound on failing statements
    MaxLive           \* bound on what others do to the merged database

Nobody == "nobody"   \* null, of ownerUserId and of legacyAdminId

ASSUME ImportAssumption ==
    /\ IsFiniteSet(Users) /\ IsFiniteSet(Profiles)
    /\ Users \cap Strangers = {} /\ NoProfile \notin Profiles
    /\ Nobody \notin Users \cup Strangers \cup Emails
    /\ Tables \in Nat \ {0} /\ Scoped \subseteq 1..Tables
    /\ MaxImports \in Nat /\ MaxImportFaults \in Nat /\ MaxLive \in Nat

VARIABLES
    pivot,    \* what PivotDB holds: [email, admin, home] of its users and profiles
    keyFits,  \* the ENCRYPTION_KEY is the one the URIs were encrypted with
    accounts, \* e-mails that have an account in the merged database
    member,   \* User.profileId: a workspace, or 0
    spaces,   \* Profile rows: [id, owner, legacy]
    imported, \* rows that came from PivotDB: [profile, table, space]
    spoiled,  \* rows whose insert was refused
    importer, \* the running or last import
    importFaults, live

importVars == <<pivot, keyFits, accounts, member, spaces, imported, spoiled, importer,
                importFaults, live>>

\* admin is one to one; two e-mails of PivotDB may differ in case only.
Pivots == {s \in [email : [Users -> Emails], admin : [Profiles -> Users \cup Strangers],
                  home : [Users -> Profiles \cup {NoProfile}]] :
             \A p, q \in Profiles : s.admin[p] = s.admin[q] => p = q}

SpaceIds == 1..(Cardinality(Profiles) + Cardinality(Emails))
Unplaced == [p \in Profiles |-> 0]
NotStarted == [pc |-> "idle", dry |-> FALSE, todo |-> {}, cur |-> Nobody, placed |-> Unplaced,
               table |-> 1, told |-> 0, hit |-> FALSE, seen |-> {}, starts |-> 0]

ImportInit ==
    /\ pivot \in Pivots /\ keyFits \in BOOLEAN
    /\ accounts \in SUBSET Emails /\ member = [e \in Emails |-> 0]
    /\ spaces = {} /\ imported = {} /\ spoiled = {}
    /\ importer = NotStarted
    /\ importFaults = 0 /\ live = 0

SpacesOf(e) == {s \in spaces : s.owner = e}
NextSpace == Cardinality(spaces) + 1
Importing == importer.pc \notin {"idle", "done", "failed", "refused"}
Go(pc) == [importer EXCEPT !.pc = pc]

\* One connection's URI is decrypted before anything else.  seen is for the properties.
StartImport ==
    /\ ~Importing /\ importer.starts < MaxImports
    /\ \E dry \in BOOLEAN :
         importer' = [NotStarted EXCEPT !.pc = IF keyFits THEN "users" ELSE "refused",
                                        !.dry = dry, !.todo = Users,
                                        !.seen = {s.legacy : s \in spaces},
                                        !.starts = importer.starts + 1]
    /\ UNCHANGED <<pivot, keyFits, accounts, member, spaces, imported, spoiled, importFaults,
                   live>>

\* An account of that e-mail is adopted.
FindUser ==
    /\ importer.pc = "users"
    /\ \/ /\ importer.todo = {}
          /\ importer' = [importer EXCEPT !.pc = "profiles", !.todo = Profiles]
       \/ \E u \in importer.todo :
            importer' = IF pivot.email[u] \in accounts \/ importer.dry
                        THEN [importer EXCEPT !.todo = @ \ {u}]
                        ELSE [importer EXCEPT !.pc = "adduser", !.cur = u]
    /\ UNCHANGED <<pivot, keyFits, accounts, member, spaces, imported, spoiled, importFaults,
                   live>>

\* The insert is refused when the account has come into being since.
AddUser ==
    /\ importer.pc = "adduser"
    /\ LET e == pivot.email[importer.cur] IN
         IF e \in accounts
         THEN importer' = Go("failed") /\ UNCHANGED accounts
         ELSE /\ accounts' = accounts \cup {e}
              /\ importer' = [importer EXCEPT !.pc = "users", !.todo = @ \ {importer.cur}]
    /\ UNCHANGED <<pivot, keyFits, member, spaces, imported, spoiled, importFaults, live>>

Owner(p) == IF pivot.admin[p] \in Users THEN pivot.email[pivot.admin[p]] ELSE Nobody
OwnedSpaces(p) == IF Owner(p) = Nobody THEN {} ELSE SpacesOf(Owner(p))

\* Every profile gets a workspace of its own.
FindSpaceMutant ==
    /\ importer.pc = "profiles"
    /\ \/ /\ importer.todo = {}
          /\ importer' = [importer EXCEPT !.pc = "point", !.todo = Users]
       \/ \E p \in importer.todo : importer' = [importer EXCEPT !.pc = "addspace", !.cur = p]
    /\ UNCHANGED <<pivot, keyFits, accounts, member, spaces, imported, spoiled, importFaults,
                   live>>

\* A workspace its owner has already is used.  A dry run puts a placeholder for each.
FindSpace ==
    /\ importer.pc = "profiles"
    /\ \/ /\ importer.todo = {}
          /\ importer' = [importer EXCEPT !.pc = "point",
                                          !.todo = IF importer.dry THEN {} ELSE Users]
       \/ \E p \in importer.todo :
            \/ /\ importer.dry
               /\ importer' = [importer EXCEPT !.todo = @ \ {p}]
            \/ /\ ~importer.dry
               /\ \E s \in OwnedSpaces(p) :
                    importer' = [importer EXCEPT !.todo = @ \ {p}, !.placed[p] = s.id]
            \/ /\ ~importer.dry /\ OwnedSpaces(p) = {}
               /\ importer' = [importer EXCEPT !.pc = "addspace", !.cur = p]
    /\ UNCHANGED <<pivot, keyFits, accounts, member, spaces, imported, spoiled, importFaults,
                   live>>

\* Only ownerUserId is unique, and the row that is there is taken for the profile's.
AddSpaceMutant ==
    /\ importer.pc = "addspace"
    /\ LET p == importer.cur
           taken == OwnedSpaces(p) IN
         IF taken # {}
         THEN /\ importer' = [importer EXCEPT !.pc = "profiles", !.todo = @ \ {p}]
              /\ UNCHANGED spaces
         ELSE /\ spaces' = spaces \cup {[id |-> NextSpace, owner |-> Owner(p),
                                         legacy |-> pivot.admin[p]]}
              /\ importer' = [importer EXCEPT !.pc = "profiles", !.todo = @ \ {p},
                                              !.placed[p] = NextSpace]
    /\ UNCHANGED <<pivot, keyFits, accounts, member, imported, spoiled, importFaults, live>>

\* ownerUserId and legacyAdminId are unique.
AddSpace ==
    /\ importer.pc = "addspace"
    /\ LET p == importer.cur
           taken == OwnedSpaces(p) \cup {s \in spaces : s.legacy = pivot.admin[p]} IN
         IF taken # {}
         THEN importer' = Go("failed") /\ UNCHANGED spaces
         ELSE /\ spaces' = spaces \cup {[id |-> NextSpace, owner |-> Owner(p),
                                         legacy |-> pivot.admin[p]]}
              /\ importer' = [importer EXCEPT !.pc = "profiles", !.todo = @ \ {p},
                                              !.placed[p] = NextSpace]
    /\ UNCHANGED <<pivot, keyFits, accounts, member, imported, spoiled, importFaults, live>>

\* The account is pointed at the workspace that stands for the user's profile.
PointUser ==
    /\ importer.pc = "point"
    /\ \/ /\ importer.todo = {}
          /\ importer' = [importer EXCEPT !.pc = "rows", !.todo = Profiles]
          /\ UNCHANGED member
       \/ \E u \in importer.todo :
            /\ importer' = [importer EXCEPT !.todo = @ \ {u}]
            /\ member' = IF pivot.home[u] = NoProfile THEN member
                         ELSE [member EXCEPT ![pivot.email[u]] = importer.placed[pivot.home[u]]]
    /\ UNCHANGED <<pivot, keyFits, accounts, spaces, imported, spoiled, importFaults, live>>

Row(p, t) == [profile |-> p, table |-> t,
              space |-> IF t \in Scoped THEN importer.placed[p] ELSE 0]
There(p, t) == \E r \in imported : r.profile = p /\ r.table = t

\* Rows whose workspace is not known are left out.  A row that is there already is left
\* alone, one that refers to a missing row is refused; both count as imported.  An insert may be
\* refused for any cause, which is only warned about: of a scoped row, whose new profileId is
\* text for a column of type uuid (import-pivotdb.ts:274, migration.sql:33), perhaps always.
CopyRow ==
    /\ importer.pc = "rows"
    /\ \E p \in importer.todo :
         LET t == importer.table
             usable == t \notin Scoped \/ importer.placed[p] # 0
             lands == usable /\ ~There(p, t) /\ (t = 1 \/ There(p, t - 1)) IN
         /\ importer' = [importer EXCEPT !.todo = @ \ {p},
                                         !.told = IF usable THEN @ + 1 ELSE @]
         /\ IF lands /\ ~importer.dry
            THEN \/ /\ imported' = imported \cup {Row(p, t)}
                    /\ UNCHANGED <<spoiled, importFaults>>
                 \/ /\ importFaults < MaxImportFaults
                    /\ importFaults' = importFaults + 1
                    /\ spoiled' = spoiled \cup {<<p, t>>}
                    /\ UNCHANGED imported
            ELSE UNCHANGED <<imported, spoiled, importFaults>>
    /\ UNCHANGED <<pivot, keyFits, accounts, member, spaces, live>>

NextTable ==
    /\ importer.pc = "rows" /\ importer.todo = {}
    /\ importer' = IF importer.table < Tables
                   THEN [importer EXCEPT !.table = @ + 1, !.todo = Profiles]
                   ELSE Go("done")
    /\ UNCHANGED <<pivot, keyFits, accounts, member, spaces, imported, spoiled, importFaults,
                   live>>

\* A statement fails, or the process is stopped: what was written stays.
ImportFail ==
    /\ Importing /\ importFaults < MaxImportFaults
    /\ importFaults' = importFaults + 1
    /\ importer' = [importer EXCEPT !.pc = "failed", !.hit = TRUE]
    /\ UNCHANGED <<pivot, keyFits, accounts, member, spaces, imported, spoiled, live>>

SignUp ==
    /\ live < MaxLive /\ live' = live + 1
    /\ \E e \in Emails \ accounts : accounts' = accounts \cup {e}
    /\ importer' = [importer EXCEPT !.hit = TRUE]
    /\ UNCHANGED <<pivot, keyFits, member, spaces, imported, spoiled, importFaults>>

\* The first request of an account without a workspace opens one, or finds the one it owns.
EnsureSpace ==
    /\ live < MaxLive /\ live' = live + 1
    /\ \E e \in accounts :
         /\ member[e] = 0
         /\ \/ \E s \in SpacesOf(e) : /\ member' = [member EXCEPT ![e] = s.id]
                                     /\ UNCHANGED spaces
            \/ /\ SpacesOf(e) = {}
               /\ spaces' = spaces \cup {[id |-> NextSpace, owner |-> e, legacy |-> Nobody]}
               /\ member' = [member EXCEPT ![e] = NextSpace]
    /\ importer' = [importer EXCEPT !.hit = TRUE]
    /\ UNCHANGED <<pivot, keyFits, accounts, imported, spoiled, importFaults>>

ImportNext ==
    \/ StartImport \/ FindUser \/ AddUser \/ FindSpace \/ AddSpace \/ PointUser
    \/ CopyRow \/ NextTable \/ ImportFail \/ SignUp \/ EnsureSpace

-----------------------------------------------------------------------------
ImportTypeOK ==
    /\ accounts \subseteq Emails
    /\ member \in [Emails -> {0} \cup SpaceIds]
    /\ \A s \in spaces : s.id \in SpaceIds /\ s.owner \in Emails \cup {Nobody}
    /\ imported \subseteq [profile : Profiles, table : 1..Tables, space : {0} \cup SpaceIds]
    /\ spoiled \subseteq Profiles \X (1..Tables)

\* The workspace that stands for profile p: its administrator's, or the one that keeps the
\* id of an administrator who is no more.
StandsFor(s, p) == IF Owner(p) # Nobody THEN s.owner = Owner(p) ELSE s.legacy = pivot.admin[p]

\* However often the import was broken off and started again, and whoever signed up
\* meanwhile, a row of PivotDB is in the merged database at most once, in the workspace that
\* stands for its profile; and after an import that reports success each is there, but for
\* those whose insert was refused and those that refer to one, and the accounts are pointed
\* at the workspaces of their users' profiles.
ImportLands ==
    /\ \A r, q \in imported : r.profile = q.profile /\ r.table = q.table => r = q
    /\ \A r \in imported : r.table \in Scoped =>
         \E s \in spaces : s.id = r.space /\ StandsFor(s, r.profile)
    /\ importer.pc = "done" /\ ~importer.dry =>
         \A p \in Profiles, t \in 1..Tables :
            There(p, t) \/ \E n \in 1..t : <<p, n>> \in spoiled
    /\ importer.pc = "done" /\ ~importer.dry =>
         \A u \in Users : pivot.home[u] # NoProfile =>
            \E v \in Users : /\ pivot.email[v] = pivot.email[u] /\ pivot.home[v] # NoProfile
                             /\ \E s \in spaces : /\ s.id = member[pivot.email[u]]
                                                  /\ StandsFor(s, pivot.home[v])

\* An import that is started again goes through, and never trips over what the one before it
\* left, unless a profile's administrator is no more: its workspace is then created again and
\* refused, against what ImportAlwaysResumes says.
ImportResumes ==
    importer.pc = "failed" /\ ~importer.hit => importer.seen \cap Strangers # {}

\* A re-run after a partial failure resumes, whatever the failure left
\* (import-pivotdb.ts:41-43).  AddSpace refuses a workspace whose administrator is no more.
ImportAlwaysResumes == importer.pc = "failed" => importer.hit

=============================================================================
