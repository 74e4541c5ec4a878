----------------------------- MODULE MCTransfers -----------------------------
(***************************************************************************)
(* How data moves: a migration run, the columns it maps, and an import.     *)
(* They share no state; a behaviour moves one of them, its scene, and       *)
(* leaves the others in an initial state.                                   *)
(***************************************************************************)
EXTENDS MigrationRun, ColumnMapping, DataImport, TLC

CONSTANTS n1, n2, l1, l2

\* One full and one short batch, and one batch.
MCSize == (n1 :> 3) @@ (n2 :> 1)

MCFaults == [f \in Forms |-> IF f = "wizard" THEN 2 ELSE 1]

VARIABLE scene

TransfersInit ==
    /\ scene \in {"migration", "mapping", "import"}
    /\ Init /\ MappingInit /\ ImportInit
    /\ scene # "migration" =>
         /\ plan = [writer |-> "mongo", dropExisting |-> TRUE, keyed |-> TRUE, dryRun |-> TRUE]
         /\ \A n \in Namespaces : \A r \in RowsOf(n) : dest[n][r] = Missing
    /\ scene # "mapping" =>
         route = [from |-> "mongo", to |-> "mysql"] /\ ~naming.field /\ ~naming.table
    /\ scene # "import" => kind = (CHOOSE k \in Kinds : TRUE) /\ form = "wizard"
    \* The tab differs from the wizard where a URL is pasted.
    /\ form = "tab" => kind \in {"append", "copy"}

AMigration == Next /\ UNCHANGED <<mappingVars, importVars>>
AMapping == MappingNext /\ UNCHANGED <<vars, importVars>>
AnImport == ImportNext /\ UNCHANGED <<vars, mappingVars>>

TransfersNext ==
    /\ scene' = scene
    /\ \/ scene = "migration" /\ AMigration
       \/ scene = "mapping" /\ AMapping
       \/ scene = "import" /\ AnImport

TransfersSpec ==
    /\ TransfersInit /\ [][TransfersNext]_<<vars, mappingVars, importVars, scene>>
    /\ MigrationFairness /\ ImportFairness

=============================================================================
