------------------------------ MODULE MCClients ------------------------------
(***************************************************************************)
(* What users see: the client SDK's read cache, the data browser, the       *)
(* migration wizard, the panel of alert rules, their evaluation, and the    *)
(* pool of Mongo clients behind a monitor page's snapshots.  They share no  *)
(* state; a behaviour moves one of them, its scene, and leaves the others   *)
(* in an initial state.                                                     *)
(*                                                                          *)
(* SDK: SELECT ... FROM a, "b": the query reads tables a and b, and the     *)
(* regex sees only a.  Writes: one to a, one to b, one that the classifier  *)
(* cannot parse.                                                            *)
(***************************************************************************)
EXTENDS SdkCache, Browser, MigrateWizard, Alerts, AlertRules, MongoPool, TLC

CONSTANTS a, b, r1, r2, w1, w2, w3, app, worker, x, y, d1, d2, d3, p1, p2, mongo, pg,
          e1, e2, f1, f2, c1,
          Scenes   \* those a configuration looks at

MCClientOf == [p \in Readers \cup Writers |-> IF p \in {r2, w1} THEN worker ELSE app]

MCQuery == {[table |-> a, seen |-> TRUE], [table |-> b, seen |-> FALSE]}

MCStatement ==
    [w \in Writers |->
        IF w = w1 THEN [touches |-> {a}, target |-> a]
        ELSE IF w = w2 THEN [touches |-> {a, b}, target |-> None]
        ELSE [touches |-> {b}, target |-> b]]

MCHasColumns == (a :> {x, y}) @@ (b :> {x})

MCEngine == (mongo :> "mongodb") @@ (pg :> "postgres")

\* The rows placed at first, up to renaming rows and places.
Placed(a1, a2, b1, b2) == (a :> ((p1 :> a1) @@ (p2 :> a2))) @@ (b :> ((p1 :> b1) @@ (p2 :> b2)))

MCPlacements == {Placed(d1, Nobody, d2, Nobody), Placed(d1, Nobody, Nobody, d2),
                 Placed(d1, Nobody, d2, d3), Placed(d1, d2, d3, Nobody)}

VARIABLE scene

AnSdk == Next /\ UNCHANGED <<browserVars, wizardVars, alertVars, ruleVars, poolVars>>
ABrowser == BrowserNext /\ UNCHANGED <<vars, wizardVars, alertVars, ruleVars, poolVars>>
AWizard == WizardNext /\ UNCHANGED <<vars, browserVars, alertVars, ruleVars, poolVars>>
AnAlert == AlertsNext /\ UNCHANGED <<vars, browserVars, wizardVars, ruleVars, poolVars>>
ARule == RulesNext /\ UNCHANGED <<vars, browserVars, wizardVars, alertVars, poolVars>>
APool == PoolNext /\ UNCHANGED <<vars, browserVars, wizardVars, alertVars, ruleVars>>

ClientsInit ==
    /\ scene \in Scenes
    /\ Init /\ WizardInit /\ AlertsInit
    /\ BrowserInit /\ at \in MCPlacements
    /\ scene # "browser" =>
         /\ kind = CHOOSE k \in Kinds : TRUE
         /\ selected = CHOOSE t \in Tables : TRUE
         /\ at = Placed(d1, Nobody, d2, Nobody)
    /\ RulesInit /\ engine = "postgres"
    /\ PoolInit /\ (scene # "pool" => \A c \in MongoConns : connRow[c] = "there")

ClientsNext ==
    /\ scene' = scene
    /\ \/ scene = "sdk" /\ AnSdk
       \/ scene = "browser" /\ ABrowser
       \/ scene = "wizard" /\ AWizard
       \/ scene = "alerts" /\ AnAlert
       \/ scene = "rules" /\ ARule
       \/ scene = "pool" /\ APool

ClientsSpec ==
    ClientsInit /\ [][ClientsNext]_<<vars, browserVars, wizardVars, alertVars, ruleVars, poolVars, scene>>

=============================================================================
