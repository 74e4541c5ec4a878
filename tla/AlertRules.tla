----------------------------- MODULE AlertRules -----------------------------
(***************************************************************************)
(* The alert rules of one connection: the panel of the monitor page that    *)
(* lists, makes and edits them in several tabs (Monitor.tsx) and the routes *)
(* that store them (routes/alerts.ts).  The rules' evaluations are in       *)
(* module Alerts.                                                           *)
(*                                                                         *)
(* A field of a rule has one of two values, and whoever types in it changes *)
(* it.                                                                      *)
(***************************************************************************)
EXTENDS Integers, FiniteSets

CONSTANTS
    Tabs,       \* tabs that show the panel
    RuleIds,    \* ids rules get: bounds how many are made
    Fields,     \* of a rule that the form edits
    MaxPanelClicks  \* bound on the forms opened and the fields typed

ASSUME AlertRulesAssumption == IsFiniteSet(RuleIds) /\ MaxPanelClicks \in Nat

VARIABLES
    engine,     \* of the connection
    ruleRows,   \* AlertRule: [metric, enabled, fields], or NoRow
    tab,        \* [list, draft]; a draft is [form, opened, typed, id, sent]
    rulesMade,  \* number of rules made
    panelClicks, \* number of forms opened and fields typed
    chosen,     \* history: per rule and field, the edit somebody made last
    crossed     \* history: rules saved from a form opened before another form was saved

ruleVars == <<engine, ruleRows, tab, rulesMade, panelClicks, chosen, crossed>>

-----------------------------------------------------------------------------
(* The metrics a rule may be about.                                          *)

Metrics == {"currentConnections", "availableConnections", "memResident", "memVirtual",
            "opsPerSecTotal", "replicationLag", "wtCachePercent", "networkBytesIn",
            "networkBytesOut"}

MongoOnly == {"memResident", "memVirtual", "networkBytesIn", "networkBytesOut"}

\* The panel offers a metric to the engines it makes sense for.
Offered(e) == IF e = "mongodb" THEN Metrics ELSE Metrics \ MongoOnly

\* The recommended defaults are offered whatever the engine.
Suggestions == {"currentConnections", "memResident", "replicationLag", "wtCachePercent"}

Engines == {"mongodb", "postgres", "mysql"}

-----------------------------------------------------------------------------
NoRow == [metric |-> "", enabled |-> FALSE, fields |-> [f \in Fields |-> FALSE]]
Row(m, fields) == [metric |-> m, enabled |-> TRUE, fields |-> fields]
NoRows == [r \in RuleIds |-> NoRow]
Existing == {r \in RuleIds : ruleRows[r] # NoRow}
Blank == [form |-> NoRow, opened |-> NoRow.fields, typed |-> {}, id |-> 0, sent |-> FALSE]
Closed == [list |-> NoRows, draft |-> Blank]

RulesInit ==
    /\ engine \in Engines
    /\ ruleRows = NoRows
    /\ tab = [t \in Tabs |-> Closed]
    /\ rulesMade = 0 /\ panelClicks = 0
    /\ chosen = [r \in RuleIds |-> [f \in Fields |-> FALSE]]
    /\ crossed = {}

\* No form is open.
FormFree(t) == tab[t].draft = Blank
Filling(t) == ~FormFree(t) /\ ~tab[t].draft.sent

PanelClick == panelClicks < MaxPanelClicks /\ panelClicks' = panelClicks + 1

\* The list is fetched, and again every five seconds and after every change.
LoadRules(t) ==
    /\ tab' = [tab EXCEPT ![t].list = ruleRows]
    /\ UNCHANGED <<engine, ruleRows, rulesMade, panelClicks, chosen, crossed>>

OpenForm(t, row, r) ==
    /\ FormFree(t) /\ PanelClick
    /\ tab' = [tab EXCEPT ![t].draft = [form |-> row, opened |-> tab[t].list[r].fields,
                                        typed |-> {}, id |-> r, sent |-> FALSE]]
    /\ UNCHANGED <<engine, ruleRows, rulesMade, chosen, crossed>>

\* The form does not start from what the rule is.
OpenEditMutant(t, r) ==
    tab[t].list[r] # NoRow /\ OpenForm(t, Row(tab[t].list[r].metric, NoRow.fields), r)

\* The form starts from the row as it was listed, and the metric cannot be changed.
OpenEdit(t, r) ==
    tab[t].list[r] # NoRow /\ OpenForm(t, tab[t].list[r], r)

OpenCreate(t) ==
    /\ FormFree(t) /\ PanelClick
    /\ \E m \in Offered(engine) :
         tab' = [tab EXCEPT ![t].draft = [Blank EXCEPT !.form = Row(m, NoRow.fields)]]
    /\ UNCHANGED <<engine, ruleRows, rulesMade, chosen, crossed>>

Type(t, f) ==
    /\ Filling(t) /\ PanelClick
    /\ tab' = [tab EXCEPT ![t].draft.form.fields[f] = ~@, ![t].draft.typed = @ \cup {f}]
    /\ UNCHANGED <<engine, ruleRows, rulesMade, chosen, crossed>>

\* The form stays until the answer comes, its button disabled.  It can be cancelled meanwhile,
\* which does not call back what was sent; the model opens no other form before the answer.
SaveForm(t) ==
    /\ Filling(t)
    /\ tab' = [tab EXCEPT ![t].draft.sent = TRUE]
    /\ UNCHANGED <<engine, ruleRows, rulesMade, panelClicks, chosen, crossed>>

CancelForm(t) ==
    /\ Filling(t)
    /\ tab' = [tab EXCEPT ![t].draft = Blank]
    /\ UNCHANGED <<engine, ruleRows, rulesMade, panelClicks, chosen, crossed>>

\* PATCH /rules/:id: the form sends every field, changed or not; the rule may be gone.
Patched(t) ==
    LET draft == tab[t].draft
        r == draft.id IN
    /\ draft.sent /\ r # 0
    /\ \/ /\ ruleRows[r] = NoRow
          /\ tab' = [tab EXCEPT ![t].draft.sent = FALSE]
          /\ UNCHANGED <<ruleRows, chosen, crossed>>
       \/ /\ ruleRows[r] # NoRow
          /\ ruleRows' = [ruleRows EXCEPT ![r].fields = draft.form.fields]
          /\ chosen' = [chosen EXCEPT ![r] =
                          [f \in Fields |-> IF f \in draft.typed THEN draft.form.fields[f] ELSE @[f]]]
          /\ crossed' = IF ruleRows[r].fields # draft.opened THEN crossed \cup {r} ELSE crossed
          /\ tab' = [tab EXCEPT ![t].draft = Blank]
    /\ UNCHANGED <<engine, rulesMade, panelClicks>>

\* POST /rules.
Created(t) ==
    /\ tab[t].draft.sent /\ tab[t].draft.id = 0
    /\ rulesMade + 1 \in RuleIds /\ rulesMade' = rulesMade + 1
    /\ ruleRows' = [ruleRows EXCEPT ![rulesMade + 1] = tab[t].draft.form]
    /\ chosen' = [chosen EXCEPT ![rulesMade + 1] = tab[t].draft.form.fields]
    /\ tab' = [tab EXCEPT ![t].draft = Blank]
    /\ UNCHANGED <<engine, panelClicks, crossed>>

\* The suggestions are shown while the list is empty, fetched or not.
Suggest(t) ==
    /\ FormFree(t) /\ tab[t].list = NoRows
    /\ rulesMade + 1 \in RuleIds /\ rulesMade' = rulesMade + 1
    /\ \E m \in Suggestions :
         ruleRows' = [ruleRows EXCEPT ![rulesMade + 1] = Row(m, NoRow.fields)]
    /\ UNCHANGED <<engine, tab, panelClicks, chosen, crossed>>

\* The button sends the opposite of what the list shows.
TogglePause(t, r) ==
    /\ FormFree(t) /\ tab[t].list[r] # NoRow /\ ruleRows[r] # NoRow
    /\ ruleRows' = [ruleRows EXCEPT ![r].enabled = ~tab[t].list[r].enabled]
    /\ UNCHANGED <<engine, tab, rulesMade, panelClicks, chosen, crossed>>

RemoveRule(t, r) ==
    /\ FormFree(t) /\ tab[t].list[r] # NoRow
    /\ ruleRows' = [ruleRows EXCEPT ![r] = NoRow]
    /\ UNCHANGED <<engine, tab, rulesMade, panelClicks, chosen, crossed>>

RulesNext ==
    \E t \in Tabs :
      \/ LoadRules(t) \/ OpenCreate(t) \/ SaveForm(t) \/ CancelForm(t) \/ Patched(t) \/ Created(t)
      \/ Suggest(t)
      \/ \E f \in Fields : Type(t, f)
      \/ \E r \in RuleIds : OpenEdit(t, r) \/ TogglePause(t, r) \/ RemoveRule(t, r)

-----------------------------------------------------------------------------
RulesTypeOK ==
    /\ engine \in Engines
    /\ \A r \in RuleIds : ruleRows[r].metric \in Metrics \cup {""}
    /\ rulesMade \in RuleIds \cup {0} /\ panelClicks \in 0..MaxPanelClicks /\ crossed \subseteq RuleIds

\* What somebody set a field of a rule to stays until somebody changes that very field,
\* although a form sends all of its fields (Monitor.tsx RuleFormModal), unless the form was
\* opened on a row that another form has changed since.
EditsKept == \A r \in Existing \ crossed : ruleRows[r].fields = chosen[r]

=============================================================================
