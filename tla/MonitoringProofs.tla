-------------------------- MODULE MonitoringProofs --------------------------
(***************************************************************************)
(* Proofs about what watches the customers' servers: the alerts and their   *)
(* events, the rules panel, the pool of Mongo clients with the snapshots,   *)
(* and the scrape, for any evaluators, tabs, connections and failures.      *)
(***************************************************************************)
EXTENDS Alerts, AlertRules, MongoPool, MetricsScrape,
        FiniteSetTheorems, SequenceTheorems, TLAPS

AlertsSpec == AlertsInit /\ [][AlertsNext]_alertVars
RulesSpec == RulesInit /\ [][RulesNext]_ruleVars
PoolSpec == PoolInit /\ [][PoolNext]_poolVars
ScrapeSpec == ScrapeInit /\ [][ScrapeNext]_scrapeVars

-----------------------------------------------------------------------------
(* A rule and its events.                                                    *)

EventRows == [status : {"firing", "acknowledged", "resolved"}, notified : BOOLEAN]
EvalRows == [pc : EvalPcs, notified : 0..MaxMinute, now : 0..MaxMinute, event : Nat]
PatchRows == [pc : {"idle", "write"}, enabled : BOOLEAN, was : BOOLEAN]

OpenEvent == \E i \in DOMAIN events : events[i].status # "resolved"
NoFiringEvent == \A i \in DOMAIN events : events[i].status # "firing"

\* Without an abort, a firing rule has an open event but between the two statements of an
\* evaluation that fires it, or of one that resolves it.
Fires ==
    rule.present /\ rule.status = "firing" /\ "abort" \notin past
      => OpenEvent \/ \E e \in Evaluators : eval[e].pc \in {"event", "ok"}

\* Without an overlap, an evaluation that is about to insert its event has made the rule fire,
\* and one that is about to say ok has left no event firing; a rule that was never disabled is
\* never enabled anew, which would make it ok with its events as they are.
Resolves ==
    rule.present /\ past \cap {"overlap", "disable"} = {}
      => /\ rule.enabled /\ (patcher.pc = "write" => patcher.was)
         /\ rule.status = "ok" => NoFiringEvent
         /\ \A e \in Evaluators : /\ eval[e].pc = "event" => rule.status # "ok"
                                  /\ eval[e].pc = "ok" => NoFiringEvent
         /\ \A e, f \in InFlight : e = f

AlertsInv == AlertsTypeOK /\ Fires /\ Resolves

\* Rows that are changed in their places remain a sequence.
LEMMA Rewritten ==
  ASSUME NEW s \in Seq(EventRows), NEW t,
         \A n \in Nat : s \in [1..n -> EventRows] => t \in [1..n -> EventRows]
  PROVE  t \in Seq(EventRows) /\ DOMAIN t = DOMAIN s
  <1>1. Len(s) \in Nat /\ s \in [1..Len(s) -> EventRows]
    BY LenProperties
  <1>2. t \in [1..Len(s) -> EventRows]
    BY <1>1
  <1> QED BY <1>1, <1>2, SeqDef

\* Every step keeps the types.
LEMMA AlertsKeepTypes ==
  ASSUME AlertsAssumption, AlertsTypeOK, [AlertsNext]_alertVars
  PROVE  AlertsTypeOK'
  <1>a. /\ rule \in Rules /\ events \in Seq(EventRows) /\ eval \in [Evaluators -> EvalRows] /\ minute \in 1..MaxMinute
        /\ patcher \in PatchRows /\ acker \in [pc : {"idle", "write"}, event : Nat]
        /\ past \subseteq {"overlap", "disable", "abort"}
    BY DEF AlertsTypeOK, EventRows, EvalRows, PatchRows
  <1>b. AlertsTypeOK' <=>
          /\ rule' \in Rules /\ events' \in Seq(EventRows) /\ eval' \in [Evaluators -> EvalRows]
          /\ minute' \in 1..MaxMinute /\ patcher' \in PatchRows
          /\ acker' \in [pc : {"idle", "write"}, event : Nat] /\ past' \subseteq {"overlap", "disable", "abort"}
    BY DEF AlertsTypeOK, EventRows, EvalRows, PatchRows
  <1>c. 0 \in 0..MaxMinute /\ minute \in 0..MaxMinute
    BY <1>a DEF AlertsAssumption
  <1>d. ASSUME NEW e \in Evaluators PROVE AtRest(e) \in EvalRows
    <2>1. eval[e].now \in 0..MaxMinute
      BY <1>a DEF EvalRows
    <2> QED BY <1>c, <2>1 DEF AtRest, NoEval, EvalRows, EvalPcs
  <1>e. ASSUME NEW e \in Evaluators, NEW pc, NEW then \in EvalRows, NEW row \in Rules, NEW evs \in Seq(EventRows),
               EvalStep(e, pc, then, row, evs)
        PROVE  rule' \in Rules /\ events' \in Seq(EventRows) /\ eval' \in [Evaluators -> EvalRows]
    BY <1>a, <1>d, <1>e DEF EvalStep
  <1>0. CASE UNCHANGED alertVars
    BY <1>0 DEF alertVars, AlertsTypeOK
  <1>1. ASSUME NEW e \in Evaluators, EvalStart(e) PROVE AlertsTypeOK'
    <2>1. PICK met \in BOOLEAN :
            eval' = [eval EXCEPT ![e] =
                       IF Verdict(rule, met, minute) = "idle" THEN [NoEval EXCEPT !.now = minute]
                       ELSE [pc |-> Verdict(rule, met, minute), notified |-> rule.notified, now |-> minute, event |-> 0]]
      BY <1>1 DEF EvalStart
    <2>2. Verdict(rule, met, minute) \in EvalPcs
      BY DEF Verdict, EvalPcs
    <2>3. rule.notified \in 0..MaxMinute
      BY <1>a DEF Rules
    <2>4. [NoEval EXCEPT !.now = minute] \in EvalRows
      BY <1>c DEF NoEval, EvalRows, EvalPcs
    <2>5. [pc |-> Verdict(rule, met, minute), notified |-> rule.notified, now |-> minute, event |-> 0] \in EvalRows
      BY <1>c, <2>2, <2>3 DEF EvalRows
    <2>6. eval' \in [Evaluators -> EvalRows]
      BY <1>a, <2>1, <2>4, <2>5
    <2> QED BY <1>1, <1>a, <1>b, <2>6 DEF EvalStart
  <1>2. ASSUME NEW e \in Evaluators, EvalClock(e) PROVE AlertsTypeOK'
    <2>1. [rule EXCEPT !.since = eval[e].now] \in Rules /\ [rule EXCEPT !.since = 0] \in Rules
      BY <1>a, <1>c DEF Rules, EvalRows
    <2>2. rule' \in Rules /\ events' \in Seq(EventRows) /\ eval' \in [Evaluators -> EvalRows]
      BY <1>2, <1>a, <1>d, <1>e, <2>1 DEF EvalClock
    <2> QED BY <1>2, <1>a, <1>b, <2>2 DEF EvalClock
  <1>3. ASSUME NEW e \in Evaluators, EvalFire(e) PROVE AlertsTypeOK'
    <2>1. [rule EXCEPT !.status = "firing"] \in Rules /\ [eval[e] EXCEPT !.pc = "event"] \in EvalRows
      BY <1>a DEF Rules, EvalRows, EvalPcs
    <2>2. rule' \in Rules /\ events' \in Seq(EventRows) /\ eval' \in [Evaluators -> EvalRows]
      BY <1>3, <1>a, <1>e, <2>1 DEF EvalFire
    <2> QED BY <1>3, <1>a, <1>b, <2>2 DEF EvalFire
  <1>4. ASSUME NEW e \in Evaluators, EvalEvent(e) PROVE AlertsTypeOK'
    <2>0. PICK n \in Nat : n = Len(events) + 1
      BY <1>a, LenProperties
    <2>1. [eval[e] EXCEPT !.pc = "notify", !.event = n] \in EvalRows
      BY <1>a DEF EvalRows, EvalPcs
    <2>2. Append(events, [status |-> "firing", notified |-> FALSE]) \in Seq(EventRows)
      BY <1>a, AppendProperties DEF EventRows
    <2>3. PICK then \in EvalRows : EvalStep(e, "event", then, rule, Append(events, [status |-> "firing", notified |-> FALSE]))
      BY <1>4, <1>d, <2>0, <2>1 DEF EvalEvent
    <2>4. rule' \in Rules /\ events' \in Seq(EventRows) /\ eval' \in [Evaluators -> EvalRows]
      BY <1>a, <1>e, <2>2, <2>3
    <2> QED BY <1>4, <1>a, <1>b, <2>4 DEF EvalEvent
  <1>5. ASSUME NEW e \in Evaluators, EvalNotify(e) PROVE AlertsTypeOK'
    <2>1. eval' \in [Evaluators -> EvalRows]
      BY <1>5, <1>a DEF EvalNotify, EvalRows, EvalPcs
    <2> QED BY <1>5, <1>a, <1>b, <2>1 DEF EvalNotify
  <1>6. ASSUME NEW e \in Evaluators, EvalStamp(e) PROVE AlertsTypeOK'
    <2>1. [rule EXCEPT !.notified = eval[e].now] \in Rules /\ [eval[e] EXCEPT !.pc = "mark"] \in EvalRows
      BY <1>a DEF Rules, EvalRows, EvalPcs
    <2>2. rule' \in Rules /\ events' \in Seq(EventRows) /\ eval' \in [Evaluators -> EvalRows]
      BY <1>6, <1>a, <1>e, <2>1 DEF EvalStamp
    <2> QED BY <1>6, <1>a, <1>b, <2>2 DEF EvalStamp
  <1>7. ASSUME NEW e \in Evaluators, EvalMark(e) PROVE AlertsTypeOK'
    <2>1. [events EXCEPT ![eval[e].event].notified = TRUE] \in Seq(EventRows)
      <3>1. \A n \in Nat : events \in [1..n -> EventRows]
                           => [events EXCEPT ![eval[e].event].notified = TRUE] \in [1..n -> EventRows]
        BY DEF EventRows
      <3> QED BY <1>a, <3>1, Rewritten
    <2>2. rule' \in Rules /\ events' \in Seq(EventRows) /\ eval' \in [Evaluators -> EvalRows]
      BY <1>7, <1>a, <1>d, <1>e, <2>1 DEF EvalMark
    <2> QED BY <1>7, <1>a, <1>b, <2>2 DEF EvalMark
  <1>8. ASSUME NEW e \in Evaluators, EvalResolve(e) PROVE AlertsTypeOK'
    <2> DEFINE evs == [i \in DOMAIN events |-> IF events[i].status = "firing"
                                                 THEN [events[i] EXCEPT !.status = "resolved"] ELSE events[i]]
    <2>1. evs \in Seq(EventRows)
      <3>1. \A n \in Nat : events \in [1..n -> EventRows] => evs \in [1..n -> EventRows]
        BY DEF EventRows
      <3> QED BY <1>a, <3>1, Rewritten
    <2>2. [eval[e] EXCEPT !.pc = "ok"] \in EvalRows
      BY <1>a DEF EvalRows, EvalPcs
    <2>3. EvalStep(e, "resolve", [eval[e] EXCEPT !.pc = "ok"], rule, evs)
      BY <1>8 DEF EvalResolve
    <2> HIDE DEF evs
    <2>4. rule' \in Rules /\ events' \in Seq(EventRows) /\ eval' \in [Evaluators -> EvalRows]
      BY <1>a, <1>e, <2>1, <2>2, <2>3
    <2> QED BY <1>8, <1>a, <1>b, <2>4 DEF EvalResolve
  <1>9. ASSUME NEW e \in Evaluators, EvalOk(e) PROVE AlertsTypeOK'
    <2>1. [rule EXCEPT !.status = "ok", !.since = 0] \in Rules
      BY <1>a, <1>c DEF Rules
    <2>2. rule' \in Rules /\ events' \in Seq(EventRows) /\ eval' \in [Evaluators -> EvalRows]
      BY <1>9, <1>a, <1>d, <1>e, <2>1 DEF EvalOk
    <2> QED BY <1>9, <1>a, <1>b, <2>2 DEF EvalOk
  <1>10. ASSUME NEW e \in Evaluators, EvalAbort(e) PROVE AlertsTypeOK'
    BY <1>10, <1>a, <1>b, <1>d DEF EvalAbort
  <1>11. CASE PatchRead
    <2>1. rule.enabled \in BOOLEAN
      BY <1>a DEF Rules
    <2>2. patcher' \in PatchRows
      BY <1>11, <2>1 DEF PatchRead, PatchRows
    <2> QED BY <1>11, <1>a, <1>b, <2>2 DEF PatchRead
  <1>12. CASE PatchWrite
    <2>1. /\ [rule EXCEPT !.enabled = FALSE, !.status = "paused", !.since = 0] \in Rules
          /\ [rule EXCEPT !.enabled = TRUE] \in Rules
          /\ [NoRule EXCEPT !.present = TRUE, !.enabled = TRUE] \in Rules
      BY <1>a, <1>c DEF Rules, NoRule
    <2>2. rule' \in Rules /\ past' \subseteq {"overlap", "disable", "abort"}
      BY <1>12, <1>a, <2>1 DEF PatchWrite, PatchRows
    <2>3. NoPatch \in PatchRows
      BY DEF NoPatch, PatchRows
    <2> QED BY <1>12, <1>a, <1>b, <2>2, <2>3 DEF PatchWrite
  <1>13. CASE DeleteRule
    <2>1. NoRule \in Rules /\ <<>> \in Seq(EventRows)
      BY <1>c DEF NoRule, Rules
    <2> QED BY <1>13, <1>a, <1>b, <2>1 DEF DeleteRule
  <1>14. CASE AckRead
    <2>1. DOMAIN events \subseteq Nat
      BY <1>a, LenProperties
    <2> QED BY <1>14, <1>a, <1>b, <2>1 DEF AckRead
  <1>15. CASE AckWrite
    <2>1. acker.event \in DOMAIN events => [events EXCEPT ![acker.event].status = "acknowledged"] \in Seq(EventRows)
      <3>1. \A n \in Nat : events \in [1..n -> EventRows]
                           => [events EXCEPT ![acker.event].status = "acknowledged"] \in [1..n -> EventRows]
        BY DEF EventRows
      <3> QED BY <1>a, <3>1, Rewritten
    <2>2. NoAck \in [pc : {"idle", "write"}, event : Nat]
      BY DEF NoAck
    <2> QED BY <1>15, <1>a, <1>b, <2>1, <2>2 DEF AckWrite
  <1>16. CASE Tick
    BY <1>16, <1>a, <1>b DEF Tick, AlertsAssumption
  <1>17. CASE AlertsCrash
    <2>1. NoPatch \in PatchRows /\ NoAck \in [pc : {"idle", "write"}, event : Nat]
      BY DEF NoPatch, PatchRows, NoAck
    <2> QED BY <1>17, <1>a, <1>b, <1>d, <2>1 DEF AlertsCrash
  <1> QED
    BY <1>0, <1>1, <1>2, <1>3, <1>4, <1>5, <1>6, <1>7, <1>8, <1>9, <1>10, <1>11, <1>12, <1>13, <1>14, <1>15,
       <1>16, <1>17 DEF AlertsNext

\* A step of an evaluation on a rule that is there.
LEMMA EvalMoves ==
  ASSUME AlertsTypeOK, Fires, Resolves, NEW e \in Evaluators, NEW x \in EvalRows,
         eval[e].pc # "idle", eval' = [eval EXCEPT ![e] = x], UNCHANGED <<past, patcher>>,
         rule'.enabled = rule.enabled, rule.present,
         rule'.status = "firing"
           => \/ OpenEvent' \/ x.pc \in {"event", "ok"}
              \/ rule.status = "firing" /\ (OpenEvent => OpenEvent') /\ eval[e].pc \notin {"event", "ok"},
         past \cap {"overlap", "disable"} = {}
           => /\ rule'.status = "ok" => NoFiringEvent'
              /\ x.pc = "event" => rule'.status # "ok"
              /\ x.pc = "ok" => NoFiringEvent'
  PROVE  Fires' /\ Resolves'
  <1>1. eval'[e] = x /\ \A f \in Evaluators \ {e} : eval'[f] = eval[f]
    BY DEF AlertsTypeOK
  <1>2. Fires'
    BY <1>1 DEF Fires
  <1>3. ASSUME past' \cap {"overlap", "disable"} = {} PROVE Resolves'
    <2>1. e \in InFlight /\ \A f \in Evaluators \ {e} : eval[f].pc = "idle"
      BY <1>3 DEF Resolves, InFlight
    <2>2. \A f, g \in InFlight' : f = g
      BY <1>1, <2>1 DEF InFlight
    <2> QED BY <1>1, <1>3, <2>1, <2>2 DEF Resolves
  <1> QED BY <1>2, <1>3 DEF Resolves

\* A statement on a rule that is gone leaves the rule as it was.
LEMMA NoRuleNoMatter ==
  ASSUME ~rule'.present
  PROVE  Fires' /\ Resolves'
  BY DEF Fires, Resolves

\* A rule and its events keep step.
LEMMA AlertsKeepStep ==
  ASSUME AlertsAssumption, AlertsInv, [AlertsNext]_alertVars
  PROVE  Fires' /\ Resolves'
  <1>a. /\ rule \in Rules /\ events \in Seq(EventRows) /\ eval \in [Evaluators -> EvalRows]
        /\ patcher \in PatchRows /\ AlertsTypeOK /\ Fires /\ Resolves
    BY DEF AlertsTypeOK, EventRows, EvalRows, PatchRows, AlertsInv
  <1>b. ASSUME NEW e \in Evaluators PROVE AtRest(e) \in EvalRows /\ AtRest(e).pc = "idle"
    <2>1. eval[e].now \in 0..MaxMinute /\ 0 \in 0..MaxMinute
      BY <1>a DEF EvalRows
    <2> QED BY <2>1 DEF AtRest, NoEval, EvalRows, EvalPcs
  <1>c. DOMAIN events = 1..Len(events) /\ Len(events) \in Nat
    BY <1>a, LenProperties
  <1>0. CASE UNCHANGED alertVars
    BY <1>0, <1>a DEF alertVars, Fires, Resolves, OpenEvent, NoFiringEvent, InFlight
  <1>1. ASSUME NEW e \in Evaluators, EvalStart(e) PROVE Fires' /\ Resolves'
    <2>1. PICK x : eval' = [eval EXCEPT ![e] = x] /\ x.pc \notin {"event", "ok"}
      <3>1. \A met \in BOOLEAN : Verdict(rule, met, minute) \notin {"event", "ok"}
        BY DEF Verdict
      <3> QED BY <1>1, <3>1 DEF EvalStart, NoEval
    <2>2. /\ UNCHANGED <<rule, events, patcher>> /\ eval[e].pc = "idle"
          /\ past' = IF InFlight # {} THEN past \cup {"overlap"} ELSE past
      BY <1>1 DEF EvalStart
    <2>3. eval'[e].pc \notin {"event", "ok"} /\ \A f \in Evaluators \ {e} : eval'[f] = eval[f]
      BY <1>a, <2>1
    <2>4. OpenEvent' = OpenEvent /\ NoFiringEvent' = NoFiringEvent
      BY <2>2 DEF OpenEvent, NoFiringEvent
    <2>5. Fires'
      BY <1>a, <2>2, <2>3, <2>4 DEF Fires
    <2>6. CASE InFlight # {}
      <3>1. "overlap" \in past'
        BY <2>2, <2>6
      <3>2. past' \cap {"overlap", "disable"} # {}
        BY <3>1
      <3> QED BY <2>5, <3>2 DEF Resolves
    <2>7. CASE InFlight = {}
      <3>1. past' = past
        BY <2>2, <2>7
      <3>2. \A f \in Evaluators \ {e} : eval'[f].pc = "idle"
        BY <2>3, <2>7 DEF InFlight
      <3>3. \A f, g \in InFlight' : f = g
        BY <3>2 DEF InFlight
      <3>4. \A f \in Evaluators : eval'[f].pc \notin {"event", "ok"}
        BY <2>3, <3>2
      <3> QED BY <1>a, <2>2, <2>4, <2>5, <3>1, <3>3, <3>4 DEF Resolves
    <2> QED BY <2>5, <2>6, <2>7
  <1>2. ASSUME NEW e \in Evaluators, EvalClock(e) PROVE Fires' /\ Resolves'
    <2>1. CASE rule.present
      <3>1. /\ eval' = [eval EXCEPT ![e] = AtRest(e)] /\ UNCHANGED <<events, past, patcher>>
            /\ eval[e].pc \in {"clock", "reset"}
            /\ rule' = [rule EXCEPT !.since = eval[e].now] \/ rule' = [rule EXCEPT !.since = 0]
        BY <1>2, <2>1 DEF EvalClock, EvalStep
      <3>2. rule'.enabled = rule.enabled /\ rule'.status = rule.status
        BY <1>a, <3>1 DEF Rules
      <3>3. OpenEvent' = OpenEvent /\ NoFiringEvent' = NoFiringEvent
        BY <3>1 DEF OpenEvent, NoFiringEvent
      <3> QED BY <1>a, <1>b, <2>1, <3>1, <3>2, <3>3, EvalMoves DEF Resolves
    <2> QED BY <1>2, <2>1, NoRuleNoMatter DEF EvalClock, EvalStep
  <1>3. ASSUME NEW e \in Evaluators, EvalFire(e) PROVE Fires' /\ Resolves'
    <2>1. CASE rule.present
      <3>1. PICK x : x = [eval[e] EXCEPT !.pc = "event"]
        OBVIOUS
      <3>2. /\ eval' = [eval EXCEPT ![e] = x] /\ UNCHANGED <<events, past, patcher>>
            /\ eval[e].pc = "fire" /\ rule' = [rule EXCEPT !.status = "firing"]
        BY <1>3, <2>1, <3>1 DEF EvalFire, EvalStep
      <3>3. rule'.enabled = rule.enabled /\ rule'.status = "firing" /\ x \in EvalRows /\ x.pc = "event"
        BY <1>a, <3>1, <3>2 DEF Rules, EvalRows, EvalPcs
      <3> QED BY <1>a, <2>1, <3>2, <3>3, EvalMoves
    <2> QED BY <1>3, <2>1, NoRuleNoMatter DEF EvalFire, EvalStep
  <1>4. ASSUME NEW e \in Evaluators, EvalEvent(e) PROVE Fires' /\ Resolves'
    <2>1. CASE rule.present
      <3>0. PICK n \in Nat : n = Len(events) + 1
        BY <1>a, LenProperties
      <3>1. PICK x : x = IF CooledDown(e) THEN [eval[e] EXCEPT !.pc = "notify", !.event = n] ELSE AtRest(e)
        OBVIOUS
      <3>2. /\ eval' = [eval EXCEPT ![e] = x] /\ UNCHANGED <<rule, past, patcher>> /\ eval[e].pc = "event"
            /\ events' = Append(events, [status |-> "firing", notified |-> FALSE])
        BY <1>4, <2>1, <3>0, <3>1 DEF EvalEvent, EvalStep
      <3>3. x \in EvalRows /\ x.pc \in {"notify", "idle"}
        <4>1. CASE CooledDown(e)
          BY <1>a, <3>1, <4>1 DEF EvalRows, EvalPcs
        <4>2. CASE ~CooledDown(e)
          BY <1>b, <3>1, <4>2
        <4> QED BY <4>1, <4>2
      <3>4. OpenEvent'
        <4>1. [status |-> "firing", notified |-> FALSE] \in EventRows
          BY DEF EventRows
        <4>2. Len(events) + 1 \in DOMAIN events' /\ events'[Len(events) + 1].status = "firing"
          BY <1>a, <1>c, <3>2, <4>1, AppendProperties, LenProperties
        <4> QED BY <4>2 DEF OpenEvent
      <3>5. past \cap {"overlap", "disable"} = {} => rule'.status # "ok"
        BY <1>a, <2>1, <3>2 DEF Resolves
      <3> QED BY <1>a, <2>1, <3>2, <3>3, <3>4, <3>5, EvalMoves
    <2> QED BY <1>4, <2>1, NoRuleNoMatter DEF EvalEvent, EvalStep
  <1>5. ASSUME NEW e \in Evaluators, EvalNotify(e) PROVE Fires' /\ Resolves'
    <2>1. PICK x : x = [eval[e] EXCEPT !.pc = "stamp"]
      OBVIOUS
    <2>2. eval' = [eval EXCEPT ![e] = x] /\ UNCHANGED <<rule, events, past, patcher>> /\ eval[e].pc = "notify"
      BY <1>5, <2>1 DEF EvalNotify
    <2>3. x \in EvalRows /\ x.pc = "stamp"
      BY <1>a, <2>1 DEF EvalRows, EvalPcs
    <2>4. OpenEvent' = OpenEvent /\ NoFiringEvent' = NoFiringEvent
      BY <2>2 DEF OpenEvent, NoFiringEvent
    <2> QED BY <1>a, <2>2, <2>3, <2>4, EvalMoves, NoRuleNoMatter DEF Resolves
  <1>6. ASSUME NEW e \in Evaluators, EvalStamp(e) PROVE Fires' /\ Resolves'
    <2>1. CASE rule.present
      <3>1. PICK x : x = [eval[e] EXCEPT !.pc = "mark"]
        OBVIOUS
      <3>2. /\ eval' = [eval EXCEPT ![e] = x] /\ UNCHANGED <<events, past, patcher>>
            /\ eval[e].pc = "stamp" /\ rule' = [rule EXCEPT !.notified = eval[e].now]
        BY <1>6, <2>1, <3>1 DEF EvalStamp, EvalStep
      <3>3. rule'.enabled = rule.enabled /\ rule'.status = rule.status /\ x \in EvalRows /\ x.pc = "mark"
        BY <1>a, <3>1, <3>2 DEF Rules, EvalRows, EvalPcs
      <3>4. OpenEvent' = OpenEvent /\ NoFiringEvent' = NoFiringEvent
        BY <3>2 DEF OpenEvent, NoFiringEvent
      <3> QED BY <1>a, <2>1, <3>2, <3>3, <3>4, EvalMoves DEF Resolves
    <2> QED BY <1>6, <2>1, NoRuleNoMatter DEF EvalStamp, EvalStep
  <1>7. ASSUME NEW e \in Evaluators, EvalMark(e) PROVE Fires' /\ Resolves'
    <2>1. CASE rule.present
      <3>1. /\ eval' = [eval EXCEPT ![e] = AtRest(e)] /\ UNCHANGED <<rule, past, patcher>> /\ eval[e].pc = "mark"
            /\ events' = [events EXCEPT ![eval[e].event].notified = TRUE]
        BY <1>7, <2>1 DEF EvalMark, EvalStep
      <3>2. \A n \in Nat : events \in [1..n -> EventRows]
              => events' \in [1..n -> EventRows] /\ \A i \in 1..n : events'[i].status = events[i].status
        BY <3>1 DEF EventRows
      <3>3. DOMAIN events' = DOMAIN events /\ \A i \in DOMAIN events : events'[i].status = events[i].status
        BY <1>a, <1>c, <3>2, LenProperties
      <3>4. OpenEvent' = OpenEvent /\ NoFiringEvent' = NoFiringEvent
        BY <3>3 DEF OpenEvent, NoFiringEvent
      <3> QED BY <1>a, <1>b, <2>1, <3>1, <3>4, EvalMoves DEF Resolves
    <2> QED BY <1>7, <2>1, NoRuleNoMatter DEF EvalMark, EvalStep
  <1>8. ASSUME NEW e \in Evaluators, EvalResolve(e) PROVE Fires' /\ Resolves'
    <2>1. CASE rule.present
      <3>1. PICK x : x = [eval[e] EXCEPT !.pc = "ok"]
        OBVIOUS
      <3>2. /\ eval' = [eval EXCEPT ![e] = x] /\ UNCHANGED <<rule, past, patcher>> /\ eval[e].pc = "resolve"
            /\ events' = [i \in DOMAIN events |-> IF events[i].status = "firing"
                            THEN [events[i] EXCEPT !.status = "resolved"] ELSE events[i]]
        BY <1>8, <2>1, <3>1 DEF EvalResolve, EvalStep
      <3>3. x \in EvalRows /\ x.pc = "ok"
        BY <1>a, <3>1 DEF EvalRows, EvalPcs
      <3>4. NoFiringEvent'
        <4>1. \A i \in DOMAIN events : events[i] \in EventRows
          BY <1>a, <1>c, ElementOfSeq
        <4> QED BY <3>2, <4>1 DEF NoFiringEvent, EventRows
      <3> QED BY <1>a, <2>1, <3>2, <3>3, <3>4, EvalMoves
    <2> QED BY <1>8, <2>1, NoRuleNoMatter DEF EvalResolve, EvalStep
  <1>9. ASSUME NEW e \in Evaluators, EvalOk(e) PROVE Fires' /\ Resolves'
    <2>1. CASE rule.present
      <3>1. /\ eval' = [eval EXCEPT ![e] = AtRest(e)] /\ UNCHANGED <<events, past, patcher>> /\ eval[e].pc = "ok"
            /\ rule' = [rule EXCEPT !.status = "ok", !.since = 0]
        BY <1>9, <2>1 DEF EvalOk, EvalStep
      <3>2. rule'.enabled = rule.enabled /\ rule'.status = "ok"
        BY <1>a, <3>1 DEF Rules
      <3>3. past \cap {"overlap", "disable"} = {} => NoFiringEvent'
        BY <1>a, <2>1, <3>1 DEF Resolves, NoFiringEvent
      <3> QED BY <1>a, <1>b, <2>1, <3>1, <3>2, <3>3, EvalMoves
    <2> QED BY <1>9, <2>1, NoRuleNoMatter DEF EvalOk, EvalStep
  <1>10. ASSUME NEW e \in Evaluators, EvalAbort(e) PROVE Fires' /\ Resolves'
    <2>1. /\ eval' = [eval EXCEPT ![e] = AtRest(e)] /\ UNCHANGED <<rule, events, patcher>>
          /\ past' = past \cup {"abort"} /\ eval[e].pc # "idle"
      BY <1>10 DEF EvalAbort
    <2>2. eval'[e].pc = "idle" /\ \A f \in Evaluators \ {e} : eval'[f] = eval[f]
      BY <1>a, <1>b, <2>1
    <2>3. InFlight' \subseteq InFlight
      BY <2>1, <2>2 DEF InFlight
    <2> QED BY <1>a, <2>1, <2>2, <2>3 DEF Fires, Resolves, NoFiringEvent
  <1>11. CASE PatchRead
    <2>1. UNCHANGED <<rule, events, eval, past>> /\ patcher'.was = rule.enabled
      BY <1>11 DEF PatchRead
    <2> QED BY <1>a, <2>1 DEF Fires, Resolves, OpenEvent, NoFiringEvent, InFlight
  <1>12. CASE PatchWrite
    <2>1. UNCHANGED <<events, eval>> /\ patcher'.pc = "idle" /\ patcher.pc = "write" /\ patcher.enabled \in BOOLEAN
      BY <1>12, <1>a DEF PatchWrite, NoPatch, PatchRows
    <2>2. OpenEvent' = OpenEvent /\ NoFiringEvent' = NoFiringEvent /\ InFlight' = InFlight
      BY <2>1 DEF OpenEvent, NoFiringEvent, InFlight
    <2>3. CASE ~rule.present
      <3>1. UNCHANGED rule
        BY <1>12, <2>3 DEF PatchWrite
      <3> QED BY <2>3, <3>1, NoRuleNoMatter
    <2>4. CASE rule.present /\ ~patcher.enabled
      <3>1. /\ rule' = [rule EXCEPT !.enabled = FALSE, !.status = "paused", !.since = 0]
            /\ past' = past \cup {"disable"}
        BY <1>12, <2>4 DEF PatchWrite
      <3>2. rule'.status = "paused"
        BY <1>a, <3>1 DEF Rules
      <3> QED BY <3>1, <3>2 DEF Fires, Resolves
    <2>5. CASE rule.present /\ patcher.enabled /\ patcher.was
      <3>1. rule' = [rule EXCEPT !.enabled = TRUE] /\ UNCHANGED past
        BY <1>12, <2>5 DEF PatchWrite
      <3>2. rule'.status = rule.status /\ rule'.enabled /\ rule'.present = rule.present
        BY <1>a, <3>1 DEF Rules
      <3> QED BY <1>a, <2>1, <2>2, <2>5, <3>1, <3>2 DEF Fires, Resolves
    <2>6. CASE rule.present /\ patcher.enabled /\ ~patcher.was
      <3>1. rule' = [NoRule EXCEPT !.present = TRUE, !.enabled = TRUE] /\ UNCHANGED past
        BY <1>12, <2>6 DEF PatchWrite
      <3>2. rule'.status = "ok"
        BY <3>1 DEF NoRule
      <3>3. past \cap {"overlap", "disable"} # {}
        BY <1>a, <2>1, <2>6 DEF Resolves
      <3> QED BY <3>1, <3>2, <3>3 DEF Fires, Resolves
    <2> QED BY <2>1, <2>3, <2>4, <2>5, <2>6
  <1>13. CASE DeleteRule
    BY <1>13, NoRuleNoMatter DEF DeleteRule, NoRule
  <1>14. CASE AckRead
    BY <1>14, <1>a DEF AckRead, Fires, Resolves, OpenEvent, NoFiringEvent, InFlight
  <1>15. CASE AckWrite
    <2>1. UNCHANGED <<rule, eval, past, patcher>>
      BY <1>15 DEF AckWrite
    <2>2. \A n \in Nat : events \in [1..n -> EventRows]
            => events' \in [1..n -> EventRows]
               /\ \A i \in 1..n : events'[i].status \in {events[i].status, "acknowledged"}
      BY <1>15 DEF AckWrite, EventRows
    <2>3. /\ DOMAIN events' = DOMAIN events
          /\ \A i \in DOMAIN events : events'[i].status \in {events[i].status, "acknowledged"}
      BY <1>a, <1>c, <2>2, LenProperties
    <2>4. (OpenEvent => OpenEvent') /\ (NoFiringEvent => NoFiringEvent')
      BY <2>3 DEF OpenEvent, NoFiringEvent
    <2> QED BY <1>a, <2>1, <2>4 DEF Fires, Resolves, InFlight
  <1>16. CASE Tick
    BY <1>16, <1>a DEF Tick, Fires, Resolves, OpenEvent, NoFiringEvent, InFlight
  <1>17. CASE AlertsCrash
    <2>1. /\ \A e \in Evaluators : eval'[e].pc = "idle"
          /\ patcher'.pc = "idle" /\ "abort" \in past' /\ past \subseteq past' /\ UNCHANGED <<rule, events>>
      BY <1>17, <1>b DEF AlertsCrash, NoPatch
    <2>2. InFlight' = {}
      BY <2>1 DEF InFlight
    <2> QED BY <1>a, <2>1, <2>2 DEF Fires, Resolves, NoFiringEvent
  <1> QED
    BY <1>0, <1>1, <1>2, <1>3, <1>4, <1>5, <1>6, <1>7, <1>8, <1>9, <1>10, <1>11, <1>12, <1>13, <1>14, <1>15,
       <1>16, <1>17 DEF AlertsNext

\* The conjunction is invariant in every behaviour.
LEMMA AlertsInvariance == AlertsSpec => []AlertsInv
  <1>1. ASSUME AlertsInit PROVE AlertsInv
    <2>0. 0 \in 0..MaxMinute /\ 1 \in 1..MaxMinute
      BY AlertsAssumption DEF AlertsAssumption
    <2>1. NoRule \in Rules /\ [NoRule EXCEPT !.present = TRUE, !.enabled = TRUE] \in Rules
          /\ [NoRule EXCEPT !.present = TRUE, !.enabled = TRUE].status = "ok"
          /\ [NoRule EXCEPT !.present = TRUE, !.enabled = TRUE].enabled
      BY <2>0 DEF NoRule, Rules
    <2>2. NoEval \in EvalRows /\ NoEval.pc = "idle" /\ NoPatch \in PatchRows /\ NoPatch.pc = "idle"
      BY <2>0 DEF NoEval, EvalRows, EvalPcs, NoPatch, PatchRows
    <2>3. AlertsTypeOK
      BY <1>1, <2>0, <2>1, <2>2 DEF AlertsInit, AlertsTypeOK, EvalRows, PatchRows, NoAck
    <2>4. NoFiringEvent /\ InFlight = {}
      BY <1>1, <2>2 DEF AlertsInit, NoFiringEvent, InFlight
    <2> QED BY <1>1, <2>1, <2>2, <2>3, <2>4 DEF AlertsInit, AlertsInv, Fires, Resolves
  <1>2. AlertsInv /\ [AlertsNext]_alertVars => AlertsInv'
    BY AlertsKeepTypes, AlertsKeepStep, AlertsAssumption DEF AlertsInv
  <1> QED BY <1>1, <1>2, PTL DEF AlertsSpec

\* Whatever evaluations, patches, acknowledgements and deletions interleave, a rule and its
\* events agree when no evaluation is under way, outside the named causes (alertEvaluator.ts,
\* routes/alerts.ts).
THEOREM AlertsAgree == AlertsSpec => []AlertStatusMatchesEvents
  <1>1. AlertsInv => AlertStatusMatchesEvents
    <2> SUFFICES ASSUME AlertsInv PROVE AlertStatusMatchesEvents
      OBVIOUS
    <2>1. InFlight = {} => \A e \in Evaluators : eval[e].pc = "idle"
      BY DEF InFlight
    <2>2. FiringRuleHasOpenEvent
      BY <2>1 DEF AlertsInv, Fires, OpenEvent, FiringRuleHasOpenEvent
    <2>3. OkRuleHasNoFiringEvent
      BY DEF AlertsInv, Resolves, NoFiringEvent, OkRuleHasNoFiringEvent
    <2> QED BY <2>2, <2>3 DEF AlertStatusMatchesEvents
  <1> QED BY <1>1, AlertsInvariance, PTL

-----------------------------------------------------------------------------
(* The pooled clients and the snapshots.                                     *)

AskPcs == {"idle", "row", "pool", "dial", "command", "store", "serve"}
AskRows == [pc : AskPcs, conn : MongoConns, snap : BOOLEAN, at : Nat, client : Nat, read : Int, extra : Int]

PoolTyped ==
    /\ connRow \in [MongoConns -> {"new", "there", "gone"}]
    /\ closing \in [MongoConns -> {"no", "row", "client"}]
    /\ pool \in [MongoConns -> Nat] /\ clients \subseteq [id : Nat, conn : MongoConns]
    /\ made \in Nat /\ overlapped \subseteq Nat /\ clock \in Nat
    /\ asker \in [PoolUsers -> AskRows]
    /\ counted \in [MongoConns -> [at : Nat, read : Int]]
    /\ snapshots \in [MongoConns -> [at : Int, read : Int, extra : Int]]
    /\ shown \in [asked : Int, read : Int, extra : Int]

\* A dial has a client number of its own; where it is not alone, or the connection is no
\* longer there, it is one of those that overlapped; and so is a client that was pooled while
\* another was dialled.
Dials ==
    /\ \A n \in clients : n.id \in 1..made
    /\ \A c \in MongoConns : closing[c] # "no" => connRow[c] = "gone"
    /\ \A a \in PoolUsers : asker[a].pc \in {"pool", "dial"} => connRow[asker[a].conn] # "new"
    /\ \A a \in PoolUsers : asker[a].pc = "dial" =>
         /\ asker[a].client \in 1..made
         /\ \A n \in clients : n.id = asker[a].client => n.conn = asker[a].conn
         /\ connRow[asker[a].conn] = "there" \/ asker[a].client \in overlapped
         /\ pool[asker[a].conn] # 0 => pool[asker[a].conn] \in overlapped
         /\ \A b \in PoolUsers \ {a} :
              asker[b].pc = "dial" /\ asker[b].conn = asker[a].conn => asker[a].client \in overlapped

\* Whatever was read was read after the request that asked for it came.
Honest ==
    /\ \A c \in MongoConns : /\ counted[c].read = Never \/ counted[c].at <= counted[c].read
                        /\ snapshots[c].at <= snapshots[c].read
    /\ \A a \in PoolUsers :
         /\ asker[a].at <= clock
         /\ asker[a].pc = "store" => /\ asker[a].at <= asker[a].read
                                     /\ asker[a].extra <= asker[a].read - asker[a].at
         /\ asker[a].pc = "serve" => asker[a].at - asker[a].read < SnapshotTtl
    /\ shown.asked - shown.read < SnapshotTtl

PoolInv == PoolTyped /\ Dials /\ ClientsAccounted /\ Honest

\* The idle asker is a row.
LEMMA IdleAskerTyped ==
  ASSUME MongoPoolAssumption
  PROVE  IdleAsker \in AskRows /\ IdleAsker.pc = "idle" /\ IdleAsker.at = 0
  <1>1. (CHOOSE c \in MongoConns : TRUE) \in MongoConns
    BY DEF MongoPoolAssumption
  <1> QED BY <1>1 DEF IdleAsker, AskRows, AskPcs, Never

\* Every action replaces the row of one request at most.
LEMMA AskerSteps ==
  ASSUME MongoPoolAssumption, PoolInv, NEW a \in PoolUsers, NEW c \in MongoConns,
         \/ AskSnapshot(a, c) \/ AskOther(a, c)
         \/ ReadRow(a) \/ UsePool(a) \/ Dialled(a) \/ DialFails(a) \/ ReadStatus(a)
         \/ Answer(a) \/ CommandFails(a) \/ Store(a) \/ Serve(a)
  PROVE  \E x \in AskRows : /\ asker' = [asker EXCEPT ![a] = x]
                            /\ x.at <= clock
  <1>a. /\ asker[a] \in AskRows /\ clock \in Nat /\ made \in Nat /\ pool[asker[a].conn] \in Nat
        /\ snapshots[c] \in [at : Int, read : Int, extra : Int] /\ asker[a].at <= clock
        /\ asker \in [PoolUsers -> AskRows] /\ counted[asker[a].conn] \in [at : Nat, read : Int]
    <2>1. asker[a].conn \in MongoConns
      BY DEF PoolInv, PoolTyped, AskRows
    <2> QED BY <2>1 DEF PoolInv, PoolTyped, Honest
  <1>b. IdleAsker \in AskRows /\ IdleAsker.at <= clock
    BY <1>a, IdleAskerTyped DEF AskRows
  <1>1. CASE AskSnapshot(a, c)
    <2> DEFINE hit == clock - snapshots[c].at < SnapshotTtl
               x == [pc |-> IF hit THEN "serve" ELSE "row", conn |-> c, snap |-> TRUE,
                     at |-> clock, client |-> 0,
                     read |-> IF hit THEN snapshots[c].read ELSE Never,
                     extra |-> IF hit THEN snapshots[c].extra ELSE 0]
    <2>1. x \in AskRows /\ x.at <= clock
      BY <1>a DEF AskRows, AskPcs, Never
    <2>2. asker' = [asker EXCEPT ![a] = x]
      BY <1>1 DEF AskSnapshot
    <2> QED BY <2>1, <2>2
  <1>2. CASE AskOther(a, c)
    <2>1. [IdleAsker EXCEPT !.pc = "row", !.conn = c] \in AskRows
      BY <1>b DEF AskRows, AskPcs
    <2>2. [IdleAsker EXCEPT !.pc = "row", !.conn = c].at <= clock
      BY <1>b DEF AskRows
    <2> QED BY <1>2, <2>1, <2>2 DEF AskOther
  <1>3. ASSUME NEW k \in Nat, NEW pc \in AskPcs
        PROVE  /\ [asker[a] EXCEPT !.pc = pc] \in AskRows /\ [asker[a] EXCEPT !.pc = pc].at <= clock
               /\ [asker[a] EXCEPT !.pc = pc, !.client = k] \in AskRows
               /\ [asker[a] EXCEPT !.pc = pc, !.client = k].at <= clock
               /\ [asker EXCEPT ![a].pc = pc] = [asker EXCEPT ![a] = [asker[a] EXCEPT !.pc = pc]]
               /\ [asker EXCEPT ![a].pc = pc, ![a].client = k]
                    = [asker EXCEPT ![a] = [asker[a] EXCEPT !.pc = pc, !.client = k]]
    BY <1>a DEF AskRows
  <1>4. CASE ReadRow(a)
    BY <1>4, <1>3, <1>b DEF ReadRow, AskPcs
  <1>5. CASE UsePool(a)
    <2>1. made + 1 \in Nat
      BY <1>a
    <2>2. PICK k \in Nat, pc \in AskPcs : asker' = [asker EXCEPT ![a].pc = pc, ![a].client = k]
      BY <1>5, <1>a, <2>1 DEF UsePool, AskPcs
    <2>3. PICK x : x = [asker[a] EXCEPT !.pc = pc, !.client = k]
      OBVIOUS
    <2>4. x \in AskRows /\ x.at <= clock /\ asker' = [asker EXCEPT ![a] = x]
      BY <1>3, <2>2, <2>3
    <2> QED BY <2>4
  <1>6. CASE Dialled(a)
    BY <1>6, <1>3 DEF Dialled, AskPcs
  <1>7. CASE ReadStatus(a)
    <2> DEFINE last == counted[asker[a].conn]
               gap == asker[a].at - last.at
               ticks0 == IF gap > 1 THEN gap ELSE 1
    <2>1. PICK extra \in Int : extra = IF last.read = Never \/ clock - last.read <= ticks0 THEN 0
                                       ELSE clock - last.read - ticks0
      BY <1>a DEF Never, AskRows
    <2>2. asker' = [asker EXCEPT ![a].pc = "store", ![a].read = clock, ![a].extra = extra]
      BY <1>7, <2>1 DEF ReadStatus
    <2> HIDE DEF last, gap, ticks0
    <2>3. PICK t \in Int : t = clock
      BY <1>a
    <2>4. PICK x : x = [asker[a] EXCEPT !.pc = "store", !.read = t, !.extra = extra]
      OBVIOUS
    <2>5. x \in AskRows /\ x.at = asker[a].at
      BY <1>a, <2>4 DEF AskRows, AskPcs
    <2>6. asker' = [asker EXCEPT ![a] = x]
      BY <1>a, <2>2, <2>3, <2>4
    <2> QED BY <1>a, <2>5, <2>6
  <1>8. CASE Store(a)
    BY <1>8, <1>3 DEF Store, AskPcs
  <1>9. CASE DialFails(a) \/ Answer(a) \/ CommandFails(a) \/ Serve(a)
    BY <1>9, <1>b DEF DialFails, Answer, CommandFails, Serve
  <1> QED BY <1>1, <1>2, <1>4, <1>5, <1>6, <1>7, <1>8, <1>9

\* Every step of the pool keeps the types.
LEMMA PoolKeepsTypes ==
  ASSUME MongoPoolAssumption, PoolInv, [PoolNext]_poolVars
  PROVE  PoolTyped'
  <1>a. /\ connRow \in [MongoConns -> {"new", "there", "gone"}] /\ closing \in [MongoConns -> {"no", "row", "client"}]
        /\ pool \in [MongoConns -> Nat] /\ clients \subseteq [id : Nat, conn : MongoConns]
        /\ made \in Nat /\ overlapped \subseteq Nat /\ clock \in Nat
        /\ asker \in [PoolUsers -> AskRows]
        /\ counted \in [MongoConns -> [at : Nat, read : Int]]
        /\ snapshots \in [MongoConns -> [at : Int, read : Int, extra : Int]]
        /\ shown \in [asked : Int, read : Int, extra : Int]
    BY DEF PoolInv, PoolTyped
  <1>b. ASSUME NEW c \in MongoConns PROVE Dialling(c) \subseteq Nat
    BY <1>a DEF Dialling, AskRows
  <1>c. ASSUME NEW a \in PoolUsers, NEW x \in AskRows, asker' = [asker EXCEPT ![a] = x]
        PROVE  asker' \in [PoolUsers -> AskRows]
    BY <1>a, <1>c
  <1>0. CASE UNCHANGED poolVars
    BY <1>0, <1>a DEF poolVars, PoolTyped
  <1>1. ASSUME NEW a \in PoolUsers, NEW c \in MongoConns, AskSnapshot(a, c) \/ AskOther(a, c) PROVE PoolTyped'
    <2>1. asker' \in [PoolUsers -> AskRows]
      BY <1>1, <1>c, AskerSteps
    <2> QED BY <1>1, <1>a, <2>1 DEF AskSnapshot, AskOther, PoolTyped, UnchangedWorld, UnchangedClients
  <1>2. ASSUME NEW a \in PoolUsers,
               \/ ReadRow(a) \/ UsePool(a) \/ Dialled(a) \/ DialFails(a) \/ ReadStatus(a)
               \/ Answer(a) \/ CommandFails(a) \/ Store(a) \/ Serve(a)
        PROVE  PoolTyped'
    <2>0. asker[a] \in AskRows /\ asker[a].conn \in MongoConns
      BY <1>a DEF AskRows
    <2>1. asker' \in [PoolUsers -> AskRows]
      BY <1>2, <1>c, <2>0, AskerSteps
    <2>2. CASE ReadRow(a) \/ Answer(a) \/ CommandFails(a)
      BY <2>2, <1>a, <2>1 DEF ReadRow, Answer, CommandFails, PoolTyped, UnchangedWorld, UnchangedClients
    <2>3. CASE UsePool(a)
      <3>1. made + 1 \in Nat /\ [id |-> made + 1, conn |-> asker[a].conn] \in [id : Nat, conn : MongoConns]
        BY <1>a, <2>0
      <3>2. made' \in Nat /\ clients' \subseteq [id : Nat, conn : MongoConns] /\ overlapped' \subseteq Nat
        BY <2>3, <1>a, <1>b, <2>0, <3>1 DEF UsePool
      <3> QED BY <2>3, <1>a, <2>1, <3>2 DEF UsePool, PoolTyped, UnchangedWorld
    <2>4. CASE Dialled(a) \/ DialFails(a)
      <3>1. asker[a].client \in Nat
        BY <2>0 DEF AskRows
      <3>2. pool' \in [MongoConns -> Nat] /\ clients' \subseteq clients
        BY <2>4, <1>a, <2>0, <3>1 DEF Dialled, DialFails
      <3> QED BY <2>4, <1>a, <2>1, <3>2 DEF Dialled, DialFails, PoolTyped, UnchangedWorld
    <2>5. CASE ReadStatus(a)
      <3>1. [at |-> asker[a].at, read |-> clock] \in [at : Nat, read : Int]
        BY <1>a, <2>0 DEF AskRows
      <3>2. counted' \in [MongoConns -> [at : Nat, read : Int]]
        BY <2>5, <1>a, <2>0, <3>1 DEF ReadStatus
      <3> QED BY <2>5, <1>a, <2>1, <3>2 DEF ReadStatus, PoolTyped, UnchangedWorld, UnchangedClients
    <2>6. CASE Store(a)
      <3>1. [at |-> asker[a].at, read |-> asker[a].read, extra |-> asker[a].extra] \in [at : Int, read : Int, extra : Int]
        BY <2>0 DEF AskRows
      <3>2. snapshots' \in [MongoConns -> [at : Int, read : Int, extra : Int]]
        BY <2>6, <1>a, <2>0, <3>1 DEF Store
      <3> QED BY <2>6, <1>a, <2>1, <3>2 DEF Store, PoolTyped, UnchangedWorld, UnchangedClients
    <2>7. CASE Serve(a)
      <3>1. shown' \in [asked : Int, read : Int, extra : Int]
        BY <2>7, <2>0 DEF Serve, AskRows
      <3> QED BY <2>7, <1>a, <2>1, <3>1 DEF Serve, PoolTyped, UnchangedWorld, UnchangedClients
    <2> QED BY <1>2, <2>2, <2>3, <2>4, <2>5, <2>6, <2>7
  <1>3. ASSUME NEW c \in MongoConns, CreateRow(c) \/ DeleteRow(c) \/ CloseClient(c) \/ ClientClosed(c) \/ Trouble(c)
        PROVE  PoolTyped'
    <2>1. CASE CreateRow(c) \/ Trouble(c)
      BY <2>1, <1>a DEF CreateRow, Trouble, PoolTyped, UnchangedClients
    <2>2. CASE DeleteRow(c)
      BY <2>2, <1>a, <1>b DEF DeleteRow, PoolTyped
    <2>3. CASE CloseClient(c)
      <3>1. closing' \in [MongoConns -> {"no", "row", "client"}] /\ clients' \subseteq clients
        BY <2>3, <1>a DEF CloseClient
      <3> QED BY <2>3, <1>a, <3>1 DEF CloseClient, PoolTyped, UnchangedWorld
    <2>4. CASE ClientClosed(c)
      <3>1. closing' \in [MongoConns -> {"no", "row", "client"}] /\ pool' \in [MongoConns -> Nat]
        BY <2>4, <1>a DEF ClientClosed
      <3> QED BY <2>4, <1>a, <3>1 DEF ClientClosed, PoolTyped, UnchangedWorld
    <2> QED BY <1>3, <2>1, <2>2, <2>3, <2>4
  <1>4. CASE PoolTick
    BY <1>4, <1>a DEF PoolTick, PoolTyped, UnchangedClients
  <1> QED BY <1>0, <1>1, <1>2, <1>3, <1>4 DEF PoolNext

\* A request that neither dials nor ends a dial leaves the accounts as they are.
LEMMA QuietAsker ==
  ASSUME PoolInv, NEW a \in PoolUsers, NEW x \in AskRows, asker' = [asker EXCEPT ![a] = x],
         asker[a].pc # "dial", x.pc # "dial", x.pc = "pool" => connRow[x.conn] # "new",
         UNCHANGED <<connRow, pool, clients, made, closing, overlapped>>
  PROVE  Dials' /\ ClientsAccounted'
  <1>1. asker'[a] = x /\ \A b \in PoolUsers \ {a} : asker'[b] = asker[b]
    BY DEF PoolInv, PoolTyped
  <1>2. \A b \in PoolUsers : (asker'[b].pc = "dial" <=> asker[b].pc = "dial")
                             /\ (asker[b].pc = "dial" => asker'[b] = asker[b])
    BY <1>1
  <1>3. Dials'
    <2>1. \A b \in PoolUsers : asker'[b].pc \in {"pool", "dial"} => connRow'[asker'[b].conn] # "new"
      BY <1>1 DEF PoolInv, Dials
    <2> QED BY <1>2, <2>1 DEF PoolInv, Dials
  <1>4. ASSUME NEW c \in MongoConns PROVE Dialling(c)' = Dialling(c)
    BY <1>2 DEF Dialling
  <1>5. ClientsAccounted'
    BY <1>4 DEF PoolInv, PoolTyped, ClientsAccounted
  <1> QED BY <1>3, <1>5

\* Every step of the pool keeps the accounts of its clients.
LEMMA PoolKeepsDials ==
  ASSUME MongoPoolAssumption, PoolInv, [PoolNext]_poolVars
  PROVE  Dials' /\ ClientsAccounted'
  <1>a. /\ connRow \in [MongoConns -> {"new", "there", "gone"}] /\ closing \in [MongoConns -> {"no", "row", "client"}]
        /\ pool \in [MongoConns -> Nat] /\ clients \subseteq [id : Nat, conn : MongoConns]
        /\ made \in Nat /\ overlapped \subseteq Nat /\ asker \in [PoolUsers -> AskRows]
    BY DEF PoolInv, PoolTyped
  <1>b. ASSUME NEW a \in PoolUsers PROVE asker[a] \in AskRows /\ asker[a].conn \in MongoConns
    BY <1>a DEF AskRows
  <1>c. IdleAsker \in AskRows /\ IdleAsker.pc = "idle"
    BY IdleAskerTyped
  <1>d. ASSUME NEW n \in clients PROVE n.id \in 1..made /\ n.conn \in MongoConns
    BY <1>a DEF PoolInv, Dials
  <1>e. ASSUME NEW a \in PoolUsers, asker[a].pc = "dial"
        PROVE  asker[a].client \in Dialling(asker[a].conn) /\ asker[a].client \in 1..made
    BY <1>e DEF Dialling, PoolInv, Dials
  <1>0. CASE UNCHANGED poolVars
    BY <1>0 DEF poolVars, PoolInv, Dials, ClientsAccounted, Dialling
  <1>1. ASSUME NEW a \in PoolUsers, NEW c \in MongoConns, AskSnapshot(a, c) \/ AskOther(a, c)
        PROVE  Dials' /\ ClientsAccounted'
    <2>1. PICK x \in AskRows : asker' = [asker EXCEPT ![a] = x]
      BY <1>1, AskerSteps
    <2>2. asker'[a] = x
      BY <1>a, <2>1
    <2>3. asker'[a].pc \in {"serve", "row"} /\ asker[a].pc = "idle"
      <3>1. CASE AskSnapshot(a, c)
        BY <1>a, <3>1 DEF AskSnapshot
      <3>2. CASE AskOther(a, c)
        BY <1>a, <1>c, <3>2 DEF AskOther, AskRows
      <3> QED BY <1>1, <3>1, <3>2
    <2> QED BY <1>1, <2>1, <2>2, <2>3, QuietAsker DEF AskSnapshot, AskOther, UnchangedWorld, UnchangedClients
  <1>2. ASSUME NEW a \in PoolUsers, ReadRow(a) PROVE Dials' /\ ClientsAccounted'
    <2>1. PICK x \in AskRows : asker' = [asker EXCEPT ![a] = x]
      BY <1>2, <1>b, AskerSteps
    <2>2. asker'[a] = x
      BY <1>a, <2>1
    <2>3. asker'[a].pc \in {"pool", "idle"} /\ (asker'[a].pc = "pool" => connRow[asker'[a].conn] = "there")
          /\ asker[a].pc = "row"
      BY <1>2, <1>a, <1>b, <1>c DEF ReadRow, AskRows
    <2> QED BY <1>2, <2>1, <2>2, <2>3, QuietAsker DEF ReadRow, UnchangedWorld, UnchangedClients
  <1>3. ASSUME NEW a \in PoolUsers, ReadStatus(a) \/ Answer(a) \/ CommandFails(a) \/ Store(a) \/ Serve(a)
        PROVE  Dials' /\ ClientsAccounted'
    <2>1. PICK x \in AskRows : asker' = [asker EXCEPT ![a] = x]
      BY <1>3, <1>b, AskerSteps
    <2>2. asker'[a] = x
      BY <1>a, <2>1
    <2>3. asker'[a].pc \in {"store", "idle", "serve"} /\ asker[a].pc \in {"command", "store", "serve"}
      BY <1>3, <1>a, <1>b, <1>c DEF ReadStatus, Answers, Answer, CommandFails, Store, Serve, AskRows
    <2>4. UNCHANGED <<connRow, pool, clients, made, closing, overlapped>>
      BY <1>3 DEF ReadStatus, Answer, CommandFails, Store, Serve, UnchangedWorld, UnchangedClients
    <2> QED BY <2>1, <2>2, <2>3, <2>4, QuietAsker
  <1>4. ASSUME NEW a \in PoolUsers, UsePool(a) PROVE Dials' /\ ClientsAccounted'
    <2>0. PICK c \in MongoConns : c = asker[a].conn
      BY <1>b
    <2>1. CASE pool[c] # 0 /\ asker' = [asker EXCEPT ![a].pc = "command", ![a].client = pool[c]]
               /\ UNCHANGED <<clients, made, overlapped>>
      <3>1. PICK x \in AskRows : asker' = [asker EXCEPT ![a] = x]
        BY <1>4, <1>b, AskerSteps
      <3>2. asker'[a] = x /\ asker'[a].pc = "command" /\ asker[a].pc = "pool"
        BY <1>4, <1>a, <1>b, <2>1, <3>1 DEF UsePool, AskRows
      <3> QED BY <1>4, <2>1, <3>1, <3>2, QuietAsker DEF UsePool, UnchangedWorld
    <2>2. CASE /\ pool[c] = 0 /\ made' = made + 1
               /\ clients' = clients \cup {[id |-> made + 1, conn |-> c]}
               /\ asker' = [asker EXCEPT ![a].pc = "dial", ![a].client = made + 1]
               /\ overlapped' = IF Dialling(c) # {} \/ connRow[c] = "gone"
                                THEN overlapped \cup Dialling(c) \cup {made + 1} ELSE overlapped
      <3>1. PICK k \in Nat : k = made + 1
        BY <1>a
      <3>2. PICK x : x = [asker[a] EXCEPT !.pc = "dial", !.client = k]
        OBVIOUS
      <3>3. x \in AskRows /\ x.pc = "dial" /\ x.client = k /\ x.conn = c
        BY <1>b, <2>0, <3>2 DEF AskRows, AskPcs
      <3>4. asker' = [asker EXCEPT ![a] = x]
        BY <1>a, <1>b, <2>2, <3>1, <3>2
      <3>5. asker'[a] = x /\ \A b \in PoolUsers \ {a} : asker'[b] = asker[b]
        BY <1>a, <3>4
      <3>6. UNCHANGED <<connRow, pool, closing>> /\ asker[a].pc = "pool"
        BY <1>4, <2>0 DEF UsePool, UnchangedWorld
      <3>7. connRow[c] # "new" /\ (connRow[c] = "there" \/ connRow[c] = "gone")
        BY <1>a, <2>0, <3>6 DEF PoolInv, Dials
      <3>8. k \notin 1..made /\ k \in 1..made' /\ 1..made \subseteq 1..made'
        BY <1>a, <2>2, <3>1
      <3>9. overlapped \subseteq overlapped' /\ (connRow[c] = "gone" => k \in overlapped')
            /\ (Dialling(c) # {} => k \in overlapped' /\ Dialling(c) \subseteq overlapped')
        BY <2>2, <3>1
      <3>10. ASSUME NEW n \in clients' PROVE n \in clients \/ (n.id = k /\ n.conn = c)
        BY <2>2, <3>1
      <3>11. ASSUME NEW d \in MongoConns PROVE Dialling(d) \subseteq Dialling(d)'
        BY <3>5, <3>6 DEF Dialling
      <3>12. k \in Dialling(c)'
        BY <3>3, <3>5 DEF Dialling
      <3>13. ClientsAccounted'
        BY <1>d, <3>6, <3>9, <3>10, <3>11, <3>12 DEF PoolInv, ClientsAccounted
      <3>14. ASSUME NEW b \in PoolUsers, asker'[b].pc = "dial"
             PROVE  /\ asker'[b].client \in 1..made'
                    /\ \A n \in clients' : n.id = asker'[b].client => n.conn = asker'[b].conn
                    /\ connRow'[asker'[b].conn] = "there" \/ asker'[b].client \in overlapped'
                    /\ pool'[asker'[b].conn] # 0 => pool'[asker'[b].conn] \in overlapped'
        <4>1. CASE b = a
          <5>1. asker'[b].client = k /\ asker'[b].conn = c
            BY <3>3, <3>5, <4>1
          <5>2. \A n \in clients' : n.id = k => n.conn = c
            BY <1>d, <3>8, <3>10
          <5>3. connRow'[c] = "there" \/ k \in overlapped'
            BY <3>6, <3>7, <3>9
          <5>4. pool'[c] = 0
            BY <2>2, <3>6
          <5> QED BY <3>8, <5>1, <5>2, <5>3, <5>4
        <4>2. CASE b # a
          <5>1. asker'[b] = asker[b] /\ asker[b].client \in 1..made
            BY <1>e, <3>5, <3>14, <4>2
          <5> QED BY <3>6, <3>8, <3>9, <3>10, <3>14, <5>1 DEF PoolInv, Dials
        <4> QED BY <4>1, <4>2
      <3>15. ASSUME NEW b \in PoolUsers, NEW d \in PoolUsers \ {b}, asker'[b].pc = "dial",
                    asker'[d].pc = "dial", asker'[d].conn = asker'[b].conn
             PROVE  asker'[b].client \in overlapped'
        <4>1. CASE b = a
          BY <1>e, <3>3, <3>5, <3>9, <3>15, <4>1
        <4>2. CASE d = a
          BY <1>e, <3>3, <3>5, <3>9, <3>15, <4>2
        <4>3. CASE b # a /\ d # a
          BY <3>5, <3>9, <3>15, <4>3 DEF PoolInv, Dials
        <4> QED BY <4>1, <4>2, <4>3
      <3>16. \A n \in clients' : n.id \in 1..made'
        BY <1>d, <3>8, <3>10
      <3>17. \A b \in PoolUsers : asker'[b].pc \in {"pool", "dial"} => connRow'[asker'[b].conn] # "new"
        BY <3>3, <3>5, <3>6, <3>7 DEF PoolInv, Dials
      <3>18. Dials'
        BY <3>6, <3>14, <3>15, <3>16, <3>17 DEF PoolInv, Dials
      <3> QED BY <3>13, <3>18
    <2> QED BY <1>4, <2>0, <2>1, <2>2 DEF UsePool
  <1>5. ASSUME NEW a \in PoolUsers, Dialled(a) PROVE Dials' /\ ClientsAccounted'
    <2>0. PICK c \in MongoConns : c = asker[a].conn
      BY <1>b
    <2>1. PICK k \in Nat : k = asker[a].client
      BY <1>b DEF AskRows
    <2>2. /\ pool' = [pool EXCEPT ![c] = k] /\ asker[a].pc = "dial"
          /\ UNCHANGED <<connRow, clients, made, closing, overlapped>>
      BY <1>5, <2>0, <2>1 DEF Dialled, UnchangedWorld
    <2>3. pool'[c] = k /\ \A d \in MongoConns \ {c} : pool'[d] = pool[d]
      BY <1>a, <2>2
    <2>4. asker'[a].pc = "command" /\ \A b \in PoolUsers \ {a} : asker'[b] = asker[b]
      BY <1>5, <1>a, <1>b DEF Dialled, AskRows
    <2>5. /\ connRow[c] = "there" \/ k \in overlapped
          /\ pool[c] # 0 => pool[c] \in overlapped
          /\ \A n \in clients : n.id = k => n.conn = c
          /\ k \in 1..made
      BY <2>0, <2>1, <2>2 DEF PoolInv, Dials
    <2>6. ASSUME NEW n \in clients
          PROVE  \/ n.id \in Dialling(n.conn)' \/ n.id \in overlapped'
                 \/ pool'[n.conn] = n.id /\ (connRow'[n.conn] = "there" \/ closing'[n.conn] = "row")
      <3>1. CASE n.id = k
        BY <2>2, <2>3, <2>5, <3>1
      <3>2. CASE n.id # k /\ n.id \in Dialling(n.conn)
        <4>1. PICK b \in PoolUsers : asker[b].pc = "dial" /\ asker[b].conn = n.conn /\ asker[b].client = n.id
          BY <3>2 DEF Dialling
        <4>2. b # a
          BY <2>1, <3>2, <4>1
        <4>3. n.id \in Dialling(n.conn)'
          BY <2>4, <4>1, <4>2 DEF Dialling
        <4> QED BY <4>3
      <3>3. CASE n.id \in overlapped
        BY <2>2, <3>3
      <3>4. CASE pool[n.conn] = n.id /\ (connRow[n.conn] = "there" \/ closing[n.conn] = "row")
        <4>1. n.id # 0
          BY <1>d
        <4> QED BY <1>d, <2>2, <2>3, <2>5, <3>4, <4>1
      <3> QED BY <3>1, <3>2, <3>3, <3>4 DEF PoolInv, ClientsAccounted
    <2>7. ClientsAccounted'
      BY <2>2, <2>6 DEF ClientsAccounted
    <2>8. ASSUME NEW b \in PoolUsers, asker'[b].pc = "dial"
          PROVE  /\ b # a /\ asker'[b] = asker[b] /\ asker[b].conn \in MongoConns
                 /\ pool'[asker[b].conn] # 0 => pool'[asker[b].conn] \in overlapped
      <3>1. b # a /\ asker'[b] = asker[b]
        BY <2>4, <2>8
      <3>2. asker[b].conn = c => k \in overlapped
        BY <2>0, <2>1, <2>2, <2>8, <3>1 DEF PoolInv, Dials
      <3> QED BY <1>b, <2>3, <2>8, <3>1, <3>2 DEF PoolInv, Dials
    <2>9. \A b \in PoolUsers : asker'[b].pc \in {"pool", "dial"} => asker'[b] = asker[b]
      BY <2>4
    <2>10. Dials'
      BY <2>2, <2>8, <2>9 DEF PoolInv, Dials
    <2> QED BY <2>7, <2>10
  <1>6. ASSUME NEW a \in PoolUsers, DialFails(a) PROVE Dials' /\ ClientsAccounted'
    <2>1. /\ clients' = {n \in clients : n.id # asker[a].client}
          /\ UNCHANGED <<connRow, pool, made, closing, overlapped>>
      BY <1>6 DEF DialFails, UnchangedWorld
    <2>2. asker'[a].pc = "idle" /\ \A b \in PoolUsers \ {a} : asker'[b] = asker[b]
      BY <1>6, <1>a, <1>c DEF DialFails
    <2>3. \A b \in PoolUsers : asker'[b].pc \in {"pool", "dial"} => b # a /\ asker'[b] = asker[b]
      BY <2>2
    <2>4. Dials'
      BY <2>1, <2>3 DEF PoolInv, Dials
    <2>5. ASSUME NEW n \in clients', n.id \in Dialling(n.conn) PROVE n.id \in Dialling(n.conn)'
      BY <2>1, <2>2, <2>5 DEF Dialling
    <2>6. ClientsAccounted'
      BY <2>1, <2>5 DEF PoolInv, ClientsAccounted
    <2> QED BY <2>4, <2>6
  <1>7. ASSUME NEW c \in MongoConns, CreateRow(c) PROVE Dials' /\ ClientsAccounted'
    <2>1. /\ connRow[c] = "new" /\ UNCHANGED <<asker, pool, clients, made, closing, overlapped>>
          /\ connRow' = [connRow EXCEPT ![c] = "there"]
      BY <1>7 DEF CreateRow, UnchangedClients
    <2>2. connRow'[c] = "there" /\ \A d \in MongoConns \ {c} : connRow'[d] = connRow[d]
      BY <1>a, <2>1
    <2>3. ASSUME NEW d \in MongoConns PROVE Dialling(d)' = Dialling(d)
      BY <2>1 DEF Dialling
    <2>4. ClientsAccounted'
      BY <1>d, <2>1, <2>2, <2>3 DEF PoolInv, ClientsAccounted
    <2>5. Dials'
      BY <1>b, <2>1, <2>2 DEF PoolInv, Dials
    <2> QED BY <2>4, <2>5
  <1>8. ASSUME NEW c \in MongoConns, DeleteRow(c) PROVE Dials' /\ ClientsAccounted'
    <2>1. /\ connRow[c] = "there" /\ UNCHANGED <<asker, pool, clients, made>>
          /\ connRow' = [connRow EXCEPT ![c] = "gone"] /\ closing' = [closing EXCEPT ![c] = "row"]
          /\ overlapped' = overlapped \cup Dialling(c)
      BY <1>8 DEF DeleteRow
    <2>2. /\ connRow'[c] = "gone" /\ \A d \in MongoConns \ {c} : connRow'[d] = connRow[d]
          /\ closing'[c] = "row" /\ \A d \in MongoConns \ {c} : closing'[d] = closing[d]
      BY <1>a, <2>1
    <2>3. ASSUME NEW d \in MongoConns PROVE Dialling(d)' = Dialling(d)
      BY <2>1 DEF Dialling
    <2>4. ClientsAccounted'
      BY <1>d, <2>1, <2>2, <2>3 DEF PoolInv, ClientsAccounted
    <2>5. ASSUME NEW b \in PoolUsers, asker[b].pc = "dial", asker[b].conn = c
          PROVE  asker[b].client \in overlapped'
      BY <1>e, <2>1, <2>5
    <2>6. ASSUME NEW b \in PoolUsers, asker[b].pc = "dial"
          PROVE  connRow'[asker[b].conn] = "there" \/ asker[b].client \in overlapped'
      BY <1>b, <2>1, <2>2, <2>5, <2>6 DEF PoolInv, Dials
    <2>7. \A d \in MongoConns : (closing'[d] # "no" => connRow'[d] = "gone") /\ (connRow'[d] = "new" => connRow[d] = "new")
      BY <2>2 DEF PoolInv, Dials
    <2>8. Dials'
      BY <1>b, <2>1, <2>6, <2>7 DEF PoolInv, Dials
    <2> QED BY <2>4, <2>8
  <1>9. ASSUME NEW c \in MongoConns, CloseClient(c) PROVE Dials' /\ ClientsAccounted'
    <2>1. /\ clients' = {n \in clients : n.id # pool[c]} /\ closing[c] = "row"
          /\ UNCHANGED <<connRow, asker, pool, made, overlapped>>
          /\ closing' = [closing EXCEPT ![c] = IF pool[c] = 0 THEN "no" ELSE "client"]
      BY <1>9 DEF CloseClient, UnchangedWorld
    <2>2. \A d \in MongoConns \ {c} : closing'[d] = closing[d]
      BY <1>a, <2>1
    <2>3. ASSUME NEW d \in MongoConns PROVE Dialling(d)' = Dialling(d)
      BY <2>1 DEF Dialling
    <2>4. ClientsAccounted'
      BY <1>d, <2>1, <2>2, <2>3 DEF PoolInv, ClientsAccounted
    <2>5. Dials'
      BY <2>1, <2>2 DEF PoolInv, Dials
    <2> QED BY <2>4, <2>5
  <1>10. ASSUME NEW c \in MongoConns, ClientClosed(c) PROVE Dials' /\ ClientsAccounted'
    <2>1. /\ closing[c] = "client" /\ UNCHANGED <<connRow, asker, clients, made, overlapped>>
          /\ pool' = [pool EXCEPT ![c] = 0] /\ closing' = [closing EXCEPT ![c] = "no"]
      BY <1>10 DEF ClientClosed, UnchangedWorld
    <2>2. /\ pool'[c] = 0 /\ \A d \in MongoConns \ {c} : pool'[d] = pool[d]
          /\ closing'[c] = "no" /\ \A d \in MongoConns \ {c} : closing'[d] = closing[d]
          /\ connRow[c] = "gone"
      BY <1>a, <2>1 DEF PoolInv, Dials
    <2>3. ASSUME NEW d \in MongoConns PROVE Dialling(d)' = Dialling(d)
      BY <2>1 DEF Dialling
    <2>4. ClientsAccounted'
      BY <1>d, <2>1, <2>2, <2>3 DEF PoolInv, ClientsAccounted
    <2>5. Dials'
      BY <1>b, <2>1, <2>2 DEF PoolInv, Dials
    <2> QED BY <2>4, <2>5
  <1>11. CASE PoolTick \/ \E c \in MongoConns : Trouble(c)
    BY <1>11 DEF PoolTick, Trouble, UnchangedClients, PoolInv, Dials, ClientsAccounted, Dialling
  <1> QED
    BY <1>0, <1>1, <1>2, <1>3, <1>4, <1>5, <1>6, <1>7, <1>8, <1>9, <1>10, <1>11 DEF PoolNext

\* Every step of the pool keeps the order of asking and reading.
LEMMA PoolKeepsHonest ==
  ASSUME MongoPoolAssumption, PoolInv, [PoolNext]_poolVars
  PROVE  Honest'
  <1>a. /\ clock \in Nat /\ asker \in [PoolUsers -> AskRows]
        /\ counted \in [MongoConns -> [at : Nat, read : Int]]
        /\ snapshots \in [MongoConns -> [at : Int, read : Int, extra : Int]]
        /\ shown \in [asked : Int, read : Int, extra : Int] /\ SnapshotTtl \in Nat
    BY DEF PoolInv, PoolTyped, MongoPoolAssumption
  <1>b. ASSUME NEW a \in PoolUsers PROVE asker[a] \in AskRows /\ asker[a].conn \in MongoConns
    BY <1>a DEF AskRows
  <1>c. IdleAsker \in AskRows /\ IdleAsker.pc = "idle"
    BY IdleAskerTyped
  <1>d. Honest
    BY DEF PoolInv
  \* It is enough to look at the request that moves.
  <1>e. ASSUME NEW a \in PoolUsers, NEW x \in AskRows, asker' = [asker EXCEPT ![a] = x], x.at <= clock,
               x.pc = "store" => x.at <= x.read /\ x.extra <= x.read - x.at,
               x.pc = "serve" => x.at - x.read < SnapshotTtl,
               clock' = clock,
               \A c \in MongoConns : /\ counted'[c].read = Never \/ counted'[c].at <= counted'[c].read
                                /\ snapshots'[c].at <= snapshots'[c].read,
               shown'.asked - shown'.read < SnapshotTtl
        PROVE  Honest'
    <2>1. asker'[a] = x /\ \A b \in PoolUsers \ {a} : asker'[b] = asker[b]
      BY <1>a, <1>e
    <2>2. \A b \in PoolUsers :
            /\ asker'[b].at <= clock
            /\ asker'[b].pc = "store" => /\ asker'[b].at <= asker'[b].read
                                         /\ asker'[b].extra <= asker'[b].read - asker'[b].at
            /\ asker'[b].pc = "serve" => asker'[b].at - asker'[b].read < SnapshotTtl
      BY <1>d, <1>e, <2>1 DEF Honest
    <2> QED BY <1>e, <2>2 DEF Honest
  <1>0. CASE UNCHANGED poolVars
    BY <1>0, <1>d DEF poolVars, Honest
  <1>1. ASSUME NEW a \in PoolUsers, NEW c \in MongoConns, AskSnapshot(a, c) \/ AskOther(a, c)
        PROVE  Honest'
    <2>1. PICK x \in AskRows : asker' = [asker EXCEPT ![a] = x] /\ x.at <= clock
      BY <1>1, AskerSteps
    <2>2. asker'[a] = x /\ UNCHANGED <<clock, counted, snapshots, shown>>
      BY <1>1, <1>a, <2>1 DEF AskSnapshot, AskOther, UnchangedWorld
    <2>3. x.pc \in {"row", "serve"} /\ (x.pc = "serve" => x.at = clock /\ x.read = snapshots[c].read
                                                         /\ clock - snapshots[c].at < SnapshotTtl)
      <3>1. CASE AskSnapshot(a, c)
        BY <1>a, <2>2, <3>1 DEF AskSnapshot
      <3>2. CASE AskOther(a, c)
        BY <1>a, <1>c, <2>2, <3>2 DEF AskOther, AskRows
      <3> QED BY <1>1, <3>1, <3>2
    <2>4. snapshots[c].at \in Int /\ snapshots[c].read \in Int /\ snapshots[c].at <= snapshots[c].read
      BY <1>a, <1>d DEF Honest
    <2>5. x.pc = "serve" => x.at - x.read < SnapshotTtl
      BY <1>a, <2>3, <2>4
    <2> QED BY <1>d, <1>e, <2>1, <2>2, <2>3, <2>5 DEF Honest
  <1>2. ASSUME NEW a \in PoolUsers,
               ReadRow(a) \/ UsePool(a) \/ Dialled(a) \/ DialFails(a) \/ Answer(a) \/ CommandFails(a)
        PROVE  Honest'
    <2>1. PICK x \in AskRows : asker' = [asker EXCEPT ![a] = x] /\ x.at <= clock
      BY <1>2, <1>b, AskerSteps
    <2>2. asker'[a] = x /\ UNCHANGED <<clock, counted, snapshots, shown>>
      BY <1>2, <1>a, <2>1 DEF ReadRow, UsePool, Dialled, DialFails, Answer, CommandFails, UnchangedWorld
    <2>3. x.pc \in {"idle", "pool", "command", "dial"}
      BY <1>2, <1>a, <1>b, <1>c, <2>2 DEF ReadRow, UsePool, Dialled, DialFails, Answer, CommandFails, AskRows
    <2> QED BY <1>d, <1>e, <2>1, <2>2, <2>3 DEF Honest
  <1>3. ASSUME NEW a \in PoolUsers, ReadStatus(a) PROVE Honest'
    <2>1. PICK x \in AskRows : asker' = [asker EXCEPT ![a] = x] /\ x.at <= clock
      BY <1>3, <1>b, AskerSteps
    <2>2. PICK c \in MongoConns : c = asker[a].conn
      BY <1>b
    <2>3. PICK last \in [at : Nat, read : Int] : last = counted[c]
      BY <1>a
    <2>4. last.read = Never \/ last.at <= last.read
      BY <1>d, <2>3 DEF Honest
    <2>5. PICK row \in AskRows : row = asker[a]
      BY <1>b
    <2>6. row.at \in Nat /\ row.at <= clock /\ last.at \in Nat /\ last.read \in Int
      BY <1>d, <2>3, <2>5 DEF Honest, AskRows
    <2>7. PICK gap \in Int : gap = row.at - last.at
      BY <2>6
    <2>8. PICK step \in Int : step = (IF gap > 1 THEN gap ELSE 1)
      OBVIOUS
    <2>9. PICK extra \in Int : extra = (IF last.read = Never \/ clock - last.read <= step THEN 0
                                        ELSE clock - last.read - step)
      BY <1>a, <2>6
    <2>10. /\ asker' = [asker EXCEPT ![a].pc = "store", ![a].read = clock, ![a].extra = extra]
           /\ counted' = [counted EXCEPT ![c] = [at |-> row.at, read |-> clock]]
           /\ UNCHANGED <<clock, snapshots, shown>>
      BY <1>3, <2>2, <2>3, <2>5, <2>7, <2>8, <2>9 DEF ReadStatus, UnchangedWorld
    <2>11. asker'[a] = x
      BY <1>a, <2>1
    <2>12. x.pc = "store" /\ x.read = clock /\ x.extra = extra /\ x.at = row.at
      BY <1>a, <1>b, <2>5, <2>10, <2>11 DEF AskRows
    <2>13. extra <= clock - row.at
      BY <1>a, <2>4, <2>6, <2>7, <2>8, <2>9
    <2>14. counted'[c] = [at |-> row.at, read |-> clock] /\ \A d \in MongoConns \ {c} : counted'[d] = counted[d]
      BY <1>a, <2>10
    <2>15. \A d \in MongoConns : counted'[d].read = Never \/ counted'[d].at <= counted'[d].read
      BY <1>d, <2>6, <2>14 DEF Honest
    <2> QED BY <1>d, <1>e, <2>1, <2>6, <2>10, <2>12, <2>13, <2>15 DEF Honest
  <1>4. ASSUME NEW a \in PoolUsers, Store(a) PROVE Honest'
    <2>1. PICK x \in AskRows : asker' = [asker EXCEPT ![a] = x] /\ x.at <= clock
      BY <1>4, <1>b, AskerSteps
    <2>2. PICK row \in AskRows : row = asker[a]
      BY <1>b
    <2>3. PICK c \in MongoConns : c = asker[a].conn
      BY <1>b
    <2>4. /\ snapshots' = [snapshots EXCEPT ![c] = [at |-> row.at, read |-> row.read, extra |-> row.extra]]
          /\ asker' = [asker EXCEPT ![a].pc = "serve"] /\ asker[a].pc = "store"
          /\ UNCHANGED <<clock, counted, shown>>
      BY <1>4, <2>2, <2>3 DEF Store, UnchangedWorld
    <2>5. row.at \in Nat /\ row.read \in Int /\ row.at <= row.read
      BY <1>d, <2>2, <2>4 DEF Honest, AskRows
    <2>6. asker'[a] = x /\ x.pc = "serve" /\ x.at = row.at /\ x.read = row.read
      BY <1>a, <1>b, <2>1, <2>2, <2>4 DEF AskRows
    <2>7. /\ snapshots'[c] = [at |-> row.at, read |-> row.read, extra |-> row.extra]
          /\ \A d \in MongoConns \ {c} : snapshots'[d] = snapshots[d]
      BY <1>a, <2>4
    <2>8. \A d \in MongoConns : snapshots'[d].at <= snapshots'[d].read
      BY <1>d, <2>5, <2>7 DEF Honest
    <2>9. x.at - x.read < SnapshotTtl
      BY <2>5, <2>6, MongoPoolAssumption DEF MongoPoolAssumption
    <2> QED BY <1>d, <1>e, <2>1, <2>4, <2>6, <2>8, <2>9 DEF Honest
  <1>5. ASSUME NEW a \in PoolUsers, Serve(a) PROVE Honest'
    <2>1. /\ asker' = [asker EXCEPT ![a] = IdleAsker] /\ asker[a].pc = "serve"
          /\ shown' = [asked |-> asker[a].at, read |-> asker[a].read, extra |-> asker[a].extra]
          /\ UNCHANGED <<clock, counted, snapshots>>
      BY <1>5 DEF Serve, UnchangedWorld
    <2>2. shown'.asked - shown'.read < SnapshotTtl
      BY <1>d, <2>1 DEF Honest
    <2>3. IdleAsker.at <= clock
      BY <1>a, IdleAskerTyped
    <2> QED BY <1>c, <1>d, <1>e, <2>1, <2>2, <2>3 DEF Honest
  <1>6. ASSUME NEW c \in MongoConns, CreateRow(c) \/ DeleteRow(c) \/ CloseClient(c) \/ ClientClosed(c) \/ Trouble(c)
        PROVE  Honest'
    <2>1. UNCHANGED <<asker, counted, snapshots, shown, clock>>
      BY <1>6 DEF CreateRow, DeleteRow, CloseClient, ClientClosed, Trouble, UnchangedWorld
    <2> QED BY <1>d, <2>1 DEF Honest
  <1>7. CASE PoolTick
    <2>1. UNCHANGED <<asker, counted, snapshots, shown>> /\ clock' = clock + 1
      BY <1>7 DEF PoolTick
    <2>2. \A a \in PoolUsers : asker[a].at \in Nat /\ asker[a].at <= clock'
      BY <1>a, <1>b, <1>d, <2>1 DEF Honest, AskRows
    <2> QED BY <1>d, <2>1, <2>2 DEF Honest
  <1> QED BY <1>0, <1>1, <1>2, <1>3, <1>4, <1>5, <1>6, <1>7 DEF PoolNext

\* The conjunction is invariant in every behaviour.
LEMMA PoolInvariance == PoolSpec => []PoolInv
  <1>1. ASSUME PoolInit PROVE PoolInv
    <2>1. \A a \in PoolUsers : asker[a] \in AskRows /\ asker[a].pc = "idle" /\ asker[a].at = 0
      BY <1>1, IdleAskerTyped, MongoPoolAssumption DEF PoolInit
    <2>2. SnapshotTtl \in Nat \ {0}
      BY MongoPoolAssumption DEF MongoPoolAssumption
    <2>3. /\ counted \in [MongoConns -> [at : Nat, read : Int]] /\ \A c \in MongoConns : counted[c].read = Never
      BY <1>1 DEF PoolInit, Never
    <2>4. PICK s \in Int : s = Never - SnapshotTtl
      BY <2>2 DEF Never
    <2>5. /\ snapshots \in [MongoConns -> [at : Int, read : Int, extra : Int]]
          /\ \A c \in MongoConns : snapshots[c].at = s /\ snapshots[c].read = -1
      BY <1>1, <2>4 DEF PoolInit, Never
    <2>6. s <= -1
      BY <2>2, <2>4 DEF Never
    <2>7. asker \in [PoolUsers -> AskRows]
      BY <1>1, IdleAskerTyped, MongoPoolAssumption DEF PoolInit
    <2>8. PoolTyped
      BY <1>1, <2>3, <2>5, <2>7 DEF PoolInit, PoolTyped
    <2>9. Dials /\ ClientsAccounted
      BY <1>1, <2>1 DEF PoolInit, Dials, ClientsAccounted
    <2>10. Honest
      BY <1>1, <2>1, <2>2, <2>3, <2>5, <2>6 DEF PoolInit, Honest
    <2> QED BY <2>8, <2>9, <2>10 DEF PoolInv
  <1>2. PoolInv /\ [PoolNext]_poolVars => PoolInv'
    BY PoolKeepsTypes, PoolKeepsDials, PoolKeepsHonest, MongoPoolAssumption DEF PoolInv
  <1> QED BY <1>1, <1>2, PTL DEF PoolSpec

\* No client of the pool is forgotten but where a dial overlapped another, or the deletion of
\* its connection (lib/mongo.ts).
THEOREM ClientsAreAccounted == PoolSpec => []ClientsAccounted
  <1>1. PoolInv => ClientsAccounted
    BY DEF PoolInv
  <1> QED BY <1>1, PoolInvariance, PTL

\* A snapshot is never older than the cache allows when it was asked for, and its rates exceed
\* the truth by no more than what was slow (monitor.service.ts).
THEOREM SnapshotsAreHonest == PoolSpec => []SnapshotHonest
  <1>1. PoolInv => SnapshotHonest
    BY DEF PoolInv, Honest, SnapshotHonest
  <1> QED BY <1>1, PoolInvariance, PTL

-----------------------------------------------------------------------------
(* The scrape.                                                               *)

Steps == {"none", "dial", "status", "done"}

ScrapeTyped ==
    /\ known \subseteq Servers /\ ticks \in Nat /\ troubled \subseteq Servers
    /\ state \in [Servers -> {"up", "down", "stalled"}]
    /\ gauge \in [Servers -> [read : Nat, by : {"nobody", "scrape", "view"}]]
    /\ scrape \in [pc : {"idle", "collect"}, began : Nat, step : [Servers -> Steps]]

\* Whoever is not well, or is no longer listed, is in trouble; and once a dial is out of time,
\* so is everybody the scrape still waits for.
Troubles ==
    /\ \A c \in Servers : state[c] # "up" => c \in troubled
    /\ \A c \in Collecting : c \in known \cup troubled
    /\ scrape.began <= ticks
    /\ ticks - scrape.began > Selection => \A c \in Collecting : scrape.step[c] = "status" /\ c \in troubled

ScrapeInv == ScrapeTyped /\ Troubles /\ ScrapeSparesHealthy

\* A collector that takes its connection a step further leaves the others where they are.
LEMMA CollectorSteps ==
  ASSUME ScrapeTyped, NEW c \in Servers, NEW s \in Steps, StepTo(c, s)
  PROVE  /\ scrape' \in [pc : {"idle", "collect"}, began : Nat, step : [Servers -> Steps]]
         /\ scrape'.began = scrape.began /\ scrape'.step[c] = s
         /\ \A d \in Servers \ {c} : scrape'.step[d] = scrape.step[d]
         /\ s = "status" => Collecting' = Collecting \cup {c}
         /\ s = "done" => Collecting' = Collecting \ {c}
  <1>1. /\ scrape' \in [pc : {"idle", "collect"}, began : Nat, step : [Servers -> Steps]]
        /\ scrape'.began = scrape.began /\ scrape'.step[c] = s
        /\ \A d \in Servers \ {c} : scrape'.step[d] = scrape.step[d]
    <2>1. PICK f : f = [scrape.step EXCEPT ![c] = s]
      OBVIOUS
    <2>2. f \in [Servers -> Steps] /\ f[c] = s /\ \A d \in Servers \ {c} : f[d] = scrape.step[d]
      BY <2>1 DEF ScrapeTyped
    <2>3. scrape' = [scrape EXCEPT !.step = f]
      BY <2>1 DEF StepTo, ScrapeTyped
    <2> QED BY <2>2, <2>3 DEF ScrapeTyped
  <1>2. s = "status" => Collecting' = Collecting \cup {c}
    BY <1>1 DEF Collecting
  <1>3. s = "done" => Collecting' = Collecting \ {c}
    BY <1>1 DEF Collecting
  <1> QED BY <1>1, <1>2, <1>3

\* Every step of the scrape keeps the invariant.
LEMMA ScrapeKeepsInv ==
  ASSUME MetricsScrapeAssumption, ScrapeInv, [ScrapeNext]_scrapeVars
  PROVE  ScrapeInv'
  <1>a. /\ known \subseteq Servers /\ ticks \in Nat /\ troubled \subseteq Servers
        /\ state \in [Servers -> {"up", "down", "stalled"}]
        /\ gauge \in [Servers -> [read : Nat, by : {"nobody", "scrape", "view"}]]
        /\ scrape \in [pc : {"idle", "collect"}, began : Nat, step : [Servers -> Steps]]
        /\ scrape.began \in Nat /\ Selection \in Nat
        /\ ScrapeTyped /\ Troubles /\ ScrapeSparesHealthy /\ Collecting \subseteq Servers
    BY DEF ScrapeInv, ScrapeTyped, Collecting, MetricsScrapeAssumption
  \* What is left to say of the page's promise.
  <1>b. ASSUME ScrapeTyped', Troubles', own' \subseteq Collecting',
               \A c \in Servers \ troubled' : scrape'.step[c] = "done" =>
                 gauge'[c].by = "view" \/ gauge'[c].read >= scrape'.began
        PROVE  ScrapeInv'
    BY <1>b DEF ScrapeInv, Troubles, ScrapeSparesHealthy
  <1>0. CASE UNCHANGED scrapeVars
    BY <1>0, <1>a DEF scrapeVars, ScrapeInv, ScrapeTyped, Troubles, ScrapeSparesHealthy, Collecting
  <1>1. CASE ScrapeBegin
    <2>1. PICK f : f = [c \in Servers |-> IF c \in known THEN "dial" ELSE "none"]
      OBVIOUS
    <2>2. f \in [Servers -> Steps] /\ \A c \in Servers : f[c] = IF c \in known THEN "dial" ELSE "none"
      BY <2>1 DEF Steps
    <2>3. /\ scrape' = [pc |-> "collect", began |-> ticks, step |-> f]
          /\ own' = known \cap MongoServers /\ troubled' = {c \in Servers : state[c] # "up"}
          /\ UNCHANGED <<known, state, gauge, ticks>>
      BY <1>1, <2>1 DEF ScrapeBegin
    <2>4. Collecting' = known
      BY <1>a, <2>2, <2>3 DEF Collecting
    <2>5. ScrapeTyped'
      BY <1>a, <2>2, <2>3 DEF ScrapeTyped
    <2>6. Troubles'
      BY <1>a, <2>3, <2>4 DEF Troubles
    <2> QED BY <1>b, <2>2, <2>3, <2>4, <2>5, <2>6
  <1>2. ASSUME NEW c \in Servers, MongoDialled(c) \/ SqlDialled(c) PROVE ScrapeInv'
    <2>1. /\ StepTo(c, "status") /\ c \in Collecting /\ own' \subseteq own \cup {c}
          /\ scrape.step[c] = "dial" /\ UNCHANGED <<known, state, gauge, ticks, troubled>>
      BY <1>2 DEF MongoDialled, SqlDialled, Collecting
    <2>a. "status" \in Steps /\ Collecting \cup {c} = Collecting
      BY <2>1 DEF Steps
    <2>2. /\ scrape' \in [pc : {"idle", "collect"}, began : Nat, step : [Servers -> Steps]]
          /\ scrape'.began = scrape.began /\ scrape'.step[c] = "status" /\ Collecting' = Collecting
          /\ \A d \in Servers \ {c} : scrape'.step[d] = scrape.step[d]
      BY <1>a, <2>1, <2>a, CollectorSteps
    <2>3. ScrapeTyped'
      BY <1>a, <2>1, <2>2 DEF ScrapeTyped
    <2>4. Troubles'
      BY <1>a, <2>1, <2>2 DEF Troubles
    <2> QED BY <1>a, <1>b, <2>1, <2>2, <2>3, <2>4 DEF ScrapeSparesHealthy
  <1>3. ASSUME NEW c \in Servers, MongoStatus(c) \/ SqlStatus(c) PROVE ScrapeInv'
    <2>1. /\ StepTo(c, "done") /\ own' = own \ {c}
          /\ gauge' = [gauge EXCEPT ![c] = [read |-> ticks, by |-> "scrape"]]
          /\ UNCHANGED <<known, state, ticks, troubled>>
      BY <1>3 DEF MongoStatus, SqlStatus, Sampled
    <2>2. /\ scrape' \in [pc : {"idle", "collect"}, began : Nat, step : [Servers -> Steps]]
          /\ scrape'.began = scrape.began /\ Collecting' = Collecting \ {c}
          /\ \A d \in Servers \ {c} : scrape'.step[d] = scrape.step[d]
      BY <1>a, <2>1, CollectorSteps DEF Steps
    <2>3. /\ gauge' \in [Servers -> [read : Nat, by : {"nobody", "scrape", "view"}]]
          /\ gauge'[c].read = ticks /\ \A d \in Servers \ {c} : gauge'[d] = gauge[d]
      BY <1>a, <2>1
    <2>4. ScrapeTyped'
      BY <1>a, <2>1, <2>2, <2>3 DEF ScrapeTyped
    <2>5. Troubles'
      BY <1>a, <2>1, <2>2 DEF Troubles
    <2>6. ticks >= scrape.began
      BY <1>a DEF Troubles
    <2> QED BY <1>a, <1>b, <2>1, <2>2, <2>3, <2>4, <2>5, <2>6 DEF ScrapeSparesHealthy
  <1>4. ASSUME NEW c \in Servers, ScrapeFails(c) PROVE ScrapeInv'
    <2>1. /\ StepTo(c, "done") /\ own' = own \ {c} /\ c \in Collecting /\ Failing(c)
          /\ UNCHANGED <<known, state, gauge, ticks, troubled>>
      BY <1>4 DEF ScrapeFails
    <2>2. /\ scrape' \in [pc : {"idle", "collect"}, began : Nat, step : [Servers -> Steps]]
          /\ scrape'.began = scrape.began /\ Collecting' = Collecting \ {c}
          /\ \A d \in Servers \ {c} : scrape'.step[d] = scrape.step[d]
      BY <1>a, <2>1, CollectorSteps DEF Steps
    <2>3. c \in troubled
      BY <1>a, <2>1 DEF Failing, Troubles
    <2>4. ScrapeTyped'
      BY <1>a, <2>1, <2>2 DEF ScrapeTyped
    <2>5. Troubles'
      BY <1>a, <2>1, <2>2 DEF Troubles
    <2> QED BY <1>a, <1>b, <2>1, <2>2, <2>3, <2>4, <2>5 DEF ScrapeSparesHealthy
  <1>5. ASSUME NEW c \in Servers, Viewed(c) PROVE ScrapeInv'
    <2>1. PICK t \in 0..ticks : gauge' = [gauge EXCEPT ![c] = [read |-> t, by |-> "view"]]
      BY <1>5 DEF Viewed
    <2>2. UNCHANGED <<known, state, own, scrape, ticks, troubled>>
      BY <1>5 DEF Viewed
    <2>3. t \in Nat
      BY <1>a
    <2>4. /\ gauge' \in [Servers -> [read : Nat, by : {"nobody", "scrape", "view"}]]
          /\ gauge'[c].by = "view" /\ \A d \in Servers \ {c} : gauge'[d] = gauge[d]
      BY <1>a, <2>1, <2>3
    <2>5. ScrapeTyped' /\ Collecting' = Collecting
      BY <1>a, <2>2, <2>4 DEF ScrapeTyped, Collecting
    <2>6. Troubles'
      BY <1>a, <2>2, <2>5 DEF Troubles
    <2> QED BY <1>a, <1>b, <2>2, <2>4, <2>5, <2>6 DEF ScrapeSparesHealthy
  <1>6. ASSUME NEW c \in Servers, KnownChanges(c) \/ Outage(c) PROVE ScrapeInv'
    <2>1. /\ troubled' = troubled \cup {c} /\ UNCHANGED <<gauge, own, scrape, ticks>>
          /\ known' \subseteq Servers /\ known \subseteq known' \cup {c}
      BY <1>6, <1>a DEF KnownChanges, Outage
    <2>2. /\ state' \in [Servers -> {"up", "down", "stalled"}]
          /\ \A d \in Servers \ {c} : state'[d] = state[d]
      BY <1>6, <1>a DEF KnownChanges, Outage
    <2>3. ScrapeTyped' /\ Collecting' = Collecting
      BY <1>a, <2>1, <2>2 DEF ScrapeTyped, Collecting
    <2>4. Troubles'
      BY <1>a, <2>1, <2>2, <2>3 DEF Troubles
    <2> QED BY <1>a, <1>b, <2>1, <2>3, <2>4 DEF ScrapeSparesHealthy
  <1>7. CASE ScrapeEnd
    <2>1. /\ scrape' = [scrape EXCEPT !.pc = "idle"] /\ UNCHANGED <<known, state, gauge, own, ticks, troubled>>
      BY <1>7 DEF ScrapeEnd
    <2>2. /\ scrape' \in [pc : {"idle", "collect"}, began : Nat, step : [Servers -> Steps]]
          /\ scrape'.began = scrape.began /\ scrape'.step = scrape.step
      BY <1>a, <2>1
    <2>3. ScrapeTyped' /\ Collecting' = Collecting
      BY <1>a, <2>1, <2>2 DEF ScrapeTyped, Collecting
    <2>4. Troubles'
      BY <1>a, <2>1, <2>2, <2>3 DEF Troubles
    <2> QED BY <1>a, <1>b, <2>1, <2>2, <2>3, <2>4 DEF ScrapeSparesHealthy
  <1>8. CASE ScrapeTick
    <2>1. /\ ticks' = ticks + 1 /\ UNCHANGED <<known, state, gauge, own, scrape, troubled>>
          /\ ticks - scrape.began >= Selection =>
               \A c \in Collecting : scrape.step[c] = "status" /\ state[c] = "stalled"
      BY <1>8 DEF ScrapeTick
    <2>2. ScrapeTyped' /\ Collecting' = Collecting
      BY <1>a, <2>1 DEF ScrapeTyped, Collecting
    <2>3. ticks' - scrape.began > Selection => ticks - scrape.began >= Selection
      BY <1>a, <2>1
    <2>4. scrape.began <= ticks'
      BY <1>a, <2>1 DEF Troubles
    <2>5. Troubles'
      BY <1>a, <2>1, <2>2, <2>3, <2>4 DEF Troubles
    <2> QED BY <1>a, <1>b, <2>1, <2>2, <2>5 DEF ScrapeSparesHealthy
  <1> QED
    BY <1>0, <1>1, <1>2, <1>3, <1>4, <1>5, <1>6, <1>7, <1>8 DEF ScrapeNext

\* One server in trouble does not cost the others their metrics, however many there are and
\* whatever happens to them while the scrape is at work (metrics.service.ts).
THEOREM ScrapeSpares == ScrapeSpec => []ScrapeSparesHealthy
  <1>1. ASSUME ScrapeInit PROVE ScrapeInv
    <2>1. /\ scrape = [pc |-> "idle", began |-> 0, step |-> [c \in Servers |-> "none"]] /\ own = {} /\ ticks = 0
          /\ state = [c \in Servers |-> "up"] /\ troubled = {} /\ known \subseteq Servers
          /\ gauge = [c \in Servers |-> [read |-> 0, by |-> "nobody"]]
      BY <1>1 DEF ScrapeInit
    <2>2. Collecting = {} /\ \A c \in Servers : scrape.step[c] = "none"
      BY <2>1 DEF Collecting
    <2>3. ScrapeTyped
      BY <2>1 DEF ScrapeTyped, Steps
    <2>4. Troubles
      BY <2>1, <2>2 DEF Troubles
    <2> QED BY <2>1, <2>2, <2>3, <2>4 DEF ScrapeInv, ScrapeSparesHealthy
  <1>2. ScrapeInv /\ [ScrapeNext]_scrapeVars => ScrapeInv'
    BY ScrapeKeepsInv, MetricsScrapeAssumption
  <1>3. ScrapeInv => ScrapeSparesHealthy
    BY DEF ScrapeInv
  <1> QED BY <1>1, <1>2, <1>3, PTL DEF ScrapeSpec

-----------------------------------------------------------------------------
(* The rules panel.                                                          *)

Settings == [Fields -> BOOLEAN]
RuleForms == [metric : Metrics \cup {""}, enabled : BOOLEAN, fields : Settings]
Drafts == [form : RuleForms, opened : Settings, typed : SUBSET Fields, id : RuleIds \cup {0}, sent : BOOLEAN]
Lists == [RuleIds -> RuleForms]

\* What the panel lets a rule of this connection measure.
Measurable == Offered(engine) \cup Suggestions
Proper(row) == row = NoRow \/ row.metric \in Measurable

\* Rules: the panel makes no other, an id is used once, and they are as somebody chose.
RowsOK ==
    /\ ruleRows \in Lists /\ \A r \in RuleIds : Proper(ruleRows[r])
    /\ rulesMade \in Nat /\ chosen \in [RuleIds -> Settings]
    /\ \A r \in RuleIds : r \notin 1..rulesMade => ruleRows[r] = NoRow /\ chosen[r] = NoRow.fields
    /\ \A r \in RuleIds \ crossed : ruleRows[r] # NoRow => ruleRows[r].fields = chosen[r]

\* A form differs from the row it was opened on where somebody typed, and only there.
DraftOK(d) ==
    /\ d \in Drafts
    /\ d = Blank \/ d.form.metric \in Measurable
    /\ \A f \in Fields : f \notin d.typed => d.form.fields[f] = d.opened[f]

\* A list may be stale, but it was the rules'.
ListOK(l) == l \in Lists /\ \A r \in RuleIds : Proper(l[r])

RulesInv ==
    /\ engine \in Engines /\ RowsOK
    /\ tab \in [Tabs -> [list : Lists, draft : Drafts]]
    /\ \A t \in Tabs : ListOK(tab[t].list) /\ DraftOK(tab[t].draft)

\* The rows the model starts from.
LEMMA BlankRows ==
  /\ NoRow \in RuleForms /\ NoRow.fields \in Settings /\ NoRow.fields = [f \in Fields |-> FALSE]
  /\ Blank \in Drafts /\ Blank.form = NoRow /\ Blank.opened = NoRow.fields /\ ~Blank.sent /\ Blank.id = 0
  /\ NoRows \in Lists /\ \A r \in RuleIds : NoRows[r] = NoRow
  /\ Closed \in [list : Lists, draft : Drafts]
  /\ \A e \in Engines : Offered(e) \cup Suggestions \subseteq Metrics
  <1>1. NoRow \in RuleForms /\ NoRow.fields \in Settings /\ NoRow.fields = [f \in Fields |-> FALSE]
    BY DEF NoRow, RuleForms, Settings
  <1>2. Blank \in Drafts /\ Blank.form = NoRow /\ Blank.opened = NoRow.fields /\ ~Blank.sent /\ Blank.id = 0
    BY <1>1 DEF Blank, Drafts
  <1>3. NoRows \in Lists /\ \A r \in RuleIds : NoRows[r] = NoRow
    BY <1>1 DEF NoRows, Lists
  <1>4. Closed \in [list : Lists, draft : Drafts]
    BY <1>2, <1>3 DEF Closed
  <1>5. \A e \in Engines : Offered(e) \cup Suggestions \subseteq Metrics
    BY DEF Offered, Suggestions, Metrics
  <1> QED BY <1>1, <1>2, <1>3, <1>4, <1>5

\* A tab that moves leaves the others.
LEMMA TabMoves ==
  ASSUME RulesInv, NEW t \in Tabs, NEW l, NEW d, ListOK(l), DraftOK(d),
         tab' = [tab EXCEPT ![t] = [list |-> l, draft |-> d]], engine' = engine, RowsOK'
  PROVE  RulesInv'
  <1>1. [list |-> l, draft |-> d] \in [list : Lists, draft : Drafts]
    BY DEF ListOK, DraftOK
  <1>2. /\ tab' \in [Tabs -> [list : Lists, draft : Drafts]]
        /\ tab'[t].list = l /\ tab'[t].draft = d /\ \A u \in Tabs \ {t} : tab'[u] = tab[u]
    BY <1>1 DEF RulesInv
  <1>3. ASSUME NEW u \in Tabs PROVE ListOK(tab'[u].list) /\ DraftOK(tab'[u].draft)
    BY <1>2 DEF RulesInv
  <1>4. \A u \in Tabs : (ListOK(tab[u].list) /\ DraftOK(tab[u].draft))'
    BY <1>3 DEF ListOK, DraftOK, Proper, Measurable
  <1> QED BY <1>2, <1>4 DEF RulesInv

\* The same for a tab that keeps its list, or its form.
LEMMA FormMoves ==
  ASSUME RulesInv, NEW t \in Tabs, NEW d, DraftOK(d), tab' = [tab EXCEPT ![t].draft = d],
         engine' = engine, RowsOK'
  PROVE  RulesInv'
  <1>1. ListOK(tab[t].list) /\ tab[t] \in [list : Lists, draft : Drafts]
    BY DEF RulesInv
  <1>2. PICK x : x = [tab[t] EXCEPT !.draft = d]
    OBVIOUS
  <1>3. x = [list |-> tab[t].list, draft |-> d]
    BY <1>1, <1>2
  <1>4. tab' = [tab EXCEPT ![t] = x]
    BY <1>2 DEF RulesInv
  <1> QED BY <1>1, <1>3, <1>4, TabMoves

\* Rules that nobody touches stay.
LEMMA RowsStay ==
  ASSUME RulesInv, UNCHANGED <<engine, ruleRows, rulesMade, chosen, crossed>>
  PROVE  RowsOK'
  BY DEF RulesInv, RowsOK, Proper, Measurable

\* Every step of the panel keeps the invariant.
LEMMA RulesKeepInv ==
  ASSUME RulesInv, [RulesNext]_ruleVars
  PROVE  RulesInv'
  <1>a. /\ engine \in Engines /\ ruleRows \in Lists /\ tab \in [Tabs -> [list : Lists, draft : Drafts]]
        /\ rulesMade \in Nat /\ chosen \in [RuleIds -> Settings]
        /\ \A r \in RuleIds : Proper(ruleRows[r])
        /\ \A r \in RuleIds : r \notin 1..rulesMade => ruleRows[r] = NoRow /\ chosen[r] = NoRow.fields
        /\ \A r \in RuleIds \ crossed : ruleRows[r] # NoRow => ruleRows[r].fields = chosen[r]
        /\ Measurable \subseteq Metrics /\ "" \notin Metrics
    <2>1. Measurable \subseteq Metrics
      BY BlankRows DEF RulesInv, Measurable
    <2> QED BY <2>1 DEF RulesInv, RowsOK, Metrics
  <1>b. ASSUME NEW t \in Tabs
        PROVE  /\ tab[t] \in [list : Lists, draft : Drafts] /\ tab[t].list \in Lists /\ tab[t].draft \in Drafts
               /\ \A r \in RuleIds : Proper(tab[t].list[r])
               /\ ListOK(tab[t].list) /\ DraftOK(tab[t].draft)
               /\ tab[t].draft = Blank \/ tab[t].draft.form.metric \in Measurable
               /\ \A f \in Fields : f \notin tab[t].draft.typed => tab[t].draft.form.fields[f] = tab[t].draft.opened[f]
    BY DEF RulesInv, ListOK, DraftOK
  <1>c. /\ NoRow \in RuleForms /\ NoRow.fields \in Settings
        /\ Blank \in Drafts /\ Blank.form = NoRow /\ Blank.opened = NoRow.fields /\ ~Blank.sent /\ Blank.id = 0
        /\ DraftOK(Blank)
    BY BlankRows DEF DraftOK
  \* What a statement on the rows has to keep.
  <1>d. ASSUME engine' = engine, ruleRows' \in Lists, \A r \in RuleIds : Proper(ruleRows'[r]),
               rulesMade' \in Nat, chosen' \in [RuleIds -> Settings],
               \A r \in RuleIds : r \notin 1..rulesMade' => ruleRows'[r] = NoRow /\ chosen'[r] = NoRow.fields,
               \A r \in RuleIds \ crossed' : ruleRows'[r] # NoRow => ruleRows'[r].fields = chosen'[r]
        PROVE  RowsOK'
    BY <1>d DEF RowsOK, Proper, Measurable
  <1>0. CASE UNCHANGED ruleVars
    BY <1>0 DEF ruleVars, RulesInv, RowsOK, ListOK, DraftOK, Proper, Measurable
  <1>1. ASSUME NEW t \in Tabs, LoadRules(t) PROVE RulesInv'
    <2>1. tab' = [tab EXCEPT ![t].list = ruleRows] /\ UNCHANGED <<engine, ruleRows, rulesMade, chosen, crossed>>
      BY <1>1 DEF LoadRules
    <2>2. tab' = [tab EXCEPT ![t] = [list |-> ruleRows, draft |-> tab[t].draft]]
      <3>1. PICK x : x = [tab[t] EXCEPT !.list = ruleRows]
        OBVIOUS
      <3>2. x = [list |-> ruleRows, draft |-> tab[t].draft]
        BY <1>b, <3>1
      <3>3. tab' = [tab EXCEPT ![t] = x]
        BY <1>a, <2>1, <3>1
      <3> QED BY <3>2, <3>3
    <2>3. ListOK(ruleRows)
      BY <1>a DEF ListOK
    <2> QED BY <1>b, <2>1, <2>2, <2>3, TabMoves, RowsStay
  <1>2. ASSUME NEW t \in Tabs, NEW r \in RuleIds, OpenEdit(t, r) PROVE RulesInv'
    <2>1. PICK row \in RuleForms : row = tab[t].list[r] /\ row # NoRow
      BY <1>2, <1>b DEF OpenEdit, Lists
    <2>2. PICK d : d = [form |-> row, opened |-> row.fields, typed |-> {}, id |-> r, sent |-> FALSE]
      OBVIOUS
    <2>3. d \in Drafts /\ d.form.fields = d.opened
      BY <2>1, <2>2 DEF Drafts, RuleForms
    <2>4. row.metric \in Measurable
      BY <1>b, <2>1 DEF Proper
    <2>5. tab' = [tab EXCEPT ![t].draft = d] /\ UNCHANGED <<engine, ruleRows, rulesMade, chosen, crossed>>
      BY <1>2, <2>1, <2>2 DEF OpenEdit, OpenForm
    <2>6. DraftOK(d)
      BY <2>2, <2>3, <2>4 DEF DraftOK
    <2> QED BY <2>5, <2>6, FormMoves, RowsStay
  <1>3. ASSUME NEW t \in Tabs, OpenCreate(t) PROVE RulesInv'
    <2>1. PICK m \in Offered(engine) :
            tab' = [tab EXCEPT ![t].draft = [Blank EXCEPT !.form = Row(m, NoRow.fields)]]
      BY <1>3 DEF OpenCreate
    <2>2. m \in Measurable /\ m \in Metrics
      BY <1>a DEF Measurable
    <2>3. PICK row \in RuleForms : row = Row(m, NoRow.fields) /\ row.metric = m /\ row.fields = NoRow.fields
      <3>1. PICK z \in Settings : z = NoRow.fields
        BY <1>c
      <3>2. PICK x : x = [metric |-> m, enabled |-> TRUE, fields |-> z]
        OBVIOUS
      <3>3. x \in RuleForms /\ x.metric = m /\ x.fields = z
        BY <2>2, <3>2 DEF RuleForms
      <3> QED BY <3>1, <3>2, <3>3 DEF Row
    <2>4. PICK d : d = [Blank EXCEPT !.form = row]
      OBVIOUS
    <2>5. d \in Drafts /\ d.form = row /\ d.opened = NoRow.fields
      BY <1>c, <2>4 DEF Drafts
    <2>6. tab' = [tab EXCEPT ![t].draft = d] /\ UNCHANGED <<engine, ruleRows, rulesMade, chosen, crossed>>
      BY <1>3, <2>1, <2>3, <2>4 DEF OpenCreate
    <2>7. DraftOK(d)
      BY <2>2, <2>3, <2>5 DEF DraftOK
    <2> QED BY <2>6, <2>7, FormMoves, RowsStay
  <1>4. ASSUME NEW t \in Tabs, NEW f \in Fields, Type(t, f) PROVE RulesInv'
    <2>1. PICK d \in Drafts : d = tab[t].draft
      BY <1>b
    <2>2. PICK fields : fields = [d.form.fields EXCEPT ![f] = ~@]
      OBVIOUS
    <2>3. fields \in Settings /\ \A g \in Fields \ {f} : fields[g] = d.form.fields[g]
      BY <2>1, <2>2 DEF Drafts, RuleForms, Settings
    <2>4. PICK form : form = [d.form EXCEPT !.fields = fields]
      OBVIOUS
    <2>5. form \in RuleForms /\ form.fields = fields /\ form.metric = d.form.metric
      BY <2>1, <2>3, <2>4 DEF Drafts, RuleForms
    <2>6. PICK e : e = [d EXCEPT !.form = form, !.typed = d.typed \cup {f}]
      OBVIOUS
    <2>7. e \in Drafts /\ e.form = form /\ e.typed = d.typed \cup {f} /\ e.opened = d.opened
      BY <2>1, <2>5, <2>6 DEF Drafts
    <2>8. tab' = [tab EXCEPT ![t].draft = e]
      <3>1. tab' = [tab EXCEPT ![t].draft.form.fields[f] = ~@, ![t].draft.typed = @ \cup {f}]
        BY <1>4 DEF Type
      <3>2. tab' = [tab EXCEPT ![t].draft.form.fields = fields, ![t].draft.typed = @ \cup {f}]
        BY <1>a, <2>1, <2>2, <3>1
      <3>3. tab' = [tab EXCEPT ![t].draft.form = form, ![t].draft.typed = @ \cup {f}]
        BY <1>a, <2>1, <2>4, <3>2
      <3> QED BY <1>a, <2>1, <2>6, <3>3
    <2>9. d.form.metric \in Measurable
      BY <1>4, <1>b, <2>1 DEF Type, Filling, FormFree
    <2>10. UNCHANGED <<engine, ruleRows, rulesMade, chosen, crossed>>
      BY <1>4 DEF Type
    <2>11. DraftOK(e)
      BY <1>b, <2>1, <2>3, <2>5, <2>7, <2>9 DEF DraftOK
    <2> QED BY <2>8, <2>10, <2>11, FormMoves, RowsStay
  <1>5. ASSUME NEW t \in Tabs, SaveForm(t) \/ CancelForm(t) PROVE RulesInv'
    <2>1. UNCHANGED <<engine, ruleRows, rulesMade, chosen, crossed>> /\ tab[t].draft # Blank
      BY <1>5 DEF SaveForm, CancelForm, Filling, FormFree
    <2>2. CASE SaveForm(t)
      <3>1. PICK d : d = [tab[t].draft EXCEPT !.sent = TRUE]
        OBVIOUS
      <3>2. d \in Drafts /\ d.form = tab[t].draft.form /\ d.typed = tab[t].draft.typed /\ d.opened = tab[t].draft.opened
        BY <1>b, <3>1 DEF Drafts
      <3>3. tab' = [tab EXCEPT ![t].draft = d]
        BY <2>2, <1>a, <3>1 DEF SaveForm
      <3>4. DraftOK(d)
        BY <1>b, <2>1, <3>2 DEF DraftOK
      <3> QED BY <2>1, <3>3, <3>4, FormMoves, RowsStay
    <2>3. CASE CancelForm(t)
      BY <2>3, <1>c, <2>1, FormMoves, RowsStay DEF CancelForm
    <2> QED BY <1>5, <2>2, <2>3
  <1>6. ASSUME NEW t \in Tabs, Patched(t) PROVE RulesInv'
    <2>1. PICK d \in Drafts : d = tab[t].draft
      BY <1>b
    <2>2. PICK r \in RuleIds : r = d.id /\ d.sent
      <3>1. d.id \in RuleIds \cup {0}
        BY <2>1 DEF Drafts
      <3> QED BY <1>6, <2>1, <3>1 DEF Patched
    <2>3. d.form.metric \in Measurable /\ d # Blank
      BY <1>b, <1>c, <2>1, <2>2
    <2>4. UNCHANGED <<engine, rulesMade>>
      BY <1>6 DEF Patched
    <2>5. CASE ruleRows[r] = NoRow
      <3>1. PICK e : e = [d EXCEPT !.sent = FALSE]
        OBVIOUS
      <3>2. e \in Drafts /\ e.form = d.form /\ e.typed = d.typed /\ e.opened = d.opened
        BY <2>1, <3>1 DEF Drafts
      <3>3. tab' = [tab EXCEPT ![t].draft = e] /\ UNCHANGED <<ruleRows, chosen, crossed>>
        BY <1>6, <1>a, <2>1, <2>2, <2>5, <3>1 DEF Patched
      <3>4. DraftOK(e)
        BY <1>b, <2>1, <2>3, <3>2 DEF DraftOK
      <3> QED BY <2>4, <3>3, <3>4, FormMoves, RowsStay
    <2>6. CASE ruleRows[r] # NoRow
      <3>1. /\ ruleRows' = [ruleRows EXCEPT ![r].fields = d.form.fields]
            /\ chosen' = [chosen EXCEPT ![r] = [f \in Fields |-> IF f \in d.typed THEN d.form.fields[f] ELSE @[f]]]
            /\ crossed' = IF ruleRows[r].fields # d.opened THEN crossed \cup {r} ELSE crossed
            /\ tab' = [tab EXCEPT ![t].draft = Blank]
        BY <1>6, <2>1, <2>2, <2>6 DEF Patched
      <3>2. PICK row \in RuleForms : row = ruleRows[r]
        BY <1>a DEF Lists
      <3>3. PICK new : new = [row EXCEPT !.fields = d.form.fields]
        OBVIOUS
      <3>4. d.form.fields \in Settings
        BY <2>1 DEF Drafts, RuleForms
      <3>5. new \in RuleForms /\ new.fields = d.form.fields /\ new.metric = row.metric
        BY <3>2, <3>3, <3>4 DEF RuleForms
      <3>6. ruleRows' = [ruleRows EXCEPT ![r] = new]
        BY <1>a, <3>1, <3>2, <3>3 DEF Lists
      <3>7. ruleRows' \in Lists /\ ruleRows'[r] = new /\ \A q \in RuleIds \ {r} : ruleRows'[q] = ruleRows[q]
        BY <1>a, <3>5, <3>6 DEF Lists
      <3>8. PICK c \in Settings : c = chosen[r]
        BY <1>a
      <3>9. PICK e : e = [f \in Fields |-> IF f \in d.typed THEN d.form.fields[f] ELSE c[f]]
        OBVIOUS
      <3>10. e \in Settings
        BY <3>4, <3>8, <3>9 DEF Settings
      <3>11. chosen' = [chosen EXCEPT ![r] = e]
        BY <1>a, <3>1, <3>8, <3>9
      <3>12. chosen' \in [RuleIds -> Settings] /\ chosen'[r] = e /\ \A q \in RuleIds \ {r} : chosen'[q] = chosen[q]
        BY <1>a, <3>10, <3>11
      <3>13. r \in 1..rulesMade /\ row.metric \in Measurable
        BY <1>a, <2>6, <3>2 DEF Proper
      <3>14. r \notin crossed' => d.form.fields = e
        <4>1. SUFFICES ASSUME r \notin crossed' PROVE d.form.fields = e
          OBVIOUS
        <4>2. row.fields = d.opened /\ row.fields = c
          BY <1>a, <2>6, <3>1, <3>2, <3>8, <4>1
        <4>3. \A f \in Fields : f \notin d.typed => d.form.fields[f] = c[f]
          BY <1>b, <2>1, <4>2
        <4>4. \A f \in Fields : d.form.fields[f] = e[f]
          BY <3>9, <4>3
        <4> QED BY <3>4, <3>10, <4>4 DEF Settings
      <3>15. \A q \in RuleIds : Proper(ruleRows'[q])
        BY <1>a, <3>5, <3>7, <3>13 DEF Proper
      <3>16. \A q \in RuleIds \ crossed' : ruleRows'[q] # NoRow => ruleRows'[q].fields = chosen'[q]
        BY <1>a, <3>1, <3>5, <3>7, <3>12, <3>14
      <3>17. \A q \in RuleIds : q \notin 1..rulesMade' => ruleRows'[q] = NoRow /\ chosen'[q] = NoRow.fields
        BY <1>a, <2>4, <3>7, <3>12, <3>13
      <3>18. RowsOK'
        BY <1>a, <1>d, <2>4, <3>7, <3>12, <3>15, <3>16, <3>17
      <3> QED BY <1>c, <2>4, <3>1, <3>18, FormMoves
    <2> QED BY <2>5, <2>6
  \* A rule is made, from a form or from a suggestion.
  <1>7. ASSUME NEW row \in RuleForms, row.metric \in Measurable, rulesMade + 1 \in RuleIds, rulesMade' = rulesMade + 1,
               ruleRows' = [ruleRows EXCEPT ![rulesMade + 1] = row],
               chosen' \in [RuleIds -> Settings], chosen'[rulesMade + 1] = row.fields,
               \A q \in RuleIds \ {rulesMade + 1} : chosen'[q] = chosen[q], UNCHANGED crossed
        PROVE  /\ ruleRows' \in Lists /\ rulesMade' \in Nat /\ \A r \in RuleIds : Proper(ruleRows'[r])
               /\ \A r \in RuleIds : r \notin 1..rulesMade' => ruleRows'[r] = NoRow /\ chosen'[r] = NoRow.fields
               /\ \A r \in RuleIds \ crossed' : ruleRows'[r] # NoRow => ruleRows'[r].fields = chosen'[r]
    <2>1. PICK n \in RuleIds : n = rulesMade + 1
      BY <1>7
    <2>2. ruleRows' \in Lists /\ ruleRows'[n] = row /\ \A q \in RuleIds \ {n} : ruleRows'[q] = ruleRows[q]
      BY <1>7, <1>a, <2>1 DEF Lists
    <2>3. rulesMade' \in Nat /\ n \in 1..rulesMade' /\ 1..rulesMade \subseteq 1..rulesMade'
      <3>1. rulesMade \in Nat /\ rulesMade' = rulesMade + 1
        BY <1>7, <1>a
      <3> QED BY <2>1, <3>1
    <2>4. \A r \in RuleIds : Proper(ruleRows'[r])
      BY <1>7, <1>a, <2>2 DEF Proper
    <2>5. \A r \in RuleIds : r \notin 1..rulesMade' => ruleRows'[r] = NoRow /\ chosen'[r] = NoRow.fields
      BY <1>7, <1>a, <2>1, <2>2, <2>3
    <2>6. \A r \in RuleIds \ crossed' : ruleRows'[r] # NoRow => ruleRows'[r].fields = chosen'[r]
      BY <1>7, <1>a, <2>1, <2>2
    <2> QED BY <2>2, <2>3, <2>4, <2>5, <2>6
  <1>8. ASSUME NEW t \in Tabs, Created(t) PROVE RulesInv'
    <2>1. PICK row \in RuleForms : row = tab[t].draft.form
      BY <1>b DEF Drafts
    <2>2. /\ rulesMade + 1 \in RuleIds /\ rulesMade' = rulesMade + 1
          /\ ruleRows' = [ruleRows EXCEPT ![rulesMade + 1] = row]
          /\ chosen' = [chosen EXCEPT ![rulesMade + 1] = row.fields]
          /\ tab' = [tab EXCEPT ![t].draft = Blank] /\ UNCHANGED <<engine, crossed>>
          /\ tab[t].draft.sent
      BY <1>8, <2>1 DEF Created
    <2>3. row.metric \in Measurable
      BY <1>b, <1>c, <2>1, <2>2
    <2>4. row.fields \in Settings
      BY <2>1 DEF RuleForms
    <2>5. /\ chosen' \in [RuleIds -> Settings] /\ chosen'[rulesMade + 1] = row.fields
          /\ \A q \in RuleIds \ {rulesMade + 1} : chosen'[q] = chosen[q]
      BY <1>a, <2>2, <2>4
    <2>6. /\ ruleRows' \in Lists /\ rulesMade' \in Nat /\ \A r \in RuleIds : Proper(ruleRows'[r])
          /\ \A r \in RuleIds : r \notin 1..rulesMade' => ruleRows'[r] = NoRow /\ chosen'[r] = NoRow.fields
          /\ \A r \in RuleIds \ crossed' : ruleRows'[r] # NoRow => ruleRows'[r].fields = chosen'[r]
      BY <1>7, <2>2, <2>3, <2>5
    <2>7. RowsOK'
      BY <1>d, <2>2, <2>5, <2>6
    <2> QED BY <1>c, <2>2, <2>7, FormMoves
  <1>9. ASSUME NEW t \in Tabs, Suggest(t) PROVE RulesInv'
    <2>1. PICK m \in Suggestions : ruleRows' = [ruleRows EXCEPT ![rulesMade + 1] = Row(m, NoRow.fields)]
      BY <1>9 DEF Suggest
    <2>2. /\ rulesMade + 1 \in RuleIds /\ rulesMade' = rulesMade + 1
          /\ UNCHANGED <<engine, tab, chosen, crossed>>
      BY <1>9 DEF Suggest
    <2>3. m \in Measurable /\ m \in Metrics
      BY <1>a DEF Measurable
    <2>4. PICK row \in RuleForms : row = Row(m, NoRow.fields) /\ row.metric = m /\ row.fields = NoRow.fields
      <3>1. PICK z \in Settings : z = NoRow.fields
        BY <1>c
      <3>2. PICK x : x = [metric |-> m, enabled |-> TRUE, fields |-> z]
        OBVIOUS
      <3>3. x \in RuleForms /\ x.metric = m /\ x.fields = z
        BY <2>3, <3>2 DEF RuleForms
      <3> QED BY <3>1, <3>2, <3>3 DEF Row
    <2>5. rulesMade + 1 \notin 1..rulesMade
      <3>1. rulesMade \in Nat
        BY <1>a
      <3> QED BY <3>1
    <2>6. chosen[rulesMade + 1] = NoRow.fields
      BY <1>a, <2>2, <2>5
    <2>7. /\ ruleRows' \in Lists /\ rulesMade' \in Nat /\ \A r \in RuleIds : Proper(ruleRows'[r])
          /\ \A r \in RuleIds : r \notin 1..rulesMade' => ruleRows'[r] = NoRow /\ chosen'[r] = NoRow.fields
          /\ \A r \in RuleIds \ crossed' : ruleRows'[r] # NoRow => ruleRows'[r].fields = chosen'[r]
      BY <1>7, <1>a, <2>1, <2>2, <2>3, <2>4, <2>6
    <2>8. RowsOK'
      BY <1>a, <1>d, <2>2, <2>7
    <2>9. tab' = [tab EXCEPT ![t].draft = tab[t].draft]
      BY <1>a, <1>b, <2>2
    <2> QED BY <1>b, <2>2, <2>8, <2>9, FormMoves
  <1>10. ASSUME NEW t \in Tabs, NEW r \in RuleIds, TogglePause(t, r) \/ RemoveRule(t, r) PROVE RulesInv'
    <2>1. UNCHANGED <<engine, tab, rulesMade, chosen, crossed>>
      BY <1>10 DEF TogglePause, RemoveRule
    <2>2. PICK new \in RuleForms : /\ ruleRows' = [ruleRows EXCEPT ![r] = new]
                                   /\ \/ new = NoRow
                                      \/ /\ ruleRows[r] # NoRow /\ new.metric = ruleRows[r].metric
                                         /\ new.fields = ruleRows[r].fields
      <3>1. CASE TogglePause(t, r)
        <4>1. PICK row \in RuleForms : row = ruleRows[r]
          BY <1>a DEF Lists
        <4>2. PICK b \in BOOLEAN : b = ~tab[t].list[r].enabled
          BY <1>b DEF Lists, RuleForms
        <4>3. PICK new : new = [row EXCEPT !.enabled = b]
          OBVIOUS
        <4>4. new \in RuleForms /\ new.metric = row.metric /\ new.fields = row.fields
          BY <4>1, <4>2, <4>3 DEF RuleForms
        <4>5. ruleRows' = [ruleRows EXCEPT ![r] = new] /\ ruleRows[r] # NoRow
          BY <3>1, <1>a, <4>1, <4>2, <4>3 DEF TogglePause, Lists
        <4> QED BY <4>1, <4>4, <4>5
      <3>2. CASE RemoveRule(t, r)
        BY <3>2, <1>c DEF RemoveRule
      <3> QED BY <1>10, <3>1, <3>2
    <2>3. ruleRows' \in Lists /\ ruleRows'[r] = new /\ \A q \in RuleIds \ {r} : ruleRows'[q] = ruleRows[q]
      BY <1>a, <2>2 DEF Lists
    <2>4. \A q \in RuleIds : Proper(ruleRows'[q])
      BY <1>a, <2>2, <2>3 DEF Proper
    <2>5. \A q \in RuleIds : q \notin 1..rulesMade => ruleRows'[q] = NoRow
      BY <1>a, <2>2, <2>3
    <2>6. \A q \in RuleIds \ crossed : ruleRows'[q] # NoRow => ruleRows'[q].fields = chosen[q]
      BY <1>a, <2>2, <2>3
    <2>7. RowsOK'
      BY <1>a, <1>d, <2>1, <2>3, <2>4, <2>5, <2>6
    <2>8. tab' = [tab EXCEPT ![t].draft = tab[t].draft]
      BY <1>a, <1>b, <2>1
    <2> QED BY <1>b, <2>1, <2>7, <2>8, FormMoves
  <1> QED BY <1>0, <1>1, <1>2, <1>3, <1>4, <1>5, <1>6, <1>8, <1>9, <1>10 DEF RulesNext

\* The conjunction is invariant in every behaviour.
LEMMA RulesInvariance == RulesSpec => []RulesInv
  <1>1. ASSUME RulesInit PROVE RulesInv
    <2>1. /\ engine \in Engines /\ ruleRows = NoRows /\ rulesMade = 0
          /\ tab = [t \in Tabs |-> Closed]
          /\ chosen = [r \in RuleIds |-> [f \in Fields |-> FALSE]]
      BY <1>1 DEF RulesInit
    <2>2. \A r \in RuleIds : ruleRows[r] = NoRow /\ chosen[r] = NoRow.fields
      BY <2>1, BlankRows
    <2>3. chosen \in [RuleIds -> Settings]
      BY <2>1 DEF Settings
    <2>4. RowsOK
      BY <2>1, <2>2, <2>3, BlankRows DEF RowsOK, Proper
    <2>5. Closed.list = NoRows /\ Closed.draft = Blank
      BY DEF Closed
    <2>6. ListOK(NoRows) /\ DraftOK(Blank)
      BY BlankRows DEF ListOK, DraftOK, Proper
    <2> QED BY <2>1, <2>4, <2>5, <2>6, BlankRows DEF RulesInv
  <1>2. RulesInv /\ [RulesNext]_ruleVars => RulesInv'
    BY RulesKeepInv
  <1> QED BY <1>1, <1>2, PTL DEF RulesSpec

\* However many tabs edit the rules, what somebody set stays, but for forms that crossed
\* (Monitor.tsx, routes/alerts.ts).
THEOREM EditsAreKept == RulesSpec => []EditsKept
  <1>1. RulesInv => EditsKept
    BY DEF RulesInv, RowsOK, EditsKept, Existing
  <1> QED BY <1>1, RulesInvariance, PTL

=============================================================================
