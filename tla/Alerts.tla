------------------------------- MODULE Alerts -------------------------------
(***************************************************************************)
(* One alert rule: its row, the events it raised, the evaluations of        *)
(* alertEvaluator.ts (one started by every snapshot the monitor page        *)
(* fetches, one by the scheduler's 30 s sweep), and the update, delete and  *)
(* acknowledge routes.                                                      *)
(*                                                                         *)
(* An evaluation reads the rule once and then acts on that copy across its  *)
(* awaits; nothing keeps two of them apart.  Whether the condition holds in *)
(* a snapshot is arbitrary.  Time is in minutes, and either source evaluates *)
(* at most once a minute, which bounds the model only.                      *)
(***************************************************************************)
EXTENDS Integers, Sequences

CONSTANTS
    Evaluators,    \* evaluations that can be in flight together
    Duration,      \* rule.durationMinutes
    Cooldown,      \* NOTIFY_COOLDOWN_MS
    MaxMinute,     \* bound on the clock
    MaxPatches,    \* bound on requests that change rule.enabled
    MaxAborts      \* bound on failing statements and crashes

ASSUME AlertsAssumption ==
    /\ Duration \in Nat \ {0} /\ Cooldown \in Nat
    /\ MaxMinute \in Nat \ {0}
    /\ MaxPatches \in Nat /\ MaxAborts \in Nat

VARIABLES
    rule,       \* row: [present, enabled, status, since, notified]; time 0 is null
    events,     \* its AlertEvent rows: [status, notified], the latest last
    eval,       \* per evaluation: [pc, notified, now, event], what it uses of its copy;
                \* when idle, now is the time of the last one
    minute,     \* wall clock
    patcher,    \* PATCH /rules/:id in flight: [pc, enabled, was]
    acker,      \* POST /events/:id/acknowledge in flight: [pc, event]
    patches, aborts,
    past        \* history: which of overlap, disable, abort happened

alertVars == <<rule, events, eval, minute, patcher, acker, patches, aborts, past>>

NoRule == [present |-> FALSE, enabled |-> FALSE, status |-> "ok", since |-> 0, notified |-> 0]
NoEval == [pc |-> "idle", notified |-> 0, now |-> 0, event |-> 0]
AtRest(e) == [NoEval EXCEPT !.now = eval[e].now]
NoPatch == [pc |-> "idle", enabled |-> FALSE, was |-> FALSE]
NoAck == [pc |-> "idle", event |-> 0]

AlertsInit ==
    /\ rule = [NoRule EXCEPT !.present = TRUE, !.enabled = TRUE]
    /\ events = <<>>
    /\ eval = [e \in Evaluators |-> NoEval]
    /\ minute = 1
    /\ patcher = NoPatch /\ acker = NoAck
    /\ patches = 0 /\ aborts = 0
    /\ past = {}

Abort == /\ aborts < MaxAborts
         /\ aborts' = aborts + 1

-----------------------------------------------------------------------------
(* An evaluation.                                                            *)

InFlight == {e \in Evaluators : eval[e].pc # "idle"}

\* What the copy of the rule asks for, given whether the condition holds.
Verdict(seen, met, now) ==
    CASE met /\ seen.since = 0 -> "clock"
      [] met /\ seen.since # 0 ->
            IF now - seen.since >= Duration /\ seen.status # "firing" THEN "fire" ELSE "idle"
      [] ~met /\ seen.status = "firing" -> "resolve"
      [] ~met /\ seen.status # "firing" -> IF seen.since # 0 THEN "reset" ELSE "idle"

EvalStart(e) ==
    /\ eval[e].pc = "idle" /\ eval[e].now < minute
    /\ rule.present /\ rule.enabled /\ rule.status # "paused"
    /\ \E met \in BOOLEAN :
         LET pc == Verdict(rule, met, minute) IN
         eval' = [eval EXCEPT ![e] =
                    IF pc = "idle" THEN [NoEval EXCEPT !.now = minute]
                    ELSE [pc |-> pc, notified |-> rule.notified, now |-> minute, event |-> 0]]
    /\ past' = IF InFlight # {} THEN past \cup {"overlap"} ELSE past
    /\ UNCHANGED <<rule, events, minute, patcher, acker, patches, aborts>>

\* A statement on a rule that was deleted throws, and ends the evaluation of the rule.
EvalStep(e, pc, then, row, evs) ==
    /\ eval[e].pc = pc
    /\ IF rule.present
         THEN /\ rule' = row /\ events' = evs
              /\ eval' = [eval EXCEPT ![e] = then]
         ELSE /\ eval' = [eval EXCEPT ![e] = AtRest(e)]
              /\ UNCHANGED <<rule, events>>

\* The clock of the duration is started, or reset when the condition no longer holds.
EvalClock(e) ==
    /\ \/ EvalStep(e, "clock", AtRest(e), [rule EXCEPT !.since = eval[e].now], events)
       \/ EvalStep(e, "reset", AtRest(e), [rule EXCEPT !.since = 0], events)
    /\ UNCHANGED <<minute, patcher, acker, patches, aborts, past>>

EvalFire(e) ==
    /\ EvalStep(e, "fire", [eval[e] EXCEPT !.pc = "event"],
                [rule EXCEPT !.status = "firing"], events)
    /\ UNCHANGED <<minute, patcher, acker, patches, aborts, past>>

CooledDown(e) ==
    \/ eval[e].notified = 0
    \/ eval[e].now - eval[e].notified > Cooldown

EvalEvent(e) ==
    /\ EvalStep(e, "event",
                IF CooledDown(e)
                  THEN [eval[e] EXCEPT !.pc = "notify", !.event = Len(events) + 1]
                  ELSE AtRest(e),
                rule, Append(events, [status |-> "firing", notified |-> FALSE]))
    /\ UNCHANGED <<minute, patcher, acker, patches, aborts, past>>

\* notify catches what the mail and the webhook throw.
EvalNotify(e) ==
    /\ eval[e].pc = "notify"
    /\ eval' = [eval EXCEPT ![e].pc = "stamp"]
    /\ UNCHANGED <<rule, events, minute, patcher, acker, patches, aborts, past>>

EvalStamp(e) ==
    /\ EvalStep(e, "stamp", [eval[e] EXCEPT !.pc = "mark"],
                [rule EXCEPT !.notified = eval[e].now], events)
    /\ UNCHANGED <<minute, patcher, acker, patches, aborts, past>>

EvalMark(e) ==
    /\ EvalStep(e, "mark", AtRest(e), rule,
                [events EXCEPT ![eval[e].event].notified = TRUE])
    /\ UNCHANGED <<minute, patcher, acker, patches, aborts, past>>

\* Only events still firing are resolved: an acknowledged one keeps its status.
EvalResolve(e) ==
    /\ EvalStep(e, "resolve", [eval[e] EXCEPT !.pc = "ok"], rule,
                [i \in DOMAIN events |->
                    IF events[i].status = "firing"
                      THEN [events[i] EXCEPT !.status = "resolved"] ELSE events[i]])
    /\ UNCHANGED <<minute, patcher, acker, patches, aborts, past>>

EvalOkMutant(e) ==
    /\ EvalStep(e, "ok", AtRest(e), [rule EXCEPT !.since = 0], events)
    /\ UNCHANGED <<minute, patcher, acker, patches, aborts, past>>

EvalOk(e) ==
    /\ EvalStep(e, "ok", AtRest(e), [rule EXCEPT !.status = "ok", !.since = 0], events)
    /\ UNCHANGED <<minute, patcher, acker, patches, aborts, past>>

\* A statement is rejected: the evaluation of this rule is given up.
EvalAbort(e) ==
    /\ Abort
    /\ eval[e].pc # "idle"
    /\ eval' = [eval EXCEPT ![e] = AtRest(e)]
    /\ past' = past \cup {"abort"}
    /\ UNCHANGED <<rule, events, minute, patcher, acker, patches>>

-----------------------------------------------------------------------------
(* The routes.                                                               *)

PatchRead ==
    /\ patcher.pc = "idle" /\ rule.present
    /\ patches < MaxPatches
    /\ patches' = patches + 1
    /\ \E enabled \in BOOLEAN :
         patcher' = [pc |-> "write", enabled |-> enabled, was |-> rule.enabled]
    /\ UNCHANGED <<rule, events, eval, minute, acker, aborts, past>>

\* Disabling pauses the rule and leaves its events as they are.
PatchWrite ==
    /\ patcher.pc = "write"
    /\ patcher' = NoPatch
    /\ IF ~rule.present THEN UNCHANGED <<rule, past>>
       ELSE CASE ~patcher.enabled ->
                   /\ rule' = [rule EXCEPT !.enabled = FALSE, !.status = "paused", !.since = 0]
                   /\ past' = past \cup {"disable"}
              [] patcher.enabled ->
                   /\ rule' = IF patcher.was THEN [rule EXCEPT !.enabled = TRUE]
                              ELSE [NoRule EXCEPT !.present = TRUE, !.enabled = TRUE]
                   /\ UNCHANGED past
    /\ UNCHANGED <<events, eval, minute, acker, patches, aborts>>

\* The delete cascades to the events.
DeleteRule ==
    /\ rule.present
    /\ rule' = NoRule
    /\ events' = <<>>
    /\ UNCHANGED <<eval, minute, patcher, acker, patches, aborts, past>>

AckRead ==
    /\ acker.pc = "idle"
    /\ \E i \in DOMAIN events :
         /\ events[i].status = "firing"
         /\ acker' = [pc |-> "write", event |-> i]
    /\ UNCHANGED <<rule, events, eval, minute, patcher, patches, aborts, past>>

\* The update names the event's id only: it overwrites a status set meanwhile.
AckWrite ==
    /\ acker.pc = "write"
    /\ acker' = NoAck
    /\ events' = IF acker.event \in DOMAIN events
                   THEN [events EXCEPT ![acker.event].status = "acknowledged"] ELSE events
    /\ UNCHANGED <<rule, eval, minute, patcher, patches, aborts, past>>

-----------------------------------------------------------------------------
Tick ==
    /\ minute < MaxMinute
    /\ minute' = minute + 1
    /\ UNCHANGED <<rule, events, eval, patcher, acker, patches, aborts, past>>

\* The process dies: what was in flight ends.
AlertsCrash ==
    /\ Abort
    /\ eval' = [e \in Evaluators |-> AtRest(e)]
    /\ patcher' = NoPatch /\ acker' = NoAck
    /\ past' = past \cup {"abort"}
    /\ UNCHANGED <<rule, events, minute, patches>>

AlertsNext ==
    \/ \E e \in Evaluators :
         \/ EvalStart(e) \/ EvalClock(e) \/ EvalFire(e) \/ EvalEvent(e) \/ EvalNotify(e)
         \/ EvalStamp(e) \/ EvalMark(e) \/ EvalResolve(e) \/ EvalOk(e) \/ EvalAbort(e)
    \/ PatchRead \/ PatchWrite \/ DeleteRule \/ AckRead \/ AckWrite
    \/ Tick \/ AlertsCrash

-----------------------------------------------------------------------------
EvalPcs == {"idle", "clock", "reset", "fire", "event", "notify", "stamp", "mark",
            "resolve", "ok"}
Rules == [present : BOOLEAN, enabled : BOOLEAN, status : {"ok", "firing", "paused"},
          since : 0..MaxMinute, notified : 0..MaxMinute]

AlertsTypeOK ==
    /\ rule \in Rules
    /\ events \in Seq([status : {"firing", "acknowledged", "resolved"}, notified : BOOLEAN])
    /\ eval \in [Evaluators -> [pc : EvalPcs, notified : 0..MaxMinute, now : 0..MaxMinute,
                            event : Nat]]
    /\ minute \in 1..MaxMinute
    /\ patcher \in [pc : {"idle", "write"}, enabled : BOOLEAN, was : BOOLEAN]
    /\ acker \in [pc : {"idle", "write"}, event : Nat]
    /\ past \subseteq {"overlap", "disable", "abort"}

\* A rule that is firing has raised an event that nobody sees as resolved, however many
\* evaluations overlapped, unless one was cut short between its update of the rule and its
\* insert of the event (alertEvaluator.ts fires in two statements).
FiringRuleHasOpenEvent ==
    (rule.present /\ rule.status = "firing" /\ InFlight = {} /\ "abort" \notin past)
        => \E i \in DOMAIN events : events[i].status # "resolved"

\* A rule that is ok again has no event left in state firing, unless two evaluations
\* overlapped or the rule was disabled, which leaves its events open for ever.
OkRuleHasNoFiringEvent ==
    (/\ rule.present /\ rule.status = "ok" /\ InFlight = {}
     /\ past \cap {"overlap", "disable"} = {})
        => \A i \in DOMAIN events : events[i].status # "firing"

\* A rule and its events agree whenever no evaluation is in flight: the evaluator changes
\* the two in separate statements, from a copy of the rule read before (alertEvaluator.ts).
AlertStatusMatchesEvents == FiringRuleHasOpenEvent /\ OkRuleHasNoFiringEvent

=============================================================================
