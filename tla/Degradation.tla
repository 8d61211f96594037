---------------------------- MODULE Degradation ----------------------------
(***************************************************************************)
(* Graceful degradation: the circuit breakers of the components, the       *)
(* SystemStateService that turns their events into one system mode, the    *)
(* TradingGate that permits trading actions by that mode, the bounded      *)
(* EventBus on which mode changes are published, and the orchestrator that *)
(* walks the service through the stages of a recovery.                     *)
(*                                                                         *)
(* One asyncio loop runs all of it, and no handler waits on anything but   *)
(* an uncontended lock, so each handler is one action.  What interleaves   *)
(* is the calls: an event is created by a component, and delivered to the  *)
(* service later, in any order with the events of other components, with   *)
(* an operator's override, its expiry, and the caller of a recovery.       *)
(***************************************************************************)
EXTENDS Integers, Sequences, FiniteSets

CONSTANTS
  Breakers,       \* the components that have a circuit breaker
  FailThreshold,  \* config.fail_threshold_count
  BusCapacity,    \* config.event_bus_queue_size
  Reports,        \* reason codes other code reports without a breaker
  Forceable,      \* modes the operators force
  MaxPending      \* bound: events created and not yet delivered

ASSUME BreakersAssumption == Breakers \subseteq {"broker", "market_data", "risk", "db"}
ASSUME FailThresholdAssumption == FailThreshold \in Nat /\ FailThreshold > 1
ASSUME BusCapacityAssumption == BusCapacity \in Nat /\ BusCapacity > 0
ASSUME MaxPendingAssumption == MaxPending \in Nat

VARIABLES
  mode,      \* SystemStateService._mode
  stage,     \* SystemStateService._stage
  override,  \* the mode of SystemStateService._force_override
  gate,      \* TradingGate._mode and ._stage
  breaker,   \* CircuitBreaker._state of each component
  run,       \* RecoveryOrchestrator._current_stage, None when no run is current
  pending,   \* reason codes of events created and not yet delivered to the service
  queue,     \* EventBus._queue: the new modes of the published changes
  view,      \* the mode a subscriber of the bus was last told
  missed,    \* no published change tells of the current mode
  seen       \* modes called for by what the service has handled since it was last
             \* forced or told that a recovery begins or ends

service == <<mode, stage, gate, queue, missed, seen>>
vars == <<mode, stage, override, gate, breaker, run, pending, queue, view, missed, seen>>

None == "none"

Modes == {"normal", "recovering", "degraded", "safe_mode", "safe_mode_disconnected", "halt"}

Stages == {"connect_broker", "catchup_marketdata", "verify_risk", "ready"}

Levels == {"healthy", "unstable", "tripped"}

\* MODE_PRIORITY: the more severe the higher.
Priority ==
  [normal |-> 0, recovering |-> 1, degraded |-> 2, safe_mode |-> 3,
   safe_mode_disconnected |-> 4, halt |-> 5]

\* The mode each reason code calls for.
DecisionMatrix ==
  [broker_disconnect |-> "safe_mode_disconnected", broker_reconnected |-> "recovering",
   broker_report_mismatch |-> "halt", md_stale |-> "safe_mode",
   md_quality_degraded |-> "degraded", risk_timeout |-> "safe_mode",
   risk_breach_hard |-> "halt", position_truth_unknown |-> "halt",
   db_write_fail |-> "degraded", db_buffer_overflow |-> "safe_mode",
   alerts_channel_down |-> "degraded", cold_start |-> "recovering",
   recovery_failed |-> "halt", all_healthy |-> "normal"]

Reasons == DOMAIN DecisionMatrix

ASSUME ReportsAssumption == Reports \subseteq Reasons
ASSUME ForceableAssumption == Forceable \subseteq Modes

TripReason ==
  [broker |-> "broker_disconnect", market_data |-> "md_stale",
   risk |-> "risk_timeout", db |-> "db_write_fail"]

RecoveryReason ==
  [broker |-> "broker_reconnected", market_data |-> "all_healthy",
   risk |-> "all_healthy", db |-> "all_healthy"]

\* The stage after s, in the order of STAGE_ORDER.
NextStage ==
  [connect_broker |-> "catchup_marketdata", catchup_marketdata |-> "verify_risk",
   verify_risk |-> "ready"]

Actions == {"open", "send", "amend", "cancel", "reduce_only", "query"}

\* The actions a gate with mode m and stage s permits.
Permitted(m, s) ==
  CASE m \in {"normal", "degraded"} -> Actions
    [] m = "safe_mode" -> {"cancel", "reduce_only", "query"}
    [] m \in {"safe_mode_disconnected", "halt"} -> {"query"}
    [] m = "recovering" /\ s \in {"connect_broker", "catchup_marketdata"} -> {"query"}
    [] m = "recovering" /\ s = "verify_risk" -> {"query", "cancel"}
    [] m = "recovering" /\ s = "ready" -> {"query", "cancel", "reduce_only"}
    [] OTHER -> {}

Healthy == [level |-> "healthy", failures |-> 0]

\* The modes a recovery moves to: the only ones the service may relax to.
Relaxed == {"normal", "recovering"}

-----------------------------------------------------------------------------
(* The state service.                                                      *)

CanTransitionAnyway(target) == TRUE

CanTransition(target) == Priority[target] >= Priority[mode] \/ target \in Relaxed

PublishOldMode(target) ==
  IF Len(queue) < BusCapacity
    THEN queue' = Append(queue, mode) /\ missed' = FALSE
    ELSE missed' = TRUE /\ UNCHANGED queue

PublishUnbounded(target) == queue' = Append(queue, target) /\ missed' = FALSE

\* put_nowait: an event that finds the queue full is dropped.
Publish(target) ==
  IF Len(queue) < BusCapacity
    THEN queue' = Append(queue, target) /\ missed' = FALSE
    ELSE missed' = TRUE /\ UNCHANGED queue

\* The stage the service has in mode m: a running recovery keeps its own.
StageIn(m) ==
  CASE m # "recovering" -> None
    [] m = "recovering" /\ stage = None -> "connect_broker"
    [] OTHER -> stage

TransitionTo(target) ==
  /\ mode' = target
  /\ stage' = StageIn(target)
  /\ gate' = [mode |-> target, stage |-> StageIn(target)]
  /\ Publish(target)

\* Events are resolved to the most severe mode they call for.
Resolve(target) ==
  /\ seen' = (IF target \in Relaxed THEN {target} ELSE seen \cup {target})
  /\ IF CanTransition(target)
       THEN TransitionTo(target)
       ELSE UNCHANGED <<mode, stage, gate, queue, missed>>

HandleEventOverridden(target) == Resolve(target)

\* handle_event with a reason code that calls for target.
HandleEvent(target) == IF override # None THEN UNCHANGED service ELSE Resolve(target)

\* The gate refuses mode RECOVERING without a stage: it raises after the service
\* has taken the override and the mode.
GateRefuses(m) == m = "recovering" /\ stage = None

\* force_mode publishes nothing.
ForceTo(m) ==
  /\ override' = m
  /\ mode' = m
  /\ stage' = (IF m = "recovering" THEN stage ELSE None)
  /\ gate' = (IF GateRefuses(m) THEN gate ELSE [mode |-> m, stage |-> stage'])
  /\ missed' = TRUE
  /\ seen' = {m}
  /\ UNCHANGED queue

UpdateServiceStage(s) ==
  /\ mode = "recovering"
  /\ stage' = s
  /\ UNCHANGED <<mode, gate, queue, missed, seen>>

UpdateRecoveryStage(s) ==
  /\ mode = "recovering"
  /\ stage' = s
  /\ gate' = [mode |-> mode, stage |-> s]
  /\ UNCHANGED <<mode, queue, missed, seen>>

ForceMode(m) ==
  /\ ForceTo(m)
  /\ UNCHANGED <<breaker, run, pending, view>>

\* The read of is_force_override that finds the TTL elapsed; the mode stays.
ExpireOverride ==
  /\ override # None
  /\ override' = None
  /\ UNCHANGED <<service, breaker, run, pending, view>>

-----------------------------------------------------------------------------
(* Circuit breakers.  A component creates no event whose like is still     *)
(* undelivered, nor more than MaxPending in all.                           *)

Emit(r) ==
  /\ r \notin pending /\ Cardinality(pending) < MaxPending
  /\ pending' = pending \cup {r}

\* The count is only compared with the threshold, so it stops there.
Counted(c) == IF breaker[c].failures < FailThreshold THEN breaker[c].failures + 1 ELSE FailThreshold

SetBreaker(c, level, failures) ==
  breaker' = [breaker EXCEPT ![c] = [level |-> level, failures |-> failures]]

\* The warning of the first failure carries the trip's reason code.
FirstFailure(c) ==
  /\ breaker[c].level = "healthy"
  /\ SetBreaker(c, "unstable", Counted(c))
  /\ Emit(TripReason[c])
  /\ UNCHANGED <<service, override, run, view>>

\* Enough failures, or fail_threshold_seconds since the first of them.
Trip(c) ==
  /\ breaker[c].level = "unstable"
  /\ SetBreaker(c, "tripped", Counted(c))
  /\ Emit(TripReason[c])
  /\ UNCHANGED <<service, override, run, view>>

\* Neither condition holds yet, or the breaker is tripped already.
CountFailure(c) ==
  /\ \/ breaker[c].level = "unstable" /\ Counted(c) < FailThreshold
     \/ breaker[c].level = "tripped"
  /\ SetBreaker(c, breaker[c].level, Counted(c))
  /\ UNCHANGED <<service, override, run, pending, view>>

RecordFailure(c) == FirstFailure(c) \/ Trip(c) \/ CountFailure(c)

RecordSuccessKeepingCount(c) ==
  /\ breaker[c] # Healthy
  /\ SetBreaker(c, "healthy", breaker[c].failures)
  /\ Emit(RecoveryReason[c])
  /\ UNCHANGED <<service, override, run, view>>

RecordSuccess(c) ==
  /\ breaker[c] # Healthy
  /\ breaker' = [breaker EXCEPT ![c] = Healthy]
  /\ Emit(RecoveryReason[c])
  /\ UNCHANGED <<service, override, run, view>>

\* Code without a breaker creates an event.
Report(r) ==
  /\ Emit(r)
  /\ UNCHANGED <<service, override, breaker, run, view>>

\* The caller of the breaker awaits handle_event.
Deliver(r) ==
  /\ r \in pending
  /\ pending' = pending \ {r}
  /\ HandleEvent(DecisionMatrix[r])
  /\ UNCHANGED <<override, breaker, run, view>>

-----------------------------------------------------------------------------
(* Recovery.  A call with the id of a run that is not current does nothing.*)
(* Every check of a stage passes; the stages order what the gate permits.  *)

\* A run that is current is replaced.  The stage update that follows the event
\* repeats the stage the event gave, or raises when an override kept the mode.
StartRecovery ==
  /\ run' = "connect_broker"
  /\ IF mode = "recovering"
       THEN UpdateRecoveryStage("connect_broker")
       ELSE HandleEvent(DecisionMatrix["broker_reconnected"])
  /\ UNCHANGED <<override, breaker, pending, view>>

\* The orchestrator moves on before the service refuses the stage.
AdvanceStage ==
  /\ run \in DOMAIN NextStage
  /\ run' = NextStage[run]
  /\ IF mode = "recovering"
       THEN UpdateRecoveryStage(NextStage[run])
       ELSE UNCHANGED service
  /\ UNCHANGED <<override, breaker, pending, view>>

CompleteRecovery ==
  /\ run = "ready"
  /\ run' = None
  /\ HandleEvent(DecisionMatrix["all_healthy"])
  /\ UNCHANGED <<override, breaker, pending, view>>

AbortRecovery ==
  /\ run # None
  /\ run' = None
  /\ ForceTo("safe_mode")
  /\ UNCHANGED <<breaker, pending, view>>

-----------------------------------------------------------------------------
(* The bus and the process.                                                *)

Dispatch ==
  /\ queue # <<>>
  /\ view' = Head(queue)
  /\ queue' = Tail(queue)
  /\ UNCHANGED <<mode, stage, override, gate, breaker, run, pending, missed, seen>>

ColdBreakers == [c \in Breakers |-> Healthy]

ColdGate == [mode |-> "recovering", stage |-> "connect_broker"]

\* Cold start: nothing is verified yet.
Init ==
  /\ mode = "recovering" /\ stage = "connect_broker" /\ gate = ColdGate
  /\ override = None /\ run = None
  /\ breaker = ColdBreakers
  /\ pending = {} /\ queue = <<>>
  /\ view = "recovering" /\ missed = FALSE
  /\ seen = {"recovering"}

\* The process stops and starts again; nothing of this is persisted.
Restart ==
  /\ mode' = "recovering" /\ stage' = "connect_broker" /\ gate' = ColdGate
  /\ override' = None /\ run' = None
  /\ breaker' = ColdBreakers
  /\ pending' = {} /\ queue' = <<>>
  /\ view' = "recovering" /\ missed' = FALSE
  /\ seen' = {"recovering"}

Next ==
  \/ \E c \in Breakers : RecordFailure(c) \/ RecordSuccess(c)
  \/ \E r \in Reports : Report(r)
  \/ \E r \in pending : Deliver(r)
  \/ \E m \in Forceable : ForceMode(m)
  \/ ExpireOverride
  \/ StartRecovery
  \/ AdvanceStage
  \/ CompleteRecovery
  \/ AbortRecovery
  \/ Dispatch
  \/ Restart

Spec == Init /\ [][Next]_vars

-----------------------------------------------------------------------------
(* Properties.                                                             *)

\* Types; and the bus never holds more than its capacity, however fast the mode
\* changes (event_bus.py:110).
TypeOK ==
  /\ mode \in Modes
  /\ stage \in Stages \cup {None}
  /\ override \in Modes \cup {None}
  /\ gate \in [mode : Modes, stage : Stages \cup {None}]
  /\ breaker \in [Breakers -> [level : Levels, failures : 0 .. FailThreshold]]
  /\ run \in Stages \cup {None}
  /\ pending \subseteq Reasons
  /\ queue \in Seq(Modes) /\ Len(queue) <= BusCapacity
  /\ view \in Modes
  /\ missed \in BOOLEAN
  /\ seen \subseteq Modes

\* The gate permits trading by the service's mode and stage, and there is a stage
\* exactly while recovering: whoever asks the gate and whoever asks the service
\* about the system get the same answer (state_service.py:14).
GateFollowsMode ==
  /\ gate = [mode |-> mode, stage |-> stage]
  /\ mode = "recovering" <=> stage # None

\* The mode is the most severe one called for since the last recovery or override,
\* in whatever order the events arrived (_can_transition's conflict resolution).
WorstWins == mode \in seen /\ \A m \in seen : Priority[m] <= Priority[mode]

\* While an operator's override lasts nothing but another override moves the mode,
\* not even a recovery that the orchestrator completes or aborts meanwhile.
OverrideHolds == override # None => mode = override

\* Hysteresis: a breaker is healthy exactly when no failure follows the last
\* success, and trips on no single failure (breakers.py:119).
BreakerSound ==
  \A c \in Breakers :
    /\ breaker[c].level = "healthy" <=> breaker[c].failures = 0
    /\ breaker[c].level = "unstable" => breaker[c].failures < FailThreshold
    /\ breaker[c].level = "tripped" => breaker[c].failures > 1

\* A subscriber that has been told everything published knows the mode, unless the
\* last change was dropped by a full bus or was forced (_publish_mode_change).
ViewFollowsMode ==
  ~missed => mode = (IF queue = <<>> THEN view ELSE queue[Len(queue)])

Incidents == {r \in Reasons : DecisionMatrix[r] \notin Relaxed}

\* Delivering the event of an incident never lets the gate permit opening a position
\* where it did not: the design's rule that after a severer mode a lighter event may
\* not relax it, with its order HALT > SAFE_MODE_DISCONNECTED > SAFE_MODE > RECOVERING
\* > DEGRADED > NORMAL.  _can_transition has RECOVERING below DEGRADED.
IncidentsNeverOpen ==
  [][\A r \in Incidents :
       r \in pending /\ pending' = pending \ {r} /\ "open" \in Permitted(gate'.mode, gate'.stage)
         => "open" \in Permitted(gate.mode, gate.stage)]_vars

\* NORMAL only when every probe is healthy (the matrix of the design): with every
\* event delivered and no override, no breaker is tripped in mode NORMAL.  ALL_HEALTHY
\* from one component's breaker, or an override that expires, brings NORMAL about.
NormalIsHealthy ==
  mode = "normal" /\ pending = {} /\ override = None
    => \A c \in Breakers : breaker[c].level # "tripped"

\* "Recovery proceeds through these stages in order": the service's stage moves to
\* the next one or starts over.  A run interrupted by an incident goes on by itself
\* and skips stages when the service recovers again.
StagesInOrder ==
  [][stage # None /\ stage' \notin {stage, None, "connect_broker"}
       => stage \in DOMAIN NextStage /\ stage' = NextStage[stage]]_vars

\* The state service, its subscribers and its breakers stay consistent with each
\* other over every incident, recovery and override: each part is one of the
\* promises of state_service.py and breakers.py stated above.
DegradationSound ==
  TypeOK /\ WorstWins /\ OverrideHolds /\ BreakerSound /\ ViewFollowsMode
=============================================================================
