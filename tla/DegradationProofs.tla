------------------------ MODULE DegradationProofs --------------------------
(***************************************************************************)
(* The invariants of Degradation, for every set of breakers and of reports,*)
(* every threshold and every capacity of the bus, and of Greeks, for every *)
(* set of positions and strategies.                                        *)
(***************************************************************************)
EXTENDS Degradation, Greeks, SumLemmas, SequenceTheorems, TLAPS

\* The tables of the code are total on what they are looked up with.
LEMMA Matrix == \A r \in Reasons : DecisionMatrix[r] \in Modes
  BY DEF Reasons, DecisionMatrix, Modes

LEMMA Priorities == \A m \in Modes : Priority[m] \in Int
  BY DEF Modes, Priority

LEMMA Follows == \A s \in DOMAIN NextStage : NextStage[s] \in Stages
  BY DEF NextStage, Stages

LEMMA BreakerReasons ==
  \A c \in Breakers : TripReason[c] \in Reasons /\ RecoveryReason[c] \in Reasons
  BY BreakersAssumption DEF Reasons, DecisionMatrix, TripReason, RecoveryReason

-----------------------------------------------------------------------------
(* Type correctness.                                                       *)

ServiceTypes ==
  /\ mode \in Modes
  /\ stage \in Stages \cup {None}
  /\ gate \in [mode : Modes, stage : Stages \cup {None}]
  /\ queue \in Seq(Modes) /\ Len(queue) <= BusCapacity
  /\ missed \in BOOLEAN
  /\ seen \subseteq Modes

BreakerTypes == breaker \in [Breakers -> [level : Levels, failures : 0 .. FailThreshold]]

LEMMA EmptyQueue == <<>> \in Seq(Modes) /\ Len(<<>>) <= BusCapacity
  BY BusCapacityAssumption

LEMMA ColdTypes ==
  /\ ColdGate \in [mode : Modes, stage : Stages \cup {None}]
  /\ ColdBreakers \in [Breakers -> [level : Levels, failures : 0 .. FailThreshold]]
  /\ "recovering" \in Modes /\ "connect_broker" \in Stages
  BY FailThresholdAssumption
  DEF ColdGate, ColdBreakers, Healthy, Modes, Stages, Levels

LEMMA InitTypes == Init => TypeOK
  BY EmptyQueue, ColdTypes DEF Init, TypeOK

\* A published change finds room or is dropped.
LEMMA PublishTypes ==
  ASSUME TypeOK, NEW m \in Modes, Publish(m)
  PROVE  queue' \in Seq(Modes) /\ Len(queue') <= BusCapacity /\ missed' \in BOOLEAN
<1>1. CASE Len(queue) < BusCapacity
  <2>1. queue' = Append(queue, m) /\ missed' = FALSE
    BY <1>1 DEF Publish
  <2>2. queue \in Seq(Modes) /\ Len(queue) \in Nat
    BY DEF TypeOK
  <2>3. Append(queue, m) \in Seq(Modes) /\ Len(Append(queue, m)) = Len(queue) + 1
    BY <2>2
  <2>4. Len(queue) + 1 <= BusCapacity
    BY <1>1, <2>2, BusCapacityAssumption
  <2>5. Len(queue') <= BusCapacity
    BY <2>1, <2>3, <2>4
  <2> QED BY <2>1, <2>3, <2>5
<1>2. CASE ~(Len(queue) < BusCapacity)
  BY <1>2 DEF Publish, TypeOK
<1> QED BY <1>1, <1>2

LEMMA HandleTypes ==
  ASSUME TypeOK, NEW m \in Modes, HandleEvent(m)
  PROVE  ServiceTypes'
<1>1. CASE override # None
  BY <1>1 DEF HandleEvent, service, TypeOK, ServiceTypes
<1>2. CASE override = None
  <2>1. Resolve(m)
    BY <1>2 DEF HandleEvent
  <2>2. seen' \subseteq Modes
    BY <2>1 DEF Resolve, TypeOK
  <2>3. CASE CanTransition(m)
    <3>1. TransitionTo(m)
      BY <2>1, <2>3 DEF Resolve
    <3>2. StageIn(m) \in Stages \cup {None}
      BY DEF StageIn, TypeOK, Stages
    <3>3. queue' \in Seq(Modes) /\ Len(queue') <= BusCapacity /\ missed' \in BOOLEAN
      BY <3>1, PublishTypes DEF TransitionTo
    <3> QED BY <2>2, <3>1, <3>2, <3>3 DEF TransitionTo, ServiceTypes
  <2>4. CASE ~CanTransition(m)
    BY <2>1, <2>2, <2>4 DEF Resolve, TypeOK, ServiceTypes
  <2> QED BY <2>3, <2>4
<1> QED BY <1>1, <1>2

LEMMA ForceTypes ==
  ASSUME TypeOK, NEW m \in Modes, ForceTo(m)
  PROVE  ServiceTypes' /\ override' \in Modes \cup {None}
  BY DEF ForceTo, TypeOK, ServiceTypes

LEMMA UpdateTypes ==
  ASSUME TypeOK, NEW s \in Stages, UpdateRecoveryStage(s)
  PROVE  ServiceTypes'
  BY DEF UpdateRecoveryStage, TypeOK, ServiceTypes

LEMMA CountTypes ==
  ASSUME TypeOK, NEW c \in Breakers
  PROVE  Counted(c) \in 0 .. FailThreshold
  BY FailThresholdAssumption DEF TypeOK, Counted

LEMMA SetBreakerTypes ==
  ASSUME TypeOK, NEW c \in Breakers, NEW l \in Levels, SetBreaker(c, l, Counted(c))
  PROVE  BreakerTypes'
  BY CountTypes DEF TypeOK, SetBreaker, BreakerTypes

LEMMA FailureTypes ==
  ASSUME TypeOK, NEW c \in Breakers, RecordFailure(c)
  PROVE  TypeOK'
<1>1. CASE FirstFailure(c)
  <2>1. BreakerTypes'
    BY <1>1, SetBreakerTypes DEF FirstFailure, Levels
  <2> QED BY <1>1, <2>1, BreakerReasons
         DEF FirstFailure, Emit, service, TypeOK, BreakerTypes
<1>2. CASE Trip(c)
  <2>1. BreakerTypes'
    BY <1>2, SetBreakerTypes DEF Trip, Levels
  <2> QED BY <1>2, <2>1, BreakerReasons DEF Trip, Emit, service, TypeOK, BreakerTypes
<1>3. CASE CountFailure(c)
  <2>1. breaker[c].level \in Levels
    BY DEF TypeOK
  <2>2. BreakerTypes'
    BY <1>3, <2>1, SetBreakerTypes DEF CountFailure
  <2> QED BY <1>3, <2>2 DEF CountFailure, service, TypeOK, BreakerTypes
<1> QED BY <1>1, <1>2, <1>3 DEF RecordFailure

LEMMA NextTypes == TypeOK /\ [Next]_vars => TypeOK'
<1> SUFFICES ASSUME TypeOK, [Next]_vars PROVE TypeOK'
  OBVIOUS
<1>1. ASSUME NEW c \in Breakers, RecordFailure(c) PROVE TypeOK'
  BY <1>1, FailureTypes
<1>2. ASSUME NEW c \in Breakers, RecordSuccess(c) PROVE TypeOK'
  BY <1>2, BreakerReasons, FailThresholdAssumption
  DEF RecordSuccess, Emit, Healthy, Levels, service, TypeOK
<1>3. ASSUME NEW r \in Reports, Report(r) PROVE TypeOK'
  BY <1>3, ReportsAssumption DEF Report, Emit, service, TypeOK
<1>4. ASSUME NEW r \in pending, Deliver(r) PROVE TypeOK'
  <2>1. DecisionMatrix[r] \in Modes
    BY <1>4, Matrix DEF TypeOK
  <2>2. ServiceTypes'
    BY <1>4, <2>1, HandleTypes DEF Deliver
  <2> QED BY <1>4, <2>2 DEF Deliver, TypeOK, ServiceTypes
<1>5. ASSUME NEW m \in Forceable, ForceMode(m) PROVE TypeOK'
  <2>1. m \in Modes
    BY <1>5, ForceableAssumption
  <2> QED BY <1>5, <2>1, ForceTypes DEF ForceMode, TypeOK, ServiceTypes
<1>6. CASE ExpireOverride
  BY <1>6 DEF ExpireOverride, service, TypeOK
<1>7. CASE StartRecovery
  <2>1. "connect_broker" \in Stages
    BY DEF Stages
  <2>2. DecisionMatrix["broker_reconnected"] \in Modes
    BY DEF DecisionMatrix, Modes
  <2>3. ServiceTypes'
    BY <1>7, <2>1, <2>2, HandleTypes, UpdateTypes DEF StartRecovery
  <2> QED BY <1>7, <2>1, <2>3 DEF StartRecovery, TypeOK, ServiceTypes
<1>8. CASE AdvanceStage
  <2>1. NextStage[run] \in Stages
    BY <1>8, Follows DEF AdvanceStage
  <2>2. ServiceTypes'
    BY <1>8, <2>1, UpdateTypes DEF AdvanceStage, service, TypeOK, ServiceTypes
  <2> QED BY <1>8, <2>1, <2>2 DEF AdvanceStage, TypeOK, ServiceTypes
<1>9. CASE CompleteRecovery
  <2>1. DecisionMatrix["all_healthy"] \in Modes
    BY DEF DecisionMatrix, Modes
  <2>2. ServiceTypes'
    BY <1>9, <2>1, HandleTypes DEF CompleteRecovery
  <2> QED BY <1>9, <2>2 DEF CompleteRecovery, TypeOK, ServiceTypes
<1>10. CASE AbortRecovery
  <2>1. "safe_mode" \in Modes
    BY DEF Modes
  <2> QED BY <1>10, <2>1, ForceTypes DEF AbortRecovery, TypeOK, ServiceTypes
<1>11. CASE Dispatch
  BY <1>11, BusCapacityAssumption DEF Dispatch, TypeOK
<1>12. CASE Restart
  BY <1>12, EmptyQueue, ColdTypes DEF Restart, TypeOK
<1>13. CASE UNCHANGED vars
  BY <1>13 DEF vars, TypeOK
<1> QED BY <1>1, <1>2, <1>3, <1>4, <1>5, <1>6, <1>7, <1>8, <1>9, <1>10, <1>11, <1>12,
           <1>13 DEF Next

\* Types, and a bus that is never over its capacity.
THEOREM TypeCorrect == Spec => []TypeOK
  BY InitTypes, NextTypes, PTL DEF Spec

-----------------------------------------------------------------------------
(* Conflict resolution: the order of the events does not matter.           *)

LEMMA HandleWorst ==
  ASSUME TypeOK, WorstWins, NEW m \in Modes, HandleEvent(m)
  PROVE  WorstWins'
<1>1. CASE override # None
  BY <1>1 DEF HandleEvent, service, WorstWins
<1>2. CASE override = None
  <2>1. Resolve(m)
    BY <1>2 DEF HandleEvent
  <2>2. /\ Priority[m] \in Int /\ Priority[mode] \in Int
        /\ \A n \in seen : Priority[n] \in Int
    BY Priorities DEF TypeOK
  <2>3. CASE m \in Relaxed
    <3>1. seen' = {m} /\ mode' = m
      BY <2>1, <2>3 DEF Resolve, CanTransition, TransitionTo
    <3> QED BY <2>2, <3>1 DEF WorstWins
  <2>4. CASE m \notin Relaxed
    <3>1. seen' = seen \cup {m}
      BY <2>1, <2>4 DEF Resolve
    <3>2. CASE Priority[m] >= Priority[mode]
      <4>1. mode' = m
        BY <2>1, <3>2 DEF Resolve, CanTransition, TransitionTo
      <4>2. \A n \in seen : Priority[n] <= Priority[m]
        BY <2>2, <3>2 DEF WorstWins
      <4> QED BY <2>2, <3>1, <4>1, <4>2 DEF WorstWins
    <3>3. CASE ~(Priority[m] >= Priority[mode])
      <4>1. mode' = mode
        BY <2>1, <2>4, <3>3 DEF Resolve, CanTransition
      <4>2. Priority[m] <= Priority[mode]
        BY <2>2, <3>3
      <4> QED BY <3>1, <4>1, <4>2 DEF WorstWins
    <3> QED BY <3>2, <3>3
  <2> QED BY <2>3, <2>4
<1> QED BY <1>1, <1>2

LEMMA ForceWorst ==
  ASSUME NEW m \in Modes, ForceTo(m)
  PROVE  WorstWins'
  BY Priorities DEF ForceTo, WorstWins

LEMMA InitWorst == Init => WorstWins
  BY Priorities DEF Init, WorstWins, Modes

LEMMA NextWorst == TypeOK /\ WorstWins /\ [Next]_vars => WorstWins'
<1> SUFFICES ASSUME TypeOK, WorstWins, [Next]_vars PROVE WorstWins'
  OBVIOUS
<1>1. CASE UNCHANGED <<mode, seen>>
  BY <1>1 DEF WorstWins
<1>2. ASSUME NEW r \in pending, Deliver(r) PROVE WorstWins'
  BY <1>2, Matrix, HandleWorst DEF Deliver, TypeOK
<1>3. ASSUME NEW m \in Forceable, ForceMode(m) PROVE WorstWins'
  BY <1>3, ForceWorst, ForceableAssumption DEF ForceMode
<1>4. CASE StartRecovery
  <2>1. DecisionMatrix["broker_reconnected"] \in Modes
    BY DEF DecisionMatrix, Modes
  <2> QED BY <1>1, <1>4, <2>1, HandleWorst DEF StartRecovery, UpdateRecoveryStage
<1>5. CASE CompleteRecovery
  <2>1. DecisionMatrix["all_healthy"] \in Modes
    BY DEF DecisionMatrix, Modes
  <2> QED BY <1>5, <2>1, HandleWorst DEF CompleteRecovery
<1>6. CASE AbortRecovery
  BY <1>6, ForceWorst DEF AbortRecovery, Modes
<1>7. CASE Restart
  BY <1>7, Priorities DEF Restart, WorstWins, Modes
<1>8. ASSUME NEW c \in Breakers, RecordFailure(c) \/ RecordSuccess(c) PROVE WorstWins'
  BY <1>1, <1>8 DEF RecordFailure, FirstFailure, Trip, CountFailure, RecordSuccess, service
<1>9. ASSUME NEW r \in Reports, Report(r) PROVE WorstWins'
  BY <1>1, <1>9 DEF Report, service
<1>10. CASE ExpireOverride \/ AdvanceStage \/ Dispatch \/ UNCHANGED vars
  BY <1>1, <1>10
  DEF ExpireOverride, AdvanceStage, UpdateRecoveryStage, Dispatch, service, vars
<1> QED BY <1>2, <1>3, <1>4, <1>5, <1>6, <1>7, <1>8, <1>9, <1>10 DEF Next

\* The mode is the most severe one called for since the last recovery or override,
\* for any reports and any breakers.
THEOREM ConflictsResolved == Spec => []WorstWins
<1>1. Init /\ [][Next]_vars => []TypeOK
  BY TypeCorrect DEF Spec
<1> QED BY <1>1, InitWorst, NextWorst, PTL DEF Spec

-----------------------------------------------------------------------------
(* Overrides.                                                              *)

LEMMA HandleOverridden ==
  ASSUME OverrideHolds, NEW m, HandleEvent(m), UNCHANGED override
  PROVE  OverrideHolds'
<1>1. CASE override # None
  BY <1>1 DEF HandleEvent, service, OverrideHolds
<1>2. CASE override = None
  BY <1>2 DEF OverrideHolds
<1> QED BY <1>1, <1>2

LEMMA NextOverride == OverrideHolds /\ [Next]_vars => OverrideHolds'
<1> SUFFICES ASSUME OverrideHolds, [Next]_vars PROVE OverrideHolds'
  OBVIOUS
<1>1. CASE UNCHANGED <<mode, override>>
  BY <1>1 DEF OverrideHolds
<1>2. ASSUME NEW r \in pending, Deliver(r) PROVE OverrideHolds'
  BY <1>2, HandleOverridden DEF Deliver
<1>3. ASSUME NEW m, ForceTo(m) PROVE OverrideHolds'
  BY <1>3 DEF ForceTo, OverrideHolds
<1>4. CASE StartRecovery
  BY <1>1, <1>4, HandleOverridden DEF StartRecovery, UpdateRecoveryStage
<1>5. CASE CompleteRecovery
  BY <1>5, HandleOverridden DEF CompleteRecovery
<1>6. CASE ExpireOverride \/ Restart
  BY <1>6 DEF ExpireOverride, Restart, OverrideHolds
<1>7. ASSUME NEW c \in Breakers, RecordFailure(c) \/ RecordSuccess(c) PROVE OverrideHolds'
  BY <1>1, <1>7 DEF RecordFailure, FirstFailure, Trip, CountFailure, RecordSuccess, service
<1>8. ASSUME NEW r \in Reports, Report(r) PROVE OverrideHolds'
  BY <1>1, <1>8 DEF Report, service
<1>9. CASE AdvanceStage \/ Dispatch \/ UNCHANGED vars
  BY <1>1, <1>9 DEF AdvanceStage, UpdateRecoveryStage, Dispatch, service, vars
<1> QED BY <1>2, <1>3, <1>4, <1>5, <1>6, <1>7, <1>8, <1>9
       DEF Next, ForceMode, AbortRecovery

\* No event and no recovery moves the mode from an operator's override, whichever
\* modes operators force.
THEOREM OverridesHold == Spec => []OverrideHolds
<1>1. Init => OverrideHolds
  BY DEF Init, OverrideHolds
<1> QED BY <1>1, NextOverride, PTL DEF Spec

-----------------------------------------------------------------------------
(* The gate.                                                               *)

LEMMA HandleGate ==
  ASSUME GateFollowsMode, NEW m, HandleEvent(m)
  PROVE  GateFollowsMode'
<1>1. CASE UNCHANGED <<mode, stage, gate>>
  BY <1>1 DEF GateFollowsMode
<1>2. CASE TransitionTo(m)
  <2>1. m = "recovering" <=> StageIn(m) # None
    BY DEF StageIn, None
  <2> QED BY <1>2, <2>1 DEF TransitionTo, GateFollowsMode
<1> QED BY <1>1, <1>2 DEF HandleEvent, Resolve, service

LEMMA UpdateGate ==
  ASSUME GateFollowsMode, NEW s \in Stages, UpdateRecoveryStage(s)
  PROVE  GateFollowsMode'
<1>1. s # None
  BY DEF Stages, None
<1> QED BY <1>1 DEF UpdateRecoveryStage, GateFollowsMode

LEMMA NextGate ==
  ASSUME "recovering" \notin Forceable, TypeOK, GateFollowsMode, [Next]_vars
  PROVE  GateFollowsMode'
<1>1. CASE UNCHANGED <<mode, stage, gate>>
  BY <1>1 DEF GateFollowsMode
<1>2. ASSUME NEW m, m # "recovering", ForceTo(m) PROVE GateFollowsMode'
  BY <1>2 DEF ForceTo, GateRefuses, GateFollowsMode
<1>3. ASSUME NEW r \in pending, Deliver(r) PROVE GateFollowsMode'
  BY <1>3, HandleGate DEF Deliver
<1>4. ASSUME NEW m \in Forceable, ForceMode(m) PROVE GateFollowsMode'
  BY <1>2, <1>4 DEF ForceMode
<1>5. CASE StartRecovery
  BY <1>5, HandleGate, UpdateGate DEF StartRecovery, Stages
<1>6. CASE AdvanceStage
  BY <1>1, <1>6, UpdateGate, Follows DEF AdvanceStage, service
<1>7. CASE CompleteRecovery
  BY <1>7, HandleGate DEF CompleteRecovery
<1>8. CASE AbortRecovery
  BY <1>2, <1>8 DEF AbortRecovery
<1>9. CASE Restart
  BY <1>9 DEF Restart, ColdGate, GateFollowsMode, None
<1>10. ASSUME NEW c \in Breakers, RecordFailure(c) \/ RecordSuccess(c) PROVE GateFollowsMode'
  BY <1>1, <1>10 DEF RecordFailure, FirstFailure, Trip, CountFailure, RecordSuccess, service
<1>11. ASSUME NEW r \in Reports, Report(r) PROVE GateFollowsMode'
  BY <1>1, <1>11 DEF Report, service
<1>12. CASE ExpireOverride \/ Dispatch \/ UNCHANGED vars
  BY <1>1, <1>12 DEF ExpireOverride, Dispatch, service, vars
<1> QED BY <1>3, <1>4, <1>5, <1>6, <1>7, <1>8, <1>9, <1>10, <1>11, <1>12 DEF Next

\* The gate permits by the service's mode and stage, provided no operator forces
\* RECOVERING, which the API does not exclude.
THEOREM GateFollows ==
  ASSUME "recovering" \notin Forceable
  PROVE  Spec => []GateFollowsMode
<1>1. Init => GateFollowsMode
  BY DEF Init, ColdGate, GateFollowsMode, None
<1>2. TypeOK /\ GateFollowsMode /\ [Next]_vars => GateFollowsMode'
  BY NextGate
<1>3. Init /\ [][Next]_vars => []TypeOK
  BY TypeCorrect DEF Spec
<1> QED BY <1>1, <1>2, <1>3, PTL DEF Spec

-----------------------------------------------------------------------------
(* Hysteresis.                                                             *)

LEMMA FailureSound ==
  ASSUME TypeOK, BreakerSound, NEW c \in Breakers, RecordFailure(c)
  PROVE  BreakerSound'
<1>1. /\ breaker[c].failures \in 0 .. FailThreshold
      /\ FailThreshold \in Nat /\ FailThreshold > 1
  BY FailThresholdAssumption DEF TypeOK
<1>2. /\ Counted(c) \in 1 .. FailThreshold
      /\ breaker[c].failures > 0 => Counted(c) > 1
      /\ breaker[c].failures = 0 => Counted(c) < FailThreshold
  BY <1>1 DEF Counted
<1>3. ASSUME NEW l \in Levels \ {"healthy"}, SetBreaker(c, l, Counted(c)),
             l = "unstable" => Counted(c) < FailThreshold,
             l = "tripped" => Counted(c) > 1
      PROVE  BreakerSound'
  <2>1. breaker' = [breaker EXCEPT ![c] = [level |-> l, failures |-> Counted(c)]]
    BY <1>3 DEF SetBreaker
  <2>2. breaker'[c].level = l /\ breaker'[c].failures = Counted(c)
    BY <2>1 DEF TypeOK
  <2>3. \A d \in Breakers \ {c} : breaker'[d] = breaker[d]
    BY <2>1 DEF TypeOK
  <2>4. Counted(c) # 0
    BY <1>2
  <2>5. l # "healthy"
    BY <1>3
  <2> QED BY <1>3, <2>2, <2>3, <2>4, <2>5 DEF BreakerSound
<1>4. CASE FirstFailure(c)
  <2>1. breaker[c].failures = 0
    BY <1>4 DEF FirstFailure, BreakerSound
  <2> QED BY <1>2, <1>3, <1>4, <2>1 DEF FirstFailure, Levels
<1>5. breaker[c].level # "healthy" => breaker[c].failures > 0
  BY <1>1 DEF BreakerSound
<1>6. CASE Trip(c)
  BY <1>2, <1>3, <1>5, <1>6 DEF Trip, Levels
<1>7. CASE CountFailure(c)
  <2>1. breaker[c].level \in Levels \ {"healthy"}
    BY <1>7 DEF CountFailure, Levels
  <2>2. breaker[c].level = "unstable" => Counted(c) < FailThreshold
    BY <1>7 DEF CountFailure
  <2>3. breaker[c].level = "tripped" => Counted(c) > 1
    BY <1>2, <1>5, <2>1
  <2>4. SetBreaker(c, breaker[c].level, Counted(c))
    BY <1>7 DEF CountFailure
  <2> QED BY <1>3, <2>1, <2>2, <2>3, <2>4
<1> QED BY <1>4, <1>6, <1>7 DEF RecordFailure

LEMMA NextSound == TypeOK /\ BreakerSound /\ [Next]_vars => BreakerSound'
<1> SUFFICES ASSUME TypeOK, BreakerSound, [Next]_vars PROVE BreakerSound'
  OBVIOUS
<1>1. CASE UNCHANGED breaker
  BY <1>1 DEF BreakerSound
<1>2. ASSUME NEW c \in Breakers, RecordFailure(c) PROVE BreakerSound'
  BY <1>2, FailureSound
<1>3. ASSUME NEW c \in Breakers, RecordSuccess(c) PROVE BreakerSound'
  BY <1>3 DEF RecordSuccess, Healthy, BreakerSound, TypeOK
<1>4. CASE Restart
  BY <1>4 DEF Restart, ColdBreakers, Healthy, BreakerSound
<1>5. ASSUME NEW r \in Reports, Report(r) PROVE BreakerSound'
  BY <1>1, <1>5 DEF Report
<1>6. ASSUME NEW r \in pending, Deliver(r) PROVE BreakerSound'
  BY <1>1, <1>6 DEF Deliver
<1>7. ASSUME NEW m \in Forceable, ForceMode(m) PROVE BreakerSound'
  BY <1>1, <1>7 DEF ForceMode
<1>8. CASE ExpireOverride \/ StartRecovery \/ AdvanceStage \/ CompleteRecovery
           \/ AbortRecovery \/ Dispatch \/ UNCHANGED vars
  BY <1>1, <1>8 DEF ExpireOverride, StartRecovery, AdvanceStage, CompleteRecovery,
                    AbortRecovery, Dispatch, vars
<1> QED BY <1>2, <1>3, <1>4, <1>5, <1>6, <1>7, <1>8 DEF Next

\* However failures and successes alternate, a healthy breaker counts none, and no
\* breaker trips on a single failure.
THEOREM Hysteresis == Spec => []BreakerSound
<1>1. Init => BreakerSound
  BY DEF Init, ColdBreakers, Healthy, BreakerSound
<1>2. Init /\ [][Next]_vars => []TypeOK
  BY TypeCorrect DEF Spec
<1> QED BY <1>1, <1>2, NextSound, PTL DEF Spec

-----------------------------------------------------------------------------
(* Subscribers of the bus.                                                 *)

LEMMA PublishView ==
  ASSUME TypeOK, NEW m \in Modes, Publish(m), mode' = m
  PROVE  ViewFollowsMode'
<1>1. CASE Len(queue) < BusCapacity
  <2>1. queue' = Append(queue, m)
    BY <1>1 DEF Publish
  <2>2. queue \in Seq(Modes) /\ Len(queue) \in Nat
    BY DEF TypeOK
  <2>3. queue' # <<>> /\ queue'[Len(queue')] = m
    BY <2>1, <2>2
  <2> QED BY <2>3 DEF ViewFollowsMode
<1>2. CASE ~(Len(queue) < BusCapacity)
  BY <1>2 DEF Publish, ViewFollowsMode
<1> QED BY <1>1, <1>2

LEMMA HandleView ==
  ASSUME TypeOK, ViewFollowsMode, NEW m \in Modes, HandleEvent(m), UNCHANGED view
  PROVE  ViewFollowsMode'
<1>1. CASE UNCHANGED <<mode, queue, missed>>
  BY <1>1 DEF ViewFollowsMode
<1>2. CASE TransitionTo(m)
  BY <1>2, PublishView DEF TransitionTo
<1> QED BY <1>1, <1>2 DEF HandleEvent, Resolve, service

LEMMA DispatchView ==
  ASSUME TypeOK, ViewFollowsMode, Dispatch
  PROVE  ViewFollowsMode'
<1>1. queue \in Seq(Modes) /\ Len(queue) \in Nat /\ queue # <<>>
  BY DEF TypeOK, Dispatch
<1>2. view' = queue[1] /\ queue' = Tail(queue) /\ mode' = mode /\ missed' = missed
  BY <1>1 DEF Dispatch
<1>3. CASE Len(queue) = 1
  <2>1. queue' = <<>>
    BY <1>1, <1>2, <1>3
  <2> QED BY <1>1, <1>2, <1>3, <2>1 DEF ViewFollowsMode
<1>4. CASE Len(queue) > 1
  <2>1. Len(queue') = Len(queue) - 1
    BY <1>1, <1>2
  <2>2. \A i \in 1 .. Len(queue) - 1 : queue'[i] = queue[i + 1]
    BY <1>1, <1>2
  <2>3. Len(queue') \in 1 .. Len(queue) - 1 /\ Len(queue') + 1 = Len(queue)
    BY <1>1, <1>4, <2>1
  <2>4. queue'[Len(queue')] = queue[Len(queue)]
    BY <2>2, <2>3
  <2>5. Len(queue') # 0
    BY SMTT(30), <1>1, <1>4, <2>1
  <2>6. queue' # <<>>
    BY <2>5
  <2> QED BY <1>1, <1>2, <2>4, <2>6 DEF ViewFollowsMode
<1>5. Len(queue) = 1 \/ Len(queue) > 1
  BY <1>1
<1> QED BY <1>3, <1>4, <1>5

LEMMA NextView == TypeOK /\ ViewFollowsMode /\ [Next]_vars => ViewFollowsMode'
<1> SUFFICES ASSUME TypeOK, ViewFollowsMode, [Next]_vars PROVE ViewFollowsMode'
  OBVIOUS
<1>1. CASE UNCHANGED <<mode, queue, missed, view>>
  BY <1>1 DEF ViewFollowsMode
<1>2. ASSUME NEW r \in pending, Deliver(r) PROVE ViewFollowsMode'
  BY <1>2, Matrix, HandleView DEF Deliver, TypeOK
<1>3. ASSUME NEW m, ForceTo(m) PROVE ViewFollowsMode'
  BY <1>3 DEF ForceTo, ViewFollowsMode
<1>4. CASE StartRecovery
  <2>1. DecisionMatrix["broker_reconnected"] \in Modes
    BY DEF DecisionMatrix, Modes
  <2> QED BY <1>1, <1>4, <2>1, HandleView DEF StartRecovery, UpdateRecoveryStage
<1>5. CASE CompleteRecovery
  <2>1. DecisionMatrix["all_healthy"] \in Modes
    BY DEF DecisionMatrix, Modes
  <2> QED BY <1>5, <2>1, HandleView DEF CompleteRecovery
<1>6. CASE Dispatch
  BY <1>6, DispatchView
<1>7. CASE Restart
  BY <1>7 DEF Restart, ViewFollowsMode
<1>8. ASSUME NEW c \in Breakers, RecordFailure(c) \/ RecordSuccess(c) PROVE ViewFollowsMode'
  BY <1>1, <1>8 DEF RecordFailure, FirstFailure, Trip, CountFailure, RecordSuccess, service
<1>9. ASSUME NEW r \in Reports, Report(r) PROVE ViewFollowsMode'
  BY <1>1, <1>9 DEF Report, service
<1>10. CASE ExpireOverride \/ AdvanceStage \/ UNCHANGED vars
  BY <1>1, <1>10 DEF ExpireOverride, AdvanceStage, UpdateRecoveryStage, service, vars
<1> QED BY <1>2, <1>3, <1>4, <1>5, <1>6, <1>7, <1>8, <1>9, <1>10
       DEF Next, ForceMode, AbortRecovery

\* For every capacity of the bus, a subscriber told of all that was published knows
\* the mode, unless the last change was dropped or forced.
THEOREM SubscribersFollow == Spec => []ViewFollowsMode
<1>1. Init => ViewFollowsMode
  BY DEF Init, ViewFollowsMode
<1>2. Init /\ [][Next]_vars => []TypeOK
  BY TypeCorrect DEF Spec
<1> QED BY <1>1, <1>2, NextView, PTL DEF Spec

\* Graceful degradation as a whole: the most severe of several incidents decides, an
\* override outlasts events, breakers count as documented, and the last event a
\* subscriber handles tells it the mode.
THEOREM DegradationIsSound == Spec => []DegradationSound
<1>1. TypeOK /\ WorstWins /\ OverrideHolds /\ BreakerSound /\ ViewFollowsMode => DegradationSound
  BY DEF DegradationSound
<1> QED
  BY TypeCorrect, ConflictsResolved, OverridesHold, Hysteresis, SubscribersFollow, <1>1, PTL

-----------------------------------------------------------------------------
(* The Greeks monitor and its gate: the parts of its invariant.            *)

Alert == [scope : Scopes, kind : {"threshold", "roc"}, level : 0 .. 3]

Reading == [Positions -> Int \cup {Unset}]
Calc == [at : Nat, reading : Reading, checked : Nat \cup {Unset},
         prev : Nat \cup {Unset}, alerts : SUBSET Alert]
GivenOrder == [impact : Impacts, on : Nat, from : Nat, approved : BOOLEAN]

GreeksTypes ==
  /\ now \in 0 .. MaxTime
  /\ calcs \in Seq(Calc) /\ Len(calcs) <= MaxChecks
  /\ current = IF Len(calcs) = 0 THEN Unset ELSE Len(calcs)
  /\ levels \in [Scopes -> 0 .. 3]
  /\ \A s \in Scopes : /\ sent[s] = Unset \/ sent[s] \in 0 .. now
                       /\ levels[s] = 0 => sent[s] = Unset
  /\ DOMAIN sent = Scopes /\ sent = [s \in Scopes |-> sent[s]]
  /\ snapshots \subseteq 1 .. Len(calcs) /\ dbSession \in {"sound", "failed"}
  /\ cycle \in [at : {"idle", "read", "snapshot", "save"}, alerts : SUBSET Alert]
  /\ saved \subseteq Alert

\* The alerts a cycle has found are its own until they are saved, and a calculation is
\* checked once.
CycleInv ==
  /\ cycle.at # "idle" => Len(calcs) # 0
  /\ cycle.at \in {"idle", "read"} => cycle.alerts = {}
  /\ cycle.at = "read" => calcs[Len(calcs)].checked = Unset

\* When a calculation was made and checked, and what it was compared with.
Checked(i) ==
  /\ calcs[i].at <= now
  /\ calcs[i].checked = Unset => calcs[i].alerts = {} /\ calcs[i].prev = Unset
  /\ calcs[i].checked # Unset => calcs[i].checked <= now
  /\ calcs[i].prev # Unset =>
       /\ calcs[i].prev \in 1 .. Len(calcs)
       /\ calcs[calcs[i].prev].at + RateWindow < calcs[i].checked

\* The levels some alerts report for a scope.
ReportedBy(alerts, s) == {a.level : a \in {b \in alerts : b.scope = s /\ b.kind = "threshold"}}

\* Since one check, and up to another, the exposure has fallen below the recovery bound
\* of a level, or a higher level was reported.
Over(i, j, s, l) ==
  \E k \in i + 1 .. j :
    \/ ~Reaches(Total(calcs[k].reading, s), Recover[l])
    \/ \E higher \in ReportedBy(calcs[k].alerts, s) : higher > l

\* A level that was reported is still the level, and that alert or a later one is
\* remembered, or it is over.
Remembered(i, s) ==
  \A l \in ReportedBy(calcs[i].alerts, s) :
    /\ l \in 1 .. 3 /\ calcs[i].checked # Unset
    /\ \/ Over(i, Len(calcs), s, l)
       \/ levels[s] = l /\ sent[s] # Unset /\ sent[s] >= calcs[i].checked

NoFlap(i, j, s) ==
  i < j => \A l \in ReportedBy(calcs[i].alerts, s) \cap ReportedBy(calcs[j].alerts, s) :
             calcs[j].checked - calcs[i].checked < Windows[l] => Over(i, j, s, l)

\* A scope above normal has an alert that is saved, or will be if the database answers.
Alarmed(s) ==
  dbSession = "sound" /\ levels[s] > 0 =>
    \E a \in saved \cup cycle.alerts :
      a.scope = s /\ a.kind = "threshold" /\ a.level >= levels[s]

\* An order rests on the newest calculation there was when it came, fresh at that time.
OnNewest(given) ==
  /\ given.on \in 1 .. Len(calcs) /\ given.from <= now
  /\ calcs[given.on].at + MaxStale >= given.from
  /\ \A k \in 1 .. Len(calcs) : calcs[k].at < given.from => k <= given.on
  /\ given.approved =>
       Total(calcs[given.on].reading, Whole) + given.impact \in -HardLimit .. HardLimit

OrdersInv == orders \in Seq(GivenOrder) /\ \A i \in 1 .. Len(orders) : OnNewest(orders[i])

History ==
  /\ \A i \in 1 .. Len(calcs) : Checked(i) /\ \A s \in Scopes : Remembered(i, s)
  /\ \A i, j \in 1 .. Len(calcs), s \in Scopes : NoFlap(i, j, s)

GreeksInv ==
  /\ GreeksTypes /\ CycleInv /\ History
  /\ \A s \in Scopes : Alarmed(s)
  /\ OrdersInv

-----------------------------------------------------------------------------
(* What the calculations return.                                           *)

LEMMA ReadingsAre ==
  \A primary, fallback \in Readings : Calculated(primary, fallback) \in Reading
<1>1. ASSUME NEW r \in Readings PROVE r \in Reading
  <2>1. r \in [Positions -> UNION {Values[p] : p \in Positions} \union {Unset}]
        /\ \A p \in Positions : r[p] \in Values[p] \union {Unset}
    BY DEF Readings
  <2>2. \A p \in Positions : Values[p] \subseteq Int
    BY GreeksAssumption
  <2>3. \A p \in Positions : r[p] \in Int \cup {Unset}
    BY <2>1, <2>2
  <2> QED BY <2>1, <2>3 DEF Reading
<1> QED BY <1>1 DEF Calculated, Reading

LEMMA TotalIsSum ==
  \A r, s : Total(r, s) = Sum(r, {p \in Members(s) : Valid(r, p)})
  BY DEF Total, Sum

LEMMA MembersFinite ==
  ASSUME NEW r \in Reading, NEW s
  PROVE  /\ IsFiniteSet({p \in Members(s) : Valid(r, p)})
         /\ \A p \in {q \in Members(s) : Valid(r, q)} : p \in Positions /\ r[p] \in Int
<1>1. {p \in Members(s) : Valid(r, p)} \in SUBSET Positions
  BY DEF Members
<1>2. \A p \in {q \in Members(s) : Valid(r, q)} : p \in Positions /\ r[p] \in Int
  BY <1>1 DEF Valid, Reading
<1> QED BY <1>1, <1>2, GreeksAssumption, FS_Subset

LEMMA TotalType == ASSUME NEW r \in Reading, NEW s PROVE Total(r, s) \in Int
  BY MembersFinite, SumType, TotalIsSum

\* aggregate_by_strategy loses no position and counts none twice.
LEMMA TotalsAgree ==
  ASSUME NEW r \in Reading
  PROVE  LET loose == {p \in Positions : GStrategyOf[p] = Unset /\ Valid(r, p)}
         IN  Total(r, Whole) =
               MapThenSumSet(LAMBDA s : Total(r, s), GStrategies)
                 + MapThenSumSet(LAMBDA p : r[p], loose)
<1> DEFINE loose == {p \in Positions : GStrategyOf[p] = Unset /\ Valid(r, p)}
           T == {p \in Members(Whole) : Valid(r, p)}
           totals == [s \in GStrategies |-> Total(r, s)]
<1>1. IsFiniteSet(T) /\ \A p \in T : r[p] \in Int
  BY MembersFinite
<1>2. Sum(r, T) = Sum(GroupSums(r, GStrategyOf, T, GStrategies), GStrategies)
                    + Sum(r, Ungrouped(GStrategyOf, T, GStrategies))
  <2> HIDE DEF T
  <2> QED BY <1>1, GreeksAssumption, SumGroups
<1>3. Ungrouped(GStrategyOf, T, GStrategies) = loose
  BY GreeksAssumption DEF Members, Ungrouped
<1>4. GroupSums(r, GStrategyOf, T, GStrategies) = totals
  <2>1. ASSUME NEW s \in GStrategies
        PROVE  Group(GStrategyOf, T, s) = {p \in Members(s) : Valid(r, p)}
    BY GreeksAssumption DEF Members, Group
  <2> QED BY <2>1, TotalIsSum DEF GroupSums
<1>5. Sum(totals, GStrategies) = MapThenSumSet(LAMBDA s : Total(r, s), GStrategies)
  <2> DEFINE Step(g) == [d \in SUBSET GStrategies |->
                           IF d = {} THEN 0
                           ELSE LET x == CHOOSE y \in d : TRUE IN Total(r, x) + g[d \ {x}]]
  <2>1. MapThenSumSet(LAMBDA s : Total(r, s), GStrategies)
          = (CHOOSE g : g = Step(g))[GStrategies]
    BY DEF MapThenSumSet, MapThenFoldSet
  <2>2. \A g : Step(g) = Unfold(totals, g, GStrategies)
    BY DEF Unfold, Pick
  <2>3. (CHOOSE g : g = Step(g)) = Recursion(totals, GStrategies)
    <3> HIDE DEF Step, totals
    <3> QED BY Zenon, <2>2 DEF Recursion
  <2> QED BY <2>1, <2>3, SumIsRecursion
<1>6. Sum(r, loose) = MapThenSumSet(LAMBDA p : r[p], loose)
  BY DEF Sum
<1>7. Total(r, Whole) = Sum(r, T)
  BY TotalIsSum
<1> HIDE DEF T, totals, loose
<1> QED BY <1>2, <1>3, <1>4, <1>5, <1>6, <1>7 DEF loose

LEMMA NewLevelIs ==
  ASSUME NEW value, NEW from \in 0 .. 3
  PROVE  /\ NewLevel(value, from) \in 0 .. 3
         /\ NewLevel(value, from) # 0 => Reaches(value, Bar(NewLevel(value, from), from))
         /\ \A l \in 1 .. 3 : NewLevel(value, from) < l => ~Reaches(value, Bar(l, from))
<1> DEFINE S == {0} \union {l \in 1 .. 3 : Reaches(value, Bar(l, from))}
<1>1. S \in SUBSET (0 .. 3)
  OBVIOUS
<1>2. IsFiniteSet(S) /\ S \in SUBSET Int /\ 0 \in S
  <2>1. IsFiniteSet(0 .. 3)
    <3> HIDE DEF S
    <3>1. 0 \in Int /\ 3 \in Int
      OBVIOUS
    <3> QED BY <3>1, FS_Interval
  <2>2. S \in SUBSET Int
    BY <1>1
  <2> QED BY <1>1, <2>1, <2>2, FS_Subset
<1>3. Max(S) \in S /\ \A x \in S : Max(S) >= x
  <2> HIDE DEF S
  <2> QED BY <1>2, MaxIsIn
<1>4. NewLevel(value, from) = Max(S)
  BY DEF NewLevel
<1> QED BY <1>1, <1>3, <1>4

\* get_prev_snapshot returns a snapshot that is older than the window.
LEMMA PreviousIs ==
  ASSUME GreeksTypes
  PROVE  Previous = Unset \/ (/\ Previous \in 1 .. Len(calcs)
                              /\ calcs[Previous].at < now - RateWindow)
<1> DEFINE old == {i \in snapshots : calcs[i].at < now - RateWindow}
<1>1. old \in SUBSET (1 .. Len(calcs)) /\ Len(calcs) \in Nat
  BY DEF GreeksTypes
<1>2. IsFiniteSet(old) /\ old \in SUBSET Int
  <2>1. IsFiniteSet(1 .. Len(calcs))
    <3>1. 1 \in Int /\ Len(calcs) \in Int
      BY <1>1
    <3> HIDE DEF old
    <3> QED BY <3>1, FS_Interval
  <2>2. old \in SUBSET Int
    BY <1>1
  <2> HIDE DEF old
  <2> QED BY <1>1, <2>1, <2>2, FS_Subset
<1>3. old # {} => Max(old) \in old
  <2> HIDE DEF old
  <2> QED BY <1>2, MaxIsIn
<1> QED BY <1>1, <1>3 DEF Previous

LEMMA WindowsAre == \A l \in 1 .. 3 : Windows[l] \in Nat
  BY GreeksAssumption, ElementOfSeq

-----------------------------------------------------------------------------
(* Every step keeps the invariant.                                         *)

LEMMA InitGreeks == GreeksInit => GreeksInv
<1> SUFFICES ASSUME GreeksInit PROVE GreeksInv
  OBVIOUS
<1>1. calcs = <<>> /\ Len(calcs) = 0 /\ calcs \in Seq(Calc)
      /\ orders = <<>> /\ Len(orders) = 0 /\ orders \in Seq(GivenOrder)
  BY EmptySeq DEF GreeksInit
<1>2. GreeksTypes
  BY <1>1, GreeksBoundsAssumption DEF GreeksInit, GreeksTypes
<1> QED BY <1>1, <1>2
        DEF GreeksInit, GreeksInv, CycleInv, History, Alarmed, OrdersInv

LEMMA CalcParts ==
  ASSUME GreeksTypes
  PROVE  /\ Len(calcs) \in Nat /\ now \in Nat
         /\ \A i \in 1 .. Len(calcs) :
              /\ calcs[i] \in Calc /\ calcs[i].at \in Nat /\ calcs[i].reading \in Reading
              /\ calcs[i].checked = Unset \/ calcs[i].checked \in Nat
         /\ \A s \in Scopes : /\ levels[s] \in 0 .. 3
                              /\ sent[s] # Unset => sent[s] \in Nat /\ sent[s] <= now
<1>1. /\ calcs \in Seq(Calc) /\ Len(calcs) \in Nat /\ now \in Nat
  BY GreeksBoundsAssumption DEF GreeksTypes
<1>2. \A i \in 1 .. Len(calcs) : calcs[i] \in Calc
  BY <1>1, ElementOfSeq
<1>3. ASSUME NEW s \in Scopes
      PROVE  levels[s] \in 0 .. 3 /\ (sent[s] # Unset => sent[s] \in Nat /\ sent[s] <= now)
  BY <1>1 DEF GreeksTypes
<1> QED BY <1>1, <1>2, <1>3 DEF Calc

\* What has been over stays so, whatever is added to the history.
LEMMA StaysOver ==
  ASSUME NEW s, NEW l, NEW i \in Nat, NEW j \in Nat, j <= Len(calcs), Len(calcs) \in Nat,
         NEW m \in Nat, j <= m,
         \A k \in 1 .. Len(calcs) :
           /\ calcs'[k].reading = calcs[k].reading
           /\ ReportedBy(calcs[k].alerts, s) \subseteq ReportedBy(calcs'[k].alerts, s),
         Over(i, j, s, l)
  PROVE  Over(i, m, s, l)'
<1>1. PICK k \in i + 1 .. j :
        \/ ~Reaches(Total(calcs[k].reading, s), Recover[l])
        \/ \E higher \in ReportedBy(calcs[k].alerts, s) : higher > l
  BY DEF Over
<1>2. k \in 1 .. Len(calcs) /\ k \in i + 1 .. m
  BY <1>1
<1>3. \/ ~Reaches(Total(calcs'[k].reading, s), Recover[l])
      \/ \E higher \in ReportedBy(calcs'[k].alerts, s) : higher > l
  BY <1>1, <1>2
<1> QED BY <1>2, <1>3 DEF Over

LEMMA HistoryKept ==
  ASSUME GreeksInv, UNCHANGED <<calcs, levels, sent>>, now' \in Nat, now <= now'
  PROVE  History'
<1>1. GreeksTypes /\ History
  BY DEF GreeksInv
<1>2. ASSUME NEW i \in 1 .. Len(calcs) PROVE Checked(i)'
  <2>1. Checked(i)
    BY <1>1 DEF History
  <2>2. calcs[i].at \in Nat /\ now \in Nat /\ (calcs[i].checked = Unset \/ calcs[i].checked \in Nat)
    BY <1>1, CalcParts
  <2> QED BY <2>1, <2>2 DEF Checked
<1>3. ASSUME NEW i \in 1 .. Len(calcs), NEW s \in Scopes PROVE Remembered(i, s)'
  <2>1. Remembered(i, s)
    BY <1>1 DEF History
  <2> QED BY <2>1 DEF Remembered, Over
<1>4. ASSUME NEW i \in 1 .. Len(calcs), NEW j \in 1 .. Len(calcs), NEW s \in Scopes
      PROVE  NoFlap(i, j, s)'
  <2>1. NoFlap(i, j, s)
    BY <1>1 DEF History
  <2> QED BY <2>1 DEF NoFlap, Over
<1> QED BY <1>2, <1>3, <1>4 DEF History

\* An order stays on the newest calculation there was when it came.
LEMMA StaysNewest ==
  ASSUME GreeksTypes, NEW given \in GivenOrder, OnNewest(given),
         now' \in Nat, now <= now', Len(calcs') \in Nat, Len(calcs) <= Len(calcs'),
         \A k \in 1 .. Len(calcs) : /\ calcs'[k].at = calcs[k].at
                                    /\ calcs'[k].reading = calcs[k].reading,
         \A k \in 1 .. Len(calcs') : k > Len(calcs) => calcs'[k].at = now
  PROVE  OnNewest(given)'
<1>1. /\ Len(calcs) \in Nat /\ now \in Nat /\ given.on \in Nat /\ given.from \in Nat
      /\ given.on \in 1 .. Len(calcs) /\ given.from <= now
  BY CalcParts DEF OnNewest, GivenOrder
<1>2. /\ given.on \in 1 .. Len(calcs') /\ given.from <= now'
      /\ calcs'[given.on].at + MaxStale >= given.from
  BY <1>1 DEF OnNewest
<1>3. ASSUME NEW k \in 1 .. Len(calcs'), calcs'[k].at < given.from PROVE k <= given.on
  <2>1. k \in 1 .. Len(calcs)
    BY <1>1, <1>3
  <2> QED BY <1>3, <2>1 DEF OnNewest
<1>4. given.approved =>
        Total(calcs'[given.on].reading, Whole) + given.impact \in -HardLimit .. HardLimit
  BY <1>1 DEF OnNewest
<1> QED BY <1>2, <1>3, <1>4 DEF OnNewest

LEMMA OrdersStay ==
  ASSUME GreeksInv, UNCHANGED orders,
         now' \in Nat, now <= now', Len(calcs') \in Nat, Len(calcs) <= Len(calcs'),
         \A k \in 1 .. Len(calcs) : /\ calcs'[k].at = calcs[k].at
                                    /\ calcs'[k].reading = calcs[k].reading,
         \A k \in 1 .. Len(calcs') : k > Len(calcs) => calcs'[k].at = now
  PROVE  OrdersInv'
<1>1. GreeksTypes /\ orders \in Seq(GivenOrder) /\ \A i \in 1 .. Len(orders) : OnNewest(orders[i])
  BY DEF GreeksInv, OrdersInv
<1>2. ASSUME NEW i \in 1 .. Len(orders) PROVE OnNewest(orders[i])'
  <2>1. PICK given \in GivenOrder : given = orders[i]
    BY <1>1, ElementOfSeq
  <2>2. OnNewest(given)
    BY <1>1, <2>1
  <2>3. OnNewest(given)'
    BY <1>1, <2>2, StaysNewest
  <2> QED BY <2>1, <2>3 DEF OnNewest
<1> QED BY <1>1, <1>2 DEF OrdersInv

-----------------------------------------------------------------------------
(* The steps that leave the history of the calculations alone.             *)

LEMMA TickGreeks == GreeksInv /\ Tick => GreeksInv'
<1> SUFFICES ASSUME GreeksInv, Tick PROVE GreeksInv'
  OBVIOUS
<1>1. /\ GreeksTypes /\ now \in Nat /\ now' \in Nat /\ now <= now' /\ now' \in 0 .. MaxTime
      /\ Len(calcs) \in Nat
      /\ UNCHANGED <<current, calcs, levels, sent, snapshots, cycle, saved, dbSession, orders>>
  BY CalcParts, GreeksBoundsAssumption DEF GreeksInv, GreeksTypes, Tick, alertEngine
<1>2. GreeksTypes'
  <2>1. \A s \in Scopes : sent[s] \in 0 .. now => sent[s] \in 0 .. now'
    BY <1>1
  <2> QED BY <1>1, <2>1 DEF GreeksTypes
<1>3. History'
  BY <1>1, HistoryKept
<1>4. OrdersInv'
  BY <1>1, OrdersStay
<1> QED BY <1>1, <1>2, <1>3, <1>4 DEF GreeksInv, CycleInv, Alarmed

LEMMA SnapshotGreeks == GreeksInv /\ SaveSnapshots => GreeksInv'
<1> SUFFICES ASSUME GreeksInv, SaveSnapshots PROVE GreeksInv'
  OBVIOUS
<1>1. /\ GreeksTypes /\ CycleInv /\ now \in Nat /\ Len(calcs) \in Nat
      /\ UNCHANGED <<now, current, calcs, levels, sent, saved, dbSession, orders>>
      /\ cycle.at = "snapshot" /\ snapshots' = snapshots \union {current}
      /\ cycle' = [cycle EXCEPT !.at = IF cycle.alerts = {} THEN "idle" ELSE "save"]
  BY CalcParts DEF GreeksInv, SaveSnapshots, alertEngine
<1>2. /\ cycle'.alerts = cycle.alerts
      /\ cycle'.at = (IF cycle.alerts = {} THEN "idle" ELSE "save")
      /\ cycle' \in [at : {"idle", "read", "snapshot", "save"}, alerts : SUBSET Alert]
  BY <1>1 DEF GreeksTypes
<1>3. current \in 1 .. Len(calcs)
  BY <1>1 DEF GreeksTypes, CycleInv
<1>4. GreeksTypes'
  BY <1>1, <1>2, <1>3 DEF GreeksTypes
<1>5. CycleInv'
  BY <1>1, <1>2 DEF CycleInv
<1>6. History'
  BY <1>1, HistoryKept
<1>7. OrdersInv'
  BY <1>1, OrdersStay
<1> QED BY <1>1, <1>2, <1>4, <1>5, <1>6, <1>7 DEF GreeksInv, Alarmed

LEMMA SaveGreeks == ASSUME GreeksInv, NEW alert, SaveAlert(alert) PROVE GreeksInv'
<1>1. /\ GreeksTypes /\ CycleInv /\ now \in Nat /\ Len(calcs) \in Nat
      /\ UNCHANGED <<now, current, calcs, levels, sent, snapshots, dbSession, orders>>
      /\ cycle.at = "save" /\ alert \in cycle.alerts /\ saved' = saved \union {alert}
      /\ cycle' = [cycle EXCEPT !.alerts = cycle.alerts \ {alert},
                                !.at = IF cycle.alerts = {alert} THEN "idle" ELSE cycle.at]
  BY CalcParts DEF GreeksInv, SaveAlert, alertEngine
<1>2. /\ cycle'.alerts = cycle.alerts \ {alert}
      /\ cycle'.at = IF cycle.alerts = {alert} THEN "idle" ELSE "save"
      /\ cycle' \in [at : {"idle", "read", "snapshot", "save"}, alerts : SUBSET Alert]
      /\ alert \in Alert
  BY <1>1 DEF GreeksTypes
<1>3. GreeksTypes'
  BY <1>1, <1>2 DEF GreeksTypes
<1>4. CycleInv'
  BY <1>1, <1>2 DEF CycleInv
<1>5. History'
  BY <1>1, HistoryKept
<1>6. OrdersInv'
  BY <1>1, OrdersStay
<1>7. saved' \cup cycle'.alerts = saved \cup cycle.alerts
  BY <1>1, <1>2
<1> QED BY <1>1, <1>3, <1>4, <1>5, <1>6, <1>7 DEF GreeksInv, Alarmed

LEMMA FailGreeks == GreeksInv /\ DatabaseFails => GreeksInv'
<1> SUFFICES ASSUME GreeksInv, DatabaseFails PROVE GreeksInv'
  OBVIOUS
<1>1. /\ GreeksTypes /\ now \in Nat /\ Len(calcs) \in Nat
      /\ UNCHANGED <<now, current, calcs, levels, sent, snapshots, saved, orders>>
      /\ dbSession' = "failed" /\ cycle' = [at |-> "idle", alerts |-> {}]
  BY CalcParts DEF GreeksInv, DatabaseFails, alertEngine
<1>2. GreeksTypes' /\ CycleInv'
  BY <1>1 DEF GreeksTypes, CycleInv
<1>3. History'
  BY <1>1, HistoryKept
<1>4. OrdersInv'
  BY <1>1, OrdersStay
<1> QED BY <1>1, <1>2, <1>3, <1>4 DEF GreeksInv, Alarmed

LEMMA StartGreeks == ASSUME GreeksInv, NEW impact \in Impacts, StartOrder(impact) PROVE GreeksInv'
<1> DEFINE given == [impact |-> impact, on |-> current, from |-> now, approved |-> FALSE]
<1>1. /\ GreeksTypes /\ now \in Nat /\ Len(calcs) \in Nat /\ Refusal = Unset
      /\ UNCHANGED <<now, current, calcs, levels, sent, snapshots, cycle, saved, dbSession>>
      /\ orders' = Append(orders, given)
      /\ orders \in Seq(GivenOrder) /\ \A i \in 1 .. Len(orders) : OnNewest(orders[i])
  BY CalcParts DEF GreeksInv, OrdersInv, StartOrder, alertEngine
<1>2. current # Unset /\ ~(now - calcs[current].at > MaxStale)
  BY <1>1, GateAssumption DEF Refusal
<1>3. current = Len(calcs) /\ current \in 1 .. Len(calcs) /\ calcs[current].at \in Nat
  BY <1>1, <1>2, CalcParts DEF GreeksTypes
<1>4. given \in GivenOrder
  BY <1>1, <1>3 DEF GivenOrder
<1>5. OnNewest(given)
  BY <1>1, <1>2, <1>3, GateAssumption DEF OnNewest
<1> HIDE DEF given
<1>6. /\ orders' \in Seq(GivenOrder) /\ Len(orders') = Len(orders) + 1 /\ Len(orders) \in Nat
      /\ \A i \in 1 .. Len(orders) : orders'[i] = orders[i]
      /\ orders'[Len(orders) + 1] = given
  BY <1>1, <1>4, AppendProperties
<1>7. \A i \in 1 .. Len(orders') : OnNewest(orders'[i])
  <2>1. \A i \in 1 .. Len(orders') : i \in 1 .. Len(orders) \/ i = Len(orders) + 1
    BY <1>6
  <2> QED BY <1>1, <1>5, <1>6, <2>1
<1>8. OrdersInv'
  BY <1>1, <1>6, <1>7 DEF OrdersInv, OnNewest
<1>9. History'
  BY <1>1, HistoryKept
<1> QED BY <1>1, <1>8, <1>9 DEF GreeksInv, GreeksTypes, CycleInv, Alarmed

LEMMA JudgeGreeks == ASSUME GreeksInv, NEW i \in DOMAIN orders, Judge(i) PROVE GreeksInv'
<1>1. /\ GreeksTypes /\ now \in Nat /\ Len(calcs) \in Nat
      /\ UNCHANGED <<now, current, calcs, levels, sent, snapshots, cycle, saved, dbSession>>
      /\ orders \in Seq(GivenOrder) /\ \A k \in 1 .. Len(orders) : OnNewest(orders[k])
      /\ Len(orders) \in Nat /\ i \in 1 .. Len(orders)
  BY CalcParts DEF GreeksInv, OrdersInv, Judge, alertEngine
<1> DEFINE value == Total(calcs[orders[i].on].reading, Whole) + orders[i].impact
<1>2. orders' \in Seq(GivenOrder) /\ \A k \in 1 .. Len(orders') : OnNewest(orders'[k])
  <2>1. CASE Breaches(value)
    <3> DEFINE before == SubSeq(orders, 1, i - 1)
               after == SubSeq(orders, i + 1, Len(orders))
    <3>1. orders' = before \o after
      BY <2>1 DEF Judge
    <3>2. \A k \in 1 .. Len(orders) : orders[k] \in GivenOrder
      BY <1>1, ElementOfSeq
    <3>3. /\ before \in Seq(GivenOrder) /\ Len(before) = i - 1
          /\ \A k \in 1 .. i - 1 : before[k] = orders[k]
      <4>1. /\ 1 \in Int /\ i - 1 \in Int
            /\ \A k \in 1 .. i - 1 : orders[k] \in GivenOrder
        BY <1>1, <3>2
      <4>2. /\ before \in Seq(GivenOrder)
            /\ Len(before) = IF 1 <= i - 1 THEN i - 1 - 1 + 1 ELSE 0
            /\ \A k \in 1 .. i - 1 - 1 + 1 : before[k] = orders[1 + k - 1]
        BY <4>1, SubSeqProperties
      <4> HIDE DEF before
      <4> QED BY <1>1, <4>2
    <3>4. /\ after \in Seq(GivenOrder) /\ Len(after) = Len(orders) - i
          /\ \A k \in 1 .. Len(orders) - i : after[k] = orders[i + k]
      <4>1. /\ i + 1 \in Int /\ Len(orders) \in Int
            /\ \A k \in i + 1 .. Len(orders) : orders[k] \in GivenOrder
        BY <1>1, <3>2
      <4>2. /\ after \in Seq(GivenOrder)
            /\ Len(after) = IF i + 1 <= Len(orders) THEN Len(orders) - (i + 1) + 1 ELSE 0
            /\ \A k \in 1 .. Len(orders) - (i + 1) + 1 : after[k] = orders[(i + 1) + k - 1]
        BY <4>1, SubSeqProperties
      <4> HIDE DEF after
      <4> QED BY <1>1, <4>2
    <3> HIDE DEF before, after
    <3>5. /\ orders' \in Seq(GivenOrder) /\ Len(orders') = Len(before) + Len(after)
          /\ \A k \in 1 .. Len(before) + Len(after) :
               orders'[k] = IF k <= Len(before) THEN before[k] ELSE after[k - Len(before)]
      BY <3>1, <3>3, <3>4, ConcatProperties
    <3>6. ASSUME NEW k \in 1 .. Len(orders') PROVE OnNewest(orders'[k])
      <4>0. /\ k \in 1 .. (i - 1) + (Len(orders) - i)
            /\ orders'[k] = IF k <= i - 1 THEN before[k] ELSE after[k - (i - 1)]
        BY <3>3, <3>4, <3>5
      <4>1. CASE k <= i - 1
        <5>1. k \in 1 .. i - 1 /\ k \in 1 .. Len(orders)
          BY <1>1, <4>0, <4>1
        <5>2. orders'[k] = orders[k]
          BY <3>3, <4>0, <4>1, <5>1
        <5> QED BY <1>1, <5>1, <5>2
      <4>2. CASE ~(k <= i - 1)
        <5> DEFINE m == k - (i - 1)
        <5>1. m \in 1 .. Len(orders) - i
          BY <1>1, <4>0, <4>2
        <5>2. orders'[k] = after[m]
          BY <4>0, <4>2
        <5> HIDE DEF m
        <5>3. orders'[k] = orders[i + m] /\ i + m \in 1 .. Len(orders)
          BY <1>1, <3>4, <5>1, <5>2
        <5> QED BY <1>1, <5>3
      <4> QED BY <4>1, <4>2
    <3> QED BY <3>5, <3>6
  <2>2. CASE ~Breaches(value)
    <3>1. PICK given \in GivenOrder : given = orders[i]
      BY <1>1, ElementOfSeq
    <3> DEFINE ok == [given EXCEPT !.approved = TRUE]
    <3>2. orders' = [orders EXCEPT ![i] = ok]
      BY <2>2, <3>1 DEF Judge
    <3>3. /\ given.on \in Nat /\ given.impact \in Int /\ OnNewest(given)
          /\ given.on \in 1 .. Len(calcs)
      BY <1>1, <3>1, GateAssumption DEF GivenOrder, OnNewest
    <3>4. ok \in GivenOrder /\ ok.on = given.on /\ ok.from = given.from /\ ok.impact = given.impact
      BY DEF GivenOrder
    <3>5. Total(calcs[given.on].reading, Whole) \in Int
      BY <1>1, <3>3, CalcParts, TotalType
    <3>6. value \in Int /\ value = Total(calcs[given.on].reading, Whole) + given.impact
      BY <3>1, <3>3, <3>5
    <3>7. value \in -HardLimit .. HardLimit
      <4> HIDE DEF value
      <4> QED BY <2>2, <3>6, GateAssumption DEF Breaches, AbsOf
    <3>8. OnNewest(ok)
      BY <3>3, <3>4, <3>6, <3>7 DEF OnNewest
    <3> HIDE DEF ok, value
    <3>9. /\ orders' \in Seq(GivenOrder) /\ Len(orders') = Len(orders)
          /\ \A k \in 1 .. Len(orders) : orders'[k] = IF k = i THEN ok ELSE orders[k]
      BY <1>1, <3>2, <3>4, ExceptSeq
    <3> QED BY <1>1, <3>8, <3>9
  <2> QED BY <2>1, <2>2
<1>3. OrdersInv'
  BY <1>1, <1>2 DEF OrdersInv, OnNewest
<1>4. History'
  BY <1>1, HistoryKept
<1> QED BY <1>1, <1>3, <1>4 DEF GreeksInv, GreeksTypes, CycleInv, Alarmed

-----------------------------------------------------------------------------
(* The steps that add a calculation and check it.                          *)

LEMMA CalculateGreeks ==
  ASSUME GreeksInv, NEW reading \in Reading, Calculate(reading)
  PROVE  GreeksInv'
<1> DEFINE c == [at |-> now, reading |-> reading, checked |-> Unset, prev |-> Unset, alerts |-> {}]
<1>1. /\ GreeksTypes /\ CycleInv /\ History /\ now \in Nat /\ Len(calcs) \in Nat
      /\ calcs \in Seq(Calc) /\ cycle.at = "idle" /\ Len(calcs) < MaxChecks
      /\ calcs' = Append(calcs, c) /\ current' = Len(calcs) + 1
      /\ cycle' = [cycle EXCEPT !.at = "read"]
      /\ UNCHANGED <<now, levels, sent, snapshots, saved, dbSession, orders>>
  BY CalcParts DEF GreeksInv, GreeksTypes, Calculate, alertEngine
<1>2. c \in Calc
  BY <1>1 DEF Calc
<1>3. c.at = now /\ c.checked = Unset /\ c.prev = Unset /\ c.alerts = {}
  OBVIOUS
<1> HIDE DEF c
<1>4. /\ calcs' \in Seq(Calc) /\ Len(calcs') = Len(calcs) + 1
      /\ \A i \in 1 .. Len(calcs) : calcs'[i] = calcs[i]
      /\ calcs'[Len(calcs) + 1] = c
  BY <1>1, <1>2, AppendProperties
<1>5. /\ cycle' \in [at : {"idle", "read", "snapshot", "save"}, alerts : SUBSET Alert]
      /\ cycle'.at = "read" /\ cycle'.alerts = {} /\ cycle.alerts = {}
  BY <1>1 DEF GreeksTypes, CycleInv
<1>6. GreeksTypes'
  <2>1. /\ Len(calcs') <= MaxChecks /\ Len(calcs') # 0
        /\ 1 .. Len(calcs) \subseteq 1 .. Len(calcs')
    BY <1>1, <1>4, GreeksBoundsAssumption
  <2> QED BY <1>1, <1>4, <1>5, <2>1 DEF GreeksTypes
<1>7. CycleInv'
  BY <1>1, <1>3, <1>4, <1>5 DEF CycleInv
<1>8. ASSUME NEW i \in 1 .. Len(calcs') PROVE Checked(i)'
  <2>1. CASE i \in 1 .. Len(calcs)
    <3>1. Checked(i)
      BY <1>1, <2>1 DEF History
    <3>2. calcs'[i] = calcs[i] /\ 1 .. Len(calcs) \subseteq 1 .. Len(calcs')
      BY <1>1, <1>4, <2>1
    <3> QED BY <1>1, <1>4, <3>1, <3>2 DEF Checked
  <2>2. CASE i = Len(calcs) + 1
    BY <1>1, <1>3, <1>4, <2>2 DEF Checked
  <2> QED BY <1>1, <1>4, <2>1, <2>2
<1>9. \A i \in 1 .. Len(calcs) : \A s, l, j :
        j \in 1 .. Len(calcs) /\ Over(i, j, s, l)
          => \A m \in {j, Len(calcs) + 1} : Over(i, m, s, l)'
  <2> SUFFICES ASSUME NEW i \in 1 .. Len(calcs), NEW s, NEW l, NEW j \in 1 .. Len(calcs),
                      Over(i, j, s, l), NEW m \in {j, Len(calcs) + 1}
               PROVE  Over(i, m, s, l)'
    OBVIOUS
  <2>1. /\ i \in Nat /\ j \in Nat /\ j <= Len(calcs) /\ m \in Nat /\ j <= m
        /\ \A k \in 1 .. Len(calcs) :
             /\ calcs'[k].reading = calcs[k].reading
             /\ ReportedBy(calcs[k].alerts, s) \subseteq ReportedBy(calcs'[k].alerts, s)
    BY <1>1, <1>4
  <2> QED BY <1>1, <2>1, StaysOver
<1>10. \A s : ReportedBy({}, s) = {}
  BY DEF ReportedBy
<1>11. ASSUME NEW i \in 1 .. Len(calcs'), NEW s \in Scopes PROVE Remembered(i, s)'
  <2>1. CASE i \in 1 .. Len(calcs)
    <3>1. Remembered(i, s) /\ calcs'[i] = calcs[i]
      BY <1>1, <1>4, <2>1 DEF History
    <3> SUFFICES ASSUME NEW l \in ReportedBy(calcs[i].alerts, s)
                 PROVE  /\ l \in 1 .. 3 /\ calcs[i].checked # Unset
                        /\ \/ Over(i, Len(calcs), s, l)'
                           \/ levels[s] = l /\ sent[s] # Unset /\ sent[s] >= calcs[i].checked
      BY <1>1, <1>4, <3>1 DEF Remembered, Over
    <3>2. Len(calcs) \in 1 .. Len(calcs)
      BY <1>1, <2>1
    <3>3. PICK last \in Nat : last = Len(calcs) + 1
      BY <1>1
    <3>4. Over(i, Len(calcs), s, l) => Over(i, last, s, l)'
      BY <1>9, <2>1, <3>2, <3>3
    <3>5. Over(i, last, s, l)' => Over(i, Len(calcs), s, l)'
      BY <1>4, <3>3 DEF Over
    <3> QED BY <3>1, <3>4, <3>5 DEF Remembered
  <2>2. CASE i = Len(calcs) + 1
    BY <1>3, <1>4, <1>10, <2>2 DEF Remembered
  <2> QED BY <1>1, <1>4, <2>1, <2>2
<1>12. ASSUME NEW i \in 1 .. Len(calcs'), NEW j \in 1 .. Len(calcs'), NEW s \in Scopes
       PROVE  NoFlap(i, j, s)'
  <2>1. CASE i < j /\ j \in 1 .. Len(calcs)
    <3>1. i \in 1 .. Len(calcs) /\ calcs'[i] = calcs[i] /\ calcs'[j] = calcs[j]
      BY <1>1, <1>4, <2>1
    <3>2. NoFlap(i, j, s)
      BY <1>1, <2>1, <3>1 DEF History
    <3> QED BY <1>9, <2>1, <3>1, <3>2 DEF NoFlap
  <2>2. CASE j = Len(calcs) + 1
    <3>1. ReportedBy(calcs'[j].alerts, s) = {}
      BY <1>3, <1>4, <1>10, <2>2
    <3> QED BY <3>1 DEF NoFlap
  <2>3. CASE ~(i < j)
    BY <2>3 DEF NoFlap
  <2> QED BY <1>1, <1>4, <2>1, <2>2, <2>3
<1>13. History'
  BY <1>8, <1>11, <1>12 DEF History
<1>14. OrdersInv'
  <2>1. /\ \A k \in 1 .. Len(calcs) : calcs'[k].at = calcs[k].at /\ calcs'[k].reading = calcs[k].reading
        /\ \A k \in 1 .. Len(calcs') : k > Len(calcs) => calcs'[k].at = now
        /\ Len(calcs') \in Nat /\ Len(calcs) <= Len(calcs')
    BY <1>1, <1>3, <1>4
  <2> QED BY <1>1, <2>1, OrdersStay
<1> QED BY <1>1, <1>5, <1>6, <1>7, <1>13, <1>14 DEF GreeksInv, Alarmed

\* What a check finds and does: the levels, the alerts, and the calculation completed.
Checks(level, found, d) ==
  /\ cycle.at = "read" /\ dbSession = "sound"
  /\ level \in [Scopes -> 0 .. 3]
  /\ \A s \in Scopes : level[s] = NewLevel(Total(calcs[current].reading, s), levels[s])
  /\ found \in SUBSET Alert
  /\ \A s \in Scopes : ReportedBy(found, s) = IF ShouldAlert(s, level[s]) THEN {level[s]} ELSE {}
  /\ d \in Calc /\ d.at = calcs[current].at /\ d.reading = calcs[current].reading
  /\ d.checked = now /\ d.prev = Previous /\ d.alerts = found
  /\ levels' = level /\ sent' = [s \in Scopes |-> NewSent(s, level[s])]
  /\ cycle' = [at |-> "snapshot", alerts |-> found]
  /\ calcs' = [calcs EXCEPT ![current] = d]
  /\ UNCHANGED <<now, current, snapshots, saved, dbSession, orders>>

LEMMA CheckChecks ==
  ASSUME GreeksInv, Check
  PROVE  \E level, found, d : Checks(level, found, d)
<1>1. /\ GreeksTypes /\ cycle.at = "read" /\ Len(calcs) \in Nat /\ now \in Nat
      /\ dbSession = "sound"
  BY CalcParts DEF GreeksInv, Check
<1>2. current = Len(calcs) /\ current \in 1 .. Len(calcs)
  BY <1>1 DEF GreeksInv, GreeksTypes, CycleInv
<1>3. PICK r \in Reading : r = calcs[current].reading
  BY <1>1, <1>2, CalcParts
<1>4. PICK before \in Calc : before = calcs[current]
  BY <1>1, <1>2, CalcParts
<1> DEFINE level == [s \in Scopes |-> NewLevel(Total(r, s), levels[s])]
           threshold == {[scope |-> s, kind |-> "threshold", level |-> level[s]] :
                           s \in {u \in Scopes : ShouldAlert(u, level[u])}}
           roc == IF Previous # Unset /\ Jumped(Total(r, Whole), Total(calcs[Previous].reading, Whole))
                    THEN {[scope |-> Whole, kind |-> "roc", level |-> 1]} ELSE {}
           found == threshold \union roc
           d == [before EXCEPT !.checked = now, !.prev = Previous, !.alerts = found]
<1>5. /\ levels' = level /\ sent' = [s \in Scopes |-> NewSent(s, level[s])]
      /\ cycle' = [at |-> "snapshot", alerts |-> found]
      /\ calcs' = [calcs EXCEPT ![current] = d]
      /\ UNCHANGED <<now, current, snapshots, saved, dbSession, orders>>
  BY <1>3, <1>4 DEF Check, CheckAlerts
<1>6. level \in [Scopes -> 0 .. 3] /\ \A s \in Scopes : level[s] = NewLevel(Total(r, s), levels[s])
  BY <1>1, NewLevelIs DEF GreeksTypes
<1> HIDE DEF level
<1>7. Whole \in Scopes
  BY DEF Scopes
<1>8. threshold \in SUBSET Alert /\ roc \in SUBSET Alert
  BY <1>6, <1>7 DEF Alert
<1>9. ASSUME NEW s \in Scopes
      PROVE  ReportedBy(found, s) = IF ShouldAlert(s, level[s]) THEN {level[s]} ELSE {}
  <2>1. \A a \in found : a.kind = "threshold" /\ a.scope = s =>
          a.level = level[s] /\ ShouldAlert(s, level[s])
    OBVIOUS
  <2>2. ShouldAlert(s, level[s]) =>
          \E a \in found : a.kind = "threshold" /\ a.scope = s /\ a.level = level[s]
    <3> SUFFICES ASSUME ShouldAlert(s, level[s])
                 PROVE  \E a \in threshold : a.kind = "threshold" /\ a.scope = s /\ a.level = level[s]
      OBVIOUS
    <3> DEFINE a == [scope |-> s, kind |-> "threshold", level |-> level[s]]
    <3>1. a \in threshold
      OBVIOUS
    <3>2. a.kind = "threshold" /\ a.scope = s /\ a.level = level[s]
      OBVIOUS
    <3> QED BY <3>1, <3>2
  <2> HIDE DEF found
  <2>3. \A l \in ReportedBy(found, s) : l = level[s] /\ ShouldAlert(s, level[s])
    BY <2>1 DEF ReportedBy
  <2>4. ShouldAlert(s, level[s]) => level[s] \in ReportedBy(found, s)
    BY <2>2 DEF ReportedBy
  <2> QED BY <2>3, <2>4
<1>10. Previous \in Nat \cup {Unset}
  BY <1>1, PreviousIs
<1>11. found \in SUBSET Alert
  BY <1>8
<1> HIDE DEF threshold, roc, found
<1>12. /\ d \in Calc /\ d.at = before.at /\ d.reading = before.reading
       /\ d.checked = now /\ d.prev = Previous /\ d.alerts = found
  BY <1>1, <1>10, <1>11 DEF Calc
<1> HIDE DEF d
<1>13. \A s \in Scopes : level[s] = NewLevel(Total(calcs[current].reading, s), levels[s])
  BY <1>3, <1>6
<1>14. d.at = calcs[current].at /\ d.reading = calcs[current].reading
  BY <1>4, <1>12
<1>15. Checks(level, found, d)
  BY <1>1, <1>5, <1>6, <1>9, <1>11, <1>12, <1>13, <1>14 DEF Checks
<1> QED BY <1>15

\* A level that was reported before a check is over after it, or still the level: then it
\* is reported again only when its window has passed.
LEMMA CheckRemembers ==
  ASSUME GreeksInv, NEW level, NEW found, NEW d, Checks(level, found, d),
         NEW s \in Scopes, NEW l \in 1 .. 3, levels[s] = l,
         NEW since \in Nat, sent[s] # Unset, sent[s] >= since
  PROVE  \/ ~Reaches(Total(calcs[current].reading, s), Recover[l])
         \/ ShouldAlert(s, level[s]) /\ level[s] > l
         \/ /\ level[s] = l /\ NewSent(s, level[s]) # Unset /\ NewSent(s, level[s]) >= since
            /\ ShouldAlert(s, level[s]) => now - since >= Windows[l]
<1>1. GreeksTypes /\ now \in Nat /\ sent[s] \in Nat /\ sent[s] <= now
  BY CalcParts DEF GreeksInv
<1>2. /\ level[s] \in 0 .. 3
      /\ level[s] = NewLevel(Total(calcs[current].reading, s), l)
  BY DEF Checks
<1>3. CASE level[s] < l
  <2>1. ~Reaches(Total(calcs[current].reading, s), Bar(l, l))
    BY <1>2, <1>3, NewLevelIs
  <2> QED BY <2>1 DEF Bar
<1>4. CASE level[s] > l
  BY <1>4 DEF ShouldAlert
<1>5. CASE level[s] = l
  <2>1. Windows[l] \in Nat
    BY WindowsAre
  <2>2. ShouldAlert(s, level[s]) => now - since >= Windows[l]
    BY <1>1, <1>5, <2>1 DEF ShouldAlert, CanSend
  <2>3. NewSent(s, level[s]) # Unset /\ NewSent(s, level[s]) >= since
    BY <1>1, <1>5, GreeksAssumption DEF NewSent
  <2> QED BY <1>5, <2>2, <2>3
<1> QED BY <1>2, <1>3, <1>4, <1>5

LEMMA CheckGreeks == GreeksInv /\ Check => GreeksInv'
<1> SUFFICES ASSUME GreeksInv, Check PROVE GreeksInv'
  OBVIOUS
<1>1. PICK level, found, d : Checks(level, found, d)
  BY CheckChecks
<1>0. PICK n \in Nat : n = Len(calcs)
  BY CalcParts DEF GreeksInv
<1>2. /\ GreeksTypes /\ CycleInv /\ History /\ now \in Nat /\ n \in Nat /\ calcs \in Seq(Calc)
      /\ n = Len(calcs) /\ current = n /\ n \in 1 .. n
  BY <1>0, <1>1, CalcParts DEF GreeksInv, GreeksTypes, CycleInv, Checks
<1>3. /\ calcs' \in Seq(Calc) /\ Len(calcs') = n
      /\ \A k \in 1 .. n : calcs'[k] = IF k = n THEN d ELSE calcs[k]
  BY <1>1, <1>2, ExceptSeq DEF Checks
<1>4. calcs[n].checked = Unset /\ calcs[n].alerts = {} /\ cycle.alerts = {}
  BY <1>1, <1>2 DEF CycleInv, Checks, History, Checked
<1>5. /\ d.at = calcs[n].at /\ d.reading = calcs[n].reading /\ d.checked = now
      /\ d.prev = Previous /\ d.alerts = found
      /\ UNCHANGED <<now, current, snapshots, saved, dbSession, orders>>
      /\ levels' = level /\ sent' = [s \in Scopes |-> NewSent(s, level[s])]
      /\ cycle' = [at |-> "snapshot", alerts |-> found]
      /\ level \in [Scopes -> 0 .. 3] /\ found \in SUBSET Alert
      /\ \A s \in Scopes : ReportedBy(found, s) = IF ShouldAlert(s, level[s]) THEN {level[s]} ELSE {}
  BY <1>1, <1>2 DEF Checks
<1>6. \A k \in 1 .. n : calcs'[k].at = calcs[k].at /\ calcs'[k].reading = calcs[k].reading
  BY <1>3, <1>5
<1>7. \A s : ReportedBy({}, s) = {}
  BY DEF ReportedBy
<1>8. ASSUME NEW s \in Scopes
      PROVE  /\ sent'[s] = Unset \/ sent'[s] \in 0 .. now
             /\ level[s] = 0 => sent'[s] = Unset
  BY <1>2, <1>5 DEF NewSent, ShouldAlert, GreeksTypes
<1>9. GreeksTypes'
  BY <1>2, <1>3, <1>5, <1>8 DEF GreeksTypes
<1>10. CycleInv'
  BY <1>2, <1>3, <1>5 DEF CycleInv
<1>11. ASSUME NEW i \in 1 .. n PROVE Checked(i)'
  <2>1. CASE i = n
    <3>1. calcs'[i] = d /\ calcs[i].at <= now
      BY <1>2, <1>3, <2>1 DEF History, Checked
    <3>2. d.at <= now /\ now # Unset
      BY <1>2, <1>5, <2>1, <3>1, GreeksAssumption
    <3>3. Previous # Unset => Previous \in 1 .. n /\ calcs'[Previous].at + RateWindow < now
      <4>1. Previous # Unset => Previous \in 1 .. n /\ calcs[Previous].at < now - RateWindow
        BY <1>2, PreviousIs
      <4>2. \A k \in 1 .. n : calcs[k].at \in Nat
        BY <1>2, CalcParts
      <4> QED BY <1>2, <1>6, <4>1, <4>2, GateAssumption
    <3>4. /\ calcs'[i].at <= now /\ calcs'[i].checked = now /\ calcs'[i].prev = Previous
      BY <1>5, <3>1, <3>2
    <3>5. Len(calcs') = n /\ now' = now
      BY <1>3, <1>5
    <3> QED BY <1>2, <3>2, <3>3, <3>4, <3>5 DEF Checked
  <2>2. CASE i # n
    <3>1. Checked(i) /\ calcs'[i] = calcs[i]
      BY <1>2, <1>3, <2>2 DEF History
    <3> QED BY <1>2, <1>3, <1>5, <1>6, <3>1 DEF Checked
  <2> QED BY <2>1, <2>2
<1>12. ASSUME NEW s, NEW l, NEW i \in 1 .. n, NEW j \in 1 .. n, Over(i, j, s, l)
       PROVE  Over(i, j, s, l)'
  <2>1. \A k \in 1 .. n :
          /\ calcs'[k].reading = calcs[k].reading
          /\ ReportedBy(calcs[k].alerts, s) \subseteq ReportedBy(calcs'[k].alerts, s)
    BY <1>3, <1>4, <1>6, <1>7
  <2>2. i \in Nat /\ j \in Nat /\ j <= n /\ j <= j
    BY <1>2
  <2> QED BY <1>2, <1>12, <2>1, <2>2, StaysOver
<1>13. ASSUME NEW s \in Scopes, NEW i \in 1 .. n, i # n, NEW l \in ReportedBy(calcs[i].alerts, s)
       PROVE  /\ l \in 1 .. 3 /\ calcs[i].checked # Unset
              /\ \/ Over(i, n, s, l)'
                 \/ /\ level[s] = l /\ sent'[s] # Unset /\ sent'[s] >= calcs[i].checked
                    /\ ShouldAlert(s, level[s]) => now - calcs[i].checked >= Windows[l]
  <2>1. Remembered(i, s)
    BY <1>2 DEF History
  <2>2. l \in 1 .. 3 /\ calcs[i].checked # Unset
    BY <1>13, <2>1 DEF Remembered
  <2>3. CASE Over(i, n, s, l)
    <3>1. Over(i, n, s, l)'
      BY <1>2, <1>12, <2>3
    <3> QED BY <2>2, <3>1
  <2>4. CASE levels[s] = l /\ sent[s] # Unset /\ sent[s] >= calcs[i].checked
    <3>1. PICK since \in Nat : since = calcs[i].checked
      BY <1>2, <2>2, CalcParts
    <3>2. \/ ~Reaches(Total(calcs[current].reading, s), Recover[l])
          \/ ShouldAlert(s, level[s]) /\ level[s] > l
          \/ /\ level[s] = l /\ NewSent(s, level[s]) # Unset /\ NewSent(s, level[s]) >= since
             /\ ShouldAlert(s, level[s]) => now - since >= Windows[l]
      BY <1>1, <2>2, <2>4, <3>1, CheckRemembers
    <3>3. n \in i + 1 .. n
      BY <1>2, <1>13
    <3>4. CASE ~Reaches(Total(calcs[current].reading, s), Recover[l])
      <4>1. ~Reaches(Total(calcs'[n].reading, s), Recover[l])
        BY <1>2, <1>6, <3>4
      <4>2. Over(i, n, s, l)'
        BY <3>3, <4>1 DEF Over
      <4> QED BY <2>2, <4>2
    <3>5. CASE ShouldAlert(s, level[s]) /\ level[s] > l
      <4>1. level[s] \in ReportedBy(calcs'[n].alerts, s)
        BY <1>2, <1>3, <1>5, <3>5
      <4>2. Over(i, n, s, l)'
        BY <3>3, <3>5, <4>1 DEF Over
      <4> QED BY <2>2, <4>2
    <3>6. CASE /\ level[s] = l /\ NewSent(s, level[s]) # Unset /\ NewSent(s, level[s]) >= since
               /\ ShouldAlert(s, level[s]) => now - since >= Windows[l]
      <4>1. sent'[s] = NewSent(s, level[s])
        BY <1>5
      <4> QED BY <2>2, <3>1, <3>6, <4>1
    <3> QED BY <3>2, <3>4, <3>5, <3>6
  <2> QED BY <1>2, <1>13, <2>1, <2>2, <2>3, <2>4 DEF Remembered
<1>14. ASSUME NEW i \in 1 .. n, NEW s \in Scopes PROVE Remembered(i, s)'
  <2>1. CASE i = n
    <3> SUFFICES ASSUME NEW l \in ReportedBy(found, s)
                 PROVE  l \in 1 .. 3 /\ now # Unset /\ level[s] = l
                        /\ sent'[s] # Unset /\ sent'[s] >= now
      BY <1>2, <1>3, <1>5, <2>1 DEF Remembered
    <3>1. ShouldAlert(s, level[s]) /\ l = level[s]
      BY <1>5
    <3>2. level[s] \in 1 .. 3
      BY <1>2, <1>5, <3>1 DEF ShouldAlert, GreeksTypes
    <3>3. sent'[s] = now
      BY <1>5, <3>1 DEF NewSent
    <3> QED BY <1>2, <3>1, <3>2, <3>3, GreeksAssumption
  <2>2. CASE i # n
    <3>1. calcs'[i] = calcs[i]
      BY <1>3, <2>2
    <3>2. Len(calcs') = n /\ levels' = level
      BY <1>3, <1>5
    <3>3. \A l \in ReportedBy(calcs[i].alerts, s) :
            /\ l \in 1 .. 3 /\ calcs[i].checked # Unset
            /\ \/ Over(i, n, s, l)'
               \/ level[s] = l /\ sent'[s] # Unset /\ sent'[s] >= calcs[i].checked
      BY <1>13, <2>2
    <3> QED BY <3>1, <3>2, <3>3 DEF Remembered
  <2> QED BY <2>1, <2>2
<1>15. ASSUME NEW i \in 1 .. n, NEW j \in 1 .. n, NEW s \in Scopes PROVE NoFlap(i, j, s)'
  <2>1. CASE ~(i < j)
    BY <2>1 DEF NoFlap
  <2>2. CASE i < j /\ j # n
    <3>1. NoFlap(i, j, s) /\ calcs'[i] = calcs[i] /\ calcs'[j] = calcs[j]
      BY <1>2, <1>3, <2>2 DEF History
    <3> QED BY <1>12, <2>2, <3>1 DEF NoFlap
  <2>3. CASE i < j /\ j = n
    <3>1. i # n /\ calcs'[i] = calcs[i] /\ calcs'[j] = d
      BY <1>2, <1>3, <2>3
    <3> SUFFICES ASSUME NEW l \in ReportedBy(calcs[i].alerts, s) \cap ReportedBy(found, s),
                        now - calcs[i].checked < Windows[l]
                 PROVE  Over(i, j, s, l)'
      BY <1>5, <3>1 DEF NoFlap
    <3>2. ShouldAlert(s, level[s]) /\ l = level[s]
      BY <1>5
    <3>3. l \in 1 .. 3 /\ calcs[i].checked # Unset
      BY <1>13, <3>1
    <3>4. Windows[l] \in Nat /\ calcs[i].checked \in Nat
      BY <1>2, <3>3, CalcParts, WindowsAre
    <3>5. ~(now - calcs[i].checked >= Windows[l])
      BY <1>2, <3>4
    <3> QED BY <1>13, <2>3, <3>1, <3>2, <3>5
  <2> QED BY <2>1, <2>2, <2>3
<1>16. History'
  BY <1>3, <1>11, <1>14, <1>15 DEF History
<1>17. ASSUME NEW s \in Scopes PROVE Alarmed(s)'
  <2>1. CASE ShouldAlert(s, level[s])
    <3>1. level[s] \in ReportedBy(found, s)
      BY <1>5, <2>1
    <3>2. PICK a \in found : a.scope = s /\ a.kind = "threshold" /\ a.level = level[s]
      BY <3>1 DEF ReportedBy
    <3>3. a \in saved' \cup cycle'.alerts /\ a.level >= level[s]
      BY <1>5, <3>2
    <3> QED BY <1>5, <3>2, <3>3 DEF Alarmed
  <2>2. CASE ~ShouldAlert(s, level[s])
    <3>1. /\ level[s] \in 0 .. 3 /\ levels[s] \in 0 .. 3 /\ ~(level[s] > levels[s])
      BY <1>2, <1>5, <2>2 DEF ShouldAlert, GreeksTypes
    <3> SUFFICES ASSUME dbSession = "sound", level[s] > 0
                 PROVE  \E a \in saved : a.scope = s /\ a.kind = "threshold" /\ a.level >= level[s]
      BY <1>5 DEF Alarmed
    <3>2. levels[s] > 0
      BY <3>1
    <3>3. PICK a \in saved : a.scope = s /\ a.kind = "threshold" /\ a.level >= levels[s]
      BY <1>4, <3>2 DEF GreeksInv, Alarmed
    <3>4. a.level \in 0 .. 3
      BY <1>2 DEF GreeksTypes, Alert
    <3> QED BY <3>1, <3>3, <3>4
  <2> QED BY <2>1, <2>2
<1>18. OrdersInv'
  <2>1. /\ now' \in Nat /\ now <= now' /\ Len(calcs') \in Nat /\ n <= Len(calcs')
        /\ \A k \in 1 .. Len(calcs') : k > n => calcs'[k].at = now
    BY <1>2, <1>3, <1>5
  <2> QED BY <1>2, <1>5, <1>6, <2>1, OrdersStay
<1> QED BY <1>9, <1>10, <1>16, <1>17, <1>18 DEF GreeksInv

LEMMA GreeksStep == GreeksInv /\ [GreeksNext]_greeksvars => GreeksInv'
<1> SUFFICES ASSUME GreeksInv, [GreeksNext]_greeksvars PROVE GreeksInv'
  OBVIOUS
<1>1. ASSUME NEW primary \in Readings, NEW fallback \in Readings,
             Calculate(Calculated(primary, fallback))
      PROVE  GreeksInv'
  BY <1>1, ReadingsAre, CalculateGreeks
<1>2. CASE UNCHANGED greeksvars
  <2>1. /\ UNCHANGED <<now, current, calcs, levels, sent, snapshots, cycle, saved, dbSession, orders>>
        /\ GreeksTypes /\ now \in Nat /\ Len(calcs) \in Nat
    BY <1>2, CalcParts DEF greeksvars, alertEngine, GreeksInv
  <2>2. History'
    BY <2>1, HistoryKept
  <2>3. OrdersInv'
    BY <2>1, OrdersStay
  <2> QED BY <2>1, <2>2, <2>3 DEF GreeksInv, GreeksTypes, CycleInv, Alarmed
<1> QED BY <1>1, <1>2, TickGreeks, CheckGreeks, SnapshotGreeks, FailGreeks, SaveGreeks,
           StartGreeks, JudgeGreeks DEF GreeksNext

LEMMA GreeksInvSound == GreeksInv => GreeksSound
<1> SUFFICES ASSUME GreeksInv PROVE GreeksSound
  OBVIOUS
<1>1. /\ GreeksTypes /\ CycleInv /\ History /\ OrdersInv
      /\ DOMAIN calcs = 1 .. Len(calcs) /\ DOMAIN orders = 1 .. Len(orders)
      /\ Len(calcs) \in Nat
  BY CalcParts DEF GreeksInv, GreeksTypes, OrdersInv
<1>2. GreeksTypeOK
  <2>1. sent \in [Scopes -> 0 .. now \union {Unset}]
    BY <1>1 DEF GreeksTypes
  <2>2. current \in 1 .. Len(calcs) \union {Unset}
    BY <1>1 DEF GreeksTypes
  <2> QED BY <1>1, <2>1, <2>2 DEF GreeksTypes, GreeksTypeOK
<1>3. AccountIsSum
  <2>1. \A i \in 1 .. Len(calcs) : calcs[i].reading \in Reading
    BY <1>1, CalcParts
  <2> QED BY <1>1, <2>1, TotalsAgree DEF AccountIsSum
<1>4. NoFlapping
  <2>1. \A i, s : AlertsOf(i, s) = ReportedBy(calcs[i].alerts, s)
    BY DEF AlertsOf, ReportedBy
  <2> QED BY <1>1, <2>1 DEF NoFlapping, History, NoFlap, Over
<1>5. AlarmIsSaved
  <2>1. cycle.at = "idle" => saved \cup cycle.alerts = saved
    BY <1>1 DEF CycleInv
  <2> QED BY <2>1 DEF AlarmIsSaved, GreeksInv, Alarmed
<1>6. RateOverWindow
  BY <1>1 DEF RateOverWindow, History, Checked
<1>7. ApprovedOnCurrent
  BY <1>1, GreeksAssumption DEF ApprovedOnCurrent, OrdersInv, OnNewest
<1> QED BY <1>2, <1>3, <1>4, <1>5, <1>6, <1>7 DEF GreeksSound

\* Over cycles that fail, are slow or overlap an order, for every set of positions,
\* strategies and values: totals agree, alarms neither flap nor get lost, rates span their
\* window, and approvals rest on the newest calculation (monitor.py, greeks_gate.py).
THEOREM GreeksAreSound == GreeksSpec => []GreeksSound
  BY InitGreeks, GreeksStep, GreeksInvSound, PTL DEF GreeksSpec
=============================================================================
