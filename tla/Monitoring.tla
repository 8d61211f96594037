----------------------------- MODULE Monitoring -----------------------------
(***************************************************************************)
(* The monitoring side of the governance layer: metric providers           *)
(* (monitoring/metrics.py), the scheduled falsifier checks and the alerts  *)
(* they raise (monitoring/falsifier.py, scheduler.py, alerts.py), the      *)
(* in-memory audit store they write to (audit/store.py), the failure rules *)
(* of factors (factors/registry.py) and the regime detector                *)
(* (regime/detector.py).                                                   *)
(***************************************************************************)
EXTENDS Arrangements, Naturals, Sequences, FiniteSets, SequencesExt

CONSTANTS
  Metrics,      \* names of metrics; two of them feed the regime
  Values,       \* values a metric may take
  Watched,      \* the hypotheses registered: id, status and falsifiers
  Factors,      \* ids of factors
  FailureRules, \* [Factors -> the failure rules of a factor]
  Checkers,     \* threads that run check_factor_health
  Handlers,     \* delivery handlers of the alert generator
  Thresholds,   \* RegimeConfig.thresholds
  MaxRuns,      \* bound on falsifier checks
  NoValue       \* no provider, a provider that raises, or one that says None

ASSUME RunsAssumption == MaxRuns \in Nat
ASSUME WatchedAssumption ==
  IsFiniteSet(Watched) /\ \A h \in Watched : h.falsifiers \in Seq(Range(h.falsifiers))

VARIABLES
  metric,    \* [Metrics -> what get_value answers now]
  store,     \* entries of the audit store; "by" is who asked for the check
  alerts,    \* alerts generated, with the handlers that took them
  runs,      \* checks run so far
  factor,    \* [Factors -> None or status and enabled flag]
  condemned, \* for the properties: the factors a check has condemned since
             \* they were last registered or enabled
  checking,  \* [Checkers -> the factor whose health is being checked]
  regime     \* the detector's _previous_state and its last snapshot

mvars == <<metric, store, alerts, runs, factor, condemned, checking, regime>>
-----------------------------------------------------------------------------
Compare(v, op, limit) ==
  CASE op = "<"  -> v < limit
    [] op = "<=" -> v <= limit
    [] op = ">"  -> v > limit
    [] op = ">=" -> v >= limit
    [] op = "==" -> v = limit

\* A rule without data is not triggered.
Triggered(rule) ==
  metric[rule.metric] # NoValue /\ Compare(metric[rule.metric], rule.op, rule.limit)

Active == {h \in Watched : h.status = "ACTIVE"}

\* The results of a check over a sequence of hypotheses: one for each
\* falsifier, in order.
Results(hyps) ==
  FlattenSeq([i \in DOMAIN hyps |->
    [k \in DOMAIN hyps[i].falsifiers |->
      LET f == hyps[i].falsifiers[k]
      IN [hyp |-> hyps[i].id, index |-> k, action |-> f.action,
          data |-> metric[f.metric] # NoValue, triggered |-> Triggered(f)]]])

\* _log_falsifier_check is not reached when the metric has no data.
Logged(results, by) ==
  LET seen == Kept(results, {i \in DOMAIN results : results[i].data})
  IN [i \in DOMAIN seen |->
        [event |-> IF seen[i].triggered THEN "triggered" ELSE "pass",
         hyp |-> seen[i].hyp, index |-> seen[i].index,
         action |-> seen[i].action, by |-> by]]

\* Faulty: a handler that raises ends the run.
AlertsForAborts(results, takes) ==
  LET hit == Kept(results, {i \in DOMAIN results : results[i].triggered})
      n == IF takes = Handlers \/ hit = <<>> THEN Len(hit) ELSE 1
  IN [i \in 1 .. n |->
        [hyp |-> hit[i].hyp, index |-> hit[i].index,
         severity |-> IF hit[i].action = "sunset" THEN "critical" ELSE "warning",
         delivered |-> takes # {}, taken |-> takes]]

\* generate_from_check for each triggered result, delivered to every handler;
\* "takes" are the handlers that do not raise.
AlertsFor(results, takes) ==
  LET hit == Kept(results, {i \in DOMAIN results : results[i].triggered})
  IN [i \in DOMAIN hit |->
        [hyp |-> hit[i].hyp, index |-> hit[i].index,
         severity |-> IF hit[i].action = "sunset" THEN "critical" ELSE "warning",
         delivered |-> takes # {}, taken |-> takes]]
-----------------------------------------------------------------------------
NotRegistered == [status |-> "NONE", enabled |-> FALSE]

MInit ==
  /\ metric = [m \in Metrics |-> NoValue]
  /\ store = <<>>
  /\ alerts = <<>>
  /\ runs = 0
  /\ factor = [f \in Factors |-> NotRegistered]
  /\ condemned = {}
  /\ checking = [c \in Checkers |-> NoValue]
  /\ regime = [state |-> NoValue, previous |-> NoValue]

\* A provider is registered, starts to fail or reports another value.
MetricMoves ==
  /\ \E m \in Metrics : \E v \in (Values \union {NoValue}) \ {metric[m]} :
       metric' = [metric EXCEPT ![m] = v]
  /\ UNCHANGED <<store, alerts, runs, factor, condemned, checking, regime>>

\* FalsifierScheduler.run_checks(): every ACTIVE hypothesis is checked, then
\* every triggered result becomes an alert.
RunChecks ==
  /\ runs < MaxRuns
  /\ runs' = runs + 1
  /\ LET results == Results(SetToSeq(Active))
     IN /\ store' = store \o Logged(results, "scheduler")
        /\ \E takes \in SUBSET Handlers :
             alerts' = alerts \o AlertsFor(results, takes)
  /\ UNCHANGED <<metric, factor, condemned, checking, regime>>

\* POST /hypotheses/{id}/falsifiers/check: any status, and no alerts.
CheckByRequest ==
  /\ runs < MaxRuns
  /\ runs' = runs + 1
  /\ \E h \in Watched : store' = store \o Logged(Results(<<h>>), "request")
  /\ UNCHANGED <<metric, alerts, factor, condemned, checking, regime>>
-----------------------------------------------------------------------------
Registered == {f \in Factors : factor[f] # NotRegistered}

RegisterFactor(f) ==
  /\ f \notin Registered
  /\ FailureRules[f] # <<>>
  /\ factor' = [factor EXCEPT ![f] = [status |-> "enabled", enabled |-> TRUE]]
  /\ condemned' = condemned \ {f}
  /\ UNCHANGED <<metric, store, alerts, runs, checking, regime>>

UnregisterFactor(f) ==
  /\ f \in Registered
  /\ factor' = [factor EXCEPT ![f] = NotRegistered]
  /\ condemned' = condemned \ {f}
  /\ UNCHANGED <<metric, store, alerts, runs, checking, regime>>

EnableFactor(f) ==
  /\ f \in Registered
  /\ factor' = [factor EXCEPT ![f] = [status |-> "enabled", enabled |-> TRUE]]
  /\ condemned' = condemned \ {f}
  /\ UNCHANGED <<metric, store, alerts, runs, checking, regime>>

Disabled == [status |-> "disabled", enabled |-> FALSE]

\* set_review leaves the enabled flag as it is.
Reviewed(entry) == [entry EXCEPT !.status = "review"]

SetAside(f) ==
  /\ f \in Registered
  /\ factor' \in {[factor EXCEPT ![f] = Disabled], [factor EXCEPT ![f] = Reviewed(@)]}
  /\ UNCHANGED <<metric, store, alerts, runs, condemned, checking, regime>>

\* check_factor_health takes the factor under the lock and lets go of it...
BeginCheck(c, f) ==
  /\ checking[c] = NoValue
  /\ f \in Registered
  /\ checking' = [checking EXCEPT ![c] = f]
  /\ UNCHANGED <<metric, store, alerts, runs, factor, condemned, regime>>

RuleFires(f, action) ==
  \E i \in DOMAIN FailureRules[f] :
    FailureRules[f][i].action = action /\ Triggered(FailureRules[f][i])

\* ...compares its rules with the metrics, and takes the lock again to act: a
\* rule that disables wins over one that asks for a review.  A factor gone by
\* then is a KeyError.
EndCheck(c) ==
  /\ checking[c] # NoValue
  /\ LET f == checking[c]
         act == f \in Registered
     IN /\ factor' = [factor EXCEPT ![f] =
             IF act /\ RuleFires(f, "disable") THEN Disabled
             ELSE IF act /\ RuleFires(f, "review") THEN Reviewed(@) ELSE @]
        /\ condemned' = IF act /\ (RuleFires(f, "disable") \/ RuleFires(f, "review"))
                        THEN condemned \union {f} ELSE condemned
  /\ checking' = [checking EXCEPT ![c] = NoValue]
  /\ UNCHANGED <<metric, store, alerts, runs, regime>>

\* Faulty: only the flag is looked at.
GetFlagged == {f \in Factors : factor[f].enabled}

\* get_enabled()
GetEnabled == {f \in Factors : factor[f].status = "enabled" /\ factor[f].enabled}
-----------------------------------------------------------------------------
\* _get_metric: a metric without a value counts as 0.
Level(m) == IF metric[m] = NoValue THEN 0 ELSE metric[m]

RegimeState ==
  LET v == Level("portfolio_volatility")
      d == Level("max_drawdown")
  IN CASE v >= Thresholds.volatility_stress \/ d >= Thresholds.drawdown_stress -> "STRESS"
       [] /\ v < Thresholds.volatility_stress /\ d < Thresholds.drawdown_stress
          /\ \/ v >= Thresholds.volatility_transition
             \/ d >= Thresholds.drawdown_transition -> "TRANSITION"
       [] OTHER -> "NORMAL"

\* RegimeDetector.detect()
Detected == [state |-> RegimeState, previous |-> regime.state]

Detect ==
  /\ regime' = Detected
  /\ UNCHANGED <<metric, store, alerts, runs, factor, condemned, checking>>

MNext ==
  \/ MetricMoves \/ RunChecks \/ CheckByRequest \/ Detect
  \/ \E f \in Factors : \/ RegisterFactor(f) \/ UnregisterFactor(f)
                        \/ EnableFactor(f) \/ SetAside(f)
                        \/ \E c \in Checkers : BeginCheck(c, f)
  \/ \E c \in Checkers : EndCheck(c)
=============================================================================
