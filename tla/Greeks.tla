------------------------------- MODULE Greeks --------------------------------
(***************************************************************************)
(* One monitoring cycle after another of GreeksMonitor.check: the Greeks   *)
(* of the positions from a primary and a fallback provider, their totals   *)
(* by account and strategy, threshold alerts with hysteresis and           *)
(* deduplication, rate-of-change alerts against an older snapshot, and the *)
(* repository that may fail; with them GreeksGate, which judges orders on  *)
(* the last calculation.                                                   *)
(*                                                                         *)
(* The metrics are independent and treated alike; there is one here.       *)
(* Thresholds are in hundredths of the limit.                              *)
(***************************************************************************)
EXTENDS Integers, Sequences, FiniteSets, FiniteSetsExt

CONSTANTS
  Positions, GStrategies,
  GStrategyOf,     \* [Positions -> GStrategies \cup {Unset}]
  Values,         \* dollar Greeks each position may have
  Limit,          \* limit of the metric
  Windows,        \* dedupe windows of WARN, CRIT and HARD, a sequence
  RateWindow,     \* rate_window_seconds
  HardLimit, MaxStale,   \* of the gate
  Impacts,        \* of an order
  MaxTime, MaxChecks, MaxOrders,   \* bounds
  Whole, Unset

ASSUME GreeksAssumption ==
  /\ Values \in [Positions -> SUBSET Int] /\ Limit \in Nat \ {0} /\ Windows \in Seq(Nat) /\ Len(Windows) = 3
  /\ GStrategyOf \in [Positions -> GStrategies \union {Unset}]
  /\ IsFiniteSet(Positions) /\ IsFiniteSet(GStrategies)
  /\ {Whole, Unset} \intersect GStrategies = {} /\ Unset \notin Int
ASSUME GateAssumption ==
  /\ Impacts \subseteq Int /\ {RateWindow, HardLimit, MaxStale} \subseteq Nat
  /\ Unset \notin {"DATA_UNAVAILABLE", "DATA_STALE"}
ASSUME GreeksBoundsAssumption == {MaxTime, MaxChecks, MaxOrders} \subseteq Nat

VARIABLES
  now,
  current,    \* _current_greeks: Unset or the index of the calculation in calcs
  calcs,      \* history: the calculations, with the time of the check,
              \* the snapshot it compared with and its alerts
  levels,     \* AlertEngine._states: level per scope
  sent,       \* last_alert_at per scope, or Unset
  snapshots,  \* snapshots of the account in the database: indices of calcs
  cycle,      \* where the cycle is, and the alerts it has to save
  saved,      \* alerts in the database
  dbSession,    \* whether the repository's dbSession is sound
  orders      \* orders under way or approved

alertEngine == <<levels, sent>>
greeksvars == <<now, current, calcs, alertEngine, snapshots, cycle, saved, dbSession, orders>>

Scopes == {Whole} \union GStrategies
AbsOf(x) == IF x < 0 THEN -x ELSE x

GreeksInit ==
  /\ now = 0 /\ current = Unset /\ calcs = <<>> /\ levels = [s \in Scopes |-> 0]
  /\ sent = [s \in Scopes |-> Unset] /\ snapshots = {} /\ saved = {} /\ dbSession = "sound"
  /\ cycle = [at |-> "idle", alerts |-> {}]
  /\ orders = <<>>

\* Time passes between cycles and while the previous snapshot is awaited.
Tick == now < MaxTime /\ now' = now + 1 /\ cycle.at \in {"idle", "read"}
        /\ UNCHANGED <<current, calcs, alertEngine, snapshots, cycle, saved, dbSession, orders>>

-----------------------------------------------------------------------------
(* Calculation and aggregation.                                            *)

\* GreeksCalculator.calculate: the fallback answers where the primary provider has
\* nothing; a position that neither knows is invalid.
Calculated(primary, fallback) ==
  [p \in Positions |-> IF primary[p] = Unset THEN fallback[p] ELSE primary[p]]

Valid(reading, p) == reading[p] # Unset

\* Faulty: positions without a strategy are in no total.
MembersAssigned(scope) ==
  {p \in Positions : GStrategyOf[p] # Unset /\ (scope = Whole \/ GStrategyOf[p] = scope)}

\* aggregate_by_strategy: Unset stands for "_unassigned_".
Members(scope) == IF scope = Whole THEN Positions ELSE {p \in Positions : GStrategyOf[p] = scope}

Total(reading, scope) ==
  MapThenSumSet(LAMBDA p : reading[p], {p \in Members(scope) : Valid(reading, p)})

-----------------------------------------------------------------------------
(* AlertEngine.check_alerts.                                               *)

Trigger == <<80, 100, 120>>   \* warn_pct, crit_pct, hard_pct
Recover == <<75, 90, 120>>    \* warn_recover_pct, crit_recover_pct; HARD has none

\* Faulty: no hysteresis.
BarOfTrigger(level, from) == Trigger[level]

\* What a value must reach to be at a level, coming from another.
Bar(level, from) == IF level <= from THEN Recover[level] ELSE Trigger[level]

Reaches(value, pct) == AbsOf(value) * 100 >= Limit * pct

\* _check_threshold.
NewLevel(value, from) == Max({0} \union {l \in 1 .. 3 : Reaches(value, Bar(l, from))})

\* can_send_alert.
CanSend(scope, level) == sent[scope] = Unset \/ now - sent[scope] >= Windows[level]

\* Faulty: the window is asked for of a rise as well.
ShouldAlertInWindow(scope, level) == level # 0 /\ level >= levels[scope] /\ CanSend(scope, level)

\* A rise is reported at once, a level that lasts again after its window.
ShouldAlert(scope, level) ==
  \/ level > levels[scope]
  \/ level = levels[scope] /\ level # 0 /\ CanSend(scope, level)

\* Faulty: a repeated alert does not start a new window.
NewSentOld(scope, level) ==
  IF level # levels[scope] THEN IF ShouldAlert(scope, level) THEN now ELSE Unset
  ELSE IF sent[scope] = Unset /\ ShouldAlert(scope, level) THEN now ELSE sent[scope]

\* Faulty: the last alert of the level before counts.
NewSentKept(scope, level) == IF ShouldAlert(scope, level) THEN now ELSE sent[scope]

\* A change of level starts over; otherwise the last alert counts.
NewSent(scope, level) ==
  IF ShouldAlert(scope, level) THEN now
  ELSE IF level # levels[scope] THEN Unset ELSE sent[scope]

\* _check_rate_of_change: by more than a fifth of the limit.
Jumped(value, before) == AbsOf(value - before) * 100 > Limit * 20

CheckAlerts(reading, prev) ==
  LET level == [s \in Scopes |-> NewLevel(Total(reading, s), levels[s])]
      threshold == {[scope |-> s, kind |-> "threshold", level |-> level[s]] :
                      s \in {r \in Scopes : ShouldAlert(r, level[r])}}
      roc == IF prev # Unset /\ Jumped(Total(reading, Whole), Total(calcs[prev].reading, Whole))
               THEN {[scope |-> Whole, kind |-> "roc", level |-> 1]} ELSE {}
  IN /\ levels' = level
     /\ sent' = [s \in Scopes |-> NewSent(s, level[s])]
     /\ cycle' = [at |-> "snapshot", alerts |-> threshold \union roc]
     /\ calcs' = [calcs EXCEPT ![current] = [@ EXCEPT !.checked = now, !.prev = prev, !.alerts = threshold \union roc]]

-----------------------------------------------------------------------------
(* GreeksMonitor.check.                                                    *)

\* Steps 1 and 2; the gate sees the result from here on.
Calculate(reading) ==
  /\ cycle.at = "idle" /\ Len(calcs) < MaxChecks
  /\ calcs' = Append(calcs, [at |-> now, reading |-> reading, checked |-> Unset, prev |-> Unset, alerts |-> {}])
  /\ current' = Len(calcs) + 1
  /\ cycle' = [cycle EXCEPT !.at = "read"]
  /\ UNCHANGED <<now, alertEngine, snapshots, saved, dbSession, orders>>

\* Faulty: the newest snapshot, whatever its age.
PreviousAny == IF snapshots = {} THEN Unset ELSE Max(snapshots)

\* get_prev_snapshot: the newest one that is older than the window.
Previous ==
  LET old == {i \in snapshots : calcs[i].at < now - RateWindow} IN
  IF old = {} THEN Unset ELSE Max(old)

\* Steps 3 and 4: once the snapshot is read there is no await before the alerts.
Check ==
  /\ cycle.at = "read" /\ dbSession = "sound" /\ CheckAlerts(calcs[current].reading, Previous)
  /\ UNCHANGED <<now, current, snapshots, saved, dbSession, orders>>

\* save_snapshot, of the account and of each strategy.
SaveSnapshots ==
  /\ cycle.at = "snapshot" /\ dbSession = "sound"
  /\ snapshots' = snapshots \union {current}
  /\ cycle' = [cycle EXCEPT !.at = IF cycle.alerts = {} THEN "idle" ELSE "save"]
  /\ UNCHANGED <<now, current, calcs, alertEngine, saved, dbSession, orders>>

\* save_alert: each is committed by itself.
SaveAlert(alert) ==
  /\ cycle.at = "save" /\ dbSession = "sound" /\ alert \in cycle.alerts
  /\ saved' = saved \union {alert}
  /\ cycle' = [cycle EXCEPT !.alerts = @ \ {alert}, !.at = IF cycle.alerts = {alert} THEN "idle" ELSE @]
  /\ UNCHANGED <<now, current, calcs, alertEngine, snapshots, dbSession, orders>>

\* A statement raises and so does check; nobody rolls the dbSession back, and every
\* later statement on it raises too.
DatabaseFails ==
  /\ cycle.at \in {"read", "snapshot", "save"}
  /\ dbSession' = "failed" /\ cycle' = [at |-> "idle", alerts |-> {}]
  /\ UNCHANGED <<now, current, calcs, alertEngine, snapshots, saved, orders>>

-----------------------------------------------------------------------------
(* GreeksGate.check_order, fail mode "closed".                             *)

\* Faulty: the age of the calculation is not looked at.
RefusalUnlessKnown == IF current = Unset THEN "DATA_UNAVAILABLE" ELSE Unset

\* Greeks that are missing or old block an order.
Refusal ==
  IF current = Unset THEN "DATA_UNAVAILABLE"
  ELSE IF now - calcs[current].at > MaxStale THEN "DATA_STALE"
  ELSE Unset

\* The Greeks are read before the calculator is awaited; an order that is refused leaves
\* no trace here.
StartOrder(impact) ==
  /\ Refusal = Unset /\ Len(orders) < MaxOrders
  /\ orders' = Append(orders, [impact |-> impact, on |-> current, from |-> now, approved |-> FALSE])
  /\ UNCHANGED <<now, current, calcs, alertEngine, snapshots, cycle, saved, dbSession>>

\* Faulty: the sign of the exposure counts.
BreachesSigned(value) == value > HardLimit

Breaches(value) == AbsOf(value) > HardLimit

Judge(i) ==
  /\ i \in DOMAIN orders /\ ~orders[i].approved
  /\ orders' =
       IF Breaches(Total(calcs[orders[i].on].reading, Whole) + orders[i].impact)
         THEN SubSeq(orders, 1, i - 1) \o SubSeq(orders, i + 1, Len(orders))
         ELSE [orders EXCEPT ![i] = [@ EXCEPT !.approved = TRUE]]
  /\ UNCHANGED <<now, current, calcs, alertEngine, snapshots, cycle, saved, dbSession>>

Readings == {r \in [Positions -> UNION {Values[p] : p \in Positions} \union {Unset}] :
               \A p \in Positions : r[p] \in Values[p] \union {Unset}}

-----------------------------------------------------------------------------

GreeksNext ==
  \/ Tick
  \/ \E primary, fallback \in Readings :
       /\ \A p \in Positions : primary[p] # Unset => fallback[p] = Unset
       /\ Calculate(Calculated(primary, fallback))
  \/ Check \/ SaveSnapshots \/ DatabaseFails
  \/ \E alert \in cycle.alerts : SaveAlert(alert)
  \/ \E impact \in Impacts : StartOrder(impact)
  \/ \E i \in DOMAIN orders : Judge(i)

GreeksSpec == GreeksInit /\ [][GreeksNext]_greeksvars

-----------------------------------------------------------------------------
(* Properties.                                                             *)

\* Every variable has its type; a last alert is remembered only above normal.
GreeksTypeOK ==
  /\ now \in 0 .. MaxTime /\ Len(calcs) <= MaxChecks /\ current \in 1 .. Len(calcs) \union {Unset}
  /\ levels \in [Scopes -> 0 .. 3] /\ sent \in [Scopes -> 0 .. now \union {Unset}]
  /\ \A s \in Scopes : levels[s] = 0 => sent[s] = Unset
  /\ snapshots \subseteq DOMAIN calcs /\ dbSession \in {"sound", "failed"}
  /\ cycle.at \in {"idle", "read", "snapshot", "save"}

\* The account's exposure is that of the strategies and of the positions without one,
\* so no position is lost or counted twice on the way to the alerts.
AccountIsSum ==
  \A i \in DOMAIN calcs :
    LET r == calcs[i].reading
        loose == {p \in Positions : GStrategyOf[p] = Unset /\ Valid(r, p)}
    IN Total(r, Whole) =
         MapThenSumSet(LAMBDA s : Total(r, s), GStrategies) + MapThenSumSet(LAMBDA p : r[p], loose)

AlertsOf(i, s) == {a.level : a \in {b \in calcs[i].alerts : b.scope = s /\ b.kind = "threshold"}}

\* No flapping: a level that was reported is reported again inside its window only after
\* the exposure has fallen below the recovery bound of that level, or a higher level was
\* reported in between.
NoFlapping ==
  \A i, j \in DOMAIN calcs, s \in Scopes :
    \A l \in AlertsOf(i, s) \intersect AlertsOf(j, s) :
      i < j /\ calcs[j].checked - calcs[i].checked < Windows[l] =>
        \E k \in i + 1 .. j :
          \/ ~Reaches(Total(calcs[k].reading, s), Recover[l])
          \/ \E higher \in AlertsOf(k, s) : higher > l

\* No alarm is lost between the alertEngine's memory and the database while the database
\* answers: between cycles, a scope above normal has a saved alert of at least its level.
AlarmIsSaved ==
  dbSession = "sound" /\ cycle.at = "idle" =>
    \A s \in Scopes : levels[s] > 0 =>
      \E a \in saved : a.scope = s /\ a.kind = "threshold" /\ a.level >= levels[s]

\* A rate of change is measured over at least its window: never against the
\* snapshot of the same cycle or of one just before.
RateOverWindow ==
  \A i \in DOMAIN calcs : calcs[i].prev # Unset => calcs[calcs[i].prev].at + RateWindow < calcs[i].checked

\* An order is approved only on the last calculation there was when it was checked,
\* fresh at that moment, and only if it keeps the exposure within the hard limit.
ApprovedOnCurrent ==
  \A i \in DOMAIN orders : orders[i].approved =>
    LET used == orders[i].on IN
    /\ used # Unset /\ calcs[used].at + MaxStale >= orders[i].from
    /\ \A k \in DOMAIN calcs : calcs[k].at < orders[i].from => k <= used
    /\ Total(calcs[used].reading, Whole) + orders[i].impact \in -HardLimit .. HardLimit

\* The design's fail-closed rule: an order is approved only when the Greeks of every
\* position were known.  The code counts a position without Greeks as nothing.
ApprovedOnAll ==
  \A i \in DOMAIN orders : orders[i].approved =>
    \A p \in Positions : Valid(calcs[orders[i].on].reading, p)

\* The monitor and its gate can be relied on over cycles that fail, are slow or
\* overlap an order: totals agree, alarms neither flap nor get lost, rates span
\* their window, and approvals rest on the newest calculation (monitor.py, greeks_gate.py).
GreeksSound ==
  /\ GreeksTypeOK /\ AccountIsSum
  /\ NoFlapping /\ AlarmIsSaved /\ RateOverWindow
  /\ ApprovedOnCurrent
=============================================================================
