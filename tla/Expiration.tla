----------------------------- MODULE Expiration ------------------------------
(***************************************************************************)
(* Option expirations, clients of module Alerts: instances of the          *)
(* ExpirationScheduler whose ExpirationChecker persists an alert for every  *)
(* position and threshold, serialised by an advisory lock or not, and the  *)
(* daily ExpirationWorker, which emits one alert per position.             *)
(***************************************************************************)
EXTENDS Alerts

CONSTANTS
  OptionPositions,
  Thresholds,   \* days of EXPIRATION_THRESHOLDS
  WarningDays,  \* warning_days of the ExpirationWorker
  FirstDay,     \* days to expiry on the first day
  Job           \* the emitter that is the ExpirationWorker

OptionKey(pos, days) == [by |-> "checker", position |-> pos, threshold |-> days]
\* The worker's alerts have no account, and always the same threshold.
WorkerKey(pos) == [by |-> "worker", position |-> pos, threshold |-> WarningDays]

ASSUME OptionKeysAssumption ==
  /\ {OptionKey(pos, days) : pos \in OptionPositions, days \in Thresholds} \subseteq Keys
  /\ {WorkerKey(pos) : pos \in OptionPositions} \subseteq Keys
ASSUME DaysAssumption == Thresholds \subseteq Nat /\ {WarningDays, FirstDay} \subseteq Nat
ASSUME JobAssumption == Job \in Emitters

VARIABLES
  dte,      \* days to expiry of each position
  locking,  \* use_distributed_lock, for the deployment
  lock,     \* how often the connection of each instance holds the advisory lock
  check,    \* per instance: where its check is, the pairs left, its counts
  job,      \* positions the ExpirationWorker still has to emit, with their days
  leaked    \* instances whose release of the lock raised

expiration == <<dte, locking, lock, check, job, leaked>>
allVars == <<alertvars, expiration>>

\* days: the days to expiry the check goes by; todo: alerts left; the stats.
NoCheck == [at |-> "idle", days |-> Absent, todo |-> {}, attempted |-> 0, created |-> 0,
            deduplicated |-> 0, errors |-> 0]

ExpirationInit ==
  /\ AlertsInit
  /\ dte = [pos \in OptionPositions |-> FirstDay] /\ locking \in BOOLEAN
  /\ lock = [c \in Checkers |-> 0] /\ check = [c \in Checkers |-> NoCheck]
  /\ job = {} /\ leaked = {}

\* Faulty: only the threshold of the day.
ApplicableToday(days) == {t \in Thresholds : t = days}

\* get_applicable_thresholds: all that are not below the days left, so that a
\* check that was missed is made good.
Applicable(days) == {t \in Thresholds : t >= days}

SeverityOf(days) == IF days <= 1 THEN 1 ELSE IF days <= 3 THEN 2 ELSE 3

\* Expired positions are skipped.
Due == UNION {{OptionKey(pos, t) : t \in Applicable(dte[pos])} :
                pos \in {q \in OptionPositions : dte[q] >= 0}}

-----------------------------------------------------------------------------

\* Faulty: the lock is not looked at.
FreeAlways(c) == TRUE

Free(c) == \A other \in Checkers \ {c} : lock[other] = 0

\* _try_acquire_lock; a lock the session holds already is taken again.
StartCheck(c) ==
  /\ check[c].at = "idle"
  /\ Call
  /\ IF locking /\ ~Free(c)
       THEN UNCHANGED <<lock, check>>
       ELSE /\ lock' = IF locking THEN [lock EXCEPT ![c] = @ + 1] ELSE lock
            /\ check' = [check EXCEPT ![c] = [NoCheck EXCEPT !.at = "read"]]
  /\ UNCHANGED <<database, queue, proc, failures, history, dte, locking, job, leaked>>

\* get_positions, and the thresholds of each relative to today.
ReadPositions(c) ==
  /\ check[c].at = "read"
  /\ check' = [check EXCEPT ![c].at = "scan", ![c].days = dte, ![c].todo = Due]
  /\ UNCHANGED <<alertvars, dte, locking, lock, job, leaked>>

CheckOne(c) ==
  \E k \in check[c].todo :
    /\ check[c].at = "scan"
    /\ Begin(c, [key |-> k, sev |-> SeverityOf(k.threshold)], FALSE)
    /\ check' = [check EXCEPT ![c].todo = @ \ {k}, ![c].attempted = @ + 1]
    /\ UNCHANGED <<database, queue, calls, failures, history, dte, locking, lock, job,
                   leaked>>

Count(c) ==
  LET result == proc[c].result IN
  /\ At(c, {"idle"}) /\ result # "none"
  /\ Set(c, AtRest)
  /\ check' = CASE result = "new"       -> [check EXCEPT ![c].created = @ + 1]
                [] result = "duplicate" -> [check EXCEPT ![c].deduplicated = @ + 1]
                [] result = "raised"    -> [check EXCEPT ![c].errors = @ + 1]
  /\ UNCHANGED <<database, queue, calls, failures, history, dte, locking, lock, job,
                 leaked>>

\* Faulty: the lock is not released.
ReleaseForgotten(c) ==
  /\ check[c].at = "scan" /\ check[c].todo = {} /\ At(c, {"idle"}) /\ proc[c].result = "none"
  /\ check' = [check EXCEPT ![c].at = "idle"]
  /\ UNCHANGED <<alertvars, dte, locking, lock, job, leaked>>

\* The check is over, or get_positions raised: the lock is released, unless that
\* statement raises too.
Release(c) ==
  /\ \/ /\ check[c].at = "scan" /\ check[c].todo = {}
        /\ At(c, {"idle"}) /\ proc[c].result = "none"
     \/ check[c].at = "read" /\ failures < MaxFailures
  /\ check' = [check EXCEPT ![c].at = "idle"]
  /\ \/ /\ lock' = [lock EXCEPT ![c] = IF locking THEN @ - 1 ELSE @]
        /\ UNCHANGED leaked
     \/ locking /\ leaked' = leaked \union {c} /\ failures < MaxFailures /\ UNCHANGED lock
  /\ failures' = IF check[c].at = "read" \/ leaked' # leaked THEN failures + 1 ELSE failures
  /\ UNCHANGED <<database, queue, proc, calls, history, dte, locking, job>>

\* An instance dies: its connections close, which frees the lock.
Crash(c) ==
  /\ check[c].at # "idle"
  /\ check' = [check EXCEPT ![c] = NoCheck]
  /\ lock' = [lock EXCEPT ![c] = 0] /\ leaked' = leaked \ {c}
  /\ Set(c, AtRest) /\ aborted' = aborted \ {c}
  /\ UNCHANGED <<rows, attempts, queue, calls, failures, history, dte, locking, job>>

-----------------------------------------------------------------------------

\* The daily job lists the contracts that expire within WarningDays.
StartJob ==
  /\ job = {}
  /\ Call
  /\ job' = {[position |-> pos, days |-> dte[pos]] :
               pos \in {q \in OptionPositions : dte[q] \in 0 .. WarningDays}}
  /\ UNCHANGED <<database, queue, proc, failures, history, dte, locking, lock, check, leaked>>

JobEmits ==
  \E item \in job :
    /\ Begin(Job, [key |-> WorkerKey(item.position), sev |-> SeverityOf(item.days)], TRUE)
    /\ job' = job \ {item}
    /\ UNCHANGED <<database, queue, calls, failures, history, dte, locking, lock, check,
                   leaked>>

NextDay ==
  /\ \E pos \in OptionPositions : dte[pos] >= 0
  /\ dte' = [pos \in OptionPositions |-> dte[pos] - 1]
  /\ UNCHANGED <<alertvars, locking, lock, check, job, leaked>>

Checking(c) == ReadPositions(c) \/ CheckOne(c) \/ Count(c) \/ Release(c)

\* What the event loop has begun to run goes on.
Running ==
  \/ \E p \in Processes : Proceed(p) /\ UNCHANGED expiration
  \/ \E c \in Checkers : Checking(c)
  \/ JobEmits

ExpirationNext ==
  \/ \E c \in Emitters, alert \in Events : Emit(c, alert) /\ UNCHANGED expiration
  \/ \E c \in Checkers : StartCheck(c) \/ Crash(c)
  \/ StartJob \/ NextDay
  \/ Running

ExpirationSpec == ExpirationInit /\ [][ExpirationNext]_allVars

-----------------------------------------------------------------------------

ExpirationTypeOK ==
  /\ AlertsTypeOK
  /\ dte \in [OptionPositions -> -1 .. FirstDay] /\ locking \in BOOLEAN
  /\ lock \in [Checkers -> Nat] /\ leaked \subseteq Checkers
  /\ job \subseteq [position : OptionPositions, days : 0 .. WarningDays]
  /\ \A c \in Checkers :
       /\ check[c].at \in {"idle", "read", "scan"} /\ check[c].todo \subseteq Keys
       /\ check[c].days \in {Absent} \union [OptionPositions -> -1 .. FirstDay]
       /\ check[c].attempted = check[c].created + check[c].deduplicated + check[c].errors
            + IF At(c, {"idle"}) /\ proc[c].result = "none" THEN 0 ELSE 1

\* At most one instance checks when the deployment uses the lock, and a lock that
\* is held belongs to it or to one that could not release it.
LockExcludes ==
  locking =>
    /\ \A c, d \in Checkers : check[c].at # "idle" /\ check[d].at # "idle" => c = d
    /\ \A c \in Checkers : lock[c] > 0 => check[c].at # "idle" \/ c \in leaked

\* A check that ends without an error leaves an alert for every threshold that
\* had come, its own, another instance's or an earlier day's.
CatchUp ==
  \A c \in Checkers :
    check[c].at = "idle" /\ check[c].days # Absent /\ check[c].errors = 0 =>
      \A pos \in OptionPositions, t \in Thresholds :
        check[c].days[pos] \in 0 .. t => rows[OptionKey(pos, t)] # Absent

\* As long as an alert given to the hub has no outcome, an instance holds the lock
\* without having failed to release it, or the daily job has positions left, something
\* can go on: nobody waits for a statement, a lock or a place in the queue.
QuietWhenSettled ==
  \/ \E k \in Keys : outcome[k] = "pending"
  \/ \E c \in Checkers : lock[c] > 0 /\ c \notin leaked
  \/ job # {}
  => ENABLED Running

\* The ExpirationWorker's docstring: an alert for the last day is critical.
LastDayIsCritical ==
  \A pos \in OptionPositions :
    rows[WorkerKey(pos)] # Absent /\ duplicates[WorkerKey(pos)] > 0 /\ dte[pos] < 0
      => rows[WorkerKey(pos)].sev = 1

\* Checks of expiring options exclude each other, catch up on thresholds that came
\* while nobody looked, and leave nothing waiting behind them (checker.py, scheduler.py).
OptionsSound == ExpirationTypeOK /\ LockExcludes /\ CatchUp /\ QuietWhenSettled
=============================================================================
