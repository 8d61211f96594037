------------------------------- MODULE Alerts --------------------------------
(***************************************************************************)
(* Alerts: AlertService.emit persists an alert once per dedupe key and     *)
(* hands it to the NotificationHub, whose workers deliver it to each       *)
(* destination with retries; a critical alert that finds the queue full is *)
(* delivered by its emitter.                                               *)
(*                                                                         *)
(* A process is a caller of the repository or a worker of the hub.  Every  *)
(* statement it sends may raise.  Emitters and workers share one database  *)
(* session; other callers have their own.                                  *)
(***************************************************************************)
EXTENDS Integers, Sequences, FiniteSets

CONSTANTS
  Keys,          \* dedupe keys
  FailedKey,     \* the key of ALERT_DELIVERY_FAILED in the present window
  Events,        \* alerts business code emits
  RecoveryKeys,  \* keys of recovery alerts
  Emitters,      \* callers of AlertService.emit
  Checkers,      \* callers of persist_alert with a session of their own
  Workers,       \* workers of the hub
  QueueSize,     \* max_queue_size
  MaxRetries,    \* max_retries
  MaxCalls,      \* bound: alerts emitted, and checks begun by clients
  MaxFailures,   \* bound: statements that raise
  Absent

Callers == Emitters \union Checkers
Processes == Callers \union Workers
Alert == [key : Keys, sev : 1 .. 3]
Destinations == {"email", "webhook"}

\* The session of a process.
SessionOf(p) == IF p \in Checkers THEN p ELSE "service"
Sessions == Checkers \union {"service"}

ASSUME KeysAssumption ==
  FailedKey \in Keys /\ Absent \notin Keys /\ Events \subseteq Alert /\ RecoveryKeys \subseteq Keys
\* Absent stands for no alert, no row and no destination, and is none of them.
ASSUME AbsentAssumption ==
  Absent \notin Alert \union [sev : 1 .. 3, suppressed : Nat] \union Destinations
ASSUME BoundsAssumption ==
  {QueueSize, MaxRetries} \subseteq Nat \ {0} /\ {MaxCalls, MaxFailures} \subseteq Nat
ASSUME ProcessesAssumption ==
  /\ Emitters \intersect Checkers = {} /\ Callers \intersect Workers = {}
  /\ "service" \notin Checkers

VARIABLES
  rows,        \* alerts: per key Absent, or the row's severity and suppressed_count
  attempts,    \* alert_deliveries: per key and destination, the attempts' statuses
  queue,       \* NotificationHub._queue
  proc,        \* what each process is doing
  aborted,     \* sessions whose transaction an error has aborted: nothing rolls back
  calls, failures,   \* bounds
  handed,      \* per key, how often an alert was given to the hub
  duplicates,  \* per key, emissions that found the row
  accepted,    \* per key and destination, sends the channel accepted
  unrecorded,  \* those of them whose success could not be recorded
  outcome      \* per key, what became of the alert given to the hub

database == <<rows, attempts, aborted>>
history == <<handed, duplicates, accepted, unrecorded, outcome>>
alertvars == <<database, queue, proc, calls, failures, history>>

\* alert: what the process is about; row: the key it is persisting; left: the
\* destinations not yet dealt with, the first being tried; attempt: its number.
AtRest == [at |-> "idle", alert |-> Absent, send |-> FALSE, row |-> Absent, left |-> <<>>,
         attempt |-> 1, result |-> "none"]

AlertsInit ==
  /\ rows = [k \in Keys |-> Absent]
  /\ attempts = [k \in Keys |-> [d \in Destinations |-> <<>>]]
  /\ queue = <<>> /\ proc = [p \in Processes |-> AtRest]
  /\ aborted = {} /\ calls = 0 /\ failures = 0
  /\ handed = [k \in Keys |-> 0] /\ duplicates = [k \in Keys |-> 0]
  /\ accepted = [k \in Keys |-> [d \in Destinations |-> 0]]
  /\ unrecorded = [k \in Keys |-> [d \in Destinations |-> 0]]
  /\ outcome = [k \in Keys |-> "none"]

\* RoutingConfig: email and webhook, webhook, nothing.
DestinationsFor(alert) ==
  CASE alert.sev = 1 -> <<"email", "webhook">>
    [] alert.sev = 2 -> <<"webhook">>
    [] alert.sev = 3 -> <<>>

At(p, places) == proc[p].at \in places
Set(p, r) == proc' = [proc EXCEPT ![p] = r]
Key(p) == proc[p].alert.key
Destination(p) == Head(proc[p].left)

\* A statement reaches the database when the session's transaction is sound.
Sound(p) == SessionOf(p) \notin aborted
\* A statement of p raises: on an aborted transaction always; otherwise for lack
\* of a connection, or for an error that aborts the transaction.
Raises(p) ==
  \/ ~Sound(p) /\ UNCHANGED <<aborted, failures>>
  \/ /\ Sound(p) /\ failures < MaxFailures
     /\ failures' = failures + 1
     /\ aborted' \in {aborted, aborted \union {SessionOf(p)}}

-----------------------------------------------------------------------------
(* AlertRepository.persist_alert and AlertService.emit.                    *)

\* persist_alert of an alert by a caller; send: what emit() does next.
Begin(c, alert, send) ==
  /\ At(c, {"idle"}) /\ proc[c].result = "none"
  /\ Set(c, [AtRest EXCEPT !.at = "select", !.alert = alert, !.send = send, !.row = alert.key])

Call == calls < MaxCalls /\ calls' = calls + 1

Emit(c, alert) ==
  /\ Call
  /\ Begin(c, alert, TRUE)
  /\ UNCHANGED <<database, queue, failures, history>>

Select(p) ==
  /\ At(p, {"select"}) /\ Sound(p)
  /\ Set(p, [proc[p] EXCEPT !.at = IF rows[proc[p].row] = Absent THEN "insert" ELSE "update"])
  /\ UNCHANGED <<database, queue, calls, failures, history>>

\* What follows the persisting: emit() queues what is new and what is a recovery;
\* a worker that has recorded a failure turns to the next destination.
AfterPersist(p, result) ==
  IF p \in Workers THEN [proc[p] EXCEPT !.at = "next", !.row = Absent]
  ELSE IF proc[p].send /\ (result = "new" \/ Key(p) \in RecoveryKeys)
    THEN [proc[p] EXCEPT !.at = "enqueue"]
  ELSE [AtRest EXCEPT !.result = IF proc[p].send THEN "none" ELSE result]

\* Faulty: no unique index; the row is written over.
InsertAnyway(p) ==
  /\ At(p, {"insert"}) /\ Sound(p)
  /\ rows' = [rows EXCEPT ![proc[p].row] = [sev |-> 1, suppressed |-> 0]]
  /\ Set(p, AfterPersist(p, "new"))
  /\ UNCHANGED <<attempts, aborted, queue, calls, failures, history>>

Insert(p) ==
  LET k == proc[p].row
      sev == IF p \in Workers THEN 1 ELSE proc[p].alert.sev IN
  /\ At(p, {"insert"}) /\ Sound(p) /\ rows[k] = Absent
  /\ rows' = [rows EXCEPT ![k] = [sev |-> sev, suppressed |-> 0]]
  /\ Set(p, AfterPersist(p, "new"))
  /\ UNCHANGED <<attempts, aborted, queue, calls, failures, history>>

\* Faulty: the count is written from what was read.
UpdateFromRead(p) ==
  LET k == proc[p].row IN
  /\ At(p, {"update"}) /\ Sound(p)
  /\ rows' = [rows EXCEPT ![k].suppressed = 1]
  /\ duplicates' = [duplicates EXCEPT ![k] = @ + 1]
  /\ Set(p, AfterPersist(p, "duplicate"))
  /\ UNCHANGED <<attempts, aborted, queue, calls, failures, handed, accepted, unrecorded,
                 outcome>>

UpdateRow(p) ==
  LET k == proc[p].row IN
  /\ At(p, {"update"}) /\ Sound(p)
  /\ rows' = [rows EXCEPT ![k].suppressed = @ + 1]
  /\ duplicates' = [duplicates EXCEPT ![k] = @ + 1]
  /\ Set(p, AfterPersist(p, "duplicate"))
  /\ UNCHANGED <<attempts, aborted, queue, calls, failures, handed, accepted, unrecorded,
                 outcome>>

\* What an exception makes of p: a worker leaves its alert, emit() returns False,
\* a checker counts an error.
Thrown(p) ==
  IF p \in Checkers THEN [AtRest EXCEPT !.result = "raised"] ELSE AtRest

Abandon(p) ==
  outcome' = IF p \in Workers THEN [outcome EXCEPT ![Key(p)] = "abandoned"] ELSE outcome

PersistRaises(p) ==
  /\ At(p, {"select", "insert", "update"})
  /\ Raises(p)
  /\ Set(p, Thrown(p)) /\ Abandon(p)
  /\ UNCHANGED <<rows, attempts, queue, calls, handed, duplicates, accepted, unrecorded>>

\* Another session's or task's row is there first: the unique index refuses.
InsertRefused(p) ==
  /\ At(p, {"insert"}) /\ Sound(p) /\ rows[proc[p].row] # Absent
  /\ aborted' = aborted \union {SessionOf(p)}
  /\ Set(p, Thrown(p)) /\ Abandon(p)
  /\ UNCHANGED <<rows, attempts, queue, calls, failures, handed, duplicates, accepted,
                 unrecorded>>

\* Faulty: a full queue drops whatever the severity.
EnqueueDropping(c) ==
  LET alert == proc[c].alert
      room == Len(queue) < QueueSize IN
  /\ At(c, {"enqueue"})
  /\ queue' = IF room THEN Append(queue, alert) ELSE queue
  /\ handed' = [handed EXCEPT ![alert.key] = @ + 1]
  /\ outcome' = [outcome EXCEPT ![alert.key] = IF room THEN "pending" ELSE "dropped"]
  /\ Set(c, AtRest)
  /\ UNCHANGED <<database, calls, failures, duplicates, accepted, unrecorded>>

\* enqueue: put_nowait, and what a full queue does by severity.
Enqueue(c) ==
  LET alert == proc[c].alert
      give(result) ==
        /\ handed' = [handed EXCEPT ![alert.key] = @ + 1]
        /\ outcome' = [outcome EXCEPT ![alert.key] = result]
  IN
  /\ At(c, {"enqueue"})
  /\ IF Len(queue) < QueueSize
       THEN queue' = Append(queue, alert) /\ Set(c, AtRest) /\ give("pending")
     ELSE IF alert.sev = 1
       THEN /\ Set(c, [proc[c] EXCEPT !.at = "record", !.left = DestinationsFor(alert)])
            /\ give("pending") /\ UNCHANGED queue
     ELSE Set(c, AtRest) /\ give("dropped") /\ UNCHANGED queue
  /\ UNCHANGED <<database, calls, failures, duplicates, accepted, unrecorded>>

-----------------------------------------------------------------------------
(* NotificationHub: a delivery, by a worker or by the fallback.            *)

\* _process_one: get, and the destinations of the alert.
Take(w) ==
  /\ At(w, {"idle"}) /\ queue # <<>>
  /\ queue' = Tail(queue)
  /\ Set(w, [AtRest EXCEPT !.at = "next", !.alert = Head(queue),
             !.left = <<Absent>> \o DestinationsFor(Head(queue))])
  /\ UNCHANGED <<database, calls, failures, history>>

\* The destination being tried is settled: the next, or the end of the alert.
NextDestination(p) ==
  /\ At(p, {"next"})
  /\ IF Len(proc[p].left) > 1
       THEN /\ Set(p, [proc[p] EXCEPT !.at = "record", !.left = Tail(@), !.attempt = 1])
            /\ UNCHANGED outcome
       ELSE /\ Set(p, AtRest)
            /\ outcome' = [outcome EXCEPT ![Key(p)] = "done"]
  /\ UNCHANGED <<database, queue, calls, failures, handed, duplicates, accepted, unrecorded>>

Record(p) ==
  /\ At(p, {"record"}) /\ Sound(p)
  /\ attempts' = [attempts EXCEPT ![Key(p)][Destination(p)] = Append(@, "pending")]
  /\ Set(p, [proc[p] EXCEPT !.at = "send"])
  /\ UNCHANGED <<rows, aborted, queue, calls, failures, history>>

\* Faulty: a refusal that does not raise is taken for a success.
SendAssumed(p) ==
  /\ At(p, {"send"})
  /\ Set(p, [proc[p] EXCEPT !.at = "sent"])
  /\ UNCHANGED <<database, queue, calls, failures, history>>

\* channel.send: accepted, or refused or raised.
Send(p) ==
  /\ At(p, {"send"})
  /\ \/ /\ accepted' = [accepted EXCEPT ![Key(p)][Destination(p)] = @ + 1]
        /\ Set(p, [proc[p] EXCEPT !.at = "sent"])
     \/ /\ Set(p, [proc[p] EXCEPT !.at = "failed"]) /\ UNCHANGED accepted
  /\ UNCHANGED <<database, queue, calls, failures, handed, duplicates, unrecorded, outcome>>

\* The status of the attempt that was recorded last.
WithStatus(p, status) ==
  attempts' = [attempts EXCEPT ![Key(p)][Destination(p)][Len(attempts[Key(p)][Destination(p)])]
                 = status]

\* Faulty: one attempt too many.
RetryOnceMore(p) ==
  IF p \in Workers /\ proc[p].attempt <= MaxRetries
    THEN [proc[p] EXCEPT !.at = "record", !.attempt = @ + 1]
    ELSE [proc[p] EXCEPT !.at = "next"]

\* Faulty: no failure alert.
RetryUnreported(p) ==
  IF p \in Workers /\ proc[p].attempt < MaxRetries
    THEN [proc[p] EXCEPT !.at = "record", !.attempt = @ + 1]
    ELSE [proc[p] EXCEPT !.at = "next"]

\* After a failed attempt: the fallback tries once; a worker sleeps and tries
\* again, and at the end persists a failure alert for a critical one.
Retry(p) ==
  IF p \in Workers /\ proc[p].attempt < MaxRetries
    THEN [proc[p] EXCEPT !.at = "record", !.attempt = proc[p].attempt + 1]
  ELSE IF p \in Workers /\ proc[p].alert.sev = 1 /\ Key(p) # FailedKey
    THEN [proc[p] EXCEPT !.at = "select", !.row = FailedKey]
  ELSE [proc[p] EXCEPT !.at = "next"]

\* Faulty: the loop goes on after a success.
RecordSentAndRetry(p) ==
  /\ At(p, {"sent"}) /\ Sound(p)
  /\ WithStatus(p, "sent")
  /\ Set(p, Retry(p))
  /\ UNCHANGED <<rows, aborted, queue, calls, failures, history>>

RecordSent(p) ==
  /\ At(p, {"sent"}) /\ Sound(p)
  /\ WithStatus(p, "sent")
  /\ Set(p, [proc[p] EXCEPT !.at = "next"])
  /\ UNCHANGED <<rows, aborted, queue, calls, failures, history>>

RecordFailed(p) ==
  /\ At(p, {"failed", "unsure"}) /\ Sound(p)
  /\ WithStatus(p, "failed")
  /\ Set(p, Retry(p))
  /\ UNCHANGED <<rows, aborted, queue, calls, failures, history>>

\* An attempt's statement raises.  In the fallback each destination has its own
\* handler.  A worker's handler covers the send and the status that follows it,
\* and records a failure instead; an exception elsewhere ends the alert.
DeliveryRaises(p) ==
  /\ At(p, {"record", "sent", "failed", "unsure"})
  /\ Raises(p)
  /\ IF p \in Callers
       THEN Set(p, [proc[p] EXCEPT !.at = "next"]) /\ UNCHANGED outcome
     ELSE IF At(p, {"sent", "failed"})
       THEN Set(p, [proc[p] EXCEPT !.at = "unsure"]) /\ UNCHANGED outcome
     ELSE Set(p, AtRest) /\ Abandon(p)
  /\ unrecorded' = IF At(p, {"sent"})
                     THEN [unrecorded EXCEPT ![Key(p)][Destination(p)] = @ + 1] ELSE unrecorded
  /\ UNCHANGED <<rows, attempts, queue, calls, handed, duplicates, accepted>>

\* What a process does next once it has begun.
Proceed(p) ==
  \/ Select(p) \/ Insert(p) \/ UpdateRow(p) \/ PersistRaises(p) \/ InsertRefused(p)
  \/ NextDestination(p) \/ Record(p) \/ Send(p) \/ RecordSent(p) \/ RecordFailed(p)
  \/ DeliveryRaises(p)
  \/ p \in Callers /\ Enqueue(p)
  \/ p \in Workers /\ Take(p)

-----------------------------------------------------------------------------

Place == {"idle", "select", "insert", "update", "enqueue", "next", "record", "send", "sent",
          "failed", "unsure"}

AlertsTypeOK ==
  /\ rows \in [Keys -> {Absent} \union [sev : 1 .. 3, suppressed : Nat]]
  /\ attempts \in [Keys -> [Destinations -> Seq({"pending", "sent", "failed"})]]
  /\ queue \in Seq(Alert) /\ Len(queue) <= QueueSize
  /\ \A p \in Processes :
       /\ proc[p].at \in Place /\ proc[p].alert \in Alert \union {Absent}
       /\ proc[p].send \in BOOLEAN /\ proc[p].row \in Keys \union {Absent}
       /\ proc[p].attempt \in 1 .. MaxRetries
       /\ proc[p].result \in {"none", "new", "duplicate", "raised"}
       /\ At(p, {"record", "send", "sent", "failed", "unsure"}) =>
            Destination(p) \in Destinations
  /\ aborted \subseteq Sessions /\ calls \in 0 .. MaxCalls /\ failures \in 0 .. MaxFailures
  /\ {handed, duplicates} \subseteq [Keys -> Nat]
  /\ {accepted, unrecorded} \subseteq [Keys -> [Destinations -> Nat]]
  /\ outcome \in [Keys -> {"none", "pending", "done", "dropped", "abandoned"}]

\* However many services, tasks and checks find an alert at once, one of them
\* hands it to the hub: the others count a duplicate or are refused by the index.
OncePerKey == \A k \in Keys \ RecoveryKeys : handed[k] <= 1

\* The suppressed count is what was suppressed, with concurrent writers.
DuplicatesCounted == \A k \in Keys : rows[k] # Absent => rows[k].suppressed = duplicates[k]

\* A destination is tried again only after a failure was put on record, and no
\* more than MaxRetries times.
RetriesFollowFailures ==
  \A k \in Keys \ RecoveryKeys, d \in Destinations :
    /\ Len(attempts[k][d]) <= MaxRetries
    /\ \A i \in 1 .. Len(attempts[k][d]) - 1 : attempts[k][d][i] = "failed"

\* What is on record as sent was accepted by the channel; it is sent again only
\* if the database would not record it.
SentMeansAccepted ==
  \A k \in Keys \ RecoveryKeys, d \in Destinations :
    /\ (\E i \in DOMAIN attempts[k][d] : attempts[k][d][i] = "sent") => accepted[k][d] > 0
    /\ accepted[k][d] <= 1 + unrecorded[k][d]

\* What was handed to the hub is queued, being delivered, or has an outcome; a
\* critical alert is never dropped.
HandledOnce ==
  \A k \in Keys \ RecoveryKeys :
    /\ outcome[k] = "pending" =>
         \/ \E i \in DOMAIN queue : queue[i].key = k
         \/ \E p \in Processes : proc[p].alert # Absent /\ Key(p) = k
              /\ proc[p].left # <<>>
    /\ outcome[k] = "dropped" => rows[k].sev # 1

\* A critical alert that a worker has given up on at a destination is on record
\* as a failure, unless an exception ended it: later alerts of the window add to
\* the count.
FailuresReported ==
  \A k \in Keys \ RecoveryKeys :
    (/\ rows[k] # Absent /\ rows[k].sev = 1 /\ outcome[k] = "done"
     /\ \E d \in Destinations :
          Len(attempts[k][d]) = MaxRetries /\ attempts[k][d][MaxRetries] = "failed")
      => rows[FailedKey] # Absent \/ MaxRetries = 1

\* An alert is stored once, counted, delivered and, where delivery failed, retried
\* and reported, however emitters, workers and failing sessions interleave: each
\* part is one of the promises of the hub and its repository stated above.
AlertsSound ==
  /\ OncePerKey /\ DuplicatesCounted
  /\ RetriesFollowFailures /\ SentMeansAccepted
  /\ HandledOnce /\ FailuresReported
=============================================================================
