----------------------------- MODULE AuditChain -----------------------------
(***************************************************************************)
(* The audit log: AuditServices, each with a database session of its own,  *)
(* extend one hash chain.  An event is written by four statements (lock    *)
(* the chain's head, take a number, insert the row, move the head), each   *)
(* of which waits for the database and lets other sessions in.             *)
(*                                                                         *)
(* A checksum covers its row, the number and the predecessor's checksum    *)
(* included, so it is represented by the event whose row it is: each event *)
(* has one row.  The transaction belongs to whoever made the session: it   *)
(* commits, rolls back or closes it when it likes.                         *)
(***************************************************************************)
EXTENDS Integers, Sequences, FiniteSets

CONSTANTS
  Events,     \* the events that are logged
  TierZero,   \* those of them that are to be written at once
  Services,   \* AuditServices, one per session
  Workers,    \* start_workers(num_workers)
  QueueSize,  \* maxsize of AuditService._queue
  AuditAnomalies,  \* what may happen beyond the ordinary, see below
  Genesis,    \* the event a chain that is not fresh starts with
  Nobody

(* "fresh"    the chain has no head row yet                                *)
(* "failure"  a statement raises                                           *)
(* "overlap"  two writes of one session interleave their statements        *)
(* "midway"   the session's owner ends the transaction during a write      *)

ASSUME TierZeroAssumption == TierZero \subseteq Events
ASSUME WorkersAssumption == Workers \in Nat \ {0}
ASSUME QueueSizeAssumption == QueueSize \in Nat \ {0}
ASSUME AuditAnomaliesAssumption == AuditAnomalies \subseteq {"fresh", "failure", "overlap", "midway"}
ASSUME NobodyAssumption == Nobody \notin Events \union Services \union {Genesis} /\ Genesis \notin Events

VARIABLES
  at,       \* how far each event has come
  svc,      \* the service it was logged to
  worker,   \* the events a worker of that service writes, rather than a task
  prev,     \* persist_audit_event's prev_checksum
  seq,      \* and sequence_id
  queue,    \* AuditService._queue
  phase,    \* of each service: running, in stop() waiting for the queue, or stopped
  idle,     \* workers of each service that wait for an event
  rows,     \* rows inserted in each session's open transaction
  own,      \* the head row as that transaction has written it
  aborted,  \* sessions whose transaction has failed and was not yet ended
  lock,     \* the session whose transaction has locked the head row
  log,      \* committed rows of audit_logs
  head,     \* the committed row of audit_chain_head, as the row of the log it names
  next      \* audit_sequence

event == <<at, svc, worker, prev, seq>>
service == <<queue, phase, idle>>
session == <<rows, own, aborted, lock>>
committed == <<log, head>>
auditvars == <<event, service, session, committed, next>>

\* Where an event is before its write, during it, and after it.
Writing == {"number", "insert", "upsert"}
Steps == {"new", "queued", "read", "written", "lost"} \union Writing

Row == [event : Events \union {Genesis}, seq : Nat, prev : Events \union {Genesis, Nobody}]

ASSUME NobodyIsNoRow == Nobody \notin Row

RowOf(e) == [event |-> e, seq |-> seq[e], prev |-> prev[e]]

FirstRow == [event |-> Genesis, seq |-> 0, prev |-> Nobody]

AuditInit ==
  /\ at = [e \in Events |-> "new"]
  /\ svc = [e \in Events |-> Nobody]
  /\ worker = {}
  /\ prev = [e \in Events |-> Nobody]
  /\ seq = [e \in Events |-> 0]
  /\ queue = [s \in Services |-> <<>>]
  /\ phase = [s \in Services |-> "running"]
  /\ idle = [s \in Services |-> Workers]
  /\ rows = [s \in Services |-> {}]
  /\ own = [s \in Services |-> Nobody]
  /\ aborted = {}
  /\ lock = Nobody
  /\ IF "fresh" \in AuditAnomalies
       THEN log = {} /\ head = Nobody
       ELSE log = {FirstRow} /\ head = FirstRow
  /\ next = 1

-----------------------------------------------------------------------------
(* Logging.  Neither path waits for the write: both return to the caller   *)
(* before anything is sent to the database.                                *)

\* put_nowait, or a task of its own for tier 0 and for a queue that is full.
Log(s, e) ==
  /\ at[e] = "new"
  /\ svc' = [svc EXCEPT ![e] = s]
  /\ IF e \in TierZero \/ Len(queue[s]) = QueueSize
       THEN at' = [at EXCEPT ![e] = "read"] /\ UNCHANGED queue
       ELSE at' = [at EXCEPT ![e] = "queued"] /\ queue' = [queue EXCEPT ![s] = Append(@, e)]
  /\ UNCHANGED <<worker, prev, seq, phase, idle, session, committed, next>>

\* The caller runs outside an event loop, where no task can be made.
LogOutsideLoop(s, e) ==
  /\ at[e] = "new"
  /\ e \in TierZero \/ Len(queue[s]) = QueueSize
  /\ svc' = [svc EXCEPT ![e] = s]
  /\ at' = [at EXCEPT ![e] = "lost"]
  /\ UNCHANGED <<worker, prev, seq, service, session, committed, next>>

Take(s) ==
  /\ idle[s] > 0 /\ queue[s] # <<>>
  /\ at' = [at EXCEPT ![Head(queue[s])] = "read"]
  /\ worker' = worker \union {Head(queue[s])}
  /\ queue' = [queue EXCEPT ![s] = Tail(@)]
  /\ idle' = [idle EXCEPT ![s] = @ - 1]
  /\ UNCHANGED <<svc, prev, seq, phase, session, committed, next>>

\* A worker whose wait has timed out looks at _running.
WorkerExits(s) ==
  /\ phase[s] # "running" /\ idle[s] > 0
  /\ idle' = [idle EXCEPT ![s] = @ - 1]
  /\ UNCHANGED <<event, queue, phase, session, committed, next>>

\* Faulty: a task that is done is taken for a worker.
FinishAnyway(e) ==
  /\ worker' = worker \ {e}
  /\ idle' = [idle EXCEPT ![svc[e]] = @ + 1]

\* Whoever wrote e is done with it: a worker goes on only while the service runs.
Finish(e) ==
  LET s == svc[e] IN
  /\ worker' = worker \ {e}
  /\ idle' = IF e \in worker /\ phase[s] = "running"
               THEN [idle EXCEPT ![s] = @ + 1] ELSE idle

-----------------------------------------------------------------------------
(* persist_audit_event, one action per statement.                          *)

\* What a session sees of the head row, once it has the lock if there is one.
HeadSeen(s) == IF own[s] # Nobody THEN own[s] ELSE head

MaySend(e) ==
  /\ svc[e] \notin aborted
  /\ "overlap" \in AuditAnomalies \/ at[e] # "read"
       \/ \A f \in Events \ {e} : svc[f] = svc[e] => at[f] \notin Writing

\* Faulty: a plain SELECT.
ReadHeadUnlocked(e) ==
  /\ at[e] = "read" /\ MaySend(e)
  /\ prev' = [prev EXCEPT ![e] = IF HeadSeen(svc[e]) = Nobody THEN Nobody ELSE HeadSeen(svc[e]).event]
  /\ at' = [at EXCEPT ![e] = "number"]
  /\ UNCHANGED <<svc, worker, seq, service, session, committed, next>>

\* SELECT ... FOR UPDATE: waits for the lock of a row that exists.  Of a row
\* that another session has inserted and not committed it sees nothing.
ReadHead(e) ==
  LET s == svc[e] IN
  /\ at[e] = "read" /\ MaySend(e)
  /\ IF HeadSeen(s) = Nobody
       THEN prev' = [prev EXCEPT ![e] = Nobody] /\ UNCHANGED lock
       ELSE /\ lock \in {Nobody, s}
            /\ lock' = s
            /\ prev' = [prev EXCEPT ![e] = HeadSeen(s).event]
  /\ at' = [at EXCEPT ![e] = "number"]
  /\ UNCHANGED <<svc, worker, seq, service, rows, own, aborted, committed, next>>

\* nextval, which no rollback takes back.
Number(e) ==
  /\ at[e] = "number" /\ MaySend(e)
  /\ seq' = [seq EXCEPT ![e] = next]
  /\ next' = next + 1
  /\ at' = [at EXCEPT ![e] = "insert"]
  /\ UNCHANGED <<svc, worker, prev, service, session, committed>>

Insert(e) ==
  /\ at[e] = "insert" /\ MaySend(e)
  /\ rows' = [rows EXCEPT ![svc[e]] = @ \union {RowOf(e)}]
  /\ at' = [at EXCEPT ![e] = "upsert"]
  /\ UNCHANGED <<svc, worker, prev, seq, service, own, aborted, lock, committed, next>>

\* Faulty: ON CONFLICT DO NOTHING.
UpsertOnce(e) ==
  LET s == svc[e] IN
  /\ at[e] = "upsert" /\ MaySend(e)
  /\ lock \in {Nobody, s}
  /\ lock' = s
  /\ own' = IF HeadSeen(s) = Nobody THEN [own EXCEPT ![s] = RowOf(e)] ELSE own
  /\ at' = [at EXCEPT ![e] = "written"]
  /\ Finish(e)
  /\ UNCHANGED <<svc, prev, seq, queue, phase, rows, aborted, committed, next>>

\* INSERT ... ON CONFLICT DO UPDATE: waits for whoever has the row.
Upsert(e) ==
  LET s == svc[e] IN
  /\ at[e] = "upsert" /\ MaySend(e)
  /\ lock \in {Nobody, s}
  /\ lock' = s
  /\ own' = [own EXCEPT ![s] = RowOf(e)]
  /\ at' = [at EXCEPT ![e] = "written"]
  /\ Finish(e)
  /\ UNCHANGED <<svc, prev, seq, queue, phase, rows, aborted, committed, next>>

-----------------------------------------------------------------------------
(* The end of a transaction.                                               *)

\* Faulty: the lock outlives the transaction.
ClearUnreleased(s) ==
  /\ rows' = [rows EXCEPT ![s] = {}]
  /\ own' = [own EXCEPT ![s] = Nobody]
  /\ UNCHANGED lock

\* Session s has no open transaction any more and its uncommitted rows are gone.
Clear(s) ==
  /\ rows' = [rows EXCEPT ![s] = {}]
  /\ own' = [own EXCEPT ![s] = Nobody]
  /\ lock' = IF lock = s THEN Nobody ELSE lock

\* Faulty: earlier writes of a transaction are thought to survive it.
LoseOne(s, E) == at' = [e \in Events |-> IF e \in E THEN "lost" ELSE at[e]]

\* The events in E, and those whose writes were to be committed by s, are lost.
Lose(s, E) ==
  at' = [e \in Events |->
           IF e \in E \/ (at[e] = "written" /\ RowOf(e) \in rows[s]) THEN "lost" ELSE at[e]]

\* A statement raises, or is sent in a transaction that has already failed.  A
\* worker swallows the exception, and no one retrieves it from a task.
Raise(e) ==
  LET s == svc[e] IN
  /\ at[e] \in Writing \union {"read"}
  /\ "failure" \in AuditAnomalies \/ s \in aborted
  /\ Lose(s, {e})
  /\ Finish(e)
  /\ Clear(s)
  /\ aborted' = aborted \union {s}
  /\ UNCHANGED <<svc, prev, seq, queue, phase, committed, next>>

MayEnd(s) ==
  "midway" \in AuditAnomalies \/ \A e \in Events : svc[e] = s => at[e] \notin Writing

\* commit(): of a transaction that has failed nothing remains to be committed.
Commit(s) ==
  /\ MayEnd(s)
  /\ rows[s] # {} \/ own[s] # Nobody \/ s \in aborted
  /\ log' = log \union rows[s]
  /\ head' = IF own[s] # Nobody THEN own[s] ELSE head
  /\ Clear(s)
  /\ aborted' = aborted \ {s}
  /\ UNCHANGED <<event, service, next>>

\* rollback() or close(); also what becomes of the transaction in a crash.
Rollback(s) ==
  /\ MayEnd(s)
  /\ rows[s] # {} \/ own[s] # Nobody \/ s \in aborted \/ lock = s
  /\ Lose(s, {})
  /\ Clear(s)
  /\ aborted' = aborted \ {s}
  /\ UNCHANGED <<svc, worker, prev, seq, service, committed, next>>

-----------------------------------------------------------------------------
(* stop().                                                                 *)

\* The events that workers of s write.
Occupied(s) == {e \in worker : svc[e] = s}

\* Workers are cancelled.  The connection of a cancelled statement is
\* invalidated, and its transaction goes with it.
Cancel(s) ==
  /\ phase' = [phase EXCEPT ![s] = "stopped"]
  /\ idle' = [idle EXCEPT ![s] = 0]
  /\ worker' = worker \ Occupied(s)
  /\ IF Occupied(s) = {}
       THEN UNCHANGED <<at, session>>
       ELSE Lose(s, Occupied(s)) /\ Clear(s) /\ aborted' = aborted \union {s}

\* An empty queue is not waited for, whatever the workers are writing.
Stop(s) ==
  /\ phase[s] = "running"
  /\ IF queue[s] = <<>>
       THEN Cancel(s)
       ELSE phase' = [phase EXCEPT ![s] = "draining"] /\ UNCHANGED <<event, idle, session>>
  /\ UNCHANGED <<svc, prev, seq, queue, committed, next>>

\* The queue is joined, or has not been within five seconds.
StopEnds(s) ==
  /\ phase[s] = "draining"
  /\ Cancel(s)
  /\ UNCHANGED <<svc, prev, seq, queue, committed, next>>

-----------------------------------------------------------------------------

Write(e) == ReadHead(e) \/ Number(e) \/ Insert(e) \/ Upsert(e)

AuditNext ==
  \/ \E s \in Services, e \in Events : Log(s, e) \/ LogOutsideLoop(s, e)
  \/ \E s \in Services : Take(s) \/ WorkerExits(s) \/ Stop(s) \/ StopEnds(s)
  \/ \E e \in Events : Write(e) \/ Raise(e)
  \/ \E s \in Services : Commit(s) \/ Rollback(s)

\* The event loop runs every task and worker that can go on, and sessions end.
AuditFairness ==
  /\ \A e \in Events : WF_auditvars(Write(e) \/ (svc[e] \in aborted /\ Raise(e)))
  /\ \A s \in Services : WF_auditvars(Take(s)) /\ WF_auditvars(Rollback(s))

AuditSpec == AuditInit /\ [][AuditNext]_auditvars /\ AuditFairness

-----------------------------------------------------------------------------

AuditTypeOK ==
  /\ at \in [Events -> Steps]
  /\ svc \in [Events -> Services \union {Nobody}]
  /\ worker \subseteq {e \in Events : at[e] \in Writing \union {"read"}}
  /\ prev \in [Events -> Events \union {Genesis, Nobody}]
  /\ seq \in [Events -> Nat]
  /\ queue \in [Services -> Seq(Events)]
  /\ phase \in [Services -> {"running", "draining", "stopped"}]
  /\ idle \in [Services -> 0 .. Workers]
  /\ rows \in [Services -> SUBSET Row]
  /\ own \in [Services -> Row \union {Nobody}]
  /\ aborted \subseteq Services
  /\ lock \in Services \union {Nobody}
  /\ log \subseteq Row
  /\ head \in Row \union {Nobody}
  /\ next \in Nat

\* What verify_chain wants of rows that it takes in the order of their numbers.
Intact(R) ==
  /\ \A p, q \in R : p.seq = q.seq => p = q
  /\ \A r \in R :
       \/ r.prev = Nobody /\ \A q \in R : q.seq >= r.seq
       \/ \E p \in R : /\ p.event = r.prev /\ p.seq < r.seq
                       /\ \A q \in R : q.seq <= p.seq \/ q.seq >= r.seq

\* The race for the first row aside: two sessions that find no head row to lock
\* both write a row without predecessor.
Rooted == \A p, q \in log : p.prev = Nobody /\ q.prev = Nobody => p = q

\* Whatever is interleaved, fails, is rolled back or cancelled, what is
\* committed of a chain with one first row verifies: the number, taken outside
\* the transaction, agrees with the order in which the lock was passed on.
ChainIntact == Rooted => Intact(log)

\* The head row names the last committed row, and none that was rolled back:
\* else the next event would be chained to a row that verification never sees.
HeadIsLast ==
  Rooted => IF log = {} THEN head = Nobody
                        ELSE head \in log /\ \A r \in log : r.seq <= head.seq

\* A commit adds rows at the end of the chain only: rows once read as the whole
\* chain stay its beginning.
AppendOnly == [][Rooted' => \A q \in log, r \in log' \ log : q.seq < r.seq]_log

\* What is returned of a write is true: an event said to be written has its row,
\* committed or in its session's transaction; no event said to be lost has one,
\* and a queued event waits in one place.
Accounted ==
  /\ \A e \in Events : at[e] = "written" => RowOf(e) \in log \union rows[svc[e]]
  /\ \A r \in log : r.event # Genesis => at[r.event] = "written"
  /\ \A s \in Services : \A r \in rows[s] :
       at[r.event] \in {"upsert", "written"} /\ svc[r.event] = s
  /\ \A e \in Events : at[e] = "queued" =>
       Cardinality({i \in DOMAIN queue[svc[e]] : queue[svc[e]][i] = e}) = 1

\* Every event that is logged is written or lost, unless its service is stopped:
\* no writer waits for ever for a lock, a worker or a place in the queue.
Settles ==
  \A e \in Events :
    at[e] # "new" ~> \/ at[e] \in {"written", "lost"}
                   \/ \E s \in Services : svc[e] = s /\ phase[s] # "running"

\* The log is one chain with an up-to-date head, and each event handed to it is
\* written, still on its way, or lost for a reason, over workers that race, sessions
\* that fail and queues that fill (audit/service.py, repository.py).
ChainSound == AuditTypeOK /\ ChainIntact /\ HeadIsLast /\ Accounted
=============================================================================
