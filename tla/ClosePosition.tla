--------------------------- MODULE ClosePosition ---------------------------
(***************************************************************************)
(* Closing a position: the API call, the transactional outbox, the worker  *)
(* that submits the order, the handler of broker updates and the periodic  *)
(* reconciler and cleaner, over one PostgreSQL database and one broker.    *)
(*                                                                         *)
(* A database transaction is one step.  A handler that awaits between a    *)
(* read and its commit is split there, and what it read is kept in the     *)
(* actor's own variable, because no lock protects it.                      *)
(*                                                                         *)
(* What the environment may do beyond the ordinary is named in Anomalies:  *)
(*   crash      the worker dies or is cancelled between claim and commit   *)
(*   slow       a request is still PENDING two minutes after its creation  *)
(*   early      a broker update is handled before the worker's commit      *)
(*   ambiguous  submit_order raises although the broker took the order     *)
(*   latefill   the broker executes an order it has reported as ended      *)
(*   noseq      the broker sends updates without a sequence number         *)
(*   notfound   a broker query answers that it does not know the order     *)
(*   expiry     outbox events grow older than the retention period         *)
(* Updates may be lost, repeated and reordered in every environment.       *)
(*                                                                         *)
(* A definition marked "faulty" is the next one with a plausible bug in    *)
(* it; no action uses it.  It shows that a property can fail.              *)
(***************************************************************************)
EXTENDS Integers, FiniteSets, FiniteSetsExt

CONSTANTS
  Positions,     \* position ids
  Keys,          \* Idempotency-Key header values
  Clients,       \* concurrent callers of close_position
  Workers,       \* concurrent outbox worker loops
  Quantity,      \* abs(position.quantity), the same for every position
  MaxRetries,    \* close_requests.max_retries
  MaxAttempts,   \* OutboxWorker.MAX_RETRIES
  MaxNotFound,   \* Reconciler.MAX_NOT_FOUND_RETRIES
  MaxOrders,     \* bound of the model: orders ever sent to the broker
  Anomalies,     \* what the environment may do, see above
  None           \* SQL NULL

AnomalyNames == {"crash", "slow", "early", "ambiguous", "latefill", "noseq",
                 "notfound", "expiry"}

ASSUME ConstantsAssumption ==
  /\ Quantity \in Nat \ {0}
  /\ MaxRetries \in Nat
  /\ MaxAttempts \in Nat \ {0}
  /\ MaxNotFound \in Nat \ {0}
  /\ MaxOrders \in Nat
  /\ Anomalies \subseteq AnomalyNames

\* (position_id, idempotency_key) is unique, so it serves as the request's id.
Requests == Positions \X Keys
Orders == 1 .. MaxOrders

ASSUME NoneAssumption == None \notin Requests

VARIABLES
  position,    \* table positions: status and active_close_request_id
  request,     \* table close_requests
  event,       \* table outbox_events, unique per close request
  order,       \* table orders: the rows of close orders
  live,        \* the broker's own record of each order it accepted
  reports,     \* every update the broker has sent
  call,        \* a client's call of close_position
  worker,      \* what a worker holds in memory
  zombies,     \* requests read by a running detect_zombies
  stuck,       \* requests read by a running recover_stuck_orders
  batch,       \* remaining quantities read by a running retry_partial_fills
  clock        \* created_at of the newest outbox event

vars == <<position, request, event, order, live, reports, call, worker,
          zombies, stuck, batch, clock>>

database == <<position, request, event, order>>
jobs     == <<zombies, stuck, batch>>
broker   == <<live, reports>>

PositionStatus == {"open", "closing", "closed", "close_retryable", "close_failed"}
RequestStatus  == {"none", "pending", "submitted", "retryable", "completed", "failed"}
EventStatus    == {"none", "pending", "processing", "completed", "failed"}

\* "cancelled" stands for CANCELLED, REJECTED and EXPIRED: the handler treats
\* the three alike.
OrderStatus    == {"none", "submitted", "partial", "cancelled", "filled"}
TerminalStates == {"cancelled", "filled"}

\* STATUS_ORDER: how far an order status is along its life.
Progress(status) == CASE status = "filled"    -> 4
                      [] status = "cancelled" -> 3
                      [] status = "partial"   -> 2
                      [] OTHER                -> 1

PositionRow == [status : PositionStatus, active : Requests \cup {None}]
RequestRow  == [status : RequestStatus, filled : Nat, retries : 0 .. MaxRetries,
                old : BOOLEAN]
EventRow    == [status : EventStatus, tries : 0 .. MaxAttempts,
                qty : 0 .. Quantity, born : Nat]
OrderRow    == [status : OrderStatus, filled : Nat, seq : Nat,
                missing : 0 .. MaxNotFound]
BrokerOrder == [req : Requests \cup {None}, status : OrderStatus,
                qty : 0 .. Quantity, filled : 0 .. Quantity, seq : Nat]
Report      == [order : Orders, status : OrderStatus, filled : Nat, seq : Nat]
CallState   == [pc : {"idle", "checked"}, req : Requests \cup {None},
                reply : {"none", "accepted", "replayed", "conflict", "refused"}]
WorkerState == [pc : {"idle", "claimed", "quoting", "raised", "accepted", "rejected"},
                req : Requests \cup {None}]

TypeOK ==
  /\ position \in [Positions -> PositionRow]
  /\ request \in [Requests -> RequestRow]
  /\ event \in [Requests -> EventRow]
  /\ order \in [Orders -> OrderRow]
  /\ live \in [Orders -> BrokerOrder]
  /\ reports \subseteq Report
  /\ call \in [Clients -> CallState]
  /\ worker \in [Workers -> WorkerState]
  /\ zombies \subseteq Requests
  /\ stuck \subseteq Requests
  /\ batch \in [Requests -> 0 .. Quantity]
  /\ clock \in Nat

NoEvent == [status |-> "none", tries |-> 0, qty |-> 0, born |-> 0]
NoBatch == [r \in Requests |-> 0]

Init ==
  /\ position = [p \in Positions |-> [status |-> "open", active |-> None]]
  /\ request = [r \in Requests |-> [status |-> "none", filled |-> 0,
                                    retries |-> 0, old |-> FALSE]]
  /\ event = [r \in Requests |-> NoEvent]
  /\ order = [o \in Orders |-> [status |-> "none", filled |-> 0, seq |-> 0,
                                missing |-> 0]]
  /\ live = [o \in Orders |-> [req |-> None, status |-> "none", qty |-> 0,
                               filled |-> 0, seq |-> 0]]
  /\ reports = {}
  /\ call = [c \in Clients |-> [pc |-> "idle", req |-> None, reply |-> "none"]]
  /\ worker = [w \in Workers |-> [pc |-> "idle", req |-> None]]
  /\ zombies = {}
  /\ stuck = {}
  /\ batch = NoBatch
  /\ clock = 0

-----------------------------------------------------------------------------
(* The API: close_position.                                                *)

Answer(c, reply) == call' = [call EXCEPT ![c].pc = "idle", ![c].reply = reply]

\* The replay check reads close_requests before any lock is taken.
CheckReplay(c, r) ==
  /\ call[c].pc = "idle"
  /\ call' = [call EXCEPT ![c] =
       IF request[r].status # "none"
         THEN [pc |-> "idle", req |-> r, reply |-> "replayed"]
         ELSE [pc |-> "checked", req |-> r, reply |-> "none"]]
  /\ UNCHANGED <<database, broker, worker, jobs, clock>>

\* With the position row locked: refuse, or create the request and its event
\* and mark the position in one transaction.
Refuse(c) ==
  LET r == call[c].req IN
  /\ call[c].pc = "checked"
  /\ \/ /\ position[r[1]].status = "closing"
        /\ Answer(c, "conflict")
     \/ /\ position[r[1]].status \notin {"open", "closing"}
        /\ Answer(c, "refused")
     \/ /\ position[r[1]].status = "open"     \* the unique constraint
        /\ request[r].status # "none"
        /\ Answer(c, "refused")
  /\ UNCHANGED <<database, broker, worker, jobs, clock>>

\* Faulty: the status is not checked again under the lock.
AcceptUnchecked(c) ==
  LET r == call[c].req IN
  /\ call[c].pc = "checked"
  /\ request[r].status = "none"
  /\ request' = [request EXCEPT ![r].status = "pending"]
  /\ position' = [position EXCEPT ![r[1]] = [status |-> "closing", active |-> r]]
  /\ clock' = clock + 1
  /\ event' = [event EXCEPT ![r] = [status |-> "pending", tries |-> 0,
                                    qty |-> Quantity, born |-> clock']]
  /\ Answer(c, "accepted")
  /\ UNCHANGED <<order, broker, worker, jobs>>

Accept(c) ==
  LET r == call[c].req IN
  /\ call[c].pc = "checked"
  /\ position[r[1]].status = "open"
  /\ request[r].status = "none"
  /\ request' = [request EXCEPT ![r].status = "pending"]
  /\ position' = [position EXCEPT ![r[1]] = [status |-> "closing", active |-> r]]
  /\ clock' = clock + 1
  /\ event' = [event EXCEPT ![r] = [status |-> "pending", tries |-> 0,
                                    qty |-> Quantity, born |-> clock']]
  /\ Answer(c, "accepted")
  /\ UNCHANGED <<order, broker, worker, jobs>>

-----------------------------------------------------------------------------
(* The outbox worker.                                                      *)

\* Faulty: the position stays CLOSING.
FailRequestOnly(r) ==
  /\ request' = [request EXCEPT ![r].status = "failed"]
  /\ UNCHANGED position

Fail(r) ==   \* the request failed for good, whatever it has become meanwhile
  /\ request' = [request EXCEPT ![r].status = "failed"]
  /\ position' = [position EXCEPT ![r[1]] = [status |-> "close_failed",
                                             active |-> None]]

Release(w) == worker' = [worker EXCEPT ![w] = [pc |-> "idle", req |-> None]]

Goto(w, pc) == worker' = [worker EXCEPT ![w].pc = pc]

\* Faulty: the claimed event is not marked PROCESSING.
ClaimUnmarked(w, r) ==
  /\ worker[w].pc = "idle"
  /\ event[r].status = "pending"
  /\ worker' = [worker EXCEPT ![w] = [pc |-> "claimed", req |-> r]]
  /\ UNCHANGED <<database, broker, call, jobs, clock>>

\* claim_pending: the oldest PENDING event.
Claim(w, r) ==
  /\ worker[w].pc = "idle"
  /\ event[r].status = "pending"
  /\ \A s \in Requests : event[s].status = "pending" => event[r].born <= event[s].born
  /\ event' = [event EXCEPT ![r].status = "processing"]
  /\ worker' = [worker EXCEPT ![w] = [pc |-> "claimed", req |-> r]]
  /\ UNCHANGED <<position, request, order, broker, call, jobs, clock>>

\* A request that is no longer PENDING was already processed.
SkipProcessed(w) ==
  LET r == worker[w].req IN
  /\ worker[w].pc = "claimed"
  /\ request[r].status # "pending"
  /\ event' = [event EXCEPT ![r].status = "completed"]
  /\ Release(w)
  /\ UNCHANGED <<position, request, order, broker, call, jobs, clock>>

ReadRequest(w) ==
  /\ worker[w].pc = "claimed"
  /\ request[worker[w].req].status = "pending"
  /\ Goto(w, "quoting")
  /\ UNCHANGED <<database, broker, call, jobs, clock>>

\* The quote timed out or cannot price the order, or submit_order raised
\* before the broker took the order.
RaiseBeforeSubmit(w) ==
  /\ worker[w].pc = "quoting"
  /\ Goto(w, "raised")
  /\ UNCHANGED <<database, broker, call, jobs, clock>>

NextOrder(o) ==
  /\ live[o].status = "none"
  /\ \A x \in Orders : x < o => live[x].status # "none"

Place(o, r, status) ==
  live' = [live EXCEPT ![o] = [req |-> r, status |-> status, qty |-> event[r].qty,
                               filled |-> 0, seq |-> 0]]

\* submit_order puts the order at the broker and writes its row.
SubmitAccepted(w, o) ==
  /\ worker[w].pc = "quoting"
  /\ NextOrder(o)
  /\ Place(o, worker[w].req, "submitted")
  /\ order' = [order EXCEPT ![o].status = "submitted"]
  /\ Goto(w, "accepted")
  /\ UNCHANGED <<position, request, event, reports, call, jobs, clock>>

SubmitRejected(w, o) ==
  /\ worker[w].pc = "quoting"
  /\ NextOrder(o)
  /\ Place(o, worker[w].req, "cancelled")
  /\ order' = [order EXCEPT ![o].status = "cancelled"]
  /\ Goto(w, "rejected")
  /\ UNCHANGED <<position, request, event, reports, call, jobs, clock>>

\* The broker has the order, the caller gets an exception; the row may or may
\* not have been written.
SubmitAmbiguous(w, o) ==
  /\ "ambiguous" \in Anomalies
  /\ worker[w].pc = "quoting"
  /\ NextOrder(o)
  /\ Place(o, worker[w].req, "submitted")
  /\ \/ order' = [order EXCEPT ![o].status = "submitted"]
     \/ UNCHANGED order
  /\ Goto(w, "raised")
  /\ UNCHANGED <<position, request, event, reports, call, jobs, clock>>

\* Faulty: the event is not marked COMPLETED.
CommitSubmittedEventOpen(w) ==
  LET r == worker[w].req IN
  /\ worker[w].pc = "accepted"
  /\ request' = [request EXCEPT ![r].status = "submitted"]
  /\ Release(w)
  /\ UNCHANGED <<position, event, order, broker, call, jobs, clock>>

\* The request's status is written over whatever is there by now.
CommitSubmitted(w) ==
  LET r == worker[w].req IN
  /\ worker[w].pc = "accepted"
  /\ request' = [request EXCEPT ![r].status = "submitted"]
  /\ event' = [event EXCEPT ![r].status = "completed"]
  /\ Release(w)
  /\ UNCHANGED <<position, order, broker, call, jobs, clock>>

CommitRejected(w) ==
  LET r == worker[w].req IN
  /\ worker[w].pc = "rejected"
  /\ Fail(r)
  /\ event' = [event EXCEPT ![r].status = "completed"]
  /\ Release(w)
  /\ UNCHANGED <<order, broker, call, jobs, clock>>

\* Faulty: the attempt is not counted.
RetryEventUncounted(w) ==
  LET r == worker[w].req IN
  /\ worker[w].pc = "raised"
  /\ event' = [event EXCEPT ![r].status = "pending"]
  /\ Release(w)
  /\ UNCHANGED <<position, request, order, broker, call, jobs, clock>>

RetryEvent(w) ==
  LET r == worker[w].req IN
  /\ worker[w].pc = "raised"
  /\ event[r].tries + 1 < MaxAttempts
  /\ event' = [event EXCEPT ![r].tries = @ + 1, ![r].status = "pending"]
  /\ Release(w)
  /\ UNCHANGED <<position, request, order, broker, call, jobs, clock>>

\* Faulty: the request is not failed with its event.
GiveUpEventOnly(w) ==
  LET r == worker[w].req IN
  /\ worker[w].pc = "raised"
  /\ event[r].tries + 1 = MaxAttempts
  /\ event' = [event EXCEPT ![r].tries = @ + 1, ![r].status = "failed"]
  /\ Release(w)
  /\ UNCHANGED <<position, request, order, broker, call, jobs, clock>>

GiveUp(w) ==
  LET r == worker[w].req IN
  /\ worker[w].pc = "raised"
  /\ event[r].tries + 1 = MaxAttempts
  /\ event' = [event EXCEPT ![r].tries = @ + 1, ![r].status = "failed"]
  /\ Fail(r)
  /\ Release(w)
  /\ UNCHANGED <<order, broker, call, jobs, clock>>

\* A crash, and also an orderly shutdown, which cancels the task: the event
\* stays PROCESSING.
Crash(w) ==
  /\ "crash" \in Anomalies
  /\ worker[w].pc # "idle"
  /\ Release(w)
  /\ UNCHANGED <<database, broker, call, jobs, clock>>

-----------------------------------------------------------------------------
(* The broker.  Each change of an order is reported once.                  *)

Change(o, status, filled) ==
  \E seq \in IF "noseq" \in Anomalies THEN {0, live[o].seq + 1}
                                      ELSE {live[o].seq + 1} :
    /\ live' = [live EXCEPT ![o].status = status, ![o].filled = filled,
                            ![o].seq = @ + 1]
    /\ reports' = reports \cup {[order |-> o, status |-> status,
                                 filled |-> filled, seq |-> seq]}
    /\ UNCHANGED <<database, call, worker, jobs, clock>>

Working(o) == live[o].status \in {"submitted", "partial"}

BrokerFill(o) ==
  /\ Working(o)
  /\ live[o].filled < live[o].qty
  /\ Change(o, IF live[o].filled + 1 = live[o].qty THEN "filled" ELSE "partial",
            live[o].filled + 1)

BrokerEnd(o) ==
  /\ Working(o)
  /\ Change(o, "cancelled", live[o].filled)

BrokerLateFill(o) ==
  /\ "latefill" \in Anomalies
  /\ live[o].status = "cancelled"
  /\ live[o].seq > 0
  /\ live[o].filled < live[o].qty
  /\ Change(o, IF live[o].filled + 1 = live[o].qty THEN "filled" ELSE "cancelled",
            live[o].filled + 1)

-----------------------------------------------------------------------------
(* OrderUpdateHandler.on_order_update.                                     *)

\* The order rows of a request, as the handler selects them.
RowsOf(r, rows) == {o \in Orders : live[o].req = r /\ rows[o].status # "none"}

TotalFilled(r, rows) == MapThenSumSet(LAMBDA o : rows[o].filled, RowsOf(r, rows))

\* Faulty: any fill counts as a complete one.
OutcomeOfAnyFill(allFilled, total) ==
  IF total > 0 THEN [request |-> "completed", position |-> "closed"]
               ELSE [request |-> "failed", position |-> "open"]

\* Faulty: an incomplete close reopens the position, fills or not.
OutcomeReopening(allFilled, total) ==
  IF allFilled /\ total = Quantity THEN [request |-> "completed", position |-> "closed"]
                                   ELSE [request |-> "failed", position |-> "open"]

\* What the settled orders of a request make of it and of its position.
Outcome(allFilled, total) ==
  IF allFilled /\ total = Quantity THEN [request |-> "completed", position |-> "closed"]
  ELSE IF total = 0 THEN [request |-> "failed", position |-> "open"]
  ELSE [request |-> "retryable", position |-> "close_retryable"]

\* _update_close_request, the updated order rows being given.
UpdateCloseRequest(r, rows) ==
  LET terminal  == \A o \in RowsOf(r, rows) : rows[o].status \in TerminalStates
      allFilled == \A o \in RowsOf(r, rows) : rows[o].status = "filled"
  IN \E total \in 0 .. MaxOrders * Quantity :
       /\ total = TotalFilled(r, rows)
       /\ \/ /\ ~terminal
             /\ request' = [request EXCEPT ![r].filled = total]
             /\ UNCHANGED position
          \/ LET outcome == Outcome(allFilled, total) IN
             /\ terminal
             /\ request' = [request EXCEPT ![r].filled = total,
                                           ![r].status = outcome.request]
             /\ position' = [position EXCEPT
                  ![r[1]] = [status |-> outcome.position,
                             active |-> IF outcome.request = "retryable"
                                          THEN @.active ELSE None]]

\* The update concerns a row, is not stale, and the row is not final.
Applicable(m) ==
  /\ m \in reports
  /\ order[m.order].status \notin {"none", "filled"}
  /\ m.seq # 0 /\ order[m.order].seq # 0 => m.seq > order[m.order].seq
  /\ "early" \in Anomalies \/ \A w \in Workers :
       ~(worker[w].pc = "accepted" /\ worker[w].req = live[m.order].req)

\* Faulty: filled_qty of the update is taken for an increment.
UpdatedAdding(m, status) ==
  [order EXCEPT ![m.order].status = status,
                ![m.order].filled = @ + m.filled,
                ![m.order].seq = m.seq]

\* The row after the update: filled_qty never goes down, the sequence number
\* is overwritten even by a missing one.
Updated(m, status) ==
  [order EXCEPT ![m.order].status = status,
                ![m.order].filled = IF m.filled > @ THEN m.filled ELSE @,
                ![m.order].seq = m.seq]

\* Faulty: the last update to arrive wins.
AdvancesAlways(m) == m.order \in Orders

Advances(m) ==
  LET row == order[m.order] IN
  IF row.status \in TerminalStates
    THEN m.status = "filled" /\ m.filled > row.filled
    ELSE Progress(m.status) >= Progress(row.status)

\* A forward status, or FILLED after another terminal one.
ApplyUpdate(m) ==
  /\ Applicable(m)
  /\ Advances(m)
  /\ order' = Updated(m, m.status)
  /\ UpdateCloseRequest(live[m.order].req, order')
  /\ UNCHANGED <<event, broker, call, worker, jobs, clock>>

\* Any other: only the fill and the sequence number of the row.
ApplyQuantity(m) ==
  /\ Applicable(m)
  /\ ~Advances(m)
  /\ order' = Updated(m, order[m.order].status)
  /\ UNCHANGED <<position, request, event, broker, call, worker, jobs, clock>>

-----------------------------------------------------------------------------
(* The reconciler's jobs and the cleaner.  A job reads its requests, works *)
(* through them with awaits in between, and commits once; it takes no lock.*)

\* created_at is more than two minutes ago.
GrowOld(r) ==
  /\ request[r].status # "none"
  /\ "slow" \in Anomalies \/ request[r].status # "pending"
  /\ ~request[r].old
  /\ request' = [request EXCEPT ![r].old = TRUE]
  /\ UNCHANGED <<position, event, order, broker, call, worker, jobs, clock>>

ScanZombies ==
  /\ zombies = {}
  /\ zombies' = {r \in Requests : request[r].status = "pending" /\ request[r].old}
  /\ UNCHANGED <<database, broker, call, worker, stuck, batch, clock>>

\* Faulty: the event a dead worker has left PROCESSING counts as well.
HasNoOutboxInWork(r) == event[r].status \notin {"pending", "processing"}

\* The job looks for a PENDING event only.
HasNoOutbox(r) == event[r].status # "pending"

\* The requests without one are failed and their positions reopened.
RollbackZombies ==
  LET dead == {r \in zombies : HasNoOutbox(r)} IN
  /\ zombies # {}
  /\ request' = [r \in Requests |->
       IF r \in dead THEN [request[r] EXCEPT !.status = "failed"] ELSE request[r]]
  /\ position' = [p \in Positions |->
       IF \E r \in dead : r[1] = p THEN [status |-> "open", active |-> None]
                                   ELSE position[p]]
  /\ zombies' = {}
  /\ UNCHANGED <<event, order, broker, call, worker, stuck, batch, clock>>

ScanStuck ==
  /\ stuck = {}
  /\ stuck' = {r \in Requests : request[r].status = "submitted"}
  /\ UNCHANGED <<database, broker, call, worker, zombies, batch, clock>>

\* Orders the broker does not know are counted; an order it does know changes
\* nothing (the code has a TODO there).
RecoverStuck(missing) ==
  LET lost == {r \in stuck : \E o \in missing : /\ live[o].req = r
                                                /\ order[o].missing + 1 >= MaxNotFound}
  IN
  /\ stuck # {}
  /\ missing \subseteq UNION {RowsOf(r, order) : r \in stuck}
  /\ missing # {} => "notfound" \in Anomalies
  /\ order' = [o \in Orders |->
       IF o \in missing /\ order[o].missing < MaxNotFound   \* saturates
         THEN [order[o] EXCEPT !.missing = @ + 1] ELSE order[o]]
  /\ request' = [r \in Requests |->
       IF r \in lost THEN [request[r] EXCEPT !.status = "failed"] ELSE request[r]]
  /\ position' = [p \in Positions |->
       IF \E r \in lost : r[1] = p
         THEN [position[p] EXCEPT !.status = "close_failed"] ELSE position[p]]
  /\ stuck' = {}
  /\ UNCHANGED <<event, broker, call, worker, zombies, batch, clock>>

\* Faulty: the retries are not limited.
RemainingUnlimited(r) ==
  IF request[r].status = "retryable" /\ request[r].filled < Quantity
    THEN Quantity - request[r].filled
    ELSE 0

\* What a retry would order: nothing for a request that is not retryable, has
\* used its retries or has nothing left.
Remaining(r) ==
  IF /\ request[r].status = "retryable"
     /\ request[r].retries < MaxRetries
     /\ request[r].filled < Quantity
    THEN Quantity - request[r].filled
    ELSE 0

ScanRetryable ==
  /\ batch = NoBatch
  /\ batch' = [r \in Requests |-> Remaining(r)]
  /\ UNCHANGED <<database, broker, call, worker, zombies, stuck, clock>>

InBatch == {r \in Requests : batch[r] > 0}

\* One transaction for the whole batch: one event per request may exist.
CommitRetries ==
  /\ InBatch # {}
  /\ \A r \in InBatch : event[r].status = "none"
  /\ clock' = clock + 1
  /\ event' = [r \in Requests |->
       IF r \in InBatch THEN [status |-> "pending", tries |-> 0,
                              qty |-> batch[r], born |-> clock']
                        ELSE event[r]]
  /\ request' = [r \in Requests |->
       IF r \in InBatch THEN [request[r] EXCEPT !.status = "pending", !.retries = @ + 1]
                        ELSE request[r]]
  /\ position' = [p \in Positions |->
       IF \E r \in InBatch : r[1] = p THEN [position[p] EXCEPT !.status = "closing"]
                                      ELSE position[p]]
  /\ batch' = NoBatch
  /\ UNCHANGED <<order, broker, call, worker, zombies, stuck>>

\* The unique index idx_outbox_idempotency refuses one of the inserts: the
\* job's transaction is rolled back as a whole.
RetriesRolledBack ==
  /\ \E r \in InBatch : event[r].status # "none"
  /\ batch' = NoBatch
  /\ UNCHANGED <<database, broker, call, worker, zombies, stuck, clock>>

CheckInvariants ==
  LET orphaned == {p \in Positions : /\ position[p].status = "closing"
                                     /\ position[p].active = None} IN
  /\ position' = [p \in Positions |->
       IF p \in orphaned THEN [position[p] EXCEPT !.status = "close_failed"]
                         ELSE position[p]]
  /\ UNCHANGED <<request, event, order, broker, call, worker, jobs, clock>>

Cleanup(cutoff) ==
  /\ "expiry" \in Anomalies
  /\ event' = [r \in Requests |->
       IF event[r].status \in {"completed", "failed"} /\ event[r].born < cutoff
         THEN NoEvent ELSE event[r]]
  /\ UNCHANGED <<position, request, order, broker, call, worker, jobs, clock>>

-----------------------------------------------------------------------------
WorkerStep(w) ==
  \/ \E r \in Requests : Claim(w, r)
  \/ SkipProcessed(w) \/ ReadRequest(w) \/ RaiseBeforeSubmit(w)
  \/ \E o \in Orders : SubmitAccepted(w, o) \/ SubmitRejected(w, o) \/ SubmitAmbiguous(w, o)
  \/ CommitSubmitted(w) \/ CommitRejected(w) \/ RetryEvent(w) \/ GiveUp(w)

BrokerStep(o) == BrokerFill(o) \/ BrokerEnd(o) \/ BrokerLateFill(o)

OnOrderUpdate(m) == ApplyUpdate(m) \/ ApplyQuantity(m)

Next ==
  \/ \E c \in Clients : \/ \E r \in Requests : CheckReplay(c, r)
                        \/ Refuse(c) \/ Accept(c)
  \/ \E w \in Workers : WorkerStep(w) \/ Crash(w)
  \/ \E o \in Orders : BrokerStep(o)
  \/ \E m \in reports : OnOrderUpdate(m)
  \/ \E r \in Requests : GrowOld(r)
  \/ ScanZombies \/ RollbackZombies
  \/ ScanStuck \/ \E missing \in SUBSET Orders : RecoverStuck(missing)
  \/ ScanRetryable \/ CommitRetries \/ RetriesRolledBack
  \/ CheckInvariants
  \/ \E cutoff \in 1 .. clock + 1 : Cleanup(cutoff)

Spec == Init /\ [][Next]_vars

\* What keeps running: the worker loop, the scheduled jobs and the delivery of
\* broker updates; and a broker that ends every order sooner or later.
Fairness ==
  /\ \A w \in Workers : WF_vars(WorkerStep(w))
  /\ WF_vars(\E o \in Orders : BrokerFill(o) \/ BrokerEnd(o))
  /\ WF_vars(\E m \in reports : OnOrderUpdate(m))

FairSpec == Spec /\ Fairness

\* The same, except that updates may be lost and the job that is there for
\* that case runs.
LossySpec ==
  /\ Spec
  /\ \A w \in Workers : WF_vars(WorkerStep(w))
  /\ WF_vars(\E o \in Orders : BrokerFill(o) \/ BrokerEnd(o))
  /\ WF_vars(ScanStuck)
  /\ WF_vars(\E missing \in SUBSET Orders : RecoverStuck(missing))

\* The worker loop and the zombie job keep running, nothing else need to.
ZombieSpec ==
  /\ Spec
  /\ \A w \in Workers : WF_vars(WorkerStep(w))
  /\ \A r \in Requests : WF_vars(GrowOld(r))
  /\ WF_vars(ScanZombies)
  /\ WF_vars(RollbackZombies)

-----------------------------------------------------------------------------
(* Safety.                                                                 *)

OrdersOf(r) == {o \in Orders : live[o].req = r}
OrdersFor(p) == {o \in Orders : live[o].req \in {p} \X Keys}

Executed(p) == MapThenSumSet(LAMBDA o : live[o].filled, OrdersFor(p))

\* What an order may still take out of the position, with what it has taken.
Exposure(o) == IF Working(o) THEN live[o].qty ELSE live[o].filled

Unsettled(r) == request[r].status \in {"pending", "submitted", "retryable"}

\* The table "Status Invariants" the reconciler relies on: a position and its
\* requests always tell the same story, and a request that is not settled is
\* the active one.
StatusAgreement ==
  /\ \A r \in Requests : Unsettled(r) => position[r[1]].active = r
  /\ \A p \in Positions :
       LET active == position[p].active IN
       CASE position[p].status = "open" -> active = None
         [] position[p].status = "closing" ->
              active # None /\ request[active].status \in {"pending", "submitted"}
         [] position[p].status = "closed" ->
              /\ active = None
              /\ \E k \in Keys : request[<<p, k>>].status = "completed"
         [] position[p].status = "close_retryable" ->
              active # None /\ request[active].status = "retryable"
         [] position[p].status = "close_failed" ->
              \E k \in Keys : request[<<p, k>>].status = "failed"

\* The orders a position has at the broker can never sell more than it holds.
NeverOversell ==
  \A p \in Positions : MapThenSumSet(Exposure, OrdersFor(p)) <= Quantity

\* The handler believes no fill the broker has not made, whatever arrives in
\* whatever order: neither on the order row ...
RecordedFillsSound ==
  \A o \in Orders : /\ order[o].filled <= live[o].filled
                    /\ order[o].status = "filled" => live[o].filled = live[o].qty

\* ... nor in the total it writes to the close request.
RequestFillsSound ==
  \A r \in Requests :
    request[r].filled <= MapThenSumSet(LAMBDA o : live[o].filled, OrdersOf(r))

\* A position is CLOSED only when the broker has executed all of it.
ClosedMeansExecuted ==
  \A p \in Positions : position[p].status = "closed" => Executed(p) >= Quantity

\* Two workers never process the event of the same request, crashes included.
OneWorkerPerRequest ==
  \A v, w \in Workers :
    v # w /\ worker[v].pc # "idle" /\ worker[w].pc # "idle"
      => worker[v].req # worker[w].req

\* However submission fails, a request puts at most MAX_RETRIES orders at the
\* broker for its first event and as many for each retry.
SubmissionsBounded ==
  \A r \in Requests :
    Cardinality(OrdersOf(r)) <= MaxAttempts * (1 + request[r].retries)

\* Order rows only go forward: FILLED is final, a terminal status never becomes
\* a working one, and a recorded fill is never taken back.
OrderNeverRegresses ==
  [][\A o \in Orders :
       /\ order[o].status = "filled" => order'[o].status = "filled"
                                        /\ order'[o].filled = order[o].filled
       /\ order[o].status \in TerminalStates => order'[o].status \in TerminalStates
       /\ Progress(order'[o].status) >= Progress(order[o].status)
       /\ order'[o].filled >= order[o].filled]_vars

Lifecycle == INSTANCE PositionLifecycle WITH
  status <- [p \in Positions |-> position[p].status],
  executed <- [p \in Positions |-> Executed(p)]

\* Seen from outside, a close follows the life cycle of PositionLifecycle.
ImplementsLifecycle == Lifecycle!Spec

-----------------------------------------------------------------------------
(* Liveness.                                                               *)

\* An accepted request is eventually completed, failed or left for a retry.
RequestsSettle ==
  \A r \in Requests :
    request[r].status \in {"pending", "submitted"}
      ~> request[r].status \in {"completed", "failed", "retryable"}

\* Every outbox event is eventually worked off.
EventsProcessed ==
  \A r \in Requests :
    event[r].status = "pending" ~> event[r].status \in {"completed", "failed", "none"}

\* Wherever workers die, a request does not stay PENDING: a worker handles its
\* event or detect_zombies rolls it back.
NoRequestLost ==
  \A r \in Requests : request[r].status = "pending" ~> request[r].status # "pending"

-----------------------------------------------------------------------------
(* What comments and documents say and the code does not do.               *)

\* outbox.py: events are delivered exactly once, so each event puts at most
\* one order at the broker.
OneOrderPerEvent ==
  \A r \in Requests : Cardinality(OrdersOf(r)) <= 1 + request[r].retries

\* Reopening a position is safe: no order of it is working at the broker.
OpenHasNoWorkingOrder ==
  \A p \in Positions :
    position[p].status = "open" => \A o \in OrdersFor(p) : ~Working(o)

\* A SUBMITTED close request's position must be CLOSING.
SubmittedIsClosing ==
  \A r \in Requests :
    request[r].status = "submitted" => position[r[1]].status = "closing"

\* A CLOSED position has a COMPLETED request.
ClosedIsCompleted ==
  \A p \in Positions : position[p].status = "closed" =>
    \E k \in Keys : request[<<p, k>>].status = "completed"

\* A request that may be retried is not barred from it by its own past event.
RetryNotBarred == \A r \in Requests : Remaining(r) > 0 => event[r].status = "none"

\* CLOSE_RETRYABLE means a partial fill awaiting retry.
RetryableHasRemainder ==
  \A r \in Requests : request[r].status = "retryable" => request[r].filled < Quantity

\* 409 is the answer to a different key than that of the active request.
ConflictMeansOtherKey ==
  \A c \in Clients : call[c].reply = "conflict" => request[call[c].req].status = "none"

\* filled_qty of a request is the aggregate of all its orders.
FilledIsAggregate ==
  \A r \in Requests : request[r].filled = TotalFilled(r, order)

\* recover_stuck_orders brings a SUBMITTED request whose orders have all ended
\* out of that state even when the updates were lost.
StuckIsRecovered ==
  \A r \in Requests :
    (request[r].status = "submitted" /\ \A o \in OrdersOf(r) : ~Working(o))
      ~> request[r].status # "submitted"

\* No request comes to rest halfway: the client's request and the outbox event
\* behind it both settle, whatever the broker answers (outbox_worker.py, reconciler.py).
FlowSettles == RequestsSettle /\ EventsProcessed

\* Whatever the broker sends, and in whatever order, neither an order row nor a
\* request counts a fill that is not the broker's, and a position closes only on
\* real executions (order_handler.py:55-170).
RequestsSound ==
  TypeOK /\ RecordedFillsSound /\ RequestFillsSound /\ ClosedMeansExecuted
=============================================================================
