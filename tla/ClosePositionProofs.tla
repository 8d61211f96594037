------------------------ MODULE ClosePositionProofs ------------------------
(***************************************************************************)
(* What holds of ClosePosition for any number of positions, keys, clients, *)
(* workers and orders, and in every environment: its types, one worker per *)
(* request, order rows and totals that believe the broker and never go     *)
(* back, and the bound on submissions; then what holds where Anomalies is  *)
(* empty: agreement, no sale beyond the position, and the refinement of    *)
(* PositionLifecycle.                                                      *)
(***************************************************************************)
EXTENDS ClosePosition, SumLemmas, TLAPS

-----------------------------------------------------------------------------
(* Type correctness.                                                       *)

\* Whoever is at work knows which request it works on.
ActorsKnowRequest ==
  /\ \A c \in Clients : call[c].pc = "checked" => call[c].req \in Requests
  /\ \A w \in Workers : worker[w].pc # "idle" => worker[w].req \in Requests

\* The broker's orders and reports belong to a request.
OrdersHaveRequest ==
  /\ \A o \in Orders : live[o].status # "none" => live[o].req \in Requests
  /\ \A m \in reports : live[m.order].status # "none"

\* What a running retry job has read is retried within the limit.
BatchWithinLimit ==
  \A r \in Requests : batch[r] > 0 => request[r].retries < MaxRetries

TypeInv == TypeOK /\ ActorsKnowRequest /\ OrdersHaveRequest /\ BatchWithinLimit

LEMMA InitTypeInv == Init => TypeInv
  BY ConstantsAssumption
  DEF Init, TypeInv, TypeOK, ActorsKnowRequest, OrdersHaveRequest, BatchWithinLimit,
      PositionRow, RequestRow, EventRow, OrderRow, BrokerOrder, CallState, WorkerState,
      PositionStatus, RequestStatus, EventStatus, OrderStatus, NoEvent, NoBatch

LEMMA RetriesKept ==
  ASSUME TypeInv, batch' = batch,
         \A r \in Requests : request'[r].retries = request[r].retries
  PROVE  BatchWithinLimit'
  BY DEF TypeInv, BatchWithinLimit

LEMMA CheckReplayType ==
  ASSUME NEW c \in Clients, NEW r \in Requests, TypeInv, CheckReplay(c, r)
  PROVE  TypeInv'
<1>1. call' \in [Clients -> CallState]
  BY DEF CheckReplay, CallState, TypeInv, TypeOK
<1>2. ActorsKnowRequest'
  BY DEF CheckReplay, ActorsKnowRequest, TypeInv, TypeOK, CallState,
        WorkerState
<1>3. QED
  BY <1>1, <1>2
  DEF CheckReplay, database, broker, jobs, ActorsKnowRequest,
      OrdersHaveRequest, BatchWithinLimit, TypeInv, TypeOK

LEMMA RefuseType ==
  ASSUME NEW c \in Clients, TypeInv, Refuse(c)
  PROVE  TypeInv'
<1>1. call' \in [Clients -> CallState]
  BY DEF Refuse, Answer, CallState, TypeInv, TypeOK
<1>2. ActorsKnowRequest'
  BY SMTT(30) DEF Refuse, Answer, ActorsKnowRequest, TypeInv, TypeOK, CallState,
        WorkerState
<1>3. QED
  BY <1>1, <1>2
  DEF Refuse, Answer, database, broker, jobs, ActorsKnowRequest,
      OrdersHaveRequest, BatchWithinLimit, TypeInv, TypeOK

LEMMA AcceptType ==
  ASSUME NEW c \in Clients, TypeInv, Accept(c)
  PROVE  TypeInv'
<1> DEFINE r == call[c].req
<1>1. r \in Requests /\ r[1] \in Positions
  BY DEF Accept, TypeInv, ActorsKnowRequest, Requests
<1>2. position' \in [Positions -> PositionRow]
  BY <1>1 DEF Accept, PositionRow, PositionStatus, TypeInv, TypeOK
<1>3. request' \in [Requests -> RequestRow]
  BY <1>1 DEF Accept, RequestRow, RequestStatus, TypeInv, TypeOK
<1>4. clock' \in Nat
  BY DEF Accept, TypeInv, TypeOK
<1>5. event' \in [Requests -> EventRow]
  <2>1. [status |-> "pending", tries |-> 0, qty |-> Quantity, born |-> clock'] \in EventRow
    BY <1>4, ConstantsAssumption DEF EventRow, EventStatus
  <2>2. QED
    BY <1>1, <2>1 DEF Accept, TypeInv, TypeOK
<1>6. call' \in [Clients -> CallState]
  BY ZenonT(30) DEF Accept, Answer, CallState, TypeInv, TypeOK
<1>7. ActorsKnowRequest'
  BY DEF Accept, Answer, ActorsKnowRequest, TypeInv, TypeOK, CallState
<1>8. \A s \in Requests : request'[s].retries = request[s].retries
  BY DEF Accept, TypeInv, TypeOK, RequestRow
<1>9. BatchWithinLimit'
  BY <1>8, RetriesKept DEF Accept, jobs
<1>10. QED
  BY <1>2, <1>3, <1>4, <1>5, <1>6, <1>7, <1>9
  DEF Accept, broker, jobs, OrdersHaveRequest, TypeInv, TypeOK

LEMMA ClaimType ==
  ASSUME NEW w \in Workers, NEW r \in Requests, TypeInv, Claim(w, r)
  PROVE  TypeInv'
<1>1. event' \in [Requests -> EventRow]
  BY DEF Claim, EventRow, EventStatus, TypeInv, TypeOK
<1>2. worker' \in [Workers -> WorkerState]
  BY DEF Claim, WorkerState, TypeInv, TypeOK
<1>3. ActorsKnowRequest'
  BY DEF Claim, ActorsKnowRequest, TypeInv, TypeOK, CallState, WorkerState
<1>4. QED
  BY <1>1, <1>2, <1>3
  DEF Claim, database, broker, jobs, ActorsKnowRequest,
      OrdersHaveRequest, BatchWithinLimit, TypeInv, TypeOK

LEMMA SkipProcessedType ==
  ASSUME NEW w \in Workers, TypeInv, SkipProcessed(w)
  PROVE  TypeInv'
<1>1. event' \in [Requests -> EventRow]
  BY DEF SkipProcessed, Release, EventRow, EventStatus, TypeInv, TypeOK
<1>2. worker' \in [Workers -> WorkerState]
  BY DEF SkipProcessed, Release, WorkerState, TypeInv, TypeOK
<1>3. ActorsKnowRequest'
  BY DEF SkipProcessed, Release, ActorsKnowRequest, TypeInv, TypeOK,
        CallState, WorkerState
<1>4. QED
  BY <1>1, <1>2, <1>3
  DEF SkipProcessed, Release, database, broker, jobs, ActorsKnowRequest,
      OrdersHaveRequest, BatchWithinLimit, TypeInv, TypeOK

LEMMA ReadRequestType ==
  ASSUME NEW w \in Workers, TypeInv, ReadRequest(w)
  PROVE  TypeInv'
<1>1. worker' \in [Workers -> WorkerState]
  BY DEF ReadRequest, Goto, WorkerState, TypeInv, TypeOK
<1>2. ActorsKnowRequest'
  BY DEF ReadRequest, Goto, ActorsKnowRequest, TypeInv, TypeOK,
        CallState, WorkerState
<1>3. QED
  BY <1>1, <1>2
  DEF ReadRequest, Goto, database, broker, jobs, ActorsKnowRequest,
      OrdersHaveRequest, BatchWithinLimit, TypeInv, TypeOK

LEMMA RaiseBeforeSubmitType ==
  ASSUME NEW w \in Workers, TypeInv, RaiseBeforeSubmit(w)
  PROVE  TypeInv'
<1>1. worker' \in [Workers -> WorkerState]
  BY DEF RaiseBeforeSubmit, Goto, WorkerState, TypeInv, TypeOK
<1>2. ActorsKnowRequest'
  BY DEF RaiseBeforeSubmit, Goto, ActorsKnowRequest, TypeInv, TypeOK,
        CallState, WorkerState
<1>3. QED
  BY <1>1, <1>2
  DEF RaiseBeforeSubmit, Goto, database, broker, jobs, ActorsKnowRequest,
      OrdersHaveRequest, BatchWithinLimit, TypeInv, TypeOK

LEMMA PlaceType ==
  ASSUME NEW o \in Orders, NEW r \in Requests, NEW status \in OrderStatus \ {"none"},
         TypeInv, Place(o, r, status), UNCHANGED <<event, reports>>
  PROVE  live' \in [Orders -> BrokerOrder] /\ OrdersHaveRequest'
<1>1. event[r].qty \in 0 .. Quantity
  BY DEF TypeInv, TypeOK, EventRow
<1>2. [req |-> r, status |-> status, qty |-> event[r].qty, filled |-> 0, seq |-> 0]
        \in BrokerOrder
  BY <1>1, ConstantsAssumption DEF BrokerOrder
<1>3. live' \in [Orders -> BrokerOrder]
  BY <1>2 DEF Place, TypeInv, TypeOK
<1>4. OrdersHaveRequest'
  BY DEF Place, OrdersHaveRequest, TypeInv, TypeOK, Report
<1>5. QED
  BY <1>3, <1>4

LEMMA SubmitAcceptedType ==
  ASSUME NEW w \in Workers, NEW o \in Orders, TypeInv, SubmitAccepted(w, o)
  PROVE  TypeInv'
<1>1. worker[w].req \in Requests
  BY DEF SubmitAccepted, TypeInv, ActorsKnowRequest
<1>2. live' \in [Orders -> BrokerOrder] /\ OrdersHaveRequest'
  BY <1>1, PlaceType DEF SubmitAccepted, OrderStatus
<1>3. order' \in [Orders -> OrderRow]
  BY DEF SubmitAccepted, OrderRow, OrderStatus, TypeInv, TypeOK
<1>4. worker' \in [Workers -> WorkerState] /\ ActorsKnowRequest'
  BY <1>1 DEF SubmitAccepted, Goto, WorkerState, ActorsKnowRequest, TypeInv, TypeOK
<1>5. QED
  BY <1>2, <1>3, <1>4
  DEF SubmitAccepted, jobs, BatchWithinLimit, TypeInv, TypeOK

LEMMA SubmitRejectedType ==
  ASSUME NEW w \in Workers, NEW o \in Orders, TypeInv, SubmitRejected(w, o)
  PROVE  TypeInv'
<1>1. worker[w].req \in Requests
  BY DEF SubmitRejected, TypeInv, ActorsKnowRequest
<1>2. live' \in [Orders -> BrokerOrder] /\ OrdersHaveRequest'
  BY <1>1, PlaceType DEF SubmitRejected, OrderStatus
<1>3. order' \in [Orders -> OrderRow]
  BY DEF SubmitRejected, OrderRow, OrderStatus, TypeInv, TypeOK
<1>4. worker' \in [Workers -> WorkerState] /\ ActorsKnowRequest'
  BY <1>1 DEF SubmitRejected, Goto, WorkerState, ActorsKnowRequest, TypeInv, TypeOK
<1>5. QED
  BY <1>2, <1>3, <1>4
  DEF SubmitRejected, jobs, BatchWithinLimit, TypeInv, TypeOK

LEMMA SubmitAmbiguousType ==
  ASSUME NEW w \in Workers, NEW o \in Orders, TypeInv, SubmitAmbiguous(w, o)
  PROVE  TypeInv'
<1>1. worker[w].req \in Requests
  BY DEF SubmitAmbiguous, TypeInv, ActorsKnowRequest
<1>2. live' \in [Orders -> BrokerOrder] /\ OrdersHaveRequest'
  BY <1>1, PlaceType DEF SubmitAmbiguous, OrderStatus
<1>3. order' \in [Orders -> OrderRow]
  BY DEF SubmitAmbiguous, OrderRow, OrderStatus, TypeInv, TypeOK
<1>4. worker' \in [Workers -> WorkerState] /\ ActorsKnowRequest'
  BY <1>1 DEF SubmitAmbiguous, Goto, WorkerState, ActorsKnowRequest, TypeInv, TypeOK
<1>5. QED
  BY <1>2, <1>3, <1>4
  DEF SubmitAmbiguous, jobs, BatchWithinLimit, TypeInv, TypeOK

LEMMA CommitSubmittedType ==
  ASSUME NEW w \in Workers, TypeInv, CommitSubmitted(w)
  PROVE  TypeInv'
<1>1. request' \in [Requests -> RequestRow]
  BY DEF CommitSubmitted, RequestRow, RequestStatus, TypeInv, TypeOK
<1>2. event' \in [Requests -> EventRow]
  BY ZenonT(30) DEF CommitSubmitted, EventRow, EventStatus, TypeInv, TypeOK
<1>3. worker' \in [Workers -> WorkerState] /\ ActorsKnowRequest'
  BY DEF CommitSubmitted, Release, WorkerState, ActorsKnowRequest, TypeInv, TypeOK
<1>4. \A s \in Requests : request'[s].retries = request[s].retries
  BY DEF CommitSubmitted, TypeInv, TypeOK, RequestRow
<1>5. BatchWithinLimit'
  BY <1>4, RetriesKept DEF CommitSubmitted, jobs
<1>6. QED
  BY <1>1, <1>2, <1>3, <1>5
  DEF CommitSubmitted, broker, jobs, OrdersHaveRequest, TypeInv, TypeOK

LEMMA CommitRejectedType ==
  ASSUME NEW w \in Workers, TypeInv, CommitRejected(w)
  PROVE  TypeInv'
<1> DEFINE r == worker[w].req
<1>1. r \in Requests /\ r[1] \in Positions
  BY DEF CommitRejected, TypeInv, ActorsKnowRequest, Requests
<1>2. position' \in [Positions -> PositionRow]
  BY <1>1 DEF CommitRejected, Fail, PositionRow, PositionStatus, TypeInv, TypeOK
<1>3. request' \in [Requests -> RequestRow]
  BY <1>1 DEF CommitRejected, Fail, RequestRow, RequestStatus, TypeInv, TypeOK
<1>4. event' \in [Requests -> EventRow]
  BY ZenonT(30) DEF CommitRejected, EventRow, EventStatus, TypeInv, TypeOK
<1>5. worker' \in [Workers -> WorkerState] /\ ActorsKnowRequest'
  BY DEF CommitRejected, Release, WorkerState, ActorsKnowRequest, TypeInv, TypeOK
<1>6. \A s \in Requests : request'[s].retries = request[s].retries
  BY DEF CommitRejected, Fail, TypeInv, TypeOK, RequestRow
<1>7. BatchWithinLimit'
  BY <1>6, RetriesKept DEF CommitRejected, jobs
<1>8. QED
  BY <1>2, <1>3, <1>4, <1>5, <1>7
  DEF CommitRejected, broker, jobs, OrdersHaveRequest, TypeInv, TypeOK

LEMMA RetryEventType ==
  ASSUME NEW w \in Workers, TypeInv, RetryEvent(w)
  PROVE  TypeInv'
<1> DEFINE r == worker[w].req
<1>1. r \in Requests
  BY DEF RetryEvent, TypeInv, ActorsKnowRequest
<1>2. event' \in [Requests -> EventRow]
  <2>1. event[r] \in EventRow
    BY <1>1 DEF TypeInv, TypeOK
  <2>2. event[r].tries + 1 \in 0 .. MaxAttempts
    BY <2>1, ConstantsAssumption DEF RetryEvent, EventRow
  <2>3. [event[r] EXCEPT !.tries = @ + 1, !.status = "pending"] \in EventRow
    BY <2>1, <2>2 DEF EventRow, EventStatus
  <2>4. event' = [event EXCEPT ![r] = [event[r] EXCEPT !.tries = @ + 1, !.status = "pending"]]
    BY <1>1, <2>1 DEF RetryEvent, TypeInv, TypeOK, EventRow
  <2>5. QED
    BY <2>3, <2>4 DEF TypeInv, TypeOK
<1>3. worker' \in [Workers -> WorkerState] /\ ActorsKnowRequest'
  BY DEF RetryEvent, Release, WorkerState, ActorsKnowRequest, TypeInv, TypeOK
<1>4. QED
  BY <1>2, <1>3
  DEF RetryEvent, broker, jobs, OrdersHaveRequest, BatchWithinLimit, TypeInv, TypeOK

LEMMA GiveUpType ==
  ASSUME NEW w \in Workers, TypeInv, GiveUp(w)
  PROVE  TypeInv'
<1> DEFINE r == worker[w].req
<1>1. r \in Requests /\ r[1] \in Positions
  BY DEF GiveUp, TypeInv, ActorsKnowRequest, Requests
<1>2. position' \in [Positions -> PositionRow]
  BY <1>1 DEF GiveUp, Fail, PositionRow, PositionStatus, TypeInv, TypeOK
<1>3. request' \in [Requests -> RequestRow]
  BY <1>1 DEF GiveUp, Fail, RequestRow, RequestStatus, TypeInv, TypeOK
<1>4. event' \in [Requests -> EventRow]
  <2>1. event[r] \in EventRow
    BY <1>1 DEF TypeInv, TypeOK
  <2>2. event[r].tries + 1 \in 0 .. MaxAttempts
    BY <2>1, ConstantsAssumption DEF GiveUp, EventRow
  <2>3. [event[r] EXCEPT !.tries = @ + 1, !.status = "failed"] \in EventRow
    BY <2>1, <2>2 DEF EventRow, EventStatus
  <2>4. event' = [event EXCEPT ![r] = [event[r] EXCEPT !.tries = @ + 1, !.status = "failed"]]
    BY <1>1, <2>1 DEF GiveUp, TypeInv, TypeOK, EventRow
  <2>5. QED
    BY <2>3, <2>4 DEF TypeInv, TypeOK
<1>5. worker' \in [Workers -> WorkerState] /\ ActorsKnowRequest'
  BY DEF GiveUp, Release, WorkerState, ActorsKnowRequest, TypeInv, TypeOK
<1>6. \A s \in Requests : request'[s].retries = request[s].retries
  BY DEF GiveUp, Fail, TypeInv, TypeOK, RequestRow
<1>7. BatchWithinLimit'
  BY <1>6, RetriesKept DEF GiveUp, jobs
<1>8. QED
  BY <1>2, <1>3, <1>4, <1>5, <1>7
  DEF GiveUp, broker, jobs, OrdersHaveRequest, TypeInv, TypeOK

LEMMA CrashType ==
  ASSUME NEW w \in Workers, TypeInv, Crash(w)
  PROVE  TypeInv'
<1>1. worker' \in [Workers -> WorkerState]
  BY DEF Crash, Release, WorkerState, TypeInv, TypeOK
<1>2. ActorsKnowRequest'
  BY DEF Crash, Release, ActorsKnowRequest, TypeInv, TypeOK, CallState,
        WorkerState
<1>3. QED
  BY <1>1, <1>2
  DEF Crash, Release, database, broker, jobs, ActorsKnowRequest,
      OrdersHaveRequest, BatchWithinLimit, TypeInv, TypeOK

LEMMA BrokerFillType ==
  ASSUME NEW o \in Orders, TypeInv, BrokerFill(o)
  PROVE  TypeInv'
<1>1. live' \in [Orders -> BrokerOrder]
  BY DEF BrokerFill, Change, Working, BrokerOrder, OrderStatus, TypeInv,
        TypeOK
<1>2. reports' \subseteq Report
  BY DEF BrokerFill, Change, Working, Report, BrokerOrder, OrderStatus,
        TypeInv, TypeOK
<1>3. OrdersHaveRequest'
  BY DEF BrokerFill, Change, Working, OrdersHaveRequest,
        ActorsKnowRequest, TypeInv, TypeOK, BrokerOrder, OrderStatus, Report
<1>4. QED
  BY <1>1, <1>2, <1>3
  DEF BrokerFill, Change, Working, database, broker, jobs,
      ActorsKnowRequest, OrdersHaveRequest, BatchWithinLimit, TypeInv, TypeOK

LEMMA BrokerEndType ==
  ASSUME NEW o \in Orders, TypeInv, BrokerEnd(o)
  PROVE  TypeInv'
<1>1. live' \in [Orders -> BrokerOrder]
  BY DEF BrokerEnd, Change, Working, BrokerOrder, OrderStatus, TypeInv,
        TypeOK
<1>2. reports' \subseteq Report
  BY DEF BrokerEnd, Change, Working, Report, BrokerOrder, OrderStatus,
        TypeInv, TypeOK
<1>3. OrdersHaveRequest'
  BY DEF BrokerEnd, Change, Working, OrdersHaveRequest,
        ActorsKnowRequest, TypeInv, TypeOK, BrokerOrder, OrderStatus, Report
<1>4. QED
  BY <1>1, <1>2, <1>3
  DEF BrokerEnd, Change, Working, database, broker, jobs,
      ActorsKnowRequest, OrdersHaveRequest, BatchWithinLimit, TypeInv, TypeOK

LEMMA BrokerLateFillType ==
  ASSUME NEW o \in Orders, TypeInv, BrokerLateFill(o)
  PROVE  TypeInv'
<1>1. live' \in [Orders -> BrokerOrder]
  BY DEF BrokerLateFill, Change, BrokerOrder, OrderStatus, TypeInv, TypeOK
<1>2. reports' \subseteq Report
  BY DEF BrokerLateFill, Change, Report, BrokerOrder, OrderStatus,
        TypeInv, TypeOK
<1>3. OrdersHaveRequest'
  BY DEF BrokerLateFill, Change, OrdersHaveRequest, ActorsKnowRequest,
        TypeInv, TypeOK, BrokerOrder, OrderStatus, Report
<1>4. QED
  BY <1>1, <1>2, <1>3
  DEF BrokerLateFill, Change, database, broker, jobs, ActorsKnowRequest,
      OrdersHaveRequest, BatchWithinLimit, TypeInv, TypeOK

LEMMA UpdatedType ==
  ASSUME NEW m \in reports, NEW status \in OrderStatus, TypeInv
  PROVE  Updated(m, status) \in [Orders -> OrderRow]
<1>1. m.order \in Orders /\ m.filled \in Nat /\ m.seq \in Nat
  BY DEF TypeInv, TypeOK, Report
<1>2. order[m.order] \in OrderRow
  BY <1>1 DEF TypeInv, TypeOK
<1> DEFINE row == [order[m.order] EXCEPT !.status = status,
                     !.filled = IF m.filled > @ THEN m.filled ELSE @, !.seq = m.seq]
<1>3. row \in OrderRow
  BY <1>1, <1>2 DEF OrderRow
<1>4. Updated(m, status) = [order EXCEPT ![m.order] = row]
  BY <1>1, <1>2 DEF Updated, OrderRow, TypeInv, TypeOK
<1>5. QED
  BY <1>3, <1>4 DEF TypeInv, TypeOK

LEMMA UpdateCloseRequestType ==
  ASSUME NEW r \in Requests, NEW rows, TypeInv, UpdateCloseRequest(r, rows)
  PROVE  /\ position' \in [Positions -> PositionRow]
         /\ request' \in [Requests -> RequestRow]
         /\ \A s \in Requests : request'[s].retries = request[s].retries
<1> DEFINE allFilled == \A o \in RowsOf(r, rows) : rows[o].status = "filled"
<1>1. PICK total \in 0 .. MaxOrders * Quantity :
        \/ request' = [request EXCEPT ![r].filled = total] /\ UNCHANGED position
        \/ /\ request' = [request EXCEPT ![r].filled = total,
                                        ![r].status = Outcome(allFilled, total).request]
           /\ position' = [position EXCEPT ![r[1]] =
                [status |-> Outcome(allFilled, total).position,
                 active |-> IF Outcome(allFilled, total).request = "retryable"
                              THEN @.active ELSE None]]
  BY DEF UpdateCloseRequest
<1>2. total \in Nat
  BY ConstantsAssumption
<1>3. r[1] \in Positions
  BY DEF Requests
<1>4. /\ Outcome(allFilled, total).request \in RequestStatus
      /\ Outcome(allFilled, total).position \in PositionStatus
  BY DEF Outcome, RequestStatus, PositionStatus
<1>5. CASE request' = [request EXCEPT ![r].filled = total] /\ UNCHANGED position
  BY <1>2, <1>5 DEF RequestRow, TypeInv, TypeOK
<1>6. CASE /\ request' = [request EXCEPT ![r].filled = total,
                             ![r].status = Outcome(allFilled, total).request]
           /\ position' = [position EXCEPT ![r[1]] =
                [status |-> Outcome(allFilled, total).position,
                 active |-> IF Outcome(allFilled, total).request = "retryable"
                              THEN @.active ELSE None]]
  <2> HIDE DEF allFilled
  <2>1. request' \in [Requests -> RequestRow]
    BY <1>2, <1>4, <1>6 DEF RequestRow, TypeInv, TypeOK
  <2>2. \A s \in Requests : request'[s].retries = request[s].retries
    BY <1>6 DEF RequestRow, TypeInv, TypeOK
  <2>3. position' \in [Positions -> PositionRow]
    BY <1>3, <1>4, <1>6 DEF PositionRow, TypeInv, TypeOK
  <2>4. QED
    BY <2>1, <2>2, <2>3
<1>7. QED
  BY <1>1, <1>5, <1>6

LEMMA ApplyUpdateType ==
  ASSUME NEW m \in reports, TypeInv, ApplyUpdate(m)
  PROVE  TypeInv'
<1>1. m.order \in Orders /\ m.status \in OrderStatus
  BY DEF TypeInv, TypeOK, Report
<1>2. live[m.order].req \in Requests
  BY <1>1 DEF TypeInv, OrdersHaveRequest
<1>3. order' \in [Orders -> OrderRow]
  BY <1>1, UpdatedType DEF ApplyUpdate
<1>4. /\ position' \in [Positions -> PositionRow]
      /\ request' \in [Requests -> RequestRow]
      /\ \A s \in Requests : request'[s].retries = request[s].retries
  BY <1>2, UpdateCloseRequestType DEF ApplyUpdate
<1>5. BatchWithinLimit'
  BY <1>4, RetriesKept DEF ApplyUpdate, jobs
<1>6. QED
  BY <1>3, <1>4, <1>5
  DEF ApplyUpdate, broker, jobs, ActorsKnowRequest, OrdersHaveRequest, TypeInv, TypeOK

LEMMA ApplyQuantityType ==
  ASSUME NEW m \in reports, TypeInv, ApplyQuantity(m)
  PROVE  TypeInv'
<1>1. order[m.order].status \in OrderStatus
  BY DEF TypeInv, TypeOK, Report, OrderRow
<1>2. order' \in [Orders -> OrderRow]
  BY <1>1, UpdatedType DEF ApplyQuantity
<1>3. QED
  BY <1>2
  DEF ApplyQuantity, broker, jobs, ActorsKnowRequest, OrdersHaveRequest, BatchWithinLimit,
      TypeInv, TypeOK

LEMMA GrowOldType ==
  ASSUME NEW r \in Requests, TypeInv, GrowOld(r)
  PROVE  TypeInv'
<1>1. /\ request' \in [Requests -> RequestRow]
      /\ \A s \in Requests : request'[s].retries = request[s].retries
  BY DEF GrowOld, RequestRow, TypeInv, TypeOK
<1>2. BatchWithinLimit'
  BY <1>1, RetriesKept DEF GrowOld, jobs
<1>3. QED
  BY <1>1, <1>2
  DEF GrowOld, broker, jobs, ActorsKnowRequest, OrdersHaveRequest, TypeInv, TypeOK

LEMMA ScanZombiesType ==
  ASSUME TypeInv, ScanZombies
  PROVE  TypeInv'
<1>1. zombies' \subseteq Requests
  BY DEF ScanZombies, TypeInv, TypeOK
<1>2. QED
  BY <1>1
  DEF ScanZombies, database, broker, jobs, ActorsKnowRequest,
      OrdersHaveRequest, BatchWithinLimit, TypeInv, TypeOK

LEMMA RollbackZombiesType ==
  ASSUME TypeInv, RollbackZombies
  PROVE  TypeInv'
<1>1. position' \in [Positions -> PositionRow]
  BY DEF RollbackZombies, HasNoOutbox, PositionRow, PositionStatus,
        TypeInv, TypeOK
<1>2. request' \in [Requests -> RequestRow]
  BY DEF RollbackZombies, HasNoOutbox, RequestRow, RequestStatus,
        TypeInv, TypeOK
<1>3. zombies' \subseteq Requests
  BY DEF RollbackZombies, HasNoOutbox, TypeInv, TypeOK
<1>4. BatchWithinLimit'
  BY ConstantsAssumption
  DEF RollbackZombies, HasNoOutbox, BatchWithinLimit, TypeInv, TypeOK,
      RequestRow
<1>5. QED
  BY <1>1, <1>2, <1>3, <1>4
  DEF RollbackZombies, HasNoOutbox, database, broker, jobs,
      ActorsKnowRequest, OrdersHaveRequest, BatchWithinLimit, TypeInv, TypeOK

LEMMA ScanStuckType ==
  ASSUME TypeInv, ScanStuck
  PROVE  TypeInv'
<1>1. stuck' \subseteq Requests
  BY DEF ScanStuck, TypeInv, TypeOK
<1>2. QED
  BY <1>1
  DEF ScanStuck, database, broker, jobs, ActorsKnowRequest,
      OrdersHaveRequest, BatchWithinLimit, TypeInv, TypeOK

LEMMA RecoverStuckType ==
  ASSUME NEW missing \in SUBSET Orders, TypeInv, RecoverStuck(missing)
  PROVE  TypeInv'
<1>1. order' \in [Orders -> OrderRow]
  <2>1. ASSUME NEW o \in Orders, order[o].missing < MaxNotFound
        PROVE  [order[o] EXCEPT !.missing = @ + 1] \in OrderRow
    BY <2>1, ConstantsAssumption DEF OrderRow, TypeInv, TypeOK
  <2>2. QED
    BY <2>1 DEF RecoverStuck, TypeInv, TypeOK
<1>2. /\ request' \in [Requests -> RequestRow]
      /\ \A s \in Requests : request'[s].retries = request[s].retries
  BY SMTT(30) DEF RecoverStuck, RequestRow, RequestStatus, TypeInv, TypeOK
<1>3. position' \in [Positions -> PositionRow]
  <2>1. \A p \in Positions : [position[p] EXCEPT !.status = "close_failed"] \in PositionRow
    BY DEF PositionRow, PositionStatus, TypeInv, TypeOK
  <2>2. QED
    BY <2>1 DEF RecoverStuck, TypeInv, TypeOK
<1>4. stuck' \subseteq Requests
  BY DEF RecoverStuck
<1>5. BatchWithinLimit'
  BY <1>2, RetriesKept DEF RecoverStuck
<1>6. QED
  BY <1>1, <1>2, <1>3, <1>4, <1>5
  DEF RecoverStuck, broker, ActorsKnowRequest, OrdersHaveRequest, TypeInv, TypeOK

LEMMA ScanRetryableType ==
  ASSUME TypeInv, ScanRetryable
  PROVE  TypeInv'
<1>1. ASSUME NEW r \in Requests
      PROVE  /\ Remaining(r) \in 0 .. Quantity
             /\ Remaining(r) > 0 => request[r].retries < MaxRetries
  BY ConstantsAssumption DEF Remaining, RequestRow, TypeInv, TypeOK
<1>2. batch' \in [Requests -> 0 .. Quantity] /\ BatchWithinLimit'
  BY <1>1 DEF ScanRetryable, database, BatchWithinLimit
<1>3. QED
  BY <1>2
  DEF ScanRetryable, database, broker, ActorsKnowRequest, OrdersHaveRequest, TypeInv, TypeOK

LEMMA CommitRetriesType ==
  ASSUME TypeInv, CommitRetries
  PROVE  TypeInv'
<1>1. clock' \in Nat
  <2>1. clock' = clock + 1
    BY DEF CommitRetries
  <2>2. QED
    BY <2>1 DEF TypeInv, TypeOK
<1>2. event' \in [Requests -> EventRow]
  <2>1. ASSUME NEW r \in Requests
        PROVE  [status |-> "pending", tries |-> 0, qty |-> batch[r], born |-> clock']
                 \in EventRow
    BY <1>1, ConstantsAssumption DEF EventRow, EventStatus, TypeInv, TypeOK
  <2>2. QED
    BY <2>1, Zenon DEF CommitRetries, TypeInv, TypeOK
<1>3. request' \in [Requests -> RequestRow]
  <2>1. ASSUME NEW r \in InBatch
        PROVE  [request[r] EXCEPT !.status = "pending", !.retries = @ + 1] \in RequestRow
    <3>1. request[r] \in RequestRow /\ request[r].retries < MaxRetries
      BY DEF InBatch, BatchWithinLimit, TypeInv, TypeOK
    <3>2. request[r].retries + 1 \in 0 .. MaxRetries
      BY <3>1, ConstantsAssumption DEF RequestRow
    <3>3. QED
      BY <3>1, <3>2 DEF RequestRow, RequestStatus
  <2>2. QED
    BY <2>1, Zenon DEF CommitRetries, TypeInv, TypeOK
<1>4. position' \in [Positions -> PositionRow]
  <2>1. \A p \in Positions : [position[p] EXCEPT !.status = "closing"] \in PositionRow
    BY DEF PositionRow, PositionStatus, TypeInv, TypeOK
  <2>2. QED
    BY <2>1, Zenon DEF CommitRetries, TypeInv, TypeOK
<1>5. batch' \in [Requests -> 0 .. Quantity] /\ BatchWithinLimit'
  <2>1. batch' = [r \in Requests |-> 0]
    BY DEF CommitRetries, NoBatch
  <2>2. QED
    BY <2>1, ConstantsAssumption DEF BatchWithinLimit
<1>6. UNCHANGED <<order, live, reports, call, worker, zombies, stuck>>
  BY DEF CommitRetries, broker
<1>7. QED
  BY <1>1, <1>2, <1>3, <1>4, <1>5, <1>6
  DEF ActorsKnowRequest, OrdersHaveRequest, TypeInv, TypeOK

LEMMA RetriesRolledBackType ==
  ASSUME TypeInv, RetriesRolledBack
  PROVE  TypeInv'
<1>1. batch' \in [Requests -> 0 .. Quantity]
  BY ConstantsAssumption DEF RetriesRolledBack, NoBatch, TypeInv, TypeOK
<1>2. BatchWithinLimit'
  BY ConstantsAssumption
  DEF RetriesRolledBack, NoBatch, BatchWithinLimit, TypeInv, TypeOK,
      RequestRow
<1>3. QED
  BY <1>1, <1>2
  DEF RetriesRolledBack, NoBatch, database, broker, jobs,
      ActorsKnowRequest, OrdersHaveRequest, BatchWithinLimit, TypeInv, TypeOK

LEMMA CheckInvariantsType ==
  ASSUME TypeInv, CheckInvariants
  PROVE  TypeInv'
<1>1. position' \in [Positions -> PositionRow]
  BY DEF CheckInvariants, PositionRow, PositionStatus, TypeInv, TypeOK
<1>2. QED
  BY <1>1
  DEF CheckInvariants, database, broker, jobs, ActorsKnowRequest,
      OrdersHaveRequest, BatchWithinLimit, TypeInv, TypeOK

LEMMA CleanupType ==
  ASSUME NEW cutoff \in 1 .. clock + 1, TypeInv, Cleanup(cutoff)
  PROVE  TypeInv'
<1>1. event' \in [Requests -> EventRow]
  <2>1. NoEvent \in EventRow
    BY ConstantsAssumption DEF NoEvent, EventRow, EventStatus
  <2>2. QED
    BY <2>1 DEF Cleanup, TypeInv, TypeOK
<1>2. QED
  BY <1>1
  DEF Cleanup, NoEvent, database, broker, jobs, ActorsKnowRequest,
      OrdersHaveRequest, BatchWithinLimit, TypeInv, TypeOK

LEMMA StutterType == ASSUME TypeInv, UNCHANGED vars PROVE TypeInv'
  BY DEF vars, TypeInv, TypeOK, ActorsKnowRequest, OrdersHaveRequest, BatchWithinLimit

LEMMA NextType == ASSUME TypeInv, [Next]_vars PROVE TypeInv'
<1>1. CASE \E c \in Clients : (\E r \in Requests : CheckReplay(c, r)) \/ Refuse(c) \/ Accept(c)
  BY <1>1, CheckReplayType, RefuseType, AcceptType
<1>2. CASE \E w \in Workers : WorkerStep(w) \/ Crash(w)
  BY <1>2, ClaimType, SkipProcessedType, ReadRequestType,
     RaiseBeforeSubmitType, SubmitAcceptedType, SubmitRejectedType,
     SubmitAmbiguousType, CommitSubmittedType, CommitRejectedType,
     RetryEventType, GiveUpType, CrashType DEF WorkerStep
<1>3. CASE \E o \in Orders : BrokerStep(o)
  BY <1>3, BrokerFillType, BrokerEndType, BrokerLateFillType DEF
     BrokerStep
<1>4. CASE \E m \in reports : OnOrderUpdate(m)
  BY <1>4, ApplyUpdateType, ApplyQuantityType DEF OnOrderUpdate
<1>5. CASE \E r \in Requests : GrowOld(r)
  BY <1>5, GrowOldType
<1>6. CASE ScanZombies \/ RollbackZombies
  BY <1>6, ScanZombiesType, RollbackZombiesType
<1>7. CASE ScanStuck \/ \E missing \in SUBSET Orders : RecoverStuck(missing)
  BY <1>7, ScanStuckType, RecoverStuckType
<1>8. CASE ScanRetryable \/ CommitRetries \/ RetriesRolledBack
  BY <1>8, ScanRetryableType, CommitRetriesType, RetriesRolledBackType
<1>9. CASE CheckInvariants
  BY <1>9, CheckInvariantsType
<1>10. CASE \E cutoff \in 1 .. clock + 1 : Cleanup(cutoff)
  BY <1>10, CleanupType
<1>11. CASE UNCHANGED vars
  BY <1>11, StutterType
<1>12. QED
  BY <1>1, <1>2, <1>3, <1>4, <1>5, <1>6, <1>7, <1>8, <1>9, <1>10, <1>11 DEF Next

\* Every row of the four tables, every order at the broker and every actor is
\* in a state the code's types allow; in particular neither the retries of a
\* request nor the attempts at an event exceed their limits.
THEOREM TypeCorrect == Spec => []TypeOK
<1>1. TypeInv => TypeOK
  BY DEF TypeInv
<1>2. QED
  BY <1>1, InitTypeInv, NextType, PTL DEF Spec

-----------------------------------------------------------------------------
(* Workers.  A worker at work holds a PROCESSING event; an event is claimed *)
(* only when PENDING, and an event row is (re)created only for a request    *)
(* that has none.                                                           *)

WorkersHoldEvents ==
  \A w \in Workers : worker[w].pc # "idle" => event[worker[w].req].status = "processing"

EventsHaveRequests ==
  \A r \in Requests : event[r].status # "none" => request[r].status # "none"

WorkInv == WorkersHoldEvents /\ OneWorkerPerRequest /\ EventsHaveRequests

\* Most steps leave events and workers alone and keep the requests that exist.
LEMMA WorkKept ==
  ASSUME WorkInv, UNCHANGED <<event, worker>>,
         \A r \in Requests : request[r].status # "none" => request'[r].status # "none"
  PROVE  WorkInv'
  BY DEF WorkInv, WorkersHoldEvents, OneWorkerPerRequest, EventsHaveRequests

\* A worker that moves on keeps the event it holds.
LEMMA GotoKeepsWork ==
  ASSUME NEW w \in Workers, NEW pc, TypeInv, WorkInv, worker[w].pc # "idle",
         Goto(w, pc), UNCHANGED <<event, request>>
  PROVE  WorkInv'
  BY DEF Goto, WorkInv, WorkersHoldEvents, OneWorkerPerRequest, EventsHaveRequests,
         TypeInv, TypeOK, WorkerState

\* A worker that lets go may do as it likes with the event it alone holds.
LEMMA ReleaseKeepsWork ==
  ASSUME NEW w \in Workers, TypeInv, WorkInv, worker[w].pc # "idle", Release(w),
         \A r \in Requests \ {worker[w].req} : event'[r] = event[r],
         \A r \in Requests : request[r].status # "none" => request'[r].status # "none"
  PROVE  WorkInv'
<1> DEFINE mine == worker[w].req
<1>1. mine \in Requests /\ request[mine].status # "none"
  BY DEF TypeInv, ActorsKnowRequest, WorkInv, WorkersHoldEvents, EventsHaveRequests
<1>2. ASSUME NEW v \in Workers, worker'[v].pc # "idle"
      PROVE  v # w /\ worker'[v] = worker[v] /\ worker[v].req \in Requests \ {mine}
  BY <1>2 DEF Release, WorkInv, OneWorkerPerRequest, TypeInv, TypeOK, WorkerState,
              ActorsKnowRequest
<1>3. WorkersHoldEvents' /\ OneWorkerPerRequest'
  BY <1>2 DEF WorkInv, WorkersHoldEvents, OneWorkerPerRequest
<1>4. EventsHaveRequests'
  BY <1>1 DEF WorkInv, EventsHaveRequests
<1>5. QED
  BY <1>3, <1>4 DEF WorkInv

LEMMA ClaimKeepsWork ==
  ASSUME NEW w \in Workers, NEW r \in Requests, TypeInv, WorkInv, Claim(w, r)
  PROVE  WorkInv'
<1>1. \A v \in Workers : v # w /\ worker[v].pc # "idle" => worker[v].req # r
  BY DEF Claim, WorkInv, WorkersHoldEvents
<1>2. worker'[w].req = r /\ \A v \in Workers \ {w} : worker'[v] = worker[v]
  BY DEF Claim, TypeInv, TypeOK
<1>3. event'[r].status = "processing" /\ \A s \in Requests \ {r} : event'[s] = event[s]
  BY DEF Claim, TypeInv, TypeOK, EventRow
<1>4. OneWorkerPerRequest'
  BY <1>1, <1>2 DEF WorkInv, OneWorkerPerRequest
<1>5. WorkersHoldEvents'
  BY <1>1, <1>2, <1>3 DEF WorkInv, WorkersHoldEvents, TypeInv, ActorsKnowRequest
<1>6. EventsHaveRequests'
  BY <1>3 DEF Claim, WorkInv, EventsHaveRequests
<1>7. QED
  BY <1>4, <1>5, <1>6 DEF WorkInv

LEMMA AcceptKeepsWork ==
  ASSUME NEW c \in Clients, TypeInv, WorkInv, Accept(c)
  PROVE  WorkInv'
<1> DEFINE r == call[c].req
<1>1. r \in Requests /\ event[r].status = "none"
  BY DEF Accept, TypeInv, ActorsKnowRequest, WorkInv, EventsHaveRequests
<1>2. request'[r].status = "pending" /\ \A s \in Requests \ {r} : request'[s] = request[s]
  BY <1>1 DEF Accept, TypeInv, TypeOK, RequestRow
<1>3. \A s \in Requests \ {r} : event'[s] = event[s]
  BY DEF Accept, TypeInv, TypeOK
<1>4. UNCHANGED worker
  BY DEF Accept
<1>5. QED
  BY <1>1, <1>2, <1>3, <1>4
  DEF WorkInv, WorkersHoldEvents, OneWorkerPerRequest, EventsHaveRequests, TypeInv,
      ActorsKnowRequest

LEMMA CommitRetriesKeepsWork ==
  ASSUME TypeInv, WorkInv, CommitRetries
  PROVE  WorkInv'
<1>1. \A r \in InBatch : request'[r].status = "pending" /\ event[r].status = "none"
  <2>1. \A r \in InBatch : request'[r] = [request[r] EXCEPT !.status = "pending", !.retries = @ + 1]
    BY Zenon DEF CommitRetries, InBatch
  <2>2. \A r \in InBatch : event[r].status = "none"
    BY DEF CommitRetries
  <2>3. QED
    BY <2>1, <2>2 DEF InBatch, TypeInv, TypeOK, RequestRow
<1>2. \A r \in Requests \ InBatch : request'[r] = request[r] /\ event'[r] = event[r]
  BY Zenon DEF CommitRetries
<1>3. UNCHANGED worker
  BY DEF CommitRetries
<1>4. QED
  BY <1>1, <1>2, <1>3
  DEF WorkInv, WorkersHoldEvents, OneWorkerPerRequest, EventsHaveRequests, TypeInv,
      ActorsKnowRequest

LEMMA CleanupKeepsWork ==
  ASSUME NEW cutoff, TypeInv, WorkInv, Cleanup(cutoff)
  PROVE  WorkInv'
<1>1. \A r \in Requests : \/ event'[r] = event[r]
                          \/ event[r].status \in {"completed", "failed"} /\ event'[r].status = "none"
  BY DEF Cleanup, NoEvent
<1>2. UNCHANGED <<worker, request>>
  BY DEF Cleanup
<1>3. QED
  BY <1>1, <1>2
  DEF WorkInv, WorkersHoldEvents, OneWorkerPerRequest, EventsHaveRequests, TypeInv,
      ActorsKnowRequest
\* A request is never deleted: no status is set back to "none".
LEMMA UpdateKeepsRequests ==
  ASSUME NEW r \in Requests, NEW rows, TypeInv, UpdateCloseRequest(r, rows)
  PROVE  \A s \in Requests : request[s].status # "none" => request'[s].status # "none"
<1> DEFINE allFilled == \A o \in RowsOf(r, rows) : rows[o].status = "filled"
<1>1. PICK total \in 0 .. MaxOrders * Quantity :
        \/ request' = [request EXCEPT ![r].filled = total]
        \/ request' = [request EXCEPT ![r].filled = total,
                                      ![r].status = Outcome(allFilled, total).request]
  BY DEF UpdateCloseRequest
<1>2. Outcome(allFilled, total).request # "none"
  BY DEF Outcome
<1>3. PICK status : status = Outcome(allFilled, total).request
  OBVIOUS
<1> HIDE DEF allFilled
<1>4. request \in [Requests -> RequestRow]
  BY DEF TypeInv, TypeOK
<1>5. \A x \in RequestRow : /\ [x EXCEPT !.filled = total].status = x.status
                            /\ [x EXCEPT !.filled = total, !.status = status].status = status
  BY DEF RequestRow
<1>6. \A s \in Requests : s # r => request'[s] = request[s]
  BY <1>1, <1>4
<1>7. \/ request'[r] = [request[r] EXCEPT !.filled = total]
      \/ request'[r] = [request[r] EXCEPT !.filled = total, !.status = status]
  BY <1>1, <1>3, <1>4
<1>8. request'[r].status \in {request[r].status, status}
  BY <1>4, <1>5, <1>7
<1> QED BY <1>2, <1>3, <1>6, <1>8

LEMMA NextWork == ASSUME TypeInv, WorkInv, [Next]_vars PROVE WorkInv'
<1>1. CASE \E c \in Clients : (\E r \in Requests : CheckReplay(c, r)) \/ Refuse(c) \/ Accept(c)
  <2>1. ASSUME NEW c \in Clients, (\E r \in Requests : CheckReplay(c, r)) \/ Refuse(c)
        PROVE  UNCHANGED <<event, worker, request>>
    BY <2>1 DEF CheckReplay, Refuse, database
  <2>2. QED
    BY <1>1, <2>1, WorkKept, AcceptKeepsWork
<1>2. ASSUME NEW w \in Workers, WorkerStep(w) \/ Crash(w)
      PROVE  WorkInv'
  <2>1. CASE \E r \in Requests : Claim(w, r)
    BY <2>1, ClaimKeepsWork
  <2>2. CASE \/ ReadRequest(w) \/ RaiseBeforeSubmit(w)
             \/ \E o \in Orders : SubmitAccepted(w, o) \/ SubmitRejected(w, o)
                                  \/ SubmitAmbiguous(w, o)
    <3>1. PICK pc : worker[w].pc # "idle" /\ Goto(w, pc)
      BY <2>2 DEF ReadRequest, RaiseBeforeSubmit, SubmitAccepted, SubmitRejected,
                  SubmitAmbiguous
    <3>2. UNCHANGED <<event, request>>
      BY <2>2 DEF ReadRequest, RaiseBeforeSubmit, SubmitAccepted, SubmitRejected,
                  SubmitAmbiguous, database
    <3>3. QED
      BY <3>1, <3>2, GotoKeepsWork
  <2>3. CASE \/ SkipProcessed(w) \/ CommitSubmitted(w) \/ CommitRejected(w)
             \/ RetryEvent(w) \/ GiveUp(w) \/ Crash(w)
    <3>1. worker[w].pc # "idle" /\ Release(w)
      BY <2>3 DEF SkipProcessed, CommitSubmitted, CommitRejected, RetryEvent, GiveUp, Crash
    <3>2. \A r \in Requests \ {worker[w].req} : event'[r] = event[r]
      BY <2>3 DEF SkipProcessed, CommitSubmitted, CommitRejected, RetryEvent, GiveUp, Crash,
                  database, TypeInv, TypeOK
    <3>3. \A r \in Requests : request[r].status # "none" => request'[r].status # "none"
      BY <2>3 DEF SkipProcessed, CommitSubmitted, CommitRejected, RetryEvent, GiveUp, Crash,
                  Fail, database, TypeInv, TypeOK, RequestRow
    <3>4. QED
      BY <3>1, <3>2, <3>3, ReleaseKeepsWork
  <2>4. QED
    BY <1>2, <2>1, <2>2, <2>3 DEF WorkerStep
<1>3. CASE \E o \in Orders : BrokerStep(o)
  BY <1>3, WorkKept DEF BrokerStep, BrokerFill, BrokerEnd, BrokerLateFill, Change, database
<1>4. CASE \E m \in reports : OnOrderUpdate(m)
  <2>1. ASSUME NEW m \in reports, ApplyUpdate(m)
        PROVE  \A s \in Requests : request[s].status # "none" => request'[s].status # "none"
    <3>1. live[m.order].req \in Requests
      BY DEF TypeInv, TypeOK, Report, OrdersHaveRequest
    <3>2. QED
      BY <2>1, <3>1, UpdateKeepsRequests DEF ApplyUpdate
  <2>2. QED
    BY <1>4, <2>1, WorkKept DEF OnOrderUpdate, ApplyUpdate, ApplyQuantity
<1>5. CASE \E r \in Requests : GrowOld(r)
  BY <1>5, WorkKept DEF GrowOld, TypeInv, TypeOK, RequestRow
<1>6. CASE ScanZombies \/ RollbackZombies
  BY <1>6, WorkKept DEF ScanZombies, RollbackZombies, database, TypeInv, TypeOK, RequestRow
<1>7. CASE ScanStuck \/ \E missing \in SUBSET Orders : RecoverStuck(missing)
  BY <1>7, WorkKept DEF ScanStuck, RecoverStuck, database, TypeInv, TypeOK, RequestRow
<1>8. CASE ScanRetryable \/ RetriesRolledBack \/ CheckInvariants
  BY <1>8, WorkKept DEF ScanRetryable, RetriesRolledBack, CheckInvariants, database
<1>9. CASE CommitRetries
  BY <1>9, CommitRetriesKeepsWork
<1>10. CASE \E cutoff \in 1 .. clock + 1 : Cleanup(cutoff)
  BY <1>10, CleanupKeepsWork
<1>11. CASE UNCHANGED vars
  BY <1>11, WorkKept DEF vars
<1>12. QED
  BY <1>1, <1>2, <1>3, <1>4, <1>5, <1>6, <1>7, <1>8, <1>9, <1>10, <1>11 DEF Next

\* FOR UPDATE SKIP LOCKED with the PROCESSING mark keeps any number of workers
\* off each other's requests, whenever they crash and whatever the cleaner
\* deletes.
THEOREM OneWorker == Spec => []OneWorkerPerRequest
<1>1. Init => WorkInv
  BY DEF Init, WorkInv, WorkersHoldEvents, OneWorkerPerRequest, EventsHaveRequests, NoEvent
<1>2. WorkInv => OneWorkerPerRequest
  BY DEF WorkInv
<1>3. QED
  BY <1>1, <1>2, InitTypeInv, NextType, NextWork, PTL DEF Spec
-----------------------------------------------------------------------------
(* Order rows.  The broker's own record of an order never loses a fill, and *)
(* each report was true of it when it was sent; so whatever reports arrive, *)
(* the row says nothing the broker does not know.                           *)

\* A row is written with the order it stands for.
RowsHaveOrders ==
  \A o \in Orders : order[o].status # "none" => live[o].status # "none"

\* The broker's record of an order.
LiveSound ==
  \A o \in Orders : /\ live[o].status = "filled" => live[o].filled = live[o].qty
                    /\ live[o].filled <= live[o].qty
                    /\ live[o].status = "none" => live[o].filled = 0
                    /\ order[o].status = "filled" => live[o].status = "filled"

ReportsSound ==
  \A m \in reports : /\ m.filled <= live[m.order].filled
                     /\ m.status = "filled" => live[m.order].status = "filled"
                     /\ m.status # "none"

FillInv == RowsHaveOrders /\ LiveSound /\ ReportsSound /\ RecordedFillsSound

LEMMA FillsKept ==
  ASSUME FillInv, UNCHANGED <<live, reports>>,
         \A o \in Orders : order'[o].status = order[o].status /\ order'[o].filled = order[o].filled
  PROVE  FillInv'
  BY DEF FillInv, RowsHaveOrders, LiveSound, ReportsSound, RecordedFillsSound

\* A new order has no report and no recorded fill yet.
LEMMA PlaceKeepsFills ==
  ASSUME NEW o \in Orders, NEW r \in Requests, NEW status \in {"submitted", "cancelled"},
         TypeInv, FillInv, NextOrder(o), Place(o, r, status), UNCHANGED reports,
         order' = [order EXCEPT ![o].status = status] \/ UNCHANGED order
  PROVE  FillInv'
<1>1. order[o].status = "none" /\ order[o].filled \in Nat /\ event[r].qty \in Nat
  BY DEF NextOrder, FillInv, RowsHaveOrders, TypeInv, TypeOK, OrderRow, EventRow
<1>2. /\ live'[o].status = status /\ live'[o].filled = 0 /\ live'[o].qty \in Nat
      /\ \A x \in Orders \ {o} : live'[x] = live[x]
  BY <1>1 DEF Place, TypeInv, TypeOK
<1>3. /\ order'[o].status \in {"none", status} /\ order'[o].filled = order[o].filled
      /\ \A x \in Orders \ {o} : order'[x] = order[x]
  BY <1>1 DEF TypeInv, TypeOK, OrderRow
<1>4. order[o].filled = 0
  BY <1>1 DEF NextOrder, FillInv, LiveSound, RecordedFillsSound
<1>5. \A m \in reports : m.order \in Orders \ {o}
  BY DEF NextOrder, OrdersHaveRequest, TypeInv, TypeOK, Report
<1>6. RowsHaveOrders' /\ LiveSound' /\ RecordedFillsSound'
  BY <1>2, <1>3, <1>4 DEF FillInv, RowsHaveOrders, LiveSound, RecordedFillsSound
<1>7. ReportsSound'
  BY <1>2, <1>5 DEF FillInv, ReportsSound
<1>8. QED
  BY <1>6, <1>7 DEF FillInv

\* A change of an order at the broker adds to its fills and keeps FILLED.
LEMMA ChangeKeepsFills ==
  ASSUME NEW o \in Orders, NEW status \in OrderStatus, NEW filled \in Nat, TypeInv, FillInv,
         Change(o, status, filled),
         live[o].filled <= filled, filled <= live[o].qty,
         status # "none", live[o].status # "filled",
         status = "filled" => filled = live[o].qty
  PROVE  FillInv'
<1>1. PICK seq \in {0, live[o].seq + 1} :
        /\ live' = [live EXCEPT ![o].status = status, ![o].filled = filled, ![o].seq = @ + 1]
        /\ reports' = reports \cup {[order |-> o, status |-> status,
                                     filled |-> filled, seq |-> seq]}
  BY DEF Change
<1>2. UNCHANGED order
  BY DEF Change, database
<1>3. /\ live'[o].status = status /\ live'[o].filled = filled /\ live'[o].qty = live[o].qty
      /\ \A x \in Orders \ {o} : live'[x] = live[x]
  BY <1>1 DEF TypeInv, TypeOK, BrokerOrder
<1>4. \A x \in Orders : live[x].filled \in Nat /\ live[x].qty \in Nat /\ order[x].filled \in Nat
  BY DEF TypeInv, TypeOK, BrokerOrder, OrderRow
<1>5. RowsHaveOrders' /\ LiveSound' /\ RecordedFillsSound'
  BY <1>2, <1>3, <1>4 DEF FillInv, RowsHaveOrders, LiveSound, RecordedFillsSound
<1>6. ReportsSound'
  <2>1. ASSUME NEW m \in reports
        PROVE  /\ m.order \in Orders /\ m.filled \in Nat
               /\ m.filled <= live'[m.order].filled
               /\ m.status = "filled" => live'[m.order].status = "filled"
               /\ m.status # "none"
    BY <1>3, <1>4 DEF FillInv, ReportsSound, TypeInv, TypeOK, Report
  <2>2. ASSUME NEW m \in reports', m \notin reports
        PROVE  m.order = o /\ m.status = status /\ m.filled = filled
    BY <1>1, <2>2
  <2>3. QED
    BY <1>3, <2>1, <2>2 DEF ReportsSound
<1>7. QED
  BY <1>5, <1>6 DEF FillInv

\* A row takes over what the report says, or keeps what it had.
LEMMA UpdatedKeepsFills ==
  ASSUME NEW m \in reports, NEW status \in {m.status, order[m.order].status},
         TypeInv, FillInv, order' = Updated(m, status), UNCHANGED <<live, reports>>
  PROVE  FillInv'
<1>1. m.order \in Orders /\ m.filled \in Nat /\ order[m.order].filled \in Nat
  BY DEF TypeInv, TypeOK, Report, OrderRow
<1>2. /\ order'[m.order].status = status
      /\ order'[m.order].filled \in {m.filled, order[m.order].filled}
      /\ \A o \in Orders \ {m.order} : order'[o] = order[o]
  BY <1>1 DEF Updated, TypeInv, TypeOK, OrderRow
<1>3. live[m.order].status # "none"
  BY DEF TypeInv, OrdersHaveRequest
<1>4. QED
  BY <1>1, <1>2, <1>3
  DEF FillInv, RowsHaveOrders, LiveSound, ReportsSound, RecordedFillsSound
LEMMA BrokerKeepsFills ==
  ASSUME NEW o \in Orders, TypeInv, FillInv, BrokerStep(o)
  PROVE  FillInv'
<1>1. live[o].filled \in Nat /\ live[o].qty \in Nat /\ live[o].status \in OrderStatus
  BY DEF TypeInv, TypeOK, BrokerOrder
<1>2. CASE BrokerFill(o) \/ BrokerLateFill(o)
  <2>1. PICK status \in OrderStatus \ {"none"} :
          /\ Change(o, status, live[o].filled + 1)
          /\ status = "filled" => live[o].filled + 1 = live[o].qty
    BY <1>2 DEF BrokerFill, BrokerLateFill, OrderStatus
  <2>2. live[o].filled < live[o].qty /\ live[o].status # "filled"
    BY <1>2 DEF BrokerFill, BrokerLateFill, Working
  <2>3. live[o].filled + 1 \in Nat /\ live[o].filled <= live[o].filled + 1
        /\ live[o].filled + 1 <= live[o].qty
    BY <1>1, <2>2
  <2>4. QED
    BY <2>1, <2>2, <2>3, ChangeKeepsFills
<1>3. CASE BrokerEnd(o)
  <2>1. live[o].filled <= live[o].qty
    BY DEF FillInv, LiveSound
  <2>2. QED
    BY <1>1, <1>3, <2>1, ChangeKeepsFills DEF BrokerEnd, Working, OrderStatus
<1>4. QED
  BY <1>2, <1>3 DEF BrokerStep

LEMMA NextFills == ASSUME TypeInv, FillInv, [Next]_vars PROVE FillInv'
<1>1. CASE \E c \in Clients : (\E r \in Requests : CheckReplay(c, r)) \/ Refuse(c) \/ Accept(c)
  BY <1>1, FillsKept DEF CheckReplay, Refuse, Accept, database, broker
<1>2. ASSUME NEW w \in Workers, WorkerStep(w) \/ Crash(w)
      PROVE  FillInv'
  <2>1. CASE \E o \in Orders : SubmitAccepted(w, o) \/ SubmitRejected(w, o)
                            \/ SubmitAmbiguous(w, o)
    <3>1. PICK o \in Orders, status \in {"submitted", "cancelled"} :
            /\ worker[w].pc # "idle" /\ NextOrder(o)
            /\ Place(o, worker[w].req, status) /\ UNCHANGED reports
            /\ order' = [order EXCEPT ![o].status = status] \/ UNCHANGED order
      BY <2>1 DEF SubmitAccepted, SubmitRejected, SubmitAmbiguous
    <3>2. worker[w].req \in Requests
      BY <3>1 DEF TypeInv, ActorsKnowRequest
    <3>3. QED
      BY <3>1, <3>2, PlaceKeepsFills
  <2>2. CASE \/ \E r \in Requests : Claim(w, r)
             \/ SkipProcessed(w) \/ ReadRequest(w) \/ RaiseBeforeSubmit(w)
             \/ CommitSubmitted(w) \/ CommitRejected(w) \/ RetryEvent(w) \/ GiveUp(w)
             \/ Crash(w)
    BY <2>2, FillsKept
    DEF Claim, SkipProcessed, ReadRequest, RaiseBeforeSubmit, CommitSubmitted,
        CommitRejected, RetryEvent, GiveUp, Crash, database, broker
  <2>3. QED
    BY <1>2, <2>1, <2>2 DEF WorkerStep
<1>3. CASE \E o \in Orders : BrokerStep(o)
  BY <1>3, BrokerKeepsFills
<1>4. CASE \E m \in reports : OnOrderUpdate(m)
  BY <1>4, UpdatedKeepsFills DEF OnOrderUpdate, ApplyUpdate, ApplyQuantity, broker
<1>5. CASE (\E r \in Requests : GrowOld(r)) \/ ScanZombies \/ RollbackZombies
  BY <1>5, FillsKept DEF GrowOld, ScanZombies, RollbackZombies, database, broker
<1>6. CASE ScanStuck \/ \E missing \in SUBSET Orders : RecoverStuck(missing)
  <2>1. ASSUME NEW missing \in SUBSET Orders, RecoverStuck(missing)
        PROVE  \A o \in Orders : /\ order'[o].status = order[o].status
                                 /\ order'[o].filled = order[o].filled
    BY <2>1 DEF RecoverStuck, TypeInv, TypeOK, OrderRow
  <2>2. QED
    BY <1>6, <2>1, FillsKept DEF ScanStuck, RecoverStuck, database, broker
<1>7. CASE \/ ScanRetryable \/ CommitRetries \/ RetriesRolledBack \/ CheckInvariants
           \/ \E cutoff \in 1 .. clock + 1 : Cleanup(cutoff)
  BY <1>7, FillsKept
  DEF ScanRetryable, CommitRetries, RetriesRolledBack, CheckInvariants, Cleanup,
      database, broker
<1>8. CASE UNCHANGED vars
  BY <1>8, FillsKept DEF vars
<1>9. QED
  BY <1>1, <1>2, <1>3, <1>4, <1>5, <1>6, <1>7, <1>8 DEF Next

LEMMA InitFills == Init => FillInv
  BY DEF Init, FillInv, RowsHaveOrders, LiveSound, ReportsSound, RecordedFillsSound

\* Whatever updates are lost, repeated, reordered or sent without a sequence
\* number, an order row never shows more fills than the broker made, and FILLED
\* only for an order that is.
THEOREM RecordedFills == Spec => []RecordedFillsSound
<1>1. FillInv => RecordedFillsSound
  BY DEF FillInv
<1>2. QED
  BY <1>1, InitTypeInv, InitFills, NextType, NextFills, PTL DEF Spec

-----------------------------------------------------------------------------
(* The life of an order row.                                               *)

Forward ==
  \A o \in Orders :
    /\ order[o].status = "filled" => order'[o].status = "filled"
                                     /\ order'[o].filled = order[o].filled
    /\ order[o].status \in TerminalStates => order'[o].status \in TerminalStates
    /\ Progress(order'[o].status) >= Progress(order[o].status)
    /\ order'[o].filled >= order[o].filled

LEMMA ProgressNat == ASSUME NEW status PROVE Progress(status) \in 1 .. 4
  BY DEF Progress

LEMMA RowsKept ==
  ASSUME TypeInv, \A o \in Orders : /\ order'[o].status = order[o].status
                                   /\ order'[o].filled = order[o].filled
  PROVE  Forward
<1>1. \A o \in Orders : order[o].filled \in Nat
  BY DEF TypeInv, TypeOK, OrderRow
<1>2. QED
  BY <1>1, ProgressNat DEF Forward

LEMMA PlaceGoesForward ==
  ASSUME NEW o \in Orders, NEW status, TypeInv, FillInv, NextOrder(o),
         order' = [order EXCEPT ![o].status = status] \/ UNCHANGED order
  PROVE  Forward
<1>1. order[o].status = "none"
  BY DEF NextOrder, FillInv, RowsHaveOrders
<1>2. Progress("none") = 1
  BY DEF Progress
<1>3. \A x \in Orders : /\ order[x].filled \in Nat /\ order'[x].filled = order[x].filled
                        /\ x # o => order'[x].status = order[x].status
  BY DEF TypeInv, TypeOK, OrderRow
<1>4. QED
  BY <1>1, <1>2, <1>3, ProgressNat DEF Forward, TerminalStates

LEMMA UpdateGoesForward ==
  ASSUME NEW m \in reports, TypeInv, OnOrderUpdate(m)
  PROVE  Forward
<1>1. m.order \in Orders /\ m.filled \in Nat /\ order[m.order].filled \in Nat
  BY DEF TypeInv, TypeOK, Report, OrderRow
<1>2. PICK status : /\ order' = Updated(m, status)
                    /\ \/ status = order[m.order].status
                       \/ status = m.status /\ Advances(m)
  BY DEF OnOrderUpdate, ApplyUpdate, ApplyQuantity
<1>3. order[m.order].status # "filled"
  BY DEF OnOrderUpdate, ApplyUpdate, ApplyQuantity, Applicable
<1>4. /\ order'[m.order].status = status
      /\ order'[m.order].filled >= order[m.order].filled
      /\ \A o \in Orders \ {m.order} : order'[o] = order[o]
  BY <1>1, <1>2 DEF Updated, TypeInv, TypeOK, OrderRow
<1>5. /\ order[m.order].status \in TerminalStates => status \in TerminalStates
      /\ Progress(status) >= Progress(order[m.order].status)
  BY <1>2, ProgressNat DEF Advances, TerminalStates, Progress
<1>6. \A o \in Orders : order[o].filled \in Nat
  BY DEF TypeInv, TypeOK, OrderRow
<1>7. QED
  BY <1>3, <1>4, <1>5, <1>6, ProgressNat DEF Forward

LEMMA NextForward == ASSUME TypeInv, FillInv, [Next]_vars PROVE Forward
<1>1. ASSUME UNCHANGED order PROVE Forward
  BY <1>1, RowsKept
<1>2. CASE \E w \in Workers : \E o \in Orders :
        SubmitAccepted(w, o) \/ SubmitRejected(w, o) \/ SubmitAmbiguous(w, o)
  BY <1>2, PlaceGoesForward DEF SubmitAccepted, SubmitRejected, SubmitAmbiguous
<1>3. CASE \E m \in reports : OnOrderUpdate(m)
  BY <1>3, UpdateGoesForward
<1>4. CASE \E missing \in SUBSET Orders : RecoverStuck(missing)
  BY <1>4, RowsKept DEF RecoverStuck, TypeInv, TypeOK, OrderRow
<1>5. CASE \E c \in Clients : (\E r \in Requests : CheckReplay(c, r)) \/ Refuse(c) \/ Accept(c)
  BY <1>1, <1>5 DEF CheckReplay, Refuse, Accept, database
<1>6. CASE \E w \in Workers : \/ \E r \in Requests : Claim(w, r)
             \/ SkipProcessed(w) \/ ReadRequest(w) \/ RaiseBeforeSubmit(w)
             \/ CommitSubmitted(w) \/ CommitRejected(w) \/ RetryEvent(w) \/ GiveUp(w)
             \/ Crash(w)
  BY <1>1, <1>6
  DEF Claim, SkipProcessed, ReadRequest, RaiseBeforeSubmit, CommitSubmitted,
      CommitRejected, RetryEvent, GiveUp, Crash, database
<1>7. CASE \E o \in Orders : BrokerStep(o)
  BY <1>1, <1>7 DEF BrokerStep, BrokerFill, BrokerEnd, BrokerLateFill, Change, database
<1>8. CASE \/ \E r \in Requests : GrowOld(r)
           \/ ScanZombies \/ RollbackZombies \/ ScanStuck
           \/ ScanRetryable \/ CommitRetries \/ RetriesRolledBack \/ CheckInvariants
           \/ \E cutoff \in 1 .. clock + 1 : Cleanup(cutoff)
  BY <1>1, <1>8
  DEF GrowOld, ScanZombies, RollbackZombies, ScanStuck, ScanRetryable, CommitRetries,
      RetriesRolledBack, CheckInvariants, Cleanup, database
<1>9. CASE UNCHANGED vars
  BY <1>1, <1>9 DEF vars
<1>10. QED
  BY <1>2, <1>3, <1>4, <1>5, <1>6, <1>7, <1>8, <1>9 DEF Next, WorkerStep

\* Order rows only go forward, in any environment: FILLED is final, an ended
\* order does not come back to life, a recorded fill is never taken back.
THEOREM OrdersGoForward == Spec => OrderNeverRegresses
<1>1. TypeInv /\ FillInv /\ [Next]_vars => [Forward]_vars
  BY NextForward
<1>2. QED
  BY <1>1, InitTypeInv, InitFills, NextType, NextFills, PTL
  DEF Spec, OrderNeverRegresses, Forward
-----------------------------------------------------------------------------
(* Totals.  What a request or a position shows is a sum over its orders.    *)

Fold(rows, S) ==
  (CHOOSE g : g = [s \in SUBSET S |->
     IF s = {} THEN 0
     ELSE LET x == CHOOSE y \in s : TRUE IN rows[x].filled + g[s \ {x}]])[S]

Filled(rows) == [o \in Orders |-> rows[o].filled]

LEMMA FoldIsSum ==
  ASSUME NEW rows, NEW S \in SUBSET Orders
  PROVE  Fold(rows, S) = Sum(Filled(rows), S)
<1> DEFINE Rows(g) ==
             [s \in SUBSET S |->
                IF s = {} THEN 0
                ELSE LET x == CHOOSE y \in s : TRUE IN rows[x].filled + g[s \ {x}]]
<1>1. Fold(rows, S) = (CHOOSE g : g = Rows(g))[S]
  BY DEF Fold
<1>2. \A g : Rows(g) = Unfold(Filled(rows), g, S)
  BY DEF Unfold, Filled, Pick
<1>3. (CHOOSE g : g = Rows(g)) = Recursion(Filled(rows), S)
  <2> HIDE DEF Rows
  <2> QED BY Zenon, <1>2 DEF Recursion
<1> QED BY <1>1, <1>3, SumIsRecursion

\* Fills the broker has made for the orders of r, and for those of p.
FilledOf(r) == Sum(Filled(live), OrdersOf(r))

LEMMA TotalsAreSums ==
  /\ \A p : Executed(p) = Sum(Filled(live), OrdersFor(p))
  /\ \A p : Executed(p)' = Sum(Filled(live)', OrdersFor(p)')
  /\ \A r, rows : TotalFilled(r, rows) = Sum(Filled(rows), RowsOf(r, rows))
<1>1. ASSUME NEW p PROVE Executed(p) = Sum(Filled(live), OrdersFor(p))
  <2>1. Executed(p) = Fold(live, OrdersFor(p))
    BY DEF Executed, Fold, MapThenSumSet, MapThenFoldSet
  <2>2. OrdersFor(p) \in SUBSET Orders
    BY DEF OrdersFor
  <2> QED BY <2>1, <2>2, FoldIsSum
<1>2. ASSUME NEW p PROVE Executed(p)' = Sum(Filled(live)', OrdersFor(p)')
  <2>1. Executed(p)' = Fold(live', OrdersFor(p)')
    BY DEF Executed, Fold, MapThenSumSet, MapThenFoldSet
  <2>2. OrdersFor(p)' \in SUBSET Orders
    BY DEF OrdersFor
  <2>3. Filled(live)' = Filled(live')
    BY DEF Filled
  <2> QED BY <2>1, <2>2, <2>3, FoldIsSum
<1>3. ASSUME NEW r, NEW rows PROVE TotalFilled(r, rows) = Sum(Filled(rows), RowsOf(r, rows))
  <2>1. TotalFilled(r, rows) = Fold(rows, RowsOf(r, rows))
    BY DEF TotalFilled, Fold, MapThenSumSet, MapThenFoldSet
  <2>2. RowsOf(r, rows) \in SUBSET Orders
    BY DEF RowsOf
  <2> QED BY <2>1, <2>2, FoldIsSum
<1> QED BY <1>1, <1>2, <1>3

LEMMA RequestFillsAreSums ==
  RequestFillsSound <=> \A r \in Requests : request[r].filled <= FilledOf(r)
<1>1. ASSUME NEW r
      PROVE  MapThenSumSet(LAMBDA o : live[o].filled, OrdersOf(r)) = FilledOf(r)
  <2>1. MapThenSumSet(LAMBDA o : live[o].filled, OrdersOf(r)) = Fold(live, OrdersOf(r))
    BY DEF Fold, MapThenSumSet, MapThenFoldSet
  <2>2. OrdersOf(r) \in SUBSET Orders
    BY DEF OrdersOf
  <2> QED BY <2>1, <2>2, FoldIsSum DEF FilledOf
<1> QED BY <1>1 DEF RequestFillsSound
\* A place that is not used yet has no request.
UnusedHasNone == \A o \in Orders : live[o].status = "none" => live[o].req = None

TotalsInv ==
  /\ UnusedHasNone
  /\ \A r \in Requests : request[r].filled <= FilledOf(r)
  /\ ClosedMeansExecuted

LEMMA OrdersFinite ==
  /\ IsFiniteSet(Orders)
  /\ \A S \in SUBSET Orders : IsFiniteSet(S)
<1>1. IsFiniteSet(Orders)
  BY ConstantsAssumption, FS_Interval DEF Orders
<1> QED BY <1>1, FS_Subset

\* The broker's record only grows: no order changes hands, no fill is taken back.
LiveGrows ==
  \A o \in Orders : /\ live[o].req # None => live'[o].req = live[o].req
                    /\ live[o].filled <= live'[o].filled

LEMMA TotalsGrow ==
  ASSUME TypeInv, live' \in [Orders -> BrokerOrder], LiveGrows
  PROVE  /\ \A r \in Requests : /\ FilledOf(r) <= FilledOf(r)'
                                /\ FilledOf(r) \in Nat /\ FilledOf(r)' \in Nat
         /\ \A p \in Positions : /\ Executed(p) <= Executed(p)'
                                 /\ Executed(p) \in Nat /\ Executed(p)' \in Nat
<1> DEFINE t == Filled(live)
           u == Filled(live)'
<1>1. \A o \in Orders : /\ t[o] \in Nat /\ u[o] \in Nat /\ t[o] <= u[o]
  BY DEF Filled, LiveGrows, TypeInv, TypeOK, BrokerOrder
<1>2. ASSUME NEW S \in SUBSET Orders, NEW T \in SUBSET Orders, S \subseteq T
      PROVE  Sum(t, S) <= Sum(u, T) /\ Sum(t, S) \in Nat /\ Sum(u, T) \in Nat
  <2> HIDE DEF t, u
  <2>1. IsFiniteSet(S) /\ IsFiniteSet(T)
    BY OrdersFinite
  <2>2. \A o \in T : t[o] \in Int /\ u[o] \in Int /\ u[o] >= 0
    BY <1>1
  <2>3. \A o \in S : t[o] <= u[o]
    BY <1>1
  <2>4. Sum(t, S) <= Sum(u, T)
    BY <1>2, <2>1, <2>2, <2>3, SumMonotone
  <2>5. (\A o \in S : t[o] \in Nat) /\ (\A o \in T : u[o] \in Nat)
    BY <1>1
  <2> QED BY <2>1, <2>4, <2>5, SumNat
<1>3. ASSUME NEW r \in Requests
      PROVE  FilledOf(r) <= FilledOf(r)' /\ FilledOf(r) \in Nat /\ FilledOf(r)' \in Nat
  <2>1. /\ OrdersOf(r) \in SUBSET Orders /\ OrdersOf(r)' \in SUBSET Orders
        /\ OrdersOf(r) \subseteq OrdersOf(r)'
    BY NoneAssumption DEF OrdersOf, LiveGrows
  <2>2. FilledOf(r) = Sum(t, OrdersOf(r)) /\ FilledOf(r)' = Sum(u, OrdersOf(r)')
    BY DEF FilledOf
  <2> HIDE DEF t, u
  <2> QED BY <1>2, <2>1, <2>2
<1>4. ASSUME NEW p \in Positions
      PROVE  Executed(p) <= Executed(p)' /\ Executed(p) \in Nat /\ Executed(p)' \in Nat
  <2>1. /\ OrdersFor(p) \in SUBSET Orders /\ OrdersFor(p)' \in SUBSET Orders
        /\ OrdersFor(p) \subseteq OrdersFor(p)'
    <3>1. {p} \X Keys \subseteq Requests
      BY DEF Requests
    <3> QED BY <3>1, NoneAssumption DEF OrdersFor, LiveGrows
  <2>2. Executed(p) = Sum(t, OrdersFor(p)) /\ Executed(p)' = Sum(u, OrdersFor(p)')
    BY TotalsAreSums
  <2> HIDE DEF t, u
  <2> QED BY <1>2, <2>1, <2>2
<1> QED BY <1>3, <1>4

\* Steps that settle no request by a fill.
LEMMA TotalsKept ==
  ASSUME TypeInv, TypeInv', TotalsInv, LiveGrows, UnusedHasNone',
         \A r \in Requests : request'[r].filled = request[r].filled,
         \A p \in Positions : position'[p].status = "closed" => position[p].status = "closed"
  PROVE  TotalsInv'
<1>1. live' \in [Orders -> BrokerOrder]
  BY DEF TypeInv, TypeOK
<1>2. \A r \in Requests : request'[r].filled <= FilledOf(r)'
  <2> TAKE r \in Requests
  <2>1. request[r].filled \in Nat /\ request[r].filled <= FilledOf(r)
    BY DEF TotalsInv, TypeInv, TypeOK, RequestRow
  <2>2. FilledOf(r) <= FilledOf(r)' /\ FilledOf(r) \in Nat /\ FilledOf(r)' \in Nat
    BY <1>1, TotalsGrow
  <2> QED BY <2>1, <2>2
<1>3. ClosedMeansExecuted'
  <2> SUFFICES ASSUME NEW p \in Positions, position'[p].status = "closed"
               PROVE  Executed(p)' >= Quantity
    BY DEF ClosedMeansExecuted
  <2>1. Executed(p) >= Quantity
    BY DEF TotalsInv, ClosedMeansExecuted
  <2>2. Executed(p) <= Executed(p)' /\ Executed(p) \in Nat /\ Executed(p)' \in Nat
    BY <1>1, TotalsGrow
  <2> QED BY <2>1, <2>2, ConstantsAssumption
<1> QED BY <1>2, <1>3 DEF TotalsInv

LEMMA SameLiveGrows == TypeInv /\ UNCHANGED live => LiveGrows
  BY DEF LiveGrows, TypeInv, TypeOK, BrokerOrder

LEMMA PlaceGrows ==
  ASSUME TypeInv, FillInv, TotalsInv, NEW o \in Orders, NEW r \in Requests,
         NEW status \in {"submitted", "cancelled"}, NextOrder(o), Place(o, r, status)
  PROVE  LiveGrows /\ UnusedHasNone'
<1>1. live[o].req = None /\ live[o].filled = 0
  BY DEF NextOrder, TotalsInv, UnusedHasNone, FillInv, LiveSound
<1>2. /\ live'[o].status = status /\ live'[o].filled = 0 /\ live'[o].req = r
      /\ \A x \in Orders \ {o} : live'[x] = live[x]
  BY DEF Place, TypeInv, TypeOK
<1>3. \A x \in Orders : live[x].filled \in Nat
  BY DEF TypeInv, TypeOK, BrokerOrder
<1> QED BY <1>1, <1>2, <1>3 DEF LiveGrows, TotalsInv, UnusedHasNone

LEMMA ChangeGrows ==
  ASSUME TypeInv, TotalsInv, NEW o \in Orders, BrokerStep(o)
  PROVE  LiveGrows /\ UnusedHasNone'
<1>1. PICK status, filled : /\ Change(o, status, filled) /\ status # "none"
                            /\ filled \in {live[o].filled, live[o].filled + 1}
  BY DEF BrokerStep, BrokerFill, BrokerEnd, BrokerLateFill
<1>2. /\ live'[o].status = status /\ live'[o].filled = filled /\ live'[o].req = live[o].req
      /\ \A x \in Orders \ {o} : live'[x] = live[x]
  BY <1>1 DEF Change, TypeInv, TypeOK, BrokerOrder
<1>3. \A x \in Orders : live[x].filled \in Nat
  BY DEF TypeInv, TypeOK, BrokerOrder
<1> QED BY <1>1, <1>2, <1>3 DEF LiveGrows, TotalsInv, UnusedHasNone

\* The handler sums up order rows that show no more than the broker has executed.
LEMMA UpdateKeepsTotals ==
  ASSUME NEW m \in reports, TypeInv, TypeInv', FillInv', TotalsInv, ApplyUpdate(m)
  PROVE  TotalsInv'
<1> DEFINE r == live[m.order].req
           p == r[1]
           all == \A o \in RowsOf(r, order') : order'[o].status = "filled"
           known == RowsOf(r, order')
<1>1. r \in Requests /\ p \in Positions /\ UNCHANGED live
  BY DEF ApplyUpdate, broker, TypeInv, TypeOK, Report, OrdersHaveRequest, Requests
<1>2. PICK total \in 0 .. MaxOrders * Quantity :
        /\ total = TotalFilled(r, order')
        /\ \/ request' = [request EXCEPT ![r].filled = total] /\ UNCHANGED position
           \/ /\ request' = [request EXCEPT ![r].filled = total,
                                           ![r].status = Outcome(all, total).request]
              /\ position' = [position EXCEPT ![p] =
                   [status |-> Outcome(all, total).position,
                    active |-> IF Outcome(all, total).request = "retryable"
                                 THEN @.active ELSE None]]
  BY DEF ApplyUpdate, UpdateCloseRequest
<1>3. total <= FilledOf(r)
  <2> DEFINE t == Filled(order')
             u == Filled(live)
  <2>1. \A o \in Orders : t[o] \in Nat /\ u[o] \in Nat /\ t[o] <= u[o]
    BY <1>1 DEF Filled, TypeInv, TypeOK, OrderRow, BrokerOrder, FillInv, RecordedFillsSound
  <2>2. known \in SUBSET OrdersOf(r) /\ OrdersOf(r) \in SUBSET Orders
    BY <1>1 DEF RowsOf, OrdersOf
  <2>3. total = Sum(t, known) /\ FilledOf(r) = Sum(u, OrdersOf(r))
    BY <1>2, TotalsAreSums DEF FilledOf
  <2> HIDE DEF t, u, known, r
  <2>4. IsFiniteSet(OrdersOf(r))
    BY <2>2, OrdersFinite
  <2>5. \A o \in OrdersOf(r) : t[o] \in Int /\ u[o] \in Int /\ u[o] >= 0
    BY <2>1, <2>2
  <2>6. \A o \in known : t[o] <= u[o]
    BY <2>1, <2>2
  <2>7. Sum(t, known) <= Sum(u, OrdersOf(r))
    BY <2>2, <2>4, <2>5, <2>6, SumMonotone
  <2> QED BY <2>3, <2>7
<1>4. total \in Nat
  BY SMTT(30), <1>2, ConstantsAssumption
<1>5. FilledOf(r) <= Executed(p)
  <2> DEFINE u == Filled(live)
  <2>1. \A o \in Orders : u[o] \in Nat
    BY DEF Filled, TypeInv, TypeOK, BrokerOrder
  <2>2. OrdersOf(r) \in SUBSET OrdersFor(p) /\ OrdersFor(p) \in SUBSET Orders
    BY <1>1 DEF OrdersOf, OrdersFor, Requests
  <2>3. FilledOf(r) = Sum(u, OrdersOf(r)) /\ Executed(p) = Sum(u, OrdersFor(p))
    BY TotalsAreSums DEF FilledOf
  <2> HIDE DEF u, r, p
  <2>4. IsFiniteSet(OrdersFor(p)) /\ \A o \in OrdersFor(p) : u[o] \in Nat
    BY <2>1, <2>2, OrdersFinite
  <2> QED BY <2>2, <2>3, <2>4, SumSubset
<1>6. /\ \A s \in Requests : FilledOf(s)' = FilledOf(s) /\ FilledOf(s) \in Nat
      /\ \A q \in Positions : Executed(q)' = Executed(q) /\ Executed(q) \in Nat
  <2>1. live' \in [Orders -> BrokerOrder] /\ LiveGrows
    BY <1>1, SameLiveGrows DEF TypeInv, TypeOK
  <2>2. \A s \in Requests : FilledOf(s)' = FilledOf(s)
    BY <1>1 DEF FilledOf, Filled, OrdersOf
  <2>3. \A q \in Positions : Executed(q)' = Executed(q)
    <3>1. Filled(live)' = Filled(live) /\ \A q : OrdersFor(q)' = OrdersFor(q)
      BY <1>1 DEF Filled, OrdersFor
    <3> QED BY <3>1, TotalsAreSums
  <2> QED BY <2>1, <2>2, <2>3, TotalsGrow
<1>7. \A s \in Requests : request'[s].filled <= FilledOf(s)'
  <2> HIDE DEF all
  <2>1. /\ request'[r].filled = total
        /\ \A s \in Requests \ {r} : request'[s].filled = request[s].filled
    BY SMTT(30), <1>1, <1>2 DEF TypeInv, TypeOK, RequestRow
  <2> HIDE DEF r
  <2> QED BY <1>3, <1>6, <2>1 DEF TotalsInv
<1>8. ClosedMeansExecuted'
  <2> SUFFICES ASSUME NEW q \in Positions, position'[q].status = "closed"
               PROVE  Executed(q) >= Quantity
    BY <1>6 DEF ClosedMeansExecuted
  <2>1. CASE position[q].status = "closed"
    BY <2>1 DEF TotalsInv, ClosedMeansExecuted
  <2>2. CASE position[q].status # "closed"
    <3> HIDE DEF all
    <3>1. q = p /\ Outcome(all, total).position = "closed"
      BY SMTT(30), <1>1, <1>2, <2>2 DEF TypeInv, TypeOK, PositionRow
    <3>2. total = Quantity
      BY <3>1 DEF Outcome
    <3>3. FilledOf(r) \in Nat /\ Executed(p) \in Nat
      BY <1>1, <1>6
    <3> HIDE DEF r, p
    <3> QED BY <1>3, <1>4, <1>5, <3>1, <3>2, <3>3
  <2> QED BY <2>1, <2>2
<1>9. UnusedHasNone'
  BY <1>1 DEF TotalsInv, UnusedHasNone
<1> QED BY <1>7, <1>8, <1>9 DEF TotalsInv
LEMMA NextTotals ==
  ASSUME TypeInv, FillInv, TotalsInv, [Next]_vars
  PROVE  TotalsInv'
<1>t. TypeInv' /\ FillInv'
  BY NextType, NextFills
<1>k. ASSUME UNCHANGED live,
             \A r \in Requests : request'[r].filled = request[r].filled,
             \A p \in Positions : position'[p].status = "closed" => position[p].status = "closed"
      PROVE  TotalsInv'
  <2>1. UnusedHasNone'
    BY <1>k DEF TotalsInv, UnusedHasNone
  <2> QED BY <1>t, <1>k, <2>1, SameLiveGrows, TotalsKept
<1>l. ASSUME LiveGrows, UnusedHasNone', UNCHANGED <<request, position>>
      PROVE  TotalsInv'
  BY <1>t, <1>l, TotalsKept
<1>1. ASSUME NEW c \in Clients, (\E r \in Requests : CheckReplay(c, r)) \/ Refuse(c)
      PROVE  TotalsInv'
  BY <1>k, <1>1 DEF CheckReplay, Refuse, database, broker
<1>2. ASSUME NEW c \in Clients, Accept(c)
      PROVE  TotalsInv'
  BY <1>k, <1>2 DEF Accept, broker, TypeInv, TypeOK, ActorsKnowRequest, Requests, RequestRow,
                    PositionRow
<1>3. ASSUME NEW w \in Workers, WorkerStep(w) \/ Crash(w)
      PROVE  TotalsInv'
  <2>1. CASE \E o \in Orders : SubmitAccepted(w, o) \/ SubmitRejected(w, o)
                            \/ SubmitAmbiguous(w, o)
    <3>1. PICK o \in Orders, status \in {"submitted", "cancelled"} :
            /\ worker[w].pc # "idle" /\ NextOrder(o)
            /\ Place(o, worker[w].req, status) /\ UNCHANGED <<request, position>>
      BY <2>1 DEF SubmitAccepted, SubmitRejected, SubmitAmbiguous
    <3>2. worker[w].req \in Requests
      BY <3>1 DEF TypeInv, ActorsKnowRequest
    <3> QED BY <1>l, <3>1, <3>2, PlaceGrows
  <2>2. CASE \/ \E r \in Requests : Claim(w, r)
             \/ SkipProcessed(w) \/ ReadRequest(w) \/ RaiseBeforeSubmit(w)
             \/ RetryEvent(w) \/ Crash(w)
    <3>1. UNCHANGED <<live, request, position>>
      BY <2>2 DEF Claim, SkipProcessed, ReadRequest, RaiseBeforeSubmit, RetryEvent, Crash,
                  database, broker
    <3> QED BY <1>k, <3>1
  <2>3. CASE CommitSubmitted(w)
    BY <1>k, <2>3 DEF CommitSubmitted, broker, TypeInv, TypeOK, RequestRow
  <2>4. CASE CommitRejected(w) \/ GiveUp(w)
    <3> DEFINE r == worker[w].req
    <3>1. /\ request' = [request EXCEPT ![r].status = "failed"] /\ UNCHANGED live
          /\ position' = [position EXCEPT ![r[1]] = [status |-> "close_failed", active |-> None]]
      BY <2>4 DEF CommitRejected, GiveUp, Fail, broker
    <3> HIDE DEF r
    <3>2. \A s \in Requests : request'[s].filled = request[s].filled
      BY <3>1 DEF TypeInv, TypeOK, RequestRow
    <3>3. \A p \in Positions : position'[p].status = "closed" => position[p].status = "closed"
      BY <3>1 DEF TypeInv, TypeOK, PositionRow
    <3> QED BY <1>k, <3>1, <3>2, <3>3
  <2> QED BY <1>3, <2>1, <2>2, <2>3, <2>4 DEF WorkerStep
<1>4. ASSUME NEW o \in Orders, BrokerStep(o)
      PROVE  TotalsInv'
  <2>1. UNCHANGED <<request, position>>
    BY <1>4 DEF BrokerStep, BrokerFill, BrokerEnd, BrokerLateFill, Change, database
  <2> QED BY <1>l, <1>4, <2>1, ChangeGrows
<1>5. ASSUME NEW m \in reports, OnOrderUpdate(m)
      PROVE  TotalsInv'
  <2>1. CASE ApplyUpdate(m)
    BY <1>t, <2>1, UpdateKeepsTotals
  <2>2. CASE ApplyQuantity(m)
    BY <1>k, <2>2 DEF ApplyQuantity, broker
  <2> QED BY <1>5, <2>1, <2>2 DEF OnOrderUpdate
<1>6. ASSUME NEW r \in Requests, GrowOld(r)
      PROVE  TotalsInv'
  BY <1>k, <1>6 DEF GrowOld, broker, TypeInv, TypeOK, RequestRow
<1>7. CASE RollbackZombies
  <2>1. \A r \in Requests : request'[r].filled = request[r].filled
    BY <1>7 DEF RollbackZombies, TypeInv, TypeOK, RequestRow
  <2>2. \A p \in Positions : position'[p].status = "closed" => position[p].status = "closed"
    BY <1>7 DEF RollbackZombies
  <2> QED BY <1>7, <1>k, <2>1, <2>2 DEF RollbackZombies, broker
<1>8. ASSUME NEW missing \in SUBSET Orders, RecoverStuck(missing)
      PROVE  TotalsInv'
  <2>1. \A r \in Requests : request'[r].filled = request[r].filled
    BY <1>8 DEF RecoverStuck, TypeInv, TypeOK, RequestRow
  <2>2. \A p \in Positions : position'[p].status = "closed" => position[p].status = "closed"
    BY <1>8 DEF RecoverStuck, TypeInv, TypeOK, PositionRow
  <2> QED BY <1>8, <1>k, <2>1, <2>2 DEF RecoverStuck, broker
<1>9. CASE CommitRetries
  <2>1. \A r \in Requests : request'[r].filled = request[r].filled
    BY <1>9 DEF CommitRetries, TypeInv, TypeOK, RequestRow
  <2>2. \A p \in Positions : position'[p].status = "closed" => position[p].status = "closed"
    BY <1>9 DEF CommitRetries, TypeInv, TypeOK, PositionRow
  <2> QED BY <1>9, <1>k, <2>1, <2>2 DEF CommitRetries, broker
<1>10. CASE CheckInvariants
  <2>1. \A p \in Positions : position'[p].status = "closed" => position[p].status = "closed"
    BY <1>10 DEF CheckInvariants, TypeInv, TypeOK, PositionRow
  <2> QED BY <1>10, <1>k, <2>1 DEF CheckInvariants, broker
<1>11. CASE \/ ScanZombies \/ ScanStuck \/ ScanRetryable \/ RetriesRolledBack
            \/ \E cutoff \in 1 .. clock + 1 : Cleanup(cutoff)
            \/ UNCHANGED vars
  <2>1. UNCHANGED <<live, request, position>>
    BY <1>11 DEF ScanZombies, ScanStuck, ScanRetryable, RetriesRolledBack, Cleanup, vars,
                 database, broker
  <2> QED BY <1>k, <2>1
<1> QED BY <1>1, <1>2, <1>3, <1>4, <1>5, <1>6, <1>7, <1>8, <1>9, <1>10, <1>11 DEF Next

LEMMA InitTotals == Init => TotalsInv
<1> SUFFICES ASSUME Init PROVE TotalsInv
  OBVIOUS
<1>1. TypeInv /\ UnusedHasNone /\ ClosedMeansExecuted
  BY InitTypeInv DEF Init, UnusedHasNone, ClosedMeansExecuted
<1>2. ASSUME NEW r \in Requests PROVE request[r].filled <= FilledOf(r)
  <2>1. OrdersOf(r) = {}
    BY NoneAssumption DEF Init, OrdersOf
  <2> QED BY <2>1, SumEmpty DEF Init, FilledOf
<1> QED BY <1>1, <1>2 DEF TotalsInv

\* Whatever the broker sends, in whatever order and however often, and whatever dies
\* or times out on our side: no order row and no request shows a fill the broker did
\* not make, and a position is CLOSED only when its orders have executed all of it.
THEOREM RequestsAreSound == Spec => []RequestsSound
<1>1. TypeInv /\ FillInv /\ TotalsInv => RequestsSound
  BY RequestFillsAreSums DEF TypeInv, FillInv, TotalsInv, RequestsSound
<1> QED BY <1>1, InitTypeInv, InitFills, InitTotals, NextType, NextFills, NextTotals, PTL
        DEF Spec
-----------------------------------------------------------------------------
(* Submissions.  An attempt at an event puts at most one order at the       *)
(* broker, and is counted before the next one; each event is granted        *)
(* MaxAttempts of them, the first and one for each retry of the request.    *)

Sent(r) == Cardinality(OrdersOf(r))
Granted(r) == MaxAttempts * (1 + request[r].retries)

\* What has been used of the grant: all of it but the attempts still to come.
UsedBy(r, attempts) == Sent(r) + MaxAttempts <= Granted(r) + attempts

SubmitInv ==
  /\ UnusedHasNone
  /\ \A r \in Requests :
       /\ request[r].status = "none" => OrdersOf(r) = {}
       /\ event[r].status \in {"pending", "processing"} => event[r].tries < MaxAttempts
       /\ event[r].status = "pending" => UsedBy(r, event[r].tries)
       /\ event[r].status = "processing" => UsedBy(r, event[r].tries + 1)
       /\ Sent(r) <= Granted(r)
  /\ \A w \in Workers : worker[w].pc \in {"claimed", "quoting"} =>
       UsedBy(worker[w].req, event[worker[w].req].tries)

LEMMA GrantNat ==
  ASSUME TypeInv, NEW r \in Requests
  PROVE  /\ Granted(r) \in Nat /\ MaxAttempts <= Granted(r)
         /\ MaxAttempts \in Nat /\ event[r].tries \in Nat /\ Sent(r) \in Nat
         /\ OrdersOf(r) \in SUBSET Orders /\ IsFiniteSet(OrdersOf(r))
<1>1. request[r].retries \in Nat /\ MaxAttempts \in Nat /\ event[r].tries \in Nat
  BY ConstantsAssumption DEF TypeInv, TypeOK, RequestRow, EventRow
<1>2. Granted(r) = MaxAttempts + MaxAttempts * request[r].retries
  BY <1>1 DEF Granted
<1>3. MaxAttempts * request[r].retries \in Nat
  BY <1>1
<1>4. OrdersOf(r) \in SUBSET Orders /\ IsFiniteSet(OrdersOf(r))
  BY OrdersFinite DEF OrdersOf
<1>5. Sent(r) \in Nat
  BY <1>4, FS_CardinalityType DEF Sent
<1> QED BY <1>1, <1>2, <1>3, <1>4, <1>5

LEMMA InitSubmit == Init => SubmitInv
<1> SUFFICES ASSUME Init PROVE SubmitInv
  OBVIOUS
<1>1. ASSUME NEW r \in Requests
      PROVE  OrdersOf(r) = {} /\ Sent(r) = 0 /\ Sent(r) <= Granted(r)
  <2>1. OrdersOf(r) = {}
    BY NoneAssumption DEF Init, OrdersOf
  <2>2. Sent(r) = 0
    BY <2>1, FS_EmptySet DEF Sent
  <2> QED BY <2>1, <2>2, InitTypeInv, GrantNat
<1> QED BY <1>1 DEF Init, SubmitInv, UnusedHasNone, NoEvent

\* Steps that send nothing and grant nothing.
LEMMA SubmitKept ==
  ASSUME TypeInv, SubmitInv, UNCHANGED live,
         \A r \in Requests :
           /\ request'[r].retries = request[r].retries
           /\ request'[r].status = "none" => request[r].status = "none"
           /\ \/ event'[r] = event[r]
              \/ event'[r].status \in {"none", "completed", "failed"},
         \A w \in Workers : worker'[w].pc \in {"claimed", "quoting"} =>
           /\ worker[w].pc \in {"claimed", "quoting"} /\ worker'[w].req = worker[w].req
           /\ worker[w].req \in Requests
           /\ event'[worker[w].req] = event[worker[w].req]
  PROVE  SubmitInv'
<1>1. \A r \in Requests : OrdersOf(r)' = OrdersOf(r) /\ Sent(r)' = Sent(r) /\ Granted(r)' = Granted(r)
  BY DEF OrdersOf, Sent, Granted
<1>2. \A r \in Requests : \A n : UsedBy(r, n) => UsedBy(r, n)'
  BY <1>1 DEF UsedBy
<1>3. UnusedHasNone'
  BY DEF SubmitInv, UnusedHasNone
<1>4. \A r \in Requests :
       /\ request'[r].status = "none" => OrdersOf(r)' = {}
       /\ event'[r].status \in {"pending", "processing"} => event'[r].tries < MaxAttempts
       /\ event'[r].status = "pending" => UsedBy(r, event[r].tries)'
       /\ event'[r].status = "processing" => UsedBy(r, event[r].tries + 1)'
       /\ Sent(r)' <= Granted(r)'
  BY <1>1 DEF SubmitInv, UsedBy
<1>5. \A w \in Workers : worker'[w].pc \in {"claimed", "quoting"} =>
        UsedBy(worker[w].req, event[worker[w].req].tries)'
  BY <1>1 DEF SubmitInv, UsedBy
<1> QED BY <1>3, <1>4, <1>5 DEF SubmitInv

\* One order more for the event of a worker, which is not quoting any longer.
LEMMA PlaceKeepsSubmit ==
  ASSUME TypeInv, WorkInv, SubmitInv, NEW w \in Workers, NEW o \in Orders, NEW status, NEW pc,
         NEW r \in Requests, worker[w].req = r, worker[w].pc = "quoting", pc \notin {"claimed", "quoting"}, Goto(w, pc),
         NextOrder(o), Place(o, r, status), status # "none",
         UNCHANGED <<request, event>>
  PROVE  SubmitInv'
<1>1. /\ event[r].status = "processing" /\ request[r].status # "none"
      /\ UsedBy(r, event[r].tries) /\ live[o].req = None
  BY DEF TypeInv, ActorsKnowRequest, WorkInv, WorkersHoldEvents, EventsHaveRequests,
         SubmitInv, UnusedHasNone, NextOrder
<1>2. /\ live'[o].req = r /\ live'[o].status = status
      /\ \A x \in Orders \ {o} : live'[x] = live[x]
  BY DEF Place, TypeInv, TypeOK
<1>3. /\ worker'[w].pc = pc
      /\ \A v \in Workers \ {w} : worker'[v] = worker[v]
  BY DEF Goto, TypeInv, TypeOK, WorkerState
<1>4. OrdersOf(r)' = OrdersOf(r) \cup {o} /\ o \notin OrdersOf(r)
  BY <1>1, <1>2, NoneAssumption DEF OrdersOf
<1>5. \A s \in Requests \ {r} : OrdersOf(s)' = OrdersOf(s)
  BY <1>1, <1>2, NoneAssumption DEF OrdersOf
<1>6. Sent(r)' = Sent(r) + 1
  <2>1. IsFiniteSet(OrdersOf(r))
    BY GrantNat
  <2>2. Cardinality(OrdersOf(r) \cup {o}) = Cardinality(OrdersOf(r)) + 1
    BY <1>4, <2>1, FS_AddElement
  <2> QED BY <1>4, <2>2 DEF Sent
<1>7. /\ \A s \in Requests \ {r} : Sent(s)' = Sent(s)
      /\ \A s \in Requests : Granted(s)' = Granted(s)
  BY <1>5 DEF Sent, Granted
<1>8. UnusedHasNone'
  BY <1>2 DEF SubmitInv, UnusedHasNone
<1>9. UsedBy(r, event[r].tries + 1)' /\ Sent(r)' <= Granted(r)'
  <2>1. /\ Sent(r) \in Nat /\ Granted(r) \in Nat /\ MaxAttempts \in Nat /\ event[r].tries \in Nat
        /\ Sent(r) + MaxAttempts <= Granted(r) + event[r].tries
        /\ event[r].tries < MaxAttempts
    BY <1>1, GrantNat DEF UsedBy, SubmitInv
  <2>2. Sent(r)' = Sent(r) + 1 /\ Granted(r)' = Granted(r) /\ event' = event
    BY <1>1, <1>6, <1>7
  <2> QED BY <2>1, <2>2 DEF UsedBy
<1>10. \A s \in Requests :
       /\ request'[s].status = "none" => OrdersOf(s)' = {}
       /\ event'[s].status \in {"pending", "processing"} => event'[s].tries < MaxAttempts
       /\ event'[s].status = "pending" => UsedBy(s, event[s].tries)'
       /\ event'[s].status = "processing" => UsedBy(s, event[s].tries + 1)'
       /\ Sent(s)' <= Granted(s)'
  <2> TAKE s \in Requests
  <2>1. CASE s = r
    BY <1>1, <1>9, <2>1 DEF SubmitInv
  <2>2. CASE s # r
    <3>1. OrdersOf(s)' = OrdersOf(s) /\ Sent(s)' = Sent(s) /\ Granted(s)' = Granted(s)
      BY <1>5, <1>7, <2>2
    <3> QED BY <3>1 DEF SubmitInv, UsedBy
  <2> QED BY <2>1, <2>2
<1>11. ASSUME NEW v \in Workers, worker'[v].pc \in {"claimed", "quoting"}
       PROVE  UsedBy(worker[v].req, event[worker[v].req].tries)'
  <2>1. v # w /\ worker'[v] = worker[v]
    BY <1>3, <1>11
  <2>2. PICK s \in Requests \ {r} : worker[v].req = s
    BY <1>11, <2>1 DEF WorkInv, OneWorkerPerRequest, TypeInv, ActorsKnowRequest
  <2>3. UsedBy(s, event[s].tries)
    BY <1>11, <2>1, <2>2 DEF SubmitInv
  <2>4. UsedBy(s, event[s].tries)'
    BY <1>7, <2>2, <2>3 DEF UsedBy
  <2> QED BY <2>1, <2>2, <2>4
<1> QED BY <1>8, <1>10, <1>11 DEF SubmitInv
LEMMA ClaimKeepsSubmit ==
  ASSUME TypeInv, WorkInv, SubmitInv, NEW w \in Workers, NEW r \in Requests, Claim(w, r)
  PROVE  SubmitInv'
<1>1. /\ worker'[w].req = r /\ worker'[w].pc = "claimed"
      /\ \A v \in Workers \ {w} : worker'[v] = worker[v]
      /\ event'[r].status = "processing" /\ event'[r].tries = event[r].tries
      /\ \A s \in Requests \ {r} : event'[s] = event[s]
  BY DEF Claim, TypeInv, TypeOK, EventRow
<1>2. event[r].status = "pending" /\ UNCHANGED <<live, request>>
  BY DEF Claim, broker
<1>3. \A s \in Requests : OrdersOf(s)' = OrdersOf(s) /\ Sent(s)' = Sent(s) /\ Granted(s)' = Granted(s)
  BY <1>2 DEF OrdersOf, Sent, Granted
<1>4. UsedBy(r, event[r].tries) /\ event[r].tries < MaxAttempts
  BY <1>2 DEF SubmitInv
<1>5. UsedBy(r, event[r].tries)' /\ UsedBy(r, event[r].tries + 1)'
  <2>1. /\ Sent(r) \in Nat /\ Granted(r) \in Nat /\ MaxAttempts \in Nat /\ event[r].tries \in Nat
        /\ Sent(r) + MaxAttempts <= Granted(r) + event[r].tries
    BY <1>4, GrantNat DEF UsedBy
  <2> QED BY <1>1, <1>3, <2>1 DEF UsedBy
<1>6. \A s \in Requests :
       /\ request'[s].status = "none" => OrdersOf(s)' = {}
       /\ event'[s].status \in {"pending", "processing"} => event'[s].tries < MaxAttempts
       /\ event'[s].status = "pending" => UsedBy(s, event[s].tries)'
       /\ event'[s].status = "processing" => UsedBy(s, event[s].tries + 1)'
       /\ Sent(s)' <= Granted(s)'
  <2> TAKE s \in Requests
  <2>1. CASE s = r
    BY <1>1, <1>2, <1>3, <1>4, <1>5, <2>1 DEF SubmitInv
  <2>2. CASE s # r
    <3>1. event'[s] = event[s]
      BY <1>1, <2>2
    <3> QED BY <1>2, <1>3, <3>1 DEF SubmitInv, UsedBy
  <2> QED BY <2>1, <2>2
<1>7. ASSUME NEW v \in Workers, worker'[v].pc \in {"claimed", "quoting"}
      PROVE  UsedBy(worker[v].req, event[worker[v].req].tries)'
  <2>1. CASE v = w
    BY <1>1, <1>5, <2>1
  <2>2. CASE v # w
    <3>1. PICK s \in Requests : worker[v].req = s /\ worker'[v] = worker[v]
      BY <1>1, <1>7, <2>2 DEF TypeInv, ActorsKnowRequest
    <3>2. UsedBy(s, event[s].tries) /\ event[s].status = "processing"
      BY <1>7, <3>1 DEF SubmitInv, WorkInv, WorkersHoldEvents
    <3>3. UsedBy(s, event[s].tries)'
      BY <1>1, <1>2, <1>3, <3>2 DEF UsedBy
    <3> QED BY <3>1, <3>3
  <2> QED BY <2>1, <2>2
<1>8. UnusedHasNone'
  BY <1>2 DEF SubmitInv, UnusedHasNone
<1> QED BY <1>6, <1>7, <1>8 DEF SubmitInv

\* Steps after which some events are worked on again: none of them is in a worker's
\* hands, and each has attempts left.
LEMMA PendingKeepsSubmit ==
  ASSUME TypeInv, SubmitInv, UNCHANGED live, NEW again \in SUBSET Requests,
         \A r \in again : /\ event'[r].status = "pending" /\ event'[r].tries < MaxAttempts
                          /\ request'[r].status # "none"
                          /\ UsedBy(r, event[r].tries)' /\ Sent(r)' <= Granted(r)',
         \A r \in Requests \ again : /\ event'[r] = event[r]
                                     /\ request'[r].status = "none" => request[r].status = "none"
                                     /\ request'[r].retries = request[r].retries,
         \A w \in Workers : worker'[w].pc \in {"claimed", "quoting"} =>
           /\ worker[w].pc \in {"claimed", "quoting"} /\ worker'[w].req = worker[w].req
           /\ worker[w].req \in Requests \ again
  PROVE  SubmitInv'
<1>1. \A s \in Requests \ again :
        OrdersOf(s)' = OrdersOf(s) /\ Sent(s)' = Sent(s) /\ Granted(s)' = Granted(s)
  BY DEF OrdersOf, Sent, Granted
<1>2. \A s \in Requests :
       /\ request'[s].status = "none" => OrdersOf(s)' = {}
       /\ event'[s].status \in {"pending", "processing"} => event'[s].tries < MaxAttempts
       /\ event'[s].status = "pending" => UsedBy(s, event[s].tries)'
       /\ event'[s].status = "processing" => UsedBy(s, event[s].tries + 1)'
       /\ Sent(s)' <= Granted(s)'
  <2> TAKE s \in Requests
  <2>1. CASE s \in again
    BY <2>1
  <2>2. CASE s \notin again
    <3>1. /\ event'[s] = event[s] /\ Sent(s)' = Sent(s) /\ Granted(s)' = Granted(s)
          /\ OrdersOf(s)' = OrdersOf(s)
      BY <1>1, <2>2
    <3> QED BY <2>2, <3>1 DEF SubmitInv, UsedBy
  <2> QED BY <2>1, <2>2
<1>3. ASSUME NEW v \in Workers, worker'[v].pc \in {"claimed", "quoting"}
      PROVE  UsedBy(worker[v].req, event[worker[v].req].tries)'
  <2>1. PICK s \in Requests \ again : worker[v].req = s /\ worker'[v].req = s
    BY <1>3
  <2>2. UsedBy(s, event[s].tries)
    BY <1>3, <2>1 DEF SubmitInv
  <2>3. UsedBy(s, event[s].tries)'
    BY <1>1, <2>2 DEF UsedBy
  <2> QED BY <2>1, <2>3
<1>4. UnusedHasNone'
  BY DEF SubmitInv, UnusedHasNone
<1> QED BY <1>2, <1>3, <1>4 DEF SubmitInv

LEMMA AcceptKeepsSubmit ==
  ASSUME TypeInv, WorkInv, SubmitInv, NEW c \in Clients, Accept(c), TypeInv'
  PROVE  SubmitInv'
<1>1. PICK r \in Requests : call[c].req = r
  BY DEF Accept, TypeInv, ActorsKnowRequest
<1>2. /\ event'[r].status = "pending" /\ event'[r].tries = 0
      /\ request[r].status = "none" /\ request'[r].status = "pending"
      /\ request'[r].retries = request[r].retries
      /\ \A s \in Requests \ {r} : event'[s] = event[s] /\ request'[s] = request[s]
      /\ UNCHANGED <<live, worker>>
  BY <1>1 DEF Accept, broker, TypeInv, TypeOK, RequestRow
<1>3. OrdersOf(r)' = {} /\ Sent(r)' = 0
  <2>1. OrdersOf(r)' = {}
    BY <1>2 DEF SubmitInv, OrdersOf
  <2> QED BY <2>1, FS_EmptySet DEF Sent
<1>4. Granted(r)' = Granted(r) /\ Granted(r) \in Nat /\ MaxAttempts <= Granted(r)
      /\ MaxAttempts \in Nat
  BY <1>2, GrantNat DEF Granted
<1>5. UsedBy(r, event[r].tries)' /\ Sent(r)' <= Granted(r)' /\ 0 < MaxAttempts
  BY <1>2, <1>3, <1>4, ConstantsAssumption DEF UsedBy
<1>6. \A w \in Workers : worker[w].pc \in {"claimed", "quoting"} => worker[w].req \in Requests \ {r}
  BY <1>2 DEF TypeInv, ActorsKnowRequest, WorkInv, WorkersHoldEvents, EventsHaveRequests
<1> DEFINE again == {r}
<1>7. /\ \A s \in again : /\ event'[s].status = "pending" /\ event'[s].tries < MaxAttempts
                          /\ request'[s].status # "none"
                          /\ UsedBy(s, event[s].tries)' /\ Sent(s)' <= Granted(s)'
      /\ \A s \in Requests \ again :
           /\ event'[s] = event[s]
           /\ request'[s].status = "none" => request[s].status = "none"
           /\ request'[s].retries = request[s].retries
      /\ again \in SUBSET Requests
      /\ \A w \in Workers : worker'[w].pc \in {"claimed", "quoting"} =>
           /\ worker[w].pc \in {"claimed", "quoting"} /\ worker'[w].req = worker[w].req
           /\ worker[w].req \in Requests \ again
  BY <1>2, <1>5, <1>6
<1> HIDE DEF again
<1> QED BY <1>2, <1>7, PendingKeepsSubmit

LEMMA RetryKeepsSubmit ==
  ASSUME TypeInv, WorkInv, SubmitInv, NEW w \in Workers, RetryEvent(w)
  PROVE  SubmitInv'
<1>1. PICK r \in Requests : worker[w].req = r
  BY DEF RetryEvent, TypeInv, ActorsKnowRequest
<1>2. /\ event'[r].status = "pending" /\ event'[r].tries = event[r].tries + 1
      /\ event[r].tries + 1 < MaxAttempts /\ event[r].status = "processing"
      /\ \A s \in Requests \ {r} : event'[s] = event[s]
      /\ UNCHANGED <<live, request>>
      /\ worker'[w].pc = "idle" /\ \A v \in Workers \ {w} : worker'[v] = worker[v]
      /\ request[r].status # "none"
  BY <1>1 DEF RetryEvent, Release, broker, TypeInv, TypeOK, EventRow, WorkerState,
              WorkInv, WorkersHoldEvents, EventsHaveRequests
<1>3. Sent(r)' = Sent(r) /\ Granted(r)' = Granted(r)
  BY <1>2 DEF Sent, OrdersOf, Granted
<1>4. UsedBy(r, event[r].tries)' /\ Sent(r)' <= Granted(r)'
  BY <1>2, <1>3 DEF SubmitInv, UsedBy
<1>5. \A v \in Workers : worker'[v].pc \in {"claimed", "quoting"} =>
        worker'[v] = worker[v] /\ worker[v].req \in Requests \ {r}
  BY <1>1, <1>2 DEF TypeInv, ActorsKnowRequest, WorkInv, OneWorkerPerRequest, RetryEvent
<1> DEFINE again == {r}
<1>6. /\ \A s \in again : /\ event'[s].status = "pending" /\ event'[s].tries < MaxAttempts
                          /\ request'[s].status # "none"
                          /\ UsedBy(s, event[s].tries)' /\ Sent(s)' <= Granted(s)'
      /\ \A s \in Requests \ again :
           /\ event'[s] = event[s]
           /\ request'[s].status = "none" => request[s].status = "none"
           /\ request'[s].retries = request[s].retries
      /\ again \in SUBSET Requests
      /\ \A v \in Workers : worker'[v].pc \in {"claimed", "quoting"} =>
           /\ worker[v].pc \in {"claimed", "quoting"} /\ worker'[v].req = worker[v].req
           /\ worker[v].req \in Requests \ again
  <2>1. ASSUME NEW v \in Workers, worker'[v].pc \in {"claimed", "quoting"}
        PROVE  /\ worker[v].pc \in {"claimed", "quoting"} /\ worker'[v].req = worker[v].req
               /\ worker[v].req \in Requests \ again
    BY <1>5, <2>1
  <2> QED BY <1>2, <1>4, <2>1
<1> HIDE DEF again
<1> QED BY <1>2, <1>6, PendingKeepsSubmit
\* A retry is granted attempts of its own.
LEMMA CommitRetriesKeepsSubmit ==
  ASSUME TypeInv, WorkInv, SubmitInv, CommitRetries
  PROVE  SubmitInv'
<1>1. \A r \in InBatch : /\ request'[r] = [request[r] EXCEPT !.status = "pending", !.retries = @ + 1]
                         /\ event'[r] = [status |-> "pending", tries |-> 0,
                                         qty |-> batch[r], born |-> clock']
  BY Zenon DEF CommitRetries, InBatch
<1>2. \A r \in Requests \ InBatch : request'[r] = request[r] /\ event'[r] = event[r]
  BY Zenon DEF CommitRetries
<1>3. UNCHANGED <<live, worker>> /\ \A r \in InBatch : event[r].status = "none"
  BY Zenon DEF CommitRetries, broker
<1>4. ASSUME NEW r \in InBatch
      PROVE  /\ event'[r].status = "pending" /\ event'[r].tries < MaxAttempts
             /\ request'[r].status # "none"
             /\ UsedBy(r, event[r].tries)' /\ Sent(r)' <= Granted(r)'
  <2>1. r \in Requests /\ request[r].retries \in Nat
    BY DEF InBatch, TypeInv, TypeOK, RequestRow
  <2>2. /\ request'[r].status = "pending" /\ request'[r].retries = request[r].retries + 1
        /\ event'[r].status = "pending" /\ event'[r].tries = 0
    <3>1. request[r] \in RequestRow
      BY <2>1 DEF TypeInv, TypeOK
    <3>2. /\ request'[r] = [request[r] EXCEPT !.status = "pending", !.retries = @ + 1]
          /\ event'[r] = [status |-> "pending", tries |-> 0, qty |-> batch[r], born |-> clock']
      BY <1>1, Zenon
    <3>3. request'[r].status = "pending" /\ request'[r].retries = request[r].retries + 1
      BY <3>1, <3>2 DEF RequestRow
    <3>4. event'[r].status = "pending" /\ event'[r].tries = 0
      BY <3>2
    <3> QED BY <3>3, <3>4
  <2>3. Sent(r)' = Sent(r)
    BY <1>3 DEF Sent, OrdersOf
  <2>4. Granted(r)' = Granted(r) + MaxAttempts
    <3>1. \A m, n \in Nat : m * (1 + (n + 1)) = m * (1 + n) + m
      OBVIOUS
    <3> QED BY <2>1, <2>2, <3>1, ConstantsAssumption DEF Granted
  <2>5. /\ Sent(r) \in Nat /\ Granted(r) \in Nat /\ MaxAttempts \in Nat \ {0}
        /\ Sent(r) <= Granted(r)
    BY <2>1, GrantNat, ConstantsAssumption DEF SubmitInv
  <2>6. UsedBy(r, event[r].tries)' /\ Sent(r)' <= Granted(r)'
    BY <2>2, <2>3, <2>4, <2>5 DEF UsedBy
  <2>7. event'[r].tries < MaxAttempts
    BY <2>2, <2>5
  <2> QED BY <2>2, <2>6, <2>7
<1>5. \A w \in Workers : worker'[w].pc \in {"claimed", "quoting"} =>
           /\ worker[w].pc \in {"claimed", "quoting"} /\ worker'[w].req = worker[w].req
           /\ worker[w].req \in Requests \ InBatch
  BY <1>3 DEF TypeInv, ActorsKnowRequest, WorkInv, WorkersHoldEvents
<1>6. InBatch \in SUBSET Requests
  BY DEF InBatch
<1>7. \A s \in Requests \ InBatch :
           /\ event'[s] = event[s]
           /\ request'[s].status = "none" => request[s].status = "none"
           /\ request'[s].retries = request[s].retries
  BY <1>2
<1> QED BY <1>3, <1>4, <1>5, <1>6, <1>7, PendingKeepsSubmit

LEMMA WorkerKeepsSubmit ==
  ASSUME TypeInv, WorkInv, SubmitInv, NEW w \in Workers, WorkerStep(w) \/ Crash(w)
  PROVE  SubmitInv'
<1>1. CASE \E r \in Requests : Claim(w, r)
  BY <1>1, ClaimKeepsSubmit
<1>2. CASE \E o \in Orders : SubmitAccepted(w, o) \/ SubmitRejected(w, o) \/ SubmitAmbiguous(w, o)
  <2>1. PICK o \in Orders, status \in {"submitted", "cancelled"},
             pc \in {"accepted", "rejected", "raised"} :
          /\ worker[w].pc = "quoting" /\ NextOrder(o) /\ Goto(w, pc)
          /\ Place(o, worker[w].req, status) /\ UNCHANGED <<request, event>>
    BY <1>2 DEF SubmitAccepted, SubmitRejected, SubmitAmbiguous
  <2>2. PICK r \in Requests : worker[w].req = r
    BY <2>1 DEF TypeInv, ActorsKnowRequest
  <2>3. pc \notin {"claimed", "quoting"} /\ status # "none"
    OBVIOUS
  <2> QED BY <2>1, <2>2, <2>3, PlaceKeepsSubmit
<1>3. CASE RetryEvent(w)
  BY <1>3, RetryKeepsSubmit
<1>4. CASE ReadRequest(w) \/ RaiseBeforeSubmit(w)
  <2>1. /\ UNCHANGED <<live, request, event>>
        /\ worker[w].pc \in {"claimed", "quoting"}
        /\ \E pc : Goto(w, pc)
    BY <1>4 DEF ReadRequest, RaiseBeforeSubmit, database, broker
  <2>2. ASSUME NEW v \in Workers, worker'[v].pc \in {"claimed", "quoting"}
        PROVE  /\ worker[v].pc \in {"claimed", "quoting"} /\ worker'[v].req = worker[v].req
               /\ worker[v].req \in Requests
    BY <2>1, <2>2 DEF Goto, TypeInv, TypeOK, WorkerState, ActorsKnowRequest
  <2> QED BY <2>1, <2>2, SubmitKept
<1>5. CASE \/ SkipProcessed(w) \/ CommitSubmitted(w) \/ CommitRejected(w) \/ GiveUp(w) \/ Crash(w)
  <2>1. /\ UNCHANGED live /\ worker[w].pc # "idle" /\ Release(w)
    BY <1>5 DEF SkipProcessed, CommitSubmitted, CommitRejected, GiveUp, Crash, broker
  <2>2. PICK r \in Requests : worker[w].req = r
    BY <2>1 DEF TypeInv, ActorsKnowRequest
  <2>3. /\ \A s \in Requests \ {r} : event'[s] = event[s]
        /\ event'[r] = event[r] \/ event'[r].status \in {"completed", "failed"}
    BY <1>5, <2>2 DEF SkipProcessed, CommitSubmitted, CommitRejected, GiveUp, Crash, database,
                      TypeInv, TypeOK, EventRow
  <2>4. \A s \in Requests : /\ request'[s].retries = request[s].retries
                            /\ request'[s].status = "none" => request[s].status = "none"
    BY SMTT(30), <1>5, <2>2 DEF SkipProcessed, CommitSubmitted, CommitRejected, GiveUp, Crash, Fail,
                      database, TypeInv, TypeOK, RequestRow
  <2>5. ASSUME NEW v \in Workers, worker'[v].pc \in {"claimed", "quoting"}
        PROVE  /\ worker[v].pc \in {"claimed", "quoting"} /\ worker'[v].req = worker[v].req
               /\ worker[v].req \in Requests /\ event'[worker[v].req] = event[worker[v].req]
    <3>1. v # w /\ worker'[v] = worker[v]
      BY <2>1, <2>5 DEF Release, TypeInv, TypeOK
    <3>2. worker[v].req \in Requests \ {r}
      BY <2>1, <2>2, <2>5, <3>1 DEF TypeInv, ActorsKnowRequest, WorkInv, OneWorkerPerRequest
    <3> QED BY <2>3, <2>5, <3>1, <3>2
  <2>6. \A s \in Requests : \/ event'[s] = event[s]
                            \/ event'[s].status \in {"none", "completed", "failed"}
    BY <2>3
  <2> QED BY <2>1, <2>4, <2>5, <2>6, SubmitKept
<1> QED BY <1>1, <1>2, <1>3, <1>4, <1>5 DEF WorkerStep
\* The broker reports on orders that exist; none changes hands.
LEMMA BrokerKeepsSubmit ==
  ASSUME TypeInv, SubmitInv, NEW o \in Orders, BrokerStep(o)
  PROVE  SubmitInv'
<1>1. PICK status, filled : Change(o, status, filled) /\ status # "none"
  BY DEF BrokerStep, BrokerFill, BrokerEnd, BrokerLateFill
<1>2. /\ live'[o].status = status /\ live'[o].req = live[o].req
      /\ \A x \in Orders \ {o} : live'[x] = live[x]
  BY <1>1 DEF Change, TypeInv, TypeOK, BrokerOrder
<1>3. UNCHANGED <<request, event, worker>>
  BY <1>1 DEF Change, database
<1>4. UnusedHasNone'
  BY <1>1, <1>2 DEF SubmitInv, UnusedHasNone
<1>5. \A r \in Requests : OrdersOf(r)' = OrdersOf(r)
  BY <1>2 DEF OrdersOf
<1>6. \A r \in Requests : Sent(r)' = Sent(r) /\ Granted(r)' = Granted(r)
  BY <1>3, <1>5 DEF Sent, Granted
<1>7. \A w \in Workers : worker[w].pc \in {"claimed", "quoting"} => worker[w].req \in Requests
  BY DEF TypeInv, ActorsKnowRequest
<1>8. \A w \in Workers : worker'[w].pc \in {"claimed", "quoting"} =>
        UsedBy(worker[w].req, event[worker[w].req].tries)'
  BY <1>3, <1>6, <1>7 DEF SubmitInv, UsedBy
<1>9. \A r \in Requests :
       /\ request'[r].status = "none" => OrdersOf(r)' = {}
       /\ event'[r].status \in {"pending", "processing"} => event'[r].tries < MaxAttempts
       /\ event'[r].status = "pending" => UsedBy(r, event[r].tries)'
       /\ event'[r].status = "processing" => UsedBy(r, event[r].tries + 1)'
       /\ Sent(r)' <= Granted(r)'
  BY <1>3, <1>5, <1>6 DEF SubmitInv, UsedBy
<1> QED BY <1>4, <1>8, <1>9 DEF SubmitInv

LEMMA NextSubmit ==
  ASSUME TypeInv, WorkInv, SubmitInv, [Next]_vars
  PROVE  SubmitInv'
<1>t. TypeInv'
  BY NextType
<1>k. ASSUME UNCHANGED <<live, event, worker>>,
             \A r \in Requests : request'[r].retries = request[r].retries,
             \A r \in Requests : request[r].status # "none" => request'[r].status # "none"
      PROVE  SubmitInv'
  <2>1. \A r \in Requests :
          /\ request'[r].retries = request[r].retries
          /\ request'[r].status = "none" => request[r].status = "none"
          /\ \/ event'[r] = event[r]
             \/ event'[r].status \in {"none", "completed", "failed"}
    BY <1>k
  <2>2. \A w \in Workers : worker'[w].pc \in {"claimed", "quoting"} =>
           /\ worker[w].pc \in {"claimed", "quoting"} /\ worker'[w].req = worker[w].req
           /\ worker[w].req \in Requests
           /\ event'[worker[w].req] = event[worker[w].req]
    BY <1>k DEF TypeInv, ActorsKnowRequest
  <2> QED BY <1>k, <2>1, <2>2, SubmitKept
<1>1. ASSUME NEW c \in Clients, (\E r \in Requests : CheckReplay(c, r)) \/ Refuse(c)
      PROVE  SubmitInv'
  BY <1>k, <1>1 DEF CheckReplay, Refuse, database, broker
<1>2. ASSUME NEW c \in Clients, Accept(c)
      PROVE  SubmitInv'
  BY <1>2, <1>t, AcceptKeepsSubmit
<1>3. ASSUME NEW w \in Workers, WorkerStep(w) \/ Crash(w)
      PROVE  SubmitInv'
  BY <1>3, WorkerKeepsSubmit
<1>4. ASSUME NEW o \in Orders, BrokerStep(o)
      PROVE  SubmitInv'
  BY <1>4, BrokerKeepsSubmit
<1>5. ASSUME NEW m \in reports, OnOrderUpdate(m)
      PROVE  SubmitInv'
  <2>1. CASE ApplyUpdate(m)
    <3>1. PICK r \in Requests : live[m.order].req = r
      BY DEF TypeInv, TypeOK, Report, OrdersHaveRequest
    <3>2. UpdateCloseRequest(r, order') /\ UNCHANGED <<live, event, worker>>
      BY <2>1, <3>1 DEF ApplyUpdate, broker
    <3>3. \A s \in Requests : request[s].status # "none" => request'[s].status # "none"
      BY <3>2, UpdateKeepsRequests
    <3>4. \A s \in Requests : request'[s].retries = request[s].retries
      BY <3>2, UpdateCloseRequestType
    <3> QED BY <1>k, <3>2, <3>3, <3>4
  <2>2. CASE ApplyQuantity(m)
    BY <1>k, <2>2 DEF ApplyQuantity, broker
  <2> QED BY <1>5, <2>1, <2>2 DEF OnOrderUpdate
<1>6. ASSUME NEW r \in Requests, GrowOld(r)
      PROVE  SubmitInv'
  BY <1>k, <1>6 DEF GrowOld, broker, TypeInv, TypeOK, RequestRow
<1>7. CASE RollbackZombies \/ \E missing \in SUBSET Orders : RecoverStuck(missing)
  <2>1. UNCHANGED <<live, event, worker>>
    BY <1>7 DEF RollbackZombies, RecoverStuck, broker
  <2>2. \A r \in Requests : \/ request'[r] = request[r]
                            \/ request'[r] = [request[r] EXCEPT !.status = "failed"]
    BY <1>7 DEF RollbackZombies, RecoverStuck
  <2>3. \A r \in Requests : /\ request'[r].retries = request[r].retries
                            /\ request[r].status # "none" => request'[r].status # "none"
    BY ZenonT(30), <2>2 DEF TypeInv, TypeOK, RequestRow
  <2> QED BY <1>k, <2>1, <2>3
<1>8. CASE CommitRetries
  BY <1>8, CommitRetriesKeepsSubmit
<1>9. CASE \E cutoff \in 1 .. clock + 1 : Cleanup(cutoff)
  <2>1. UNCHANGED <<live, worker, request>>
    BY <1>9 DEF Cleanup, broker
  <2>2. \A r \in Requests :
          \/ event'[r] = event[r]
          \/ event[r].status \in {"completed", "failed"} /\ event'[r].status = "none"
    BY <1>9 DEF Cleanup, NoEvent
  <2>3. \A w \in Workers : worker'[w].pc \in {"claimed", "quoting"} =>
           /\ worker[w].pc \in {"claimed", "quoting"} /\ worker'[w].req = worker[w].req
           /\ worker[w].req \in Requests
           /\ event'[worker[w].req] = event[worker[w].req]
    BY <2>1, <2>2 DEF TypeInv, ActorsKnowRequest, WorkInv, WorkersHoldEvents
  <2> QED BY <2>1, <2>2, <2>3, SubmitKept
<1>10. CASE \/ ScanZombies \/ ScanStuck \/ ScanRetryable \/ RetriesRolledBack
            \/ CheckInvariants \/ UNCHANGED vars
  <2>1. UNCHANGED <<live, event, worker, request>>
    BY <1>10 DEF ScanZombies, ScanStuck, ScanRetryable, RetriesRolledBack, CheckInvariants,
                 vars, database, broker
  <2> QED BY <1>k, <2>1
<1> QED BY <1>1, <1>2, <1>3, <1>4, <1>5, <1>6, <1>7, <1>8, <1>9, <1>10 DEF Next

\* However submission fails -- timeouts, rejections, exceptions after the broker took
\* the order, crashes -- and whatever rows the cleaner deletes, a request puts at most
\* MaxAttempts orders at the broker for its first event and as many for each retry.
THEOREM SubmissionsAreBounded == Spec => []SubmissionsBounded
<1>1. Init => WorkInv
  BY DEF Init, WorkInv, WorkersHoldEvents, OneWorkerPerRequest, EventsHaveRequests, NoEvent
<1>2. SubmitInv => SubmissionsBounded
  BY DEF SubmitInv, SubmissionsBounded, Sent, Granted
<1> QED BY <1>1, <1>2, InitTypeInv, InitSubmit, NextType, NextWork, NextSubmit, PTL DEF Spec

-----------------------------------------------------------------------------
(* Where nothing goes wrong beyond the ordinary (Anomalies is empty; updates *)
(* are still lost, repeated and reordered): positions and requests always    *)
(* agree, a position is never sold twice, and the whole follows the life     *)
(* cycle of PositionLifecycle.  What the inductive invariant adds to         *)
(* TypeInv, WorkInv, FillInv and TotalsInv.                                  *)

Settled == {"completed", "failed", "retryable"}

\* A request that has a say over its position: at work, waiting or successful.
Holds(r) == request[r].status \in {"pending", "submitted", "retryable", "completed"}

Terminal(o) == order[o].status \in TerminalStates

\* Every order at the broker has its row, and a terminal row has the broker's last
\* word on the order.
RowsFollow ==
  \A o \in Orders :
    /\ order[o].status = "none" <=> live[o].status = "none"
    /\ order[o].status = "none" => order[o].seq = 0
    /\ Terminal(o) => /\ live[o].status = order[o].status
                      /\ live[o].filled = order[o].filled
                      /\ live[o].seq = order[o].seq

\* Reports are numbered, and the one that ends an order is the last.
ReportsNumbered ==
  \A m \in reports :
    /\ 1 <= m.seq /\ m.seq <= live[m.order].seq
    /\ m.status \in TerminalStates => /\ live[m.order].status = m.status
                                      /\ live[m.order].filled = m.filled
                                      /\ live[m.order].seq = m.seq

\* A request has one order at most ...
OneOrder ==
  \A o1, o2 \in Orders : live[o1].req = live[o2].req /\ live[o1].req # None => o1 = o2

\* ... placed by a worker that then tells the request: until it has done so the
\* request is PENDING.  An order of a settled request has ended.
OrdersInStep ==
  \A o \in Orders : \A r \in Requests : live[o].req = r =>
    /\ live[o].status # "none"
    /\ request[r].status # "none"
    /\ request[r].status = "pending" =>
         \E w \in Workers : worker[w].req = r /\ worker[w].pc \in {"accepted", "rejected"}
    /\ request[r].status \in Settled => Terminal(o)
    /\ request[r].status = "failed" => live[o].filled = 0

WorkersInStep ==
  \A w \in Workers :
    /\ worker[w].pc # "idle" => request[worker[w].req].status = "pending"
    /\ worker[w].pc = "rejected" => \A o \in OrdersOf(worker[w].req) :
                                      Terminal(o) /\ live[o].filled = 0

\* A request has one event in its life, whose row stays; no request is both PENDING
\* and old, so detect_zombies never finds any, and every retry collides with the row.
OneEvent ==
  /\ zombies = {}
  /\ \A r \in Requests :
       /\ request[r].status # "none" => event[r].status # "none"
       /\ event[r].status = "pending" => request[r].status = "pending"
       /\ request[r].status \in {"none", "pending"} => ~request[r].old
       /\ batch[r] > 0 => request[r].status # "none"

\* One request at most has a say over a position, and only its word is repeated there.
OneHolder ==
  /\ \A r, s \in Requests : r[1] = s[1] /\ Holds(r) /\ Holds(s) => r = s
  /\ \A r \in Requests : request[r].status = "completed" => position[r[1]].status = "closed"
  /\ \A r \in Requests : Unsettled(r) => position[r[1]].active = r

AgreesAt(p) ==
  LET status == position[p].status
      active == position[p].active
  IN /\ active # None <=> status \in {"closing", "close_retryable"}
     /\ active # None => active[1] = p
     /\ status = "closing" => request[active].status \in {"pending", "submitted"}
     /\ status = "close_retryable" => request[active].status = "retryable"
     /\ status = "closed" => \E k \in Keys : request[<<p, k>>].status = "completed"
     /\ status = "close_failed" => \E k \in Keys : request[<<p, k>>].status = "failed"

PositionsAgree == \A p \in Positions : AgreesAt(p)

AgreeInv ==
  /\ RowsFollow /\ ReportsNumbered /\ OneOrder
  /\ OrdersInStep /\ WorkersInStep /\ OneEvent
  /\ OneHolder /\ PositionsAgree

NormalInv == TypeInv /\ WorkInv /\ FillInv /\ TotalsInv /\ AgreeInv

LEMMA InitAgree == Init => AgreeInv
<1> SUFFICES ASSUME Init PROVE AgreeInv
  OBVIOUS
<1>1. RowsFollow /\ ReportsNumbered /\ OneOrder /\ OrdersInStep
  BY NoneAssumption DEF Init, RowsFollow, ReportsNumbered, OneOrder, OrdersInStep, Terminal,
                        TerminalStates
<1>2. WorkersInStep /\ OneEvent
  BY DEF Init, WorkersInStep, OneEvent, NoBatch, NoEvent
<1>3. OneHolder /\ PositionsAgree
  BY DEF Init, OneHolder, PositionsAgree, AgreesAt, Holds, Unsettled, Requests
<1> QED BY <1>1, <1>2, <1>3 DEF AgreeInv

-----------------------------------------------------------------------------
(* Frames: what a step keeps that leaves a group of variables alone.        *)

LEMMA RowsStill ==
  ASSUME AgreeInv, UNCHANGED <<order, live, reports>>
  PROVE  RowsFollow' /\ ReportsNumbered' /\ OneOrder'
  BY DEF AgreeInv, RowsFollow, ReportsNumbered, OneOrder, Terminal

LEMMA HoldersStill ==
  ASSUME TypeInv, AgreeInv, UNCHANGED position,
         \A r \in Requests : request'[r].status = request[r].status
  PROVE  OneHolder' /\ PositionsAgree'
<1>1. OneHolder'
  BY DEF AgreeInv, OneHolder, Holds, Unsettled
<1>2. \A p \in Positions : position[p].active # None => position[p].active \in Requests
  BY DEF TypeInv, TypeOK, PositionRow
<1>3. \A p \in Positions, k \in Keys : <<p, k>> \in Requests
  BY DEF Requests
<1>4. PositionsAgree'
  <2> SUFFICES ASSUME NEW p \in Positions PROVE AgreesAt(p)'
    BY DEF PositionsAgree
  <2>1. AgreesAt(p)
    BY DEF AgreeInv, PositionsAgree
  <2> QED BY <1>2, <1>3, <2>1 DEF AgreesAt
<1> QED BY <1>1, <1>4

LEMMA StepsStill ==
  ASSUME TypeInv, AgreeInv, UNCHANGED <<order, live, worker>>,
         \A r \in Requests : request'[r].status = request[r].status
  PROVE  OrdersInStep' /\ WorkersInStep'
<1>1. OrdersInStep'
  BY DEF AgreeInv, OrdersInStep, Terminal
<1>2. WorkersInStep'
  BY DEF AgreeInv, WorkersInStep, Terminal, OrdersOf, TypeInv, ActorsKnowRequest
<1> QED BY <1>1, <1>2

LEMMA AgreeKept ==
  ASSUME TypeInv, AgreeInv, UNCHANGED <<position, event, order, live, reports, worker>>,
         zombies' = {},
         \A r \in Requests : /\ request'[r].status = request[r].status
                             /\ request'[r].old => \/ request[r].old
                                                   \/ request[r].status \notin {"none", "pending"}
                             /\ batch'[r] > 0 => request[r].status # "none"
  PROVE  AgreeInv'
<1>1. OneEvent'
  BY DEF AgreeInv, OneEvent
<1> QED BY <1>1, RowsStill, HoldersStill, StepsStill DEF AgreeInv

\* An order at the broker belongs to a request, a report to an order.
LEMMA OrdersKnown ==
  ASSUME TypeInv, TotalsInv
  PROVE  /\ \A o \in Orders : live[o].status # "none" <=> live[o].req \in Requests
         /\ \A m \in reports : m.order \in Orders /\ live[m.order].req \in Requests
  BY NoneAssumption DEF TypeInv, TypeOK, OrdersHaveRequest, TotalsInv, UnusedHasNone,
                        BrokerOrder, Report

\* A worker that has not submitted yet holds a request without orders.
LEMMA NothingSubmitted ==
  ASSUME NormalInv, NEW w \in Workers, worker[w].pc \in {"claimed", "quoting", "raised"}
  PROVE  /\ worker[w].req \in Requests /\ request[worker[w].req].status = "pending"
         /\ OrdersOf(worker[w].req) = {}
<1> DEFINE r == worker[w].req
<1>1. r \in Requests /\ request[r].status = "pending"
  BY DEF NormalInv, AgreeInv, WorkersInStep, TypeInv, ActorsKnowRequest
<1>2. ASSUME NEW o \in Orders, live[o].req = r PROVE FALSE
  <2>1. PICK v \in Workers : worker[v].req = r /\ worker[v].pc \in {"accepted", "rejected"}
    BY <1>1, <1>2 DEF NormalInv, AgreeInv, OrdersInStep
  <2>2. v # w
    BY <2>1
  <2> QED BY <2>1, <2>2 DEF NormalInv, WorkInv, OneWorkerPerRequest
<1> QED BY <1>1, <1>2 DEF OrdersOf

-----------------------------------------------------------------------------
(* The API and the worker.                                                  *)

LEMMA AcceptAgrees ==
  ASSUME NormalInv, NEW c \in Clients, Accept(c)
  PROVE  AgreeInv'
<1>1. PICK r \in Requests : r = call[c].req
  BY DEF Accept, NormalInv, TypeInv, ActorsKnowRequest
<1>2. PICK p \in Positions : p = r[1]
  BY DEF Requests
<1>3. /\ position[p].status = "open" /\ request[r].status = "none"
      /\ request'[r].status = "pending" /\ request'[r].old = request[r].old
      /\ \A s \in Requests \ {r} : request'[s] = request[s]
      /\ position'[p] = [status |-> "closing", active |-> r]
      /\ \A q \in Positions \ {p} : position'[q] = position[q]
      /\ event'[r].status = "pending" /\ \A s \in Requests \ {r} : event'[s] = event[s]
      /\ UNCHANGED <<order, live, reports, worker, zombies, batch>>
  BY <1>1, <1>2 DEF Accept, broker, jobs, NormalInv, TypeInv, TypeOK, RequestRow
<1>4. \A s \in Requests : s[1] = p => ~Holds(s)
  BY <1>3, NoneAssumption
  DEF Holds, Unsettled, NormalInv, AgreeInv, OneHolder, PositionsAgree, AgreesAt
<1>5. OrdersInStep'
  BY <1>3 DEF NormalInv, AgreeInv, OrdersInStep, Terminal
<1>6. WorkersInStep'
  BY <1>3 DEF NormalInv, AgreeInv, WorkersInStep, Terminal, OrdersOf, TypeInv, ActorsKnowRequest
<1>7. OneEvent'
  BY <1>3 DEF NormalInv, AgreeInv, OneEvent
<1>8. OneHolder'
  BY <1>2, <1>3, <1>4, NoneAssumption
  DEF NormalInv, AgreeInv, OneHolder, Holds, Unsettled, Requests
<1>9. PositionsAgree'
  <2> SUFFICES ASSUME NEW q \in Positions PROVE AgreesAt(q)'
    BY DEF PositionsAgree
  <2>0. AgreesAt(q)
    BY DEF NormalInv, AgreeInv, PositionsAgree
  <2>1. CASE q = p
    BY <1>2, <1>3, <2>1, NoneAssumption DEF AgreesAt
  <2>2. CASE q # p
    <3>1. position[q].active # None => position[q].active \in Requests \ {r}
      BY <1>2, <2>0, <2>2 DEF AgreesAt, NormalInv, TypeInv, TypeOK, PositionRow
    <3>2. \A k \in Keys : <<q, k>> \in Requests \ {r}
      BY <1>2, <2>2 DEF Requests
    <3> QED BY <1>3, <2>0, <2>2, <3>1, <3>2 DEF AgreesAt
  <2> QED BY <2>1, <2>2
<1> QED BY <1>3, <1>5, <1>6, <1>7, <1>8, <1>9, RowsStill DEF AgreeInv, NormalInv

LEMMA ClaimAgrees ==
  ASSUME NormalInv, NEW w \in Workers, NEW r \in Requests, Claim(w, r)
  PROVE  AgreeInv'
<1>1. /\ worker[w].pc = "idle" /\ event[r].status = "pending"
      /\ worker'[w] = [pc |-> "claimed", req |-> r]
      /\ \A v \in Workers \ {w} : worker'[v] = worker[v]
      /\ event'[r].status = "processing" /\ \A s \in Requests \ {r} : event'[s] = event[s]
      /\ UNCHANGED <<position, request, order, live, reports, zombies, batch>>
  BY DEF Claim, broker, jobs, NormalInv, TypeInv, TypeOK, EventRow
<1>2. request[r].status = "pending"
  BY <1>1 DEF NormalInv, AgreeInv, OneEvent
<1>3. OrdersInStep'
  BY <1>1 DEF NormalInv, AgreeInv, OrdersInStep, Terminal
<1>4. WorkersInStep'
  BY <1>1, <1>2 DEF NormalInv, AgreeInv, WorkersInStep, Terminal, OrdersOf
<1>5. OneEvent'
  BY <1>1 DEF NormalInv, AgreeInv, OneEvent
<1> QED BY <1>1, <1>3, <1>4, <1>5, RowsStill, HoldersStill DEF AgreeInv, NormalInv

\* A worker that moves on without having submitted.
LEMMA GotoAgrees ==
  ASSUME NormalInv, NEW w \in Workers, ReadRequest(w) \/ RaiseBeforeSubmit(w)
  PROVE  AgreeInv'
<1>1. PICK pc \in {"quoting", "raised"} :
        /\ worker[w].pc \in {"claimed", "quoting"}
        /\ worker' = [worker EXCEPT ![w].pc = pc]
        /\ UNCHANGED <<position, request, event, order, live, reports, zombies, batch>>
  BY DEF ReadRequest, RaiseBeforeSubmit, Goto, database, broker, jobs
<1>2. /\ worker'[w].pc = pc /\ worker'[w].req = worker[w].req
      /\ \A v \in Workers \ {w} : worker'[v] = worker[v]
  BY <1>1 DEF NormalInv, TypeInv, TypeOK, WorkerState
<1>3. OrdersInStep'
  BY <1>1, <1>2 DEF NormalInv, AgreeInv, OrdersInStep, Terminal
<1>4. WorkersInStep'
  BY <1>1, <1>2 DEF NormalInv, AgreeInv, WorkersInStep, Terminal, OrdersOf
<1>5. OneEvent'
  BY <1>1 DEF NormalInv, AgreeInv, OneEvent
<1> QED BY <1>1, <1>3, <1>4, <1>5, RowsStill, HoldersStill DEF AgreeInv, NormalInv

LEMMA SubmitAgrees ==
  ASSUME NormalInv, NEW w \in Workers, NEW o \in Orders,
         SubmitAccepted(w, o) \/ SubmitRejected(w, o)
  PROVE  AgreeInv'
<1>1. PICK r \in Requests : r = worker[w].req
  BY DEF SubmitAccepted, SubmitRejected, NormalInv, TypeInv, ActorsKnowRequest
<1>2. PICK status \in {"submitted", "cancelled"}, pc \in {"accepted", "rejected"} :
        /\ status = "cancelled" <=> pc = "rejected"
        /\ worker[w].pc = "quoting" /\ live[o].status = "none"
        /\ live' = [live EXCEPT ![o] = [req |-> r, status |-> status, qty |-> event[r].qty,
                                        filled |-> 0, seq |-> 0]]
        /\ order' = [order EXCEPT ![o].status = status]
        /\ worker' = [worker EXCEPT ![w].pc = pc]
        /\ UNCHANGED <<position, request, event, reports, zombies, batch>>
  BY <1>1 DEF SubmitAccepted, SubmitRejected, NextOrder, Place, Goto, jobs
<1>3. /\ worker'[w].pc = pc /\ worker'[w].req = r
      /\ \A v \in Workers \ {w} : worker'[v] = worker[v]
      /\ order'[o].status = status /\ order'[o].seq = order[o].seq
      /\ order'[o].filled = order[o].filled
      /\ \A x \in Orders \ {o} : order'[x] = order[x]
      /\ live'[o] = [req |-> r, status |-> status, qty |-> event[r].qty, filled |-> 0, seq |-> 0]
      /\ \A x \in Orders \ {o} : live'[x] = live[x]
  BY <1>1, <1>2 DEF NormalInv, TypeInv, TypeOK, WorkerState, OrderRow, BrokerOrder
<1>4. request[r].status = "pending" /\ OrdersOf(r) = {} /\ live[o].req = None
  BY <1>1, <1>2, NothingSubmitted DEF NormalInv, TotalsInv, UnusedHasNone
<1>5. order[o].status = "none" /\ order[o].seq = 0 /\ order[o].filled = 0
  BY <1>2 DEF NormalInv, AgreeInv, RowsFollow, FillInv, RecordedFillsSound, LiveSound,
              TypeInv, TypeOK, OrderRow
<1>6. RowsFollow'
  BY <1>3, <1>5 DEF NormalInv, AgreeInv, RowsFollow, Terminal
<1>7. ReportsNumbered'
  <2>1. \A m \in reports : m.order \in Orders \ {o}
    BY <1>2 DEF NormalInv, TypeInv, TypeOK, OrdersHaveRequest, Report
  <2> QED BY <1>2, <1>3, <2>1 DEF NormalInv, AgreeInv, ReportsNumbered
<1>8. \A x \in Orders \ {o} : live[x].req # r
  BY <1>4 DEF OrdersOf
<1>9. OneOrder'
  BY <1>3, <1>8 DEF NormalInv, AgreeInv, OneOrder
<1>10. OrdersInStep'
  BY <1>2, <1>3, <1>4 DEF NormalInv, AgreeInv, OrdersInStep, Terminal, Settled
<1>11. WorkersInStep'
  <2> SUFFICES ASSUME NEW v \in Workers, worker'[v].pc # "idle"
               PROVE  /\ request[worker'[v].req].status = "pending"
                      /\ worker'[v].pc = "rejected" => \A x \in Orders : live'[x].req = worker'[v].req
                           => order'[x].status \in TerminalStates /\ live'[x].filled = 0
    BY <1>2 DEF WorkersInStep, OrdersOf, Terminal
  <2>1. CASE v = w
    BY <1>2, <1>3, <1>4, <1>8, <2>1 DEF TerminalStates
  <2>2. CASE v # w
    <3>1. worker'[v] = worker[v] /\ worker[v].req # r /\ worker[v].pc # "idle"
      BY <1>1, <1>2, <1>3, <2>2 DEF NormalInv, WorkInv, OneWorkerPerRequest
    <3> QED BY <1>3, <3>1 DEF NormalInv, AgreeInv, WorkersInStep, OrdersOf, Terminal
  <2> QED BY <2>1, <2>2
<1>12. OneEvent'
  BY <1>2 DEF NormalInv, AgreeInv, OneEvent
<1> QED BY <1>2, <1>6, <1>7, <1>9, <1>10, <1>11, <1>12, HoldersStill DEF AgreeInv, NormalInv

\* A worker that lets go of its request, whose status is the only one to change.
LEMMA ReleaseAgrees ==
  ASSUME NormalInv, NEW w \in Workers, NEW r \in Requests,
         worker[w].pc # "idle", worker[w].req = r, Release(w),
         UNCHANGED <<order, live, reports, zombies, batch>>,
         \A s \in Requests \ {r} : request'[s] = request[s] /\ event'[s] = event[s],
         request'[r].status \in {"pending", "submitted", "failed"},
         request'[r].old = request[r].old,
         event'[r].status # "none",
         event'[r].status = "pending" => request'[r].status = "pending",
         request'[r].status = "pending" => OrdersOf(r) = {},
         request'[r].status = "failed" =>
           \A o \in OrdersOf(r) : Terminal(o) /\ live[o].filled = 0
  PROVE  OrdersInStep' /\ WorkersInStep' /\ OneEvent'
<1>1. /\ worker'[w].pc = "idle"
      /\ \A v \in Workers \ {w} : worker'[v] = worker[v]
                                  /\ (worker[v].pc # "idle" => worker[v].req # r)
  BY DEF Release, NormalInv, TypeInv, TypeOK, WorkInv, OneWorkerPerRequest
<1>2. OrdersInStep'
  <2> SUFFICES ASSUME NEW o \in Orders, NEW s \in Requests, live[o].req = s
               PROVE  /\ live[o].status # "none"
                      /\ request'[s].status # "none"
                      /\ request'[s].status = "pending" => \E v \in Workers :
                           worker'[v].req = s /\ worker'[v].pc \in {"accepted", "rejected"}
                      /\ request'[s].status \in Settled => Terminal(o)
                      /\ request'[s].status = "failed" => live[o].filled = 0
    BY DEF OrdersInStep, Terminal
  <2>1. CASE s = r
    BY <2>1 DEF NormalInv, AgreeInv, OrdersInStep, OrdersOf, Settled
  <2>2. CASE s # r
    BY <1>1, <2>2 DEF NormalInv, AgreeInv, OrdersInStep
  <2> QED BY <2>1, <2>2
<1>3. WorkersInStep'
  BY <1>1 DEF NormalInv, AgreeInv, WorkersInStep, OrdersOf, Terminal, TypeInv, ActorsKnowRequest
<1>4. OneEvent'
  <2>1. request[r].status = "pending"
    BY DEF NormalInv, AgreeInv, WorkersInStep
  <2> QED BY <2>1 DEF NormalInv, AgreeInv, OneEvent
<1> QED BY <1>2, <1>3, <1>4

LEMMA RetryAgrees ==
  ASSUME NormalInv, NEW w \in Workers, RetryEvent(w)
  PROVE  AgreeInv'
<1>1. PICK r \in Requests : r = worker[w].req
  BY DEF RetryEvent, NormalInv, TypeInv, ActorsKnowRequest
<1>2. /\ worker[w].pc = "raised" /\ Release(w) /\ event'[r].status = "pending"
      /\ \A s \in Requests \ {r} : event'[s] = event[s]
      /\ UNCHANGED <<position, request, order, live, reports, zombies, batch>>
  BY <1>1 DEF RetryEvent, broker, jobs, NormalInv, TypeInv, TypeOK, EventRow
<1>3. request[r].status = "pending" /\ OrdersOf(r) = {}
  BY <1>1, <1>2, NothingSubmitted
<1>4. OrdersInStep' /\ WorkersInStep' /\ OneEvent'
  BY <1>1, <1>2, <1>3, ReleaseAgrees
<1> QED BY <1>2, <1>4, RowsStill, HoldersStill DEF AgreeInv, NormalInv

\* The request of a worker is the active one of a CLOSING position.
LEMMA WorkedOnIsActive ==
  ASSUME NormalInv, NEW r \in Requests, request[r].status \in {"pending", "submitted"}
  PROVE  r[1] \in Positions /\ position[r[1]].active = r /\ position[r[1]].status = "closing"
<1>1. r[1] \in Positions /\ position[r[1]].active = r
  BY DEF NormalInv, AgreeInv, OneHolder, Unsettled, Requests
<1> QED BY <1>1, NoneAssumption DEF NormalInv, AgreeInv, PositionsAgree, AgreesAt

LEMMA CommitSubmittedAgrees ==
  ASSUME NormalInv, NEW w \in Workers, CommitSubmitted(w)
  PROVE  AgreeInv'
<1>1. PICK r \in Requests : r = worker[w].req
  BY DEF CommitSubmitted, NormalInv, TypeInv, ActorsKnowRequest
<1>2. /\ worker[w].pc = "accepted" /\ Release(w)
      /\ request'[r].status = "submitted" /\ request'[r].old = request[r].old
      /\ event'[r].status = "completed"
      /\ \A s \in Requests \ {r} : request'[s] = request[s] /\ event'[s] = event[s]
      /\ UNCHANGED <<position, order, live, reports, zombies, batch>>
  BY <1>1 DEF CommitSubmitted, broker, jobs, NormalInv, TypeInv, TypeOK, EventRow, RequestRow
<1>3. request[r].status = "pending"
  BY <1>1, <1>2 DEF NormalInv, AgreeInv, WorkersInStep
<1>4. OrdersInStep' /\ WorkersInStep' /\ OneEvent'
  BY <1>1, <1>2, ReleaseAgrees
<1>5. OneHolder'
  BY <1>2, <1>3 DEF NormalInv, AgreeInv, OneHolder, Holds, Unsettled
<1>6. PositionsAgree'
  <2>1. \A p \in Positions : position[p].active # None => position[p].active \in Requests
    BY DEF NormalInv, TypeInv, TypeOK, PositionRow
  <2>2. \A p \in Positions, k \in Keys : <<p, k>> \in Requests
    BY DEF Requests
  <2> SUFFICES ASSUME NEW p \in Positions PROVE AgreesAt(p)'
    BY DEF PositionsAgree
  <2>3. AgreesAt(p)
    BY DEF NormalInv, AgreeInv, PositionsAgree
  <2> QED BY <1>2, <1>3, <2>1, <2>2, <2>3 DEF AgreesAt
<1> QED BY <1>2, <1>4, <1>5, <1>6, RowsStill DEF AgreeInv, NormalInv

\* The request at work on a position comes to its end, and the position with it.
LEMMA EndAgrees ==
  ASSUME NormalInv, NEW r \in Requests, request[r].status \in {"pending", "submitted"},
         \A s \in Requests \ {r} : request'[s] = request[s],
         \A p \in Positions \ {r[1]} : position'[p] = position[p],
         \/ /\ request'[r].status = "failed"
            /\ position'[r[1]].status \in {"open", "close_failed"}
            /\ position'[r[1]].active = None
         \/ /\ request'[r].status = "completed"
            /\ position'[r[1]].status = "closed"
            /\ position'[r[1]].active = None
         \/ /\ request'[r].status = "retryable"
            /\ position'[r[1]].status = "close_retryable"
            /\ position'[r[1]].active = r
  PROVE  OneHolder' /\ PositionsAgree'
<1> DEFINE p == r[1]
<1>1. /\ p \in Positions /\ position[p].active = r /\ position[p].status = "closing"
      /\ r[2] \in Keys /\ r = <<p, r[2]>>
  BY WorkedOnIsActive DEF Requests
<1> HIDE DEF p
<1>2. \A s \in Requests \ {r} : s[1] = p => ~Holds(s)
  BY DEF NormalInv, AgreeInv, OneHolder, Holds, p
<1>3. OneHolder'
  <2>1. Holds(r) /\ \A s \in Requests \ {r} : (Holds(s)' <=> Holds(s)) /\ (Unsettled(s)' <=> Unsettled(s))
    BY DEF Holds, Unsettled
  <2>2. \A s, t \in Requests : s[1] = t[1] /\ Holds(s)' /\ Holds(t)' => s = t
    BY <1>2, <2>1 DEF NormalInv, AgreeInv, OneHolder, p
  <2>3. ASSUME NEW s \in Requests, s # r
        PROVE  /\ request'[s].status = "completed" => position'[s[1]].status = "closed"
               /\ Unsettled(s)' => position'[s[1]].active = s
    <3>1. CASE s[1] = p
      BY <1>2, <2>1, <2>3, <3>1 DEF Holds, Unsettled
    <3>2. CASE s[1] # p
      <4>1. position'[s[1]] = position[s[1]]
        BY <3>2 DEF Requests, p
      <4> QED BY <2>1, <2>3, <4>1 DEF NormalInv, AgreeInv, OneHolder
    <3> QED BY <3>1, <3>2
  <2>4. /\ request'[r].status = "completed" => position'[r[1]].status = "closed"
        /\ Unsettled(r)' => position'[r[1]].active = r
    BY DEF Unsettled
  <2> QED BY <2>2, <2>3, <2>4 DEF OneHolder
<1>4. PositionsAgree'
  <2> SUFFICES ASSUME NEW q \in Positions PROVE AgreesAt(q)'
    BY DEF PositionsAgree
  <2>0. AgreesAt(q)
    BY DEF NormalInv, AgreeInv, PositionsAgree
  <2>1. CASE q = p
    BY <1>1, <2>1, NoneAssumption DEF p, AgreesAt
  <2>2. CASE q # p
    <3>1. position[q].active # None => position[q].active \in Requests \ {r}
      BY <1>1, <2>0, <2>2 DEF AgreesAt, NormalInv, TypeInv, TypeOK, PositionRow, p
    <3>2. \A k \in Keys : <<q, k>> \in Requests \ {r}
      BY <1>1, <2>2 DEF Requests
    <3>3. position'[q] = position[q]
      BY <2>2 DEF p
    <3> QED BY <2>0, <2>2, <3>1, <3>2, <3>3 DEF AgreesAt
  <2> QED BY <2>1, <2>2
<1> QED BY <1>3, <1>4

LEMMA FailAgrees ==
  ASSUME NormalInv, NEW w \in Workers, CommitRejected(w) \/ GiveUp(w)
  PROVE  AgreeInv'
<1>1. PICK r \in Requests : r = worker[w].req
  BY DEF CommitRejected, GiveUp, NormalInv, TypeInv, ActorsKnowRequest
<1>2. /\ worker[w].pc \in {"rejected", "raised"} /\ Release(w) /\ r[1] \in Positions
      /\ request'[r].status = "failed" /\ request'[r].old = request[r].old
      /\ event'[r].status \in {"completed", "failed"}
      /\ \A s \in Requests \ {r} : request'[s] = request[s] /\ event'[s] = event[s]
      /\ position'[r[1]] = [status |-> "close_failed", active |-> None]
      /\ \A p \in Positions \ {r[1]} : position'[p] = position[p]
      /\ UNCHANGED <<order, live, reports, zombies, batch>>
  BY <1>1 DEF CommitRejected, GiveUp, Fail, broker, jobs, NormalInv, TypeInv, TypeOK, EventRow,
              RequestRow, Requests
<1>3. request[r].status = "pending"
  BY <1>1, <1>2 DEF NormalInv, AgreeInv, WorkersInStep
<1>4. \A o \in OrdersOf(r) : Terminal(o) /\ live[o].filled = 0
  BY <1>1, <1>2, NothingSubmitted DEF NormalInv, AgreeInv, WorkersInStep
<1>5. OrdersInStep' /\ WorkersInStep' /\ OneEvent'
  BY <1>1, <1>2, <1>4, ReleaseAgrees
<1>6. OneHolder' /\ PositionsAgree'
  BY <1>2, <1>3, EndAgrees
<1> QED BY <1>2, <1>5, <1>6, RowsStill DEF AgreeInv, NormalInv

-----------------------------------------------------------------------------
(* The broker and its updates.                                              *)

LEMMA BrokerAgrees ==
  ASSUME NormalInv, Anomalies = {}, NEW o \in Orders, BrokerStep(o)
  PROVE  AgreeInv'
<1>1. \A x \in Orders : live[x].seq \in Nat /\ live[x].filled \in Nat
  BY DEF NormalInv, TypeInv, TypeOK, BrokerOrder
<1>2. PICK status \in {"partial", "filled", "cancelled"}, filled \in Nat :
        Working(o) /\ Change(o, status, filled)
  BY <1>1 DEF BrokerStep, BrokerFill, BrokerEnd, BrokerLateFill
<1> DEFINE new == [order |-> o, status |-> status, filled |-> filled, seq |-> live[o].seq + 1]
<1>3. /\ live'[o].status = status /\ live'[o].filled = filled /\ live'[o].seq = live[o].seq + 1
      /\ live'[o].req = live[o].req
      /\ \A x \in Orders \ {o} : live'[x] = live[x]
      /\ reports' = reports \cup {new}
      /\ UNCHANGED <<position, request, event, order, worker, zombies, batch>>
  BY <1>2 DEF Change, database, jobs, NormalInv, TypeInv, TypeOK, BrokerOrder
<1>4. ~Terminal(o) /\ live[o].status \in {"submitted", "partial"}
  BY <1>2 DEF NormalInv, AgreeInv, RowsFollow, Working, Terminal, TerminalStates
<1>5. RowsFollow'
  BY <1>3, <1>4 DEF NormalInv, AgreeInv, RowsFollow, Terminal
<1>6. ReportsNumbered'
  <2> SUFFICES ASSUME NEW m \in reports'
               PROVE  /\ 1 <= m.seq /\ m.seq <= live'[m.order].seq
                      /\ m.status \in TerminalStates => /\ live'[m.order].status = m.status
                                                        /\ live'[m.order].filled = m.filled
                                                        /\ live'[m.order].seq = m.seq
    BY DEF ReportsNumbered
  <2>1. CASE m = new
    BY <1>1, <1>3, <2>1
  <2>2. CASE m # new
    <3>1. m \in reports
      BY <1>3, <2>2
    <3>2. m.order \in Orders /\ m.seq \in Nat
      BY <3>1 DEF NormalInv, TypeInv, TypeOK, Report
    <3> HIDE DEF new
    <3> QED BY <1>1, <1>3, <1>4, <3>1, <3>2
            DEF NormalInv, AgreeInv, ReportsNumbered, TerminalStates
  <2> QED BY <2>1, <2>2
<1>7. OneOrder'
  BY <1>3 DEF NormalInv, AgreeInv, OneOrder
<1>8. OrdersInStep'
  BY <1>3, <1>4 DEF NormalInv, AgreeInv, OrdersInStep, Terminal, Settled
<1>9. WorkersInStep'
  BY <1>3, <1>4 DEF NormalInv, AgreeInv, WorkersInStep, OrdersOf, Terminal
<1>10. OneEvent'
  BY <1>3 DEF NormalInv, AgreeInv, OneEvent
<1> QED BY <1>3, <1>5, <1>6, <1>7, <1>8, <1>9, <1>10, HoldersStill DEF AgreeInv, NormalInv

\* An update that is handled concerns an order that its row does not know to have
\* ended, and a request that waits for it.
LEMMA ApplicableMeans ==
  ASSUME NormalInv, Anomalies = {}, NEW m \in reports, Applicable(m)
  PROVE  /\ ~Terminal(m.order) /\ order[m.order].status # "none"
         /\ live[m.order].req \in Requests
         /\ request[live[m.order].req].status = "submitted"
<1> DEFINE o == m.order
           r == live[o].req
<1>1. /\ o \in Orders /\ r \in Requests /\ m.seq \in Nat /\ order[o].seq \in Nat
      /\ live[o].seq \in Nat
  BY OrdersKnown DEF NormalInv, TypeInv, TypeOK, Report, OrderRow, BrokerOrder
<1>2. ~Terminal(o)
  BY <1>1 DEF NormalInv, AgreeInv, RowsFollow, ReportsNumbered, Applicable
<1>3. request[r].status # "none" /\ request[r].status \notin Settled
  BY <1>1, <1>2 DEF NormalInv, AgreeInv, OrdersInStep
<1>4. request[r].status # "pending"
  <2> SUFFICES ASSUME request[r].status = "pending" PROVE FALSE
    OBVIOUS
  <2>1. PICK w \in Workers : worker[w].req = r /\ worker[w].pc \in {"accepted", "rejected"}
    BY <1>1 DEF NormalInv, AgreeInv, OrdersInStep
  <2>2. worker[w].pc = "rejected"
    BY <2>1 DEF Applicable
  <2> QED BY <1>1, <1>2, <2>1, <2>2 DEF NormalInv, AgreeInv, WorkersInStep, OrdersOf
<1>5. request[r].status \in RequestStatus
  BY <1>1 DEF NormalInv, TypeInv, TypeOK, RequestRow
<1> QED BY <1>1, <1>2, <1>3, <1>4, <1>5 DEF Applicable, RequestStatus, Settled

\* The row that an update leaves behind.
LEMMA UpdatedFollows ==
  ASSUME NormalInv, Anomalies = {}, NEW m \in reports, Applicable(m),
         NEW status \in {m.status, order[m.order].status},
         order' = Updated(m, status), UNCHANGED <<live, reports, worker>>
  PROVE  /\ RowsFollow' /\ ReportsNumbered' /\ OneOrder'
         /\ \A o \in Orders \ {m.order} : order'[o] = order[o]
         /\ order'[m.order].status = status /\ status # "none"
<1> DEFINE o == m.order
<1>1. /\ o \in Orders /\ m.filled \in Nat /\ order[o].filled \in Nat /\ live[o].filled \in Nat
      /\ live[o].status # "none" /\ order[o].filled <= live[o].filled
      /\ m.status # "none"
  BY DEF NormalInv, TypeInv, TypeOK, Report, OrderRow, BrokerOrder, OrdersHaveRequest, FillInv,
         RecordedFillsSound, ReportsSound
<1>2. /\ order'[o].status = status /\ order'[o].seq = m.seq
      /\ order'[o].filled = IF m.filled > order[o].filled THEN m.filled ELSE order[o].filled
      /\ \A x \in Orders \ {o} : order'[x] = order[x]
  BY <1>1 DEF Updated, NormalInv, TypeInv, TypeOK, OrderRow
<1>3. ~Terminal(o) /\ order[o].status # "none"
  BY ApplicableMeans
<1>4. status \in TerminalStates => /\ live[o].status = status
                                   /\ live[o].filled = order'[o].filled
                                   /\ live[o].seq = m.seq
  BY <1>1, <1>2, <1>3 DEF NormalInv, AgreeInv, ReportsNumbered, Terminal
<1>5. RowsFollow'
  BY <1>1, <1>2, <1>3, <1>4 DEF NormalInv, AgreeInv, RowsFollow, Terminal
<1>6. ReportsNumbered' /\ OneOrder'
  BY DEF NormalInv, AgreeInv, ReportsNumbered, OneOrder
<1> QED BY <1>1, <1>2, <1>3, <1>5, <1>6

\* Whatever becomes of the row, its request being SUBMITTED.
LEMMA UpdateStaysInStep ==
  ASSUME NormalInv, NEW o \in Orders, ~Terminal(o), UNCHANGED <<live, worker, event, zombies, batch>>,
         \A x \in Orders \ {o} : order'[x] = order[x],
         NEW r \in Requests, live[o].req = r, request[r].status = "submitted",
         \A s \in Requests \ {r} : request'[s] = request[s],
         request'[r].status \in Settled \cup {"submitted"},
         request'[r].status \in Settled => Terminal(o)',
         request'[r].status = "failed" => live[o].filled = 0
  PROVE  OrdersInStep' /\ WorkersInStep' /\ OneEvent'
<1>1. \A x \in Orders \ {o} : live[x].req # r
  BY NoneAssumption DEF NormalInv, AgreeInv, OneOrder
<1>2. OrdersInStep'
  BY <1>1 DEF NormalInv, AgreeInv, OrdersInStep, Terminal, Settled
<1>3. WorkersInStep'
  <2> SUFFICES ASSUME NEW v \in Workers, worker[v].pc # "idle"
               PROVE  /\ request'[worker[v].req].status = "pending"
                      /\ worker[v].pc = "rejected" => \A x \in Orders : live[x].req = worker[v].req
                           => order'[x].status \in TerminalStates /\ live[x].filled = 0
    BY DEF WorkersInStep, OrdersOf, Terminal
  <2>1. worker[v].req \in Requests \ {r} /\ request[worker[v].req].status = "pending"
    BY DEF NormalInv, AgreeInv, WorkersInStep, TypeInv, ActorsKnowRequest
  <2> QED BY <2>1 DEF NormalInv, AgreeInv, WorkersInStep, OrdersOf, Terminal
<1>4. OneEvent'
  BY DEF NormalInv, AgreeInv, OneEvent, Settled
<1> QED BY <1>2, <1>3, <1>4

\* The handler's sum over the rows of the request is the fill of its only order.
LEMMA TotalIsFill ==
  ASSUME NormalInv, NEW m \in reports, NEW r \in Requests, live[m.order].req = r,
         NEW rows \in [Orders -> OrderRow], rows[m.order].status # "none"
  PROVE  /\ RowsOf(r, rows) = {m.order}
         /\ TotalFilled(r, rows) = rows[m.order].filled
<1> DEFINE o == m.order
<1>1. o \in Orders
  BY DEF NormalInv, TypeInv, TypeOK, Report
<1>2. RowsOf(r, rows) = {o}
  BY <1>1, NoneAssumption DEF NormalInv, AgreeInv, OneOrder, RowsOf
<1>3. TotalFilled(r, rows) = Sum(Filled(rows), {o})
  BY <1>2, TotalsAreSums
<1>4. Filled(rows)[o] = rows[o].filled /\ Filled(rows)[o] \in Int
  BY <1>1 DEF Filled, OrderRow
<1> HIDE DEF o
<1>5. Sum(Filled(rows), {o}) = Filled(rows)[o]
  BY <1>4, SumOfOne
<1> QED BY <1>2, <1>3, <1>4, <1>5 DEF o

\* An update leaves the request as it was or settles it, and its position with it.
UpdateOutcome(o, r) ==
  \/ /\ ~Terminal(o)'
     /\ request'[r].status = "submitted"
     /\ UNCHANGED position
  \/ /\ Terminal(o)' /\ live[o].filled = 0
     /\ request'[r].status = "failed"
     /\ position'[r[1]].status = "open"
     /\ position'[r[1]].active = None
  \/ /\ Terminal(o)' /\ live[o].filled = Quantity
     /\ request'[r].status = "completed"
     /\ position'[r[1]].status = "closed"
     /\ position'[r[1]].active = None
  \/ /\ Terminal(o)' /\ live[o].filled > 0
     /\ request'[r].status = "retryable"
     /\ position'[r[1]].status = "close_retryable"
     /\ position'[r[1]].active = r

LEMMA ApplyUpdateDoes ==
  ASSUME NormalInv, Anomalies = {}, NEW m \in reports, TypeInv', ApplyUpdate(m)
  PROVE  \E o \in Orders, r \in Requests :
           /\ live[o].req = r /\ ~Terminal(o) /\ request[r].status = "submitted"
           /\ UNCHANGED <<event, live, reports, worker, zombies, batch>>
           /\ RowsFollow' /\ ReportsNumbered' /\ OneOrder'
           /\ \A x \in Orders \ {o} : order'[x] = order[x]
           /\ \A s \in Requests \ {r} : request'[s] = request[s]
           /\ request'[r].old = request[r].old
           /\ r[1] \in Positions /\ \A q \in Positions \ {r[1]} : position'[q] = position[q]
           /\ UpdateOutcome(o, r)
<1>1. PICK o \in Orders : o = m.order
  BY DEF NormalInv, TypeInv, TypeOK, Report
<1>2. PICK r \in Requests : r = live[o].req
  BY <1>1, OrdersKnown DEF NormalInv
<1>3. /\ ~Terminal(o) /\ order[o].status # "none" /\ request[r].status = "submitted"
      /\ Applicable(m) /\ order' = Updated(m, m.status)
      /\ UNCHANGED <<event, live, reports, worker, zombies, batch>>
  BY <1>1, <1>2, ApplicableMeans DEF ApplyUpdate, broker, jobs
<1>4. /\ RowsFollow' /\ ReportsNumbered' /\ OneOrder'
      /\ \A x \in Orders \ {o} : order'[x] = order[x]
      /\ order'[o].status # "none"
  BY <1>1, <1>3, UpdatedFollows
<1>5. RowsOf(r, order') = {o} /\ TotalFilled(r, order') = order'[o].filled
  <2>1. order' \in [Orders -> OrderRow]
    BY DEF TypeInv, TypeOK
  <2> QED BY <1>1, <1>2, <1>4, <2>1, TotalIsFill
<1> DEFINE total == order'[o].filled
           all == order'[o].status = "filled"
<1>6. /\ \A s \in Requests \ {r} : request'[s] = request[s]
      /\ request'[r].old = request[r].old /\ r[1] \in Positions
      /\ \A q \in Positions \ {r[1]} : position'[q] = position[q]
      /\ \/ /\ order'[o].status \notin TerminalStates
            /\ request'[r].status = request[r].status
            /\ UNCHANGED position
         \/ /\ order'[o].status \in TerminalStates
            /\ request'[r].status = Outcome(all, total).request
            /\ position'[r[1]] = [status |-> Outcome(all, total).position,
                                  active |-> IF Outcome(all, total).request = "retryable"
                                               THEN position[r[1]].active ELSE None]
  <2>1. UpdateCloseRequest(r, order')
    BY <1>1, <1>2 DEF ApplyUpdate
  <2>2. /\ (\A x \in RowsOf(r, order') : order'[x].status \in TerminalStates)
           <=> order'[o].status \in TerminalStates
        /\ (\A x \in RowsOf(r, order') : order'[x].status = "filled") <=> all
    BY <1>5
  <2>3. \/ /\ order'[o].status \notin TerminalStates
           /\ request' = [request EXCEPT ![r].filled = total]
           /\ UNCHANGED position
        \/ /\ order'[o].status \in TerminalStates
           /\ request' = [request EXCEPT ![r].filled = total,
                                         ![r].status = Outcome(all, total).request]
           /\ position' = [position EXCEPT
                ![r[1]] = [status |-> Outcome(all, total).position,
                           active |-> IF Outcome(all, total).request = "retryable"
                                        THEN @.active ELSE None]]
    BY ZenonT(30), <1>5, <2>1, <2>2 DEF UpdateCloseRequest
  <2> HIDE DEF total, all
  <2> QED BY <2>3 DEF NormalInv, TypeInv, TypeOK, RequestRow, PositionRow, Requests
<1>7. UpdateOutcome(o, r)
  <2>1. CASE order'[o].status \notin TerminalStates
    BY <1>3, <1>6, <2>1 DEF UpdateOutcome, Terminal
  <2>2. CASE order'[o].status \in TerminalStates
    <3>1. position[r[1]].active = r
      BY <1>3, WorkedOnIsActive
    <3>2. total = live[o].filled /\ Terminal(o)' /\ live[o].filled \in Nat
      BY <1>3, <1>4, <2>2 DEF RowsFollow, Terminal, NormalInv, TypeInv, TypeOK, BrokerOrder
    <3> HIDE DEF total, all
    <3>3. CASE all /\ total = Quantity
      BY <1>6, <2>2, <3>2, <3>3 DEF Outcome, UpdateOutcome
    <3>4. CASE ~(all /\ total = Quantity) /\ total = 0
      BY <1>6, <2>2, <3>2, <3>4 DEF Outcome, UpdateOutcome
    <3>5. CASE ~(all /\ total = Quantity) /\ total # 0
      BY <1>6, <2>2, <3>1, <3>2, <3>5 DEF Outcome, UpdateOutcome
    <3> QED BY <3>3, <3>4, <3>5
  <2> QED BY <2>1, <2>2
<1> QED BY <1>2, <1>3, <1>4, <1>6, <1>7

LEMMA ApplyUpdateAgrees ==
  ASSUME NormalInv, Anomalies = {}, NEW m \in reports, TypeInv', ApplyUpdate(m)
  PROVE  AgreeInv'
<1>1. PICK o \in Orders, r \in Requests :
        /\ live[o].req = r /\ ~Terminal(o) /\ request[r].status = "submitted"
        /\ UNCHANGED <<event, live, reports, worker, zombies, batch>>
        /\ RowsFollow' /\ ReportsNumbered' /\ OneOrder'
        /\ \A x \in Orders \ {o} : order'[x] = order[x]
        /\ \A s \in Requests \ {r} : request'[s] = request[s]
        /\ request'[r].old = request[r].old
        /\ r[1] \in Positions /\ \A q \in Positions \ {r[1]} : position'[q] = position[q]
        /\ UpdateOutcome(o, r)
  BY ApplyUpdateDoes
<1>2. OrdersInStep' /\ WorkersInStep' /\ OneEvent'
  <2>1. /\ request'[r].status \in Settled \cup {"submitted"}
        /\ request'[r].status \in Settled => Terminal(o)'
        /\ request'[r].status = "failed" => live[o].filled = 0
    BY <1>1 DEF UpdateOutcome, Settled
  <2> QED BY <1>1, <2>1, UpdateStaysInStep
<1>3. CASE request'[r].status = "submitted"
  <2>1. UNCHANGED position /\ \A s \in Requests : request'[s].status = request[s].status
    BY <1>1, <1>3 DEF UpdateOutcome
  <2> QED BY <1>1, <1>2, <2>1, HoldersStill DEF AgreeInv, NormalInv
<1>4. CASE request'[r].status # "submitted"
  <2>1. OneHolder' /\ PositionsAgree'
    BY <1>1, <1>4, EndAgrees DEF UpdateOutcome
  <2> QED BY <1>1, <1>2, <2>1 DEF AgreeInv
<1> QED BY <1>3, <1>4

LEMMA ApplyQuantityAgrees ==
  ASSUME NormalInv, Anomalies = {}, NEW m \in reports, ApplyQuantity(m)
  PROVE  AgreeInv'
<1>1. PICK o \in Orders : o = m.order
  BY DEF NormalInv, TypeInv, TypeOK, Report
<1>2. PICK r \in Requests : r = live[o].req
  BY <1>1, OrdersKnown DEF NormalInv
<1>3. /\ ~Terminal(o) /\ order[o].status # "none" /\ request[r].status = "submitted"
      /\ Applicable(m) /\ order' = Updated(m, order[o].status)
      /\ UNCHANGED <<position, request, event, live, reports, worker, zombies, batch>>
  BY <1>1, <1>2, ApplicableMeans DEF ApplyQuantity, broker, jobs
<1>4. /\ RowsFollow' /\ ReportsNumbered' /\ OneOrder'
      /\ \A x \in Orders \ {o} : order'[x] = order[x]
  BY <1>1, <1>3, UpdatedFollows
<1>5. OrdersInStep' /\ WorkersInStep' /\ OneEvent'
  BY <1>2, <1>3, <1>4, UpdateStaysInStep DEF Settled
<1> QED BY <1>3, <1>4, <1>5, HoldersStill DEF AgreeInv, NormalInv

-----------------------------------------------------------------------------
(* The jobs find nothing to do here, but for the scans.                     *)

LEMMA JobsAgree ==
  ASSUME NormalInv, Anomalies = {},
         \/ \E r \in Requests : GrowOld(r)
         \/ ScanZombies \/ RollbackZombies
         \/ ScanStuck \/ \E missing \in SUBSET Orders : RecoverStuck(missing)
         \/ ScanRetryable \/ CommitRetries \/ RetriesRolledBack
         \/ CheckInvariants
         \/ \E cutoff \in 1 .. clock + 1 : Cleanup(cutoff)
  PROVE  /\ UNCHANGED <<position, event, order, live, reports, worker>>
         /\ zombies' = {}
         /\ \A r \in Requests : /\ request'[r].status = request[r].status
                                /\ request'[r].old => \/ request[r].old
                                                      \/ request[r].status \notin {"none", "pending"}
                                /\ batch'[r] > 0 => request[r].status # "none"
<1> DEFINE Nothing ==
             /\ UNCHANGED <<position, event, order, live, reports, worker>>
             /\ zombies' = {}
             /\ \A r \in Requests :
                  /\ request'[r].status = request[r].status
                  /\ request'[r].old => \/ request[r].old
                                        \/ request[r].status \notin {"none", "pending"}
                  /\ batch'[r] > 0 => request[r].status # "none"
<1>1. ASSUME NEW r \in Requests, GrowOld(r) PROVE Nothing
  BY <1>1 DEF GrowOld, broker, jobs, NormalInv, TypeInv, TypeOK, RequestRow, AgreeInv, OneEvent
<1>2. CASE ScanZombies
  BY <1>2 DEF ScanZombies, database, broker, NormalInv, AgreeInv, OneEvent
<1>3. CASE RollbackZombies
  BY <1>3 DEF RollbackZombies, NormalInv, AgreeInv, OneEvent
<1>4. CASE ScanStuck
  BY <1>4 DEF ScanStuck, database, broker, NormalInv, AgreeInv, OneEvent
<1>5. ASSUME NEW missing \in SUBSET Orders, RecoverStuck(missing) PROVE Nothing
  <2>1. missing = {}
    BY <1>5 DEF RecoverStuck
  <2>2. order' = order /\ request' = request /\ position' = position
    BY <1>5, <2>1 DEF RecoverStuck, NormalInv, TypeInv, TypeOK
  <2> QED BY <1>5, <2>2 DEF RecoverStuck, broker, NormalInv, AgreeInv, OneEvent
<1>6. CASE ScanRetryable
  <2>1. \A r \in Requests : batch'[r] > 0 => request[r].status # "none"
    BY <1>6, ConstantsAssumption DEF ScanRetryable, Remaining
  <2> QED BY <1>6, <2>1 DEF ScanRetryable, database, broker, NormalInv, AgreeInv, OneEvent
<1>7. CASE CommitRetries
  <2>1. PICK r \in Requests : batch[r] > 0 /\ event[r].status = "none"
    BY <1>7 DEF CommitRetries, InBatch
  <2> QED BY <2>1 DEF NormalInv, AgreeInv, OneEvent
<1>8. CASE RetriesRolledBack
  BY <1>8 DEF RetriesRolledBack, NoBatch, database, broker, NormalInv, AgreeInv, OneEvent
<1>9. CASE CheckInvariants
  <2>1. position' = position
    BY <1>9 DEF CheckInvariants, NormalInv, AgreeInv, PositionsAgree, AgreesAt, TypeInv, TypeOK
  <2> QED BY <1>9, <2>1 DEF CheckInvariants, broker, jobs, NormalInv, AgreeInv, OneEvent
<1>10. ~\E cutoff \in 1 .. clock + 1 : Cleanup(cutoff)
  BY DEF Cleanup
<1> QED BY <1>1, <1>2, <1>3, <1>4, <1>5, <1>6, <1>7, <1>8, <1>9, <1>10

LEMMA NextAgree ==
  ASSUME NormalInv, Anomalies = {}, TypeInv', [Next]_vars
  PROVE  AgreeInv'
<1>1. ASSUME NEW c \in Clients, (\E r \in Requests : CheckReplay(c, r)) \/ Refuse(c)
      PROVE  AgreeInv'
  <2>1. UNCHANGED <<database, broker, worker, jobs>>
    BY <1>1 DEF CheckReplay, Refuse
  <2> QED BY <2>1, AgreeKept DEF database, broker, jobs, NormalInv, AgreeInv, OneEvent
<1>2. ASSUME NEW c \in Clients, Accept(c) PROVE AgreeInv'
  BY <1>2, AcceptAgrees
<1>3. ASSUME NEW w \in Workers, WorkerStep(w) \/ Crash(w) PROVE AgreeInv'
  <2>1. ~Crash(w) /\ \A o \in Orders : ~SubmitAmbiguous(w, o)
    BY DEF Crash, SubmitAmbiguous
  <2>2. ~SkipProcessed(w)
    BY DEF SkipProcessed, NormalInv, AgreeInv, WorkersInStep
  <2> QED BY <1>3, <2>1, <2>2, ClaimAgrees, GotoAgrees, SubmitAgrees, CommitSubmittedAgrees,
             FailAgrees, RetryAgrees DEF WorkerStep
<1>4. ASSUME NEW o \in Orders, BrokerStep(o) PROVE AgreeInv'
  BY <1>4, BrokerAgrees
<1>5. ASSUME NEW m \in reports, OnOrderUpdate(m) PROVE AgreeInv'
  BY <1>5, ApplyUpdateAgrees, ApplyQuantityAgrees DEF OnOrderUpdate
<1>6. CASE \/ \E r \in Requests : GrowOld(r)
           \/ ScanZombies \/ RollbackZombies
           \/ ScanStuck \/ \E missing \in SUBSET Orders : RecoverStuck(missing)
           \/ ScanRetryable \/ CommitRetries \/ RetriesRolledBack
           \/ CheckInvariants
           \/ \E cutoff \in 1 .. clock + 1 : Cleanup(cutoff)
  <2>1. /\ UNCHANGED <<position, event, order, live, reports, worker>>
        /\ zombies' = {}
        /\ \A r \in Requests : /\ request'[r].status = request[r].status
                               /\ request'[r].old => \/ request[r].old
                                                     \/ request[r].status \notin {"none", "pending"}
                               /\ batch'[r] > 0 => request[r].status # "none"
    BY <1>6, JobsAgree
  <2> QED BY <2>1, AgreeKept DEF NormalInv
<1>7. CASE UNCHANGED vars
  BY <1>7, AgreeKept DEF vars, NormalInv, AgreeInv, OneEvent
<1> QED BY <1>1, <1>2, <1>3, <1>4, <1>5, <1>6, <1>7 DEF Next

LEMMA NormalHolds == ASSUME Anomalies = {} PROVE Spec => []NormalInv
<1>1. Init => NormalInv
  <2>1. Init => WorkInv
    BY DEF Init, WorkInv, WorkersHoldEvents, OneWorkerPerRequest, EventsHaveRequests, NoEvent
  <2> QED BY <2>1, InitTypeInv, InitFills, InitTotals, InitAgree DEF NormalInv
<1>2. NormalInv /\ [Next]_vars => NormalInv'
  <2> SUFFICES ASSUME NormalInv, [Next]_vars PROVE NormalInv'
    OBVIOUS
  <2>1. TypeInv' /\ WorkInv' /\ FillInv' /\ TotalsInv'
    BY NextType, NextWork, NextFills, NextTotals DEF NormalInv
  <2> QED BY <2>1, NextAgree DEF NormalInv
<1> QED BY <1>1, <1>2, PTL DEF Spec

\* Whatever updates are lost, repeated or reordered, and however calls, workers, updates
\* and jobs interleave: a position and its requests tell the same story, and a request
\* that is not settled is the active one of its position.
THEOREM PositionsAndRequestsAgree ==
  ASSUME Anomalies = {}
  PROVE  Spec => []StatusAgreement
<1>1. NormalInv => StatusAgreement
  <2> SUFFICES ASSUME NormalInv PROVE StatusAgreement
    OBVIOUS
  <2>1. \A r \in Requests : Unsettled(r) => position[r[1]].active = r
    BY DEF NormalInv, AgreeInv, OneHolder
  <2>2. \A p \in Positions : position[p].status \in PositionStatus
    BY DEF NormalInv, TypeInv, TypeOK, PositionRow
  <2> QED BY <2>1, <2>2
          DEF StatusAgreement, PositionStatus, NormalInv, AgreeInv, PositionsAgree, AgreesAt
<1> QED BY <1>1, NormalHolds, PTL

-----------------------------------------------------------------------------
(* Exposure.                                                                *)

Exposures == [o \in Orders |-> Exposure(o)]

LEMMA ExposureType ==
  ASSUME TypeInv, NEW o \in Orders
  PROVE  Exposure(o) \in 0 .. Quantity
  BY ConstantsAssumption DEF TypeInv, TypeOK, BrokerOrder, Exposure

LEMMA ExposureIsSum ==
  ASSUME NEW S \in SUBSET Orders
  PROVE  MapThenSumSet(Exposure, S) = Sum(Exposures, S)
<1> DEFINE Rows(g) ==
             [s \in SUBSET S |->
                IF s = {} THEN 0
                ELSE LET x == CHOOSE y \in s : TRUE IN Exposure(x) + g[s \ {x}]]
<1>1. MapThenSumSet(Exposure, S) = (CHOOSE g : g = Rows(g))[S]
  BY DEF MapThenSumSet, MapThenFoldSet
<1>2. \A g : Rows(g) = Unfold(Exposures, g, S)
  BY DEF Unfold, Exposures, Pick
<1>3. (CHOOSE g : g = Rows(g)) = Recursion(Exposures, S)
  <2> HIDE DEF Rows
  <2> QED BY Zenon, <1>2 DEF Recursion
<1> QED BY <1>1, <1>3, SumIsRecursion

\* Of the orders of a position all but one have ended without a fill.
LEMMA OneExposed ==
  ASSUME NormalInv, NEW p \in Positions,
         NEW o1 \in OrdersFor(p), NEW o2 \in OrdersFor(p), o1 # o2
  PROVE  Exposure(o1) = 0 \/ Exposure(o2) = 0
<1>1. PICK r \in Requests, s \in Requests :
        live[o1].req = r /\ live[o2].req = s /\ r[1] = p /\ s[1] = p
  BY DEF OrdersFor, Requests
<1>2. r # s
  BY <1>1, NoneAssumption DEF NormalInv, AgreeInv, OneOrder, OrdersFor
<1>3. ~Holds(r) \/ ~Holds(s)
  BY <1>1, <1>2 DEF NormalInv, AgreeInv, OneHolder
<1>4. ASSUME NEW o \in Orders, NEW t \in Requests, live[o].req = t, ~Holds(t)
      PROVE  Exposure(o) = 0
  <2>1. request[t].status = "failed"
    BY <1>4 DEF NormalInv, AgreeInv, OrdersInStep, Holds, TypeInv, TypeOK, RequestRow, RequestStatus
  <2>2. Terminal(o) /\ live[o].filled = 0
    BY <1>4, <2>1 DEF NormalInv, AgreeInv, OrdersInStep, Settled
  <2> QED BY <2>2 DEF NormalInv, AgreeInv, RowsFollow, Terminal, TerminalStates, Exposure, Working
<1> QED BY <1>1, <1>3, <1>4 DEF OrdersFor

\* The orders that a position has at the broker, executed and working, can never sell
\* more than it holds.
THEOREM NeverSoldTwice ==
  ASSUME Anomalies = {}
  PROVE  Spec => []NeverOversell
<1>1. NormalInv => NeverOversell
  <2> SUFFICES ASSUME NormalInv, NEW p \in Positions
               PROVE  MapThenSumSet(Exposure, OrdersFor(p)) <= Quantity
    BY DEF NeverOversell
  <2>1. MapThenSumSet(Exposure, OrdersFor(p)) = Sum(Exposures, OrdersFor(p))
    BY ExposureIsSum DEF OrdersFor
  <2> DEFINE S == OrdersFor(p)
  <2>2. S \in SUBSET Orders /\ \A o \in S : Exposures[o] \in 0 .. Quantity
    BY ExposureType DEF OrdersFor, Exposures, NormalInv
  <2>3. \A o1, o2 \in S : o1 # o2 => Exposures[o1] = 0 \/ Exposures[o2] = 0
    BY <2>2, OneExposed DEF Exposures
  <2> HIDE DEF S
  <2>4. IsFiniteSet(S)
    BY <2>2, OrdersFinite
  <2>5. CASE \A o \in S : Exposures[o] = 0
    BY <2>4, <2>5, SumZero, <2>1, ConstantsAssumption DEF S
  <2>6. CASE \E o \in S : Exposures[o] # 0
    <3>1. PICK o \in S : Exposures[o] # 0
      BY <2>6
    <3>2. Exposures[o] \in Int /\ Exposures[o] <= Quantity /\ \A x \in S \ {o} : Exposures[x] = 0
      BY <2>2, <2>3, <3>1
    <3>3. Sum(Exposures, S) = Exposures[o]
      BY <2>4, <3>2, SumOfOneAddend
    <3> QED BY <2>1, <3>2, <3>3 DEF S
  <2> QED BY <2>5, <2>6
<1> QED BY <1>1, NormalHolds, PTL

-----------------------------------------------------------------------------
(* The life cycle.                                                          *)

LEMMA ExecutedKept ==
  ASSUME UNCHANGED live
  PROVE  \A p \in Positions : Executed(p)' = Executed(p)
<1>1. Filled(live)' = Filled(live) /\ \A p : OrdersFor(p)' = OrdersFor(p)
  BY DEF Filled, OrdersFor
<1> QED BY <1>1, TotalsAreSums

\* One order at the broker changes, or is new there.
LEMMA ExecutedChanges ==
  ASSUME NormalInv, live' \in [Orders -> BrokerOrder], NEW o \in Orders,
         \A x \in Orders \ {o} : live'[x] = live[x],
         NEW r \in Requests, live'[o].req = r,
         live[o].req = r \/ (live[o].req = None /\ live[o].filled = 0)
  PROVE  \A p \in Positions :
           /\ Executed(p) \in Nat
           /\ Executed(p)' = IF p = r[1] THEN (Executed(p) - live[o].filled) + live'[o].filled
                                         ELSE Executed(p)
<1> DEFINE f == Filled(live)
           g == Filled(live)'
<1>1. /\ \A x \in Orders : f[x] \in Nat /\ g[x] \in Nat
      /\ \A x \in Orders \ {o} : g[x] = f[x]
      /\ f[o] = live[o].filled /\ g[o] = live'[o].filled
  BY DEF Filled, NormalInv, TypeInv, TypeOK, BrokerOrder
<1> TAKE p \in Positions
<1>2. PICK S \in SUBSET Orders, T \in SUBSET Orders : S = OrdersFor(p) /\ T = OrdersFor(p)'
  BY DEF OrdersFor
<1>3. Executed(p) = Sum(f, S) /\ Executed(p)' = Sum(g, T)
  BY <1>2, TotalsAreSums
<1>4. /\ p = r[1] => T = S \cup {o} /\ (o \notin S => f[o] = 0)
      /\ p # r[1] => T = S /\ o \notin S
  <2>1. {p} \X Keys \subseteq Requests /\ (r \in {p} \X Keys <=> p = r[1])
    BY DEF Requests
  <2>2. \A x \in Orders : x \in S <=> live[x].req \in {p} \X Keys
    BY <1>2 DEF OrdersFor
  <2>3. \A x \in Orders : x \in T <=> live'[x].req \in {p} \X Keys
    BY <1>2 DEF OrdersFor
  <2> HIDE DEF f, g
  <2>4. \A x \in Orders \ {o} : x \in T <=> x \in S
    BY <2>2, <2>3
  <2>5. o \in T <=> p = r[1]
    BY <2>1, <2>3
  <2>6. o \in S => p = r[1]
    BY <2>1, <2>2, NoneAssumption
  <2>7. o \notin S /\ p = r[1] => f[o] = 0
    BY <1>1, <2>1, <2>2
  <2> QED BY <2>4, <2>5, <2>6, <2>7
<1> HIDE DEF f, g
<1>5. /\ IsFiniteSet(S) /\ IsFiniteSet(T)
      /\ \A x \in S : f[x] \in Int /\ g[x] \in Int /\ f[x] \in Nat
      /\ \A x \in T : f[x] \in Int /\ g[x] \in Int
  BY <1>1, OrdersFinite
<1>6. Sum(f, S) \in Nat
  BY <1>5, SumNat
<1>7. CASE o \notin S
  <2>1. \A x \in S : f[x] = g[x]
    BY <1>1, <1>7
  <2>2. Sum(f, S) = Sum(g, S)
    BY <1>5, <2>1, SumAgree
  <2>3. CASE p = r[1]
    <3>1. o \in T /\ T \ {o} = S /\ f[o] = 0
      BY <1>4, <1>7, <2>3
    <3>2. Sum(g, T) = g[o] + Sum(g, T \ {o})
      BY <1>5, <3>1, SumRemove
    <3>3. Executed(p)' = g[o] + Sum(f, S)
      BY <1>3, <2>2, <3>1, <3>2
    <3>4. g[o] \in Nat /\ live[o].filled = 0 /\ live'[o].filled = g[o]
      BY <1>1, <3>1
    <3> QED BY <1>3, <1>6, <2>3, <3>3, <3>4
  <2>4. CASE p # r[1]
    BY <1>3, <1>4, <1>6, <2>2, <2>4
  <2> QED BY <2>3, <2>4
<1>8. CASE o \in S
  <2>1. p = r[1] /\ T = S
    BY <1>4, <1>8
  <2>2. \A y \in S : y # o => f[y] = g[y]
    BY <1>1
  <2>3. Sum(g, S) = (Sum(f, S) - f[o]) + g[o]
    BY <1>5, <1>8, <2>2, SumChange
  <2> QED BY <1>1, <1>3, <1>6, <2>1, <2>3
<1> QED BY <1>7, <1>8

\* What a position has executed is the fill of the order of the request that holds it.
LEMMA ExecutedIsFill ==
  ASSUME NormalInv, NEW p \in Positions, NEW r \in Requests, r[1] = p, Holds(r)
  PROVE  /\ \A o \in OrdersOf(r) : Executed(p) = live[o].filled
         /\ OrdersOf(r) = {} => Executed(p) = 0
<1>1. ASSUME NEW o \in OrdersFor(p), o \notin OrdersOf(r)
      PROVE  live[o].filled = 0
  <2>1. PICK s \in Requests : live[o].req = s /\ s[1] = p /\ s # r
    BY <1>1 DEF OrdersFor, OrdersOf, Requests
  <2>2. ~Holds(s)
    BY <2>1 DEF NormalInv, AgreeInv, OneHolder
  <2>3. request[s].status = "failed"
    BY <2>1, <2>2 DEF OrdersFor, NormalInv, AgreeInv, OrdersInStep, Holds, TypeInv, TypeOK,
                      RequestRow, RequestStatus
  <2> QED BY <2>1, <2>3 DEF OrdersFor, NormalInv, AgreeInv, OrdersInStep
<1> DEFINE S == OrdersFor(p)
           f == Filled(live)
<1>2. S \in SUBSET Orders /\ \A o \in S : f[o] = live[o].filled /\ f[o] \in Int
  BY DEF OrdersFor, Filled, NormalInv, TypeInv, TypeOK, BrokerOrder
<1>3. Executed(p) = Sum(f, S)
  BY TotalsAreSums
<1>4. OrdersOf(r) \in SUBSET S
  BY DEF OrdersOf, OrdersFor, Requests
<1>5. \A o1, o2 \in OrdersOf(r) : o1 = o2
  BY NoneAssumption DEF NormalInv, AgreeInv, OneOrder, OrdersOf
<1>6. \A o \in S : o \notin OrdersOf(r) => f[o] = 0
  BY <1>1, <1>2
<1> HIDE DEF S, f
<1>7. IsFiniteSet(S)
  BY <1>2, OrdersFinite
<1>8. ASSUME NEW o \in OrdersOf(r) PROVE Executed(p) = live[o].filled
  <2>1. o \in S /\ f[o] \in Int /\ \A y \in S \ {o} : f[y] = 0
    BY <1>2, <1>4, <1>5, <1>6
  <2>2. Sum(f, S) = f[o]
    BY <1>7, <2>1, SumOfOneAddend
  <2> QED BY <1>2, <1>3, <2>1, <2>2
<1>9. ASSUME OrdersOf(r) = {} PROVE Executed(p) = 0
  BY <1>3, <1>6, <1>7, <1>9, SumZero
<1> QED BY <1>8, <1>9

\* Seen from outside nothing happens.
LEMMA LifecycleStays ==
  ASSUME \A p \in Positions : position'[p].status = position[p].status /\ Executed(p)' = Executed(p)
  PROVE  UNCHANGED Lifecycle!vars
  BY DEF Lifecycle!vars

\* Seen from outside one position changes its status.
LEMMA LifecycleMoves ==
  ASSUME UNCHANGED live, NEW p \in Positions, NEW from, NEW to, position[p].status = from,
         position'[p].status = to, \A q \in Positions \ {p} : position'[q] = position[q]
  PROVE  Lifecycle!Move(p, from, to)
  BY ExecutedKept DEF Lifecycle!Move

LEMMA AcceptIsBegin ==
  ASSUME NormalInv, NEW c \in Clients, Accept(c)
  PROVE  Lifecycle!Next
<1>1. PICK r \in Requests : r = call[c].req
  BY DEF Accept, NormalInv, TypeInv, ActorsKnowRequest
<1>2. PICK p \in Positions : p = r[1]
  BY DEF Requests
<1>3. /\ position[p].status = "open" /\ position'[p].status = "closing"
      /\ \A q \in Positions \ {p} : position'[q] = position[q]
      /\ UNCHANGED live
  BY <1>1, <1>2 DEF Accept, broker, NormalInv, TypeInv, TypeOK
<1>4. Lifecycle!Begin(p)
  BY <1>3, LifecycleMoves DEF Lifecycle!Begin
<1> QED BY <1>4 DEF Lifecycle!Next

LEMMA FailIsGiveUp ==
  ASSUME NormalInv, NEW w \in Workers, CommitRejected(w) \/ GiveUp(w)
  PROVE  Lifecycle!Next
<1>1. PICK r \in Requests : r = worker[w].req
  BY DEF CommitRejected, GiveUp, NormalInv, TypeInv, ActorsKnowRequest
<1>2. PICK p \in Positions : p = r[1]
  BY DEF Requests
<1>3. /\ position'[p].status = "close_failed" /\ UNCHANGED live
      /\ \A q \in Positions \ {p} : position'[q] = position[q]
      /\ worker[w].pc \in {"rejected", "raised"}
  BY <1>1, <1>2 DEF CommitRejected, GiveUp, Fail, broker, NormalInv, TypeInv, TypeOK
<1>4. request[r].status = "pending" /\ Holds(r)
  BY <1>1, <1>3 DEF NormalInv, AgreeInv, WorkersInStep, Holds
<1>5. position[p].status = "closing"
  BY <1>2, <1>4, WorkedOnIsActive
<1>6. Executed(p) = 0
  <2>1. \A o \in OrdersOf(r) : live[o].filled = 0
    BY <1>1, <1>3, NothingSubmitted DEF NormalInv, AgreeInv, WorkersInStep
  <2>2. /\ \A o \in OrdersOf(r) : Executed(p) = live[o].filled
        /\ OrdersOf(r) = {} => Executed(p) = 0
    BY <1>2, <1>4, ExecutedIsFill
  <2> QED BY <2>1, <2>2
<1>7. Lifecycle!GiveUp(p)
  BY <1>3, <1>5, <1>6, LifecycleMoves, ConstantsAssumption DEF Lifecycle!GiveUp
<1> QED BY <1>7 DEF Lifecycle!Next

LEMMA SubmitIsInternal ==
  ASSUME NormalInv, TypeInv', NEW w \in Workers, NEW o \in Orders,
         SubmitAccepted(w, o) \/ SubmitRejected(w, o)
  PROVE  UNCHANGED Lifecycle!vars
<1>1. PICK r \in Requests : r = worker[w].req
  BY DEF SubmitAccepted, SubmitRejected, NormalInv, TypeInv, ActorsKnowRequest
<1>2. /\ live[o].status = "none" /\ live'[o].req = r /\ live'[o].filled = 0
      /\ \A x \in Orders \ {o} : live'[x] = live[x]
      /\ UNCHANGED position
  BY <1>1 DEF SubmitAccepted, SubmitRejected, NextOrder, Place, NormalInv, TypeInv, TypeOK
<1>3. live[o].req = None /\ live[o].filled = 0 /\ live' \in [Orders -> BrokerOrder]
  BY <1>2 DEF NormalInv, TotalsInv, UnusedHasNone, FillInv, LiveSound, TypeInv, TypeOK
<1>4. \A p \in Positions :
        /\ Executed(p) \in Nat
        /\ Executed(p)' = IF p = r[1] THEN (Executed(p) - live[o].filled) + live'[o].filled
                                      ELSE Executed(p)
  BY <1>2, <1>3, ExecutedChanges
<1> QED BY <1>2, <1>3, <1>4, LifecycleStays

LEMMA BrokerExecutes ==
  ASSUME NormalInv, TypeInv', Anomalies = {}, NEW o \in Orders, BrokerStep(o)
  PROVE  Lifecycle!Next \/ UNCHANGED Lifecycle!vars
<1>1. PICK filled : /\ Working(o) /\ live'[o].filled = filled /\ live'[o].req = live[o].req
                    /\ \/ filled = live[o].filled + 1 /\ live[o].filled < live[o].qty
                       \/ filled = live[o].filled
                    /\ \A x \in Orders \ {o} : live'[x] = live[x]
                    /\ UNCHANGED position
  BY DEF BrokerStep, BrokerFill, BrokerEnd, BrokerLateFill, Change, database,
         NormalInv, TypeInv, TypeOK, BrokerOrder
<1>2. PICK r \in Requests : live[o].req = r
  BY <1>1, OrdersKnown DEF NormalInv, Working
<1>3. PICK p \in Positions : p = r[1]
  BY DEF Requests
<1>4. live' \in [Orders -> BrokerOrder] /\ live[o].filled \in Nat /\ live[o].qty \in 0 .. Quantity
  BY DEF NormalInv, TypeInv, TypeOK, BrokerOrder
<1>5. \A q \in Positions :
        /\ Executed(q) \in Nat
        /\ Executed(q)' = IF q = p THEN (Executed(q) - live[o].filled) + filled ELSE Executed(q)
  BY <1>1, <1>2, <1>3, <1>4, ExecutedChanges
<1>6. CASE filled = live[o].filled
  BY <1>1, <1>4, <1>5, <1>6, LifecycleStays
<1>7. CASE filled = live[o].filled + 1 /\ live[o].filled < live[o].qty
  <2>1. request[r].status \in {"pending", "submitted"} /\ Holds(r)
    <3>1. ~Terminal(o)
      BY <1>1 DEF NormalInv, AgreeInv, RowsFollow, Working, Terminal, TerminalStates
    <3>2. request[r].status # "none" /\ request[r].status \notin Settled
      BY <1>2, <3>1 DEF NormalInv, AgreeInv, OrdersInStep
    <3> QED BY <3>2 DEF Holds, Settled, NormalInv, TypeInv, TypeOK, RequestRow, RequestStatus
  <2>2. position[p].status = "closing"
    BY <1>3, <2>1, WorkedOnIsActive
  <2>3. Executed(p) = live[o].filled
    BY <1>2, <1>3, <2>1, ExecutedIsFill DEF OrdersOf
  <2>4. Executed(p) < Quantity /\ Executed(p)' = Executed(p) + 1
    BY <1>4, <1>5, <1>7, <2>3, ConstantsAssumption
  <2>5. \A q \in Positions \ {p} : Executed(q)' = Executed(q)
    BY <1>5
  <2>6. Lifecycle!Execute(p)
    BY <1>1, <2>2, <2>4, <2>5 DEF Lifecycle!Execute
  <2> QED BY <2>6 DEF Lifecycle!Next
<1> QED BY <1>1, <1>6, <1>7

LEMMA UpdateEndsClose ==
  ASSUME NormalInv, TypeInv', Anomalies = {}, NEW m \in reports, ApplyUpdate(m)
  PROVE  Lifecycle!Next \/ UNCHANGED Lifecycle!vars
<1>1. PICK o \in Orders, r \in Requests :
        /\ live[o].req = r /\ ~Terminal(o) /\ request[r].status = "submitted"
        /\ UNCHANGED live
        /\ r[1] \in Positions /\ \A q \in Positions \ {r[1]} : position'[q] = position[q]
        /\ UpdateOutcome(o, r)
  BY ApplyUpdateDoes
<1>2. PICK p \in Positions : p = r[1]
  BY <1>1
<1>3. position[p].status = "closing" /\ Holds(r)
  BY <1>1, <1>2, WorkedOnIsActive DEF Holds
<1>4. Executed(p) = live[o].filled
  BY <1>1, <1>2, <1>3, ExecutedIsFill DEF OrdersOf
<1>5. CASE position'[p].status = "open" /\ live[o].filled = 0
  <2>1. Lifecycle!Rollback(p)
    BY <1>1, <1>2, <1>3, <1>4, <1>5, LifecycleMoves DEF Lifecycle!Rollback
  <2> QED BY <2>1 DEF Lifecycle!Next
<1>6. CASE position'[p].status = "closed" /\ live[o].filled = Quantity
  <2>1. Lifecycle!Complete(p)
    BY <1>1, <1>2, <1>3, <1>4, <1>6, LifecycleMoves DEF Lifecycle!Complete
  <2> QED BY <2>1 DEF Lifecycle!Next
<1>7. CASE position'[p].status = "close_retryable" /\ live[o].filled > 0
  <2>1. Lifecycle!Interrupt(p)
    BY <1>1, <1>2, <1>3, <1>4, <1>7, LifecycleMoves DEF Lifecycle!Interrupt
  <2> QED BY <2>1 DEF Lifecycle!Next
<1>8. CASE UNCHANGED position
  BY <1>1, <1>8, ExecutedKept, LifecycleStays
<1> QED BY <1>1, <1>2, <1>5, <1>6, <1>7, <1>8 DEF UpdateOutcome

LEMMA InitLifecycle == Init => Lifecycle!Init
<1> SUFFICES ASSUME Init PROVE Lifecycle!Init
  OBVIOUS
<1>1. ASSUME NEW p \in Positions PROVE Executed(p) = 0
  <2>1. {p} \X Keys \subseteq Requests
    BY DEF Requests
  <2>2. OrdersFor(p) = {}
    BY <2>1, NoneAssumption DEF Init, OrdersFor
  <2> QED BY <2>2, TotalsAreSums, SumEmpty
<1> QED BY <1>1 DEF Init, Lifecycle!Init

LEMMA NextLifecycle ==
  ASSUME NormalInv, TypeInv', Anomalies = {}, [Next]_vars
  PROVE  Lifecycle!Next \/ UNCHANGED Lifecycle!vars
<1>s. ASSUME UNCHANGED <<position, live>> PROVE UNCHANGED Lifecycle!vars
  BY <1>s, ExecutedKept, LifecycleStays
<1>1. ASSUME NEW c \in Clients, (\E r \in Requests : CheckReplay(c, r)) \/ Refuse(c)
      PROVE  UNCHANGED Lifecycle!vars
  BY <1>1, <1>s DEF CheckReplay, Refuse, database, broker
<1>2. ASSUME NEW c \in Clients, Accept(c) PROVE Lifecycle!Next
  BY <1>2, AcceptIsBegin
<1>3. ASSUME NEW w \in Workers, WorkerStep(w) \/ Crash(w)
      PROVE  Lifecycle!Next \/ UNCHANGED Lifecycle!vars
  <2>1. ~Crash(w) /\ \A o \in Orders : ~SubmitAmbiguous(w, o)
    BY DEF Crash, SubmitAmbiguous
  <2>2. CASE \/ \E r \in Requests : Claim(w, r)
             \/ SkipProcessed(w) \/ ReadRequest(w) \/ RaiseBeforeSubmit(w)
             \/ CommitSubmitted(w) \/ RetryEvent(w)
    <3>1. UNCHANGED <<position, live>>
      BY <2>2 DEF Claim, SkipProcessed, ReadRequest, RaiseBeforeSubmit, CommitSubmitted,
                  RetryEvent, database, broker
    <3> QED BY <3>1, <1>s
  <2> QED BY <1>3, <2>1, <2>2, SubmitIsInternal, FailIsGiveUp DEF WorkerStep
<1>4. ASSUME NEW o \in Orders, BrokerStep(o)
      PROVE  Lifecycle!Next \/ UNCHANGED Lifecycle!vars
  BY <1>4, BrokerExecutes
<1>5. ASSUME NEW m \in reports, OnOrderUpdate(m)
      PROVE  Lifecycle!Next \/ UNCHANGED Lifecycle!vars
  <2>1. CASE ApplyUpdate(m)
    BY <2>1, UpdateEndsClose
  <2>2. CASE ApplyQuantity(m)
    BY <2>2, <1>s DEF ApplyQuantity, broker
  <2> QED BY <1>5, <2>1, <2>2 DEF OnOrderUpdate
<1>6. CASE \/ \E r \in Requests : GrowOld(r)
           \/ ScanZombies \/ RollbackZombies
           \/ ScanStuck \/ \E missing \in SUBSET Orders : RecoverStuck(missing)
           \/ ScanRetryable \/ CommitRetries \/ RetriesRolledBack
           \/ CheckInvariants
           \/ \E cutoff \in 1 .. clock + 1 : Cleanup(cutoff)
  <2>1. UNCHANGED <<position, live>>
    BY <1>6, JobsAgree
  <2> QED BY <2>1, <1>s
<1>7. CASE UNCHANGED vars
  BY <1>7, <1>s DEF vars
<1> QED BY <1>1, <1>2, <1>3, <1>4, <1>5, <1>6, <1>7 DEF Next

\* Seen from outside, closing a position follows its life cycle: a status never says
\* that more was executed than was, nor that nothing was where something was.
THEOREM CloseFollowsLifecycle ==
  ASSUME Anomalies = {}
  PROVE  Spec => ImplementsLifecycle
<1>1. NormalInv /\ NormalInv' /\ [Next]_vars => [Lifecycle!Next]_Lifecycle!vars
  BY NextLifecycle DEF NormalInv
<1> QED BY <1>1, InitLifecycle, NormalHolds, PTL DEF Spec, ImplementsLifecycle, Lifecycle!Spec
=============================================================================
