------------------------------- MODULE Orders -------------------------------
(***************************************************************************)
(* From an approved signal to the position: OrderManager takes signals one *)
(* at a time, submits orders through LiveBroker and handles fills, and     *)
(* PortfolioManager books them on one position (account, symbol and        *)
(* strategy).                                                              *)
(*                                                                         *)
(* A handler is split where it awaits the database, Redis or the broker;   *)
(* what it has read by then is kept in its own variable.  There is no lock *)
(* and no transaction around a handler.                                    *)
(*                                                                         *)
(* What the environment may do beyond the ordinary is named in Anomalies:  *)
(*   overlap    a fill arrives while another is handled, or while the      *)
(*              outcome of its order's submission is being saved           *)
(*   early      a fill arrives before submit_order has returned            *)
(*   ambiguous  submit_order raises although the broker took the order     *)
(*   failure    a call of the database or of Redis raises                  *)
(*   crash      the process stops and starts again                         *)
(* Fills may be lost, repeated and reordered in every environment.         *)
(*                                                                         *)
(* A definition marked "faulty" is the next one with a plausible bug in    *)
(* it; no action uses it.  It shows that a property can fail.              *)
(***************************************************************************)
EXTENDS Integers, Sequences, FiniteSets, FiniteSetsExt

CONSTANTS
  Orders,       \* ids of the orders, one for each signal in approved_signals
  Sells,        \* those of them that sell
  Quantity,     \* quantity of an order, the same for all
  MaxOpen,      \* RiskLimits.max_open_orders
  Anomalies,    \* what the environment may do, see above
  None          \* Python's None

AnomalyNames == {"overlap", "early", "ambiguous", "failure", "crash"}

ASSUME QuantityAssumption == Quantity \in Nat \ {0}
ASSUME SellsAssumption == Sells \subseteq Orders
ASSUME MaxOpenAssumption == MaxOpen \in Nat
ASSUME AnomaliesAssumption == Anomalies \subseteq AnomalyNames
ASSUME NoneAssumption == None \notin Orders /\ None \notin Int

\* Fill ids: an order is executed in at most Quantity fills.
Fills == Orders \X (1 .. Quantity)

VARIABLES
  live,        \* the broker's status of each order
  trade,       \* quantity of each fill the broker has made, 0 before
  openCount,   \* LiveBroker._open_order_count
  order,       \* the Order objects of OrderManager
  mapped,      \* orders in _broker_id_map (which are in _active_orders, too)
  processed,   \* _processed_fills
  consumer,    \* the loop that consumes signals, inside process_signal
  handler,     \* the coroutine that handles each fill
  row,         \* table orders
  position,    \* the rows of the position in table positions
  booked,      \* number of transactions recorded for each fill
  taken,       \* signals popped from Redis
  written      \* history: fills the position has been updated for

vars == <<live, trade, openCount, order, mapped, processed, consumer, handler,
          row, position, booked, taken, written>>

broker == <<live, trade>>
memory == <<openCount, order, mapped, processed, consumer>>
ledger == <<position, booked, written>>

Status   == {"none", "pending", "submitted", "partial", "filled", "rejected"}
Terminal == {"filled", "rejected"}

\* How far a status is along its life.
Progress(status) == CASE status = "none"      -> 0
                      [] status = "pending"   -> 1
                      [] status = "submitted" -> 2
                      [] status = "partial"   -> 3
                      [] OTHER                -> 4

OrderRec == [status : Status, filled : Nat]
Handler  == [pc : {"idle", "read", "write", "book", "publish", "persist"},
             old : Int \cup {None}, saved : OrderRec]
Consumer == [pc : {"idle", "new", "submit", "waiting", "save"},
             order : Orders \cup {None}, saved : OrderRec]

NoOrder == [status |-> "none", filled |-> 0]
Idle    == [pc |-> "idle", old |-> None, saved |-> NoOrder]
Resting == [pc |-> "idle", order |-> None, saved |-> NoOrder]

TypeOK ==
  /\ live \in [Orders -> {"none", "working", "done"}]
  /\ trade \in [Fills -> 0 .. Quantity]
  /\ openCount \in Nat
  /\ order \in [Orders -> OrderRec]
  /\ mapped \subseteq Orders
  /\ processed \subseteq Fills
  /\ consumer \in Consumer
  /\ handler \in [Fills -> Handler]
  /\ row \in [Orders -> OrderRec]
  /\ position \in Seq(Int)
  /\ booked \in [Fills -> Nat]
  /\ taken \subseteq Orders
  /\ written \subseteq Fills

Init ==
  /\ live = [o \in Orders |-> "none"]
  /\ trade = [f \in Fills |-> 0]
  /\ openCount = 0
  /\ order = [o \in Orders |-> NoOrder]
  /\ mapped = {} /\ processed = {} /\ taken = {} /\ written = {}
  /\ consumer = Resting
  /\ handler = [f \in Fills |-> Idle]
  /\ row = [o \in Orders |-> NoOrder]
  /\ position = <<>>
  /\ booked = [f \in Fills |-> 0]

-----------------------------------------------------------------------------
(* process_signal.                                                         *)

ConsumerAt(pc) == consumer.pc = pc
ConsumerGoes(pc) == consumer' = [consumer EXCEPT !.pc = pc]

\* The arguments of update_order are evaluated before its first await.
ConsumerSaves(rec) == consumer' = [consumer EXCEPT !.pc = "save", !.saved = rec]

TakeSignal(o) ==
  /\ ConsumerAt("idle") /\ o \notin taken
  /\ taken' = taken \cup {o}
  /\ order' = [order EXCEPT ![o] = [status |-> "pending", filled |-> 0]]
  /\ consumer' = [consumer EXCEPT !.pc = "new", !.order = o]
  /\ UNCHANGED <<broker, openCount, mapped, processed, handler, row, ledger>>

\* _persist_order logs what goes wrong and goes on.
SaveNew(o) ==
  /\ ConsumerAt("new") /\ consumer.order = o
  /\ \/ row' = [row EXCEPT ![o] = order[o]]
     \/ "failure" \in Anomalies /\ UNCHANGED row
  /\ ConsumerGoes("submit")
  /\ UNCHANGED <<broker, openCount, order, mapped, processed, handler, ledger, taken>>

Rejected(o) == [order[o] EXCEPT !.status = "rejected"]

\* validate_order refuses, or the broker does: a BrokerError either way.
Reject(o) ==
  /\ ConsumerAt("submit") /\ consumer.order = o
  /\ order' = [order EXCEPT ![o] = Rejected(o)]
  /\ ConsumerSaves(Rejected(o))
  /\ UNCHANGED <<broker, openCount, mapped, processed, handler, row, ledger, taken>>

Accepts(o) ==
  /\ ConsumerAt("submit") /\ consumer.order = o
  /\ openCount < MaxOpen
  /\ live' = [live EXCEPT ![o] = "working"]

\* Faulty: the broker's id is registered before the outcome is.
AcceptRegistering(o) ==
  /\ Accepts(o)
  /\ mapped' = mapped \cup {o}
  /\ ConsumerGoes("waiting")
  /\ UNCHANGED <<trade, openCount, order, processed, handler, row, ledger, taken>>

Accept(o) ==
  /\ Accepts(o)
  /\ ConsumerGoes("waiting")
  /\ UNCHANGED <<trade, openCount, order, mapped, processed, handler, row, ledger, taken>>

\* The adapters turn whatever goes wrong into a BrokerError.
AcceptAndRaise(o) ==
  /\ "ambiguous" \in Anomalies
  /\ Accepts(o)
  /\ order' = [order EXCEPT ![o] = Rejected(o)]
  /\ ConsumerSaves(Rejected(o))
  /\ UNCHANGED <<trade, openCount, mapped, processed, handler, row, ledger, taken>>

\* submit_order returns, through LiveBroker, which counts the order now.
Submitted(o) ==
  /\ ConsumerAt("waiting") /\ consumer.order = o
  /\ openCount' = openCount + 1
  /\ order' = [order EXCEPT ![o].status = "submitted"]
  /\ mapped' = mapped \cup {o}
  /\ ConsumerSaves(order'[o])
  /\ UNCHANGED <<broker, processed, handler, row, ledger, taken>>

\* update_order changes nothing when there is no row.
Update(o, rec) ==
  row' = IF row[o].status = "none" THEN row ELSE [row EXCEPT ![o] = rec]

SaveOutcome(o) ==
  /\ ConsumerAt("save") /\ consumer.order = o
  /\ \/ Update(o, consumer.saved)
     \/ "failure" \in Anomalies /\ UNCHANGED row
  /\ consumer' = Resting
  /\ UNCHANGED <<broker, openCount, order, mapped, processed, handler, ledger, taken>>

-----------------------------------------------------------------------------
(* handle_fill and record_fill.                                            *)

Busy == \E f \in Fills : handler[f].pc # "idle"

\* Whether a fill can arrive now, in the given environment.
CanArrive(o) ==
  /\ "early" \in Anomalies \/ ~(ConsumerAt("waiting") /\ consumer.order = o)
  /\ "overlap" \in Anomalies \/ ~(Busy \/ (ConsumerAt("save") /\ consumer.order = o))

Known(f) == f \notin processed /\ f[1] \in mapped

After(f) ==
  LET total == order[f[1]].filled + trade[f] IN
  [status |-> IF total >= Quantity THEN "filled" ELSE "partial", filled |-> total]

HandlerGoes(f, pc) == handler' = [handler EXCEPT ![f].pc = pc]

\* Faulty: the count goes below zero.
CountDownBelow == openCount' = openCount - 1

\* LiveBroker's callback counts every fill as the end of an order.
CountDown == openCount' = IF openCount > 0 THEN openCount - 1 ELSE 0

Handle(f) ==
  /\ order' = [order EXCEPT ![f[1]] = After(f)]
  /\ HandlerGoes(f, "read")

\* Faulty: the fill is not marked as processed.
ArriveUnmarked(f) ==
  /\ trade[f] > 0 /\ CanArrive(f[1]) /\ CountDown
  /\ handler[f].pc = "idle"
  /\ IF Known(f) THEN Handle(f) ELSE UNCHANGED <<order, handler>>
  /\ UNCHANGED <<broker, mapped, processed, consumer, row, ledger, taken>>

\* The fill is marked as processed whether or not its order is known.
Arrive(f) ==
  /\ trade[f] > 0 /\ CanArrive(f[1]) /\ CountDown
  /\ processed' = processed \cup {f}
  /\ IF Known(f) THEN Handle(f) ELSE UNCHANGED <<order, handler>>
  /\ UNCHANGED <<broker, mapped, consumer, row, ledger, taken>>

\* scalar_one_or_none: None, the row, or MultipleResultsFound.
ReadPosition(f) ==
  /\ handler[f].pc = "read"
  /\ handler' = [handler EXCEPT ![f] =
       CASE Len(position) = 0 -> [@ EXCEPT !.pc = "write", !.old = None]
         [] Len(position) = 1 -> [@ EXCEPT !.pc = "write", !.old = position[1]]
         [] OTHER             -> Idle]
  /\ UNCHANGED <<broker, memory, row, ledger, taken>>

Signed(f) == IF f[1] \in Sells THEN -trade[f] ELSE trade[f]

NewQuantity(f) == handler[f].old + Signed(f)

Written(f) ==
  /\ written' = written \cup {f}
  /\ HandlerGoes(f, "book")
  /\ UNCHANGED <<broker, memory, row, booked, taken>>

\* There was no position when it was read.
CreatePosition(f) ==
  /\ handler[f].pc = "write" /\ handler[f].old = None
  /\ position' = Append(position, Signed(f))
  /\ Written(f)

\* Faulty: what a sale goes beyond the position is dropped.
ClosesOrFlips(f) == NewQuantity(f) = 0 \/ (handler[f].old > 0 /\ NewQuantity(f) < 0)

Closes(f) == NewQuantity(f) = 0

\* A closed position is deleted.
DeletePosition(f) ==
  /\ handler[f].pc = "write" /\ handler[f].old # None /\ Closes(f)
  /\ position' = <<>>
  /\ Written(f)

\* update_position overwrites the row, if there is one, with what was computed
\* from the quantity read; it raises if it finds two.
UpdatePosition(f) ==
  /\ handler[f].pc = "write" /\ handler[f].old # None /\ ~Closes(f)
  /\ IF Len(position) <= 1
     THEN /\ position' = [i \in DOMAIN position |-> NewQuantity(f)]
          /\ Written(f)
     ELSE /\ handler' = [handler EXCEPT ![f] = Idle]
          /\ UNCHANGED <<broker, memory, row, ledger, taken>>

RecordTransaction(f) ==
  /\ handler[f].pc = "book"
  /\ booked' = [booked EXCEPT ![f] = @ + 1]
  /\ HandlerGoes(f, "publish")
  /\ UNCHANGED <<broker, memory, row, position, written, taken>>

PublishFill(f) ==
  /\ handler[f].pc = "publish"
  /\ handler' = [handler EXCEPT ![f].pc = "persist", ![f].saved = order[f[1]]]
  /\ UNCHANGED <<broker, memory, row, ledger, taken>>

\* handle_fill does not catch what these raise: the rest of it is not done.
HandlerRaises(f) ==
  /\ "failure" \in Anomalies
  /\ handler[f].pc \in {"read", "write", "book", "publish"}
  /\ handler' = [handler EXCEPT ![f] = Idle]
  /\ UNCHANGED <<broker, memory, row, ledger, taken>>

\* The order is forgotten when it is filled (a second time raises, at the end).
PersistFill(f) ==
  LET o == f[1] IN
  /\ handler[f].pc = "persist"
  /\ \/ Update(o, handler[f].saved)
     \/ "failure" \in Anomalies /\ UNCHANGED row
  /\ mapped' = IF order[o].status = "filled" THEN mapped \ {o} ELSE mapped
  /\ handler' = [handler EXCEPT ![f] = Idle]
  /\ UNCHANGED <<broker, openCount, order, processed, consumer, ledger, taken>>

-----------------------------------------------------------------------------
(* The broker and the process.                                             *)

Traded(o) == MapThenSumSet(LAMBDA n : trade[<<o, n>>], 1 .. Quantity)

BrokerFill(o) ==
  /\ live[o] = "working"
  /\ \E n, q \in 1 .. Quantity :
       /\ Traded(o) + q <= Quantity
       /\ \A m \in 1 .. Quantity : trade[<<o, m>>] = 0 <=> m >= n
       /\ trade' = [trade EXCEPT ![<<o, n>>] = q]
       /\ live' = [live EXCEPT ![o] = IF Traded(o) + q = Quantity THEN "done" ELSE "working"]
  /\ UNCHANGED <<memory, handler, row, ledger, taken>>

\* Cancelled or expired at the broker; OrderManager is not told.
BrokerEnd(o) ==
  /\ live[o] = "working"
  /\ live' = [live EXCEPT ![o] = "done"]
  /\ UNCHANGED <<trade, memory, handler, row, ledger, taken>>

\* The new OrderManager starts with nothing; start() recovers nothing.
Restart ==
  /\ "crash" \in Anomalies
  /\ openCount' = 0
  /\ order' = [o \in Orders |-> NoOrder]
  /\ mapped' = {} /\ processed' = {}
  /\ consumer' = Resting
  /\ handler' = [f \in Fills |-> Idle]
  /\ UNCHANGED <<broker, row, ledger, taken>>

ProcessSignal(o) ==
  \/ TakeSignal(o) \/ SaveNew(o) \/ Reject(o) \/ Accept(o) \/ AcceptAndRaise(o)
  \/ Submitted(o) \/ SaveOutcome(o)

HandleFill(f) ==
  \/ Arrive(f) \/ ReadPosition(f)
  \/ CreatePosition(f) \/ DeletePosition(f) \/ UpdatePosition(f)
  \/ RecordTransaction(f) \/ PublishFill(f) \/ HandlerRaises(f) \/ PersistFill(f)

Next ==
  \/ \E o \in Orders : ProcessSignal(o) \/ BrokerFill(o) \/ BrokerEnd(o)
  \/ \E f \in Fills : HandleFill(f)
  \/ Restart

Spec == Init /\ [][Next]_vars

-----------------------------------------------------------------------------
(* Properties.                                                             *)

\* What get_position shows of the position: its row, nothing when there is none.
Held == IF position = <<>> THEN 0 ELSE position[1]

\* No fill is recorded as two transactions, nor without an update of the position,
\* however often it is delivered, whatever fails and whenever the process restarts
\* (_processed_fills, the idempotency check of handle_fill).
BookedOnce ==
  \A f \in Fills : booked[f] <= 1 /\ (booked[f] = 1 => f \in written)

\* An order, in memory or in its row, shows no more than the broker has executed, and
\* is FILLED only when that is all of it.
FillsSound ==
  \A o \in Orders : \A rec \in {order[o], row[o]} :
    rec.filled <= Traded(o) /\ (rec.status = "filled" => Traded(o) = Quantity)

BookOfFills == INSTANCE Ledger WITH
  amount  <- [f \in Fills |-> Signed(f)],
  applied <- written,
  held    <- Held

\* The position counts each fill at most once, with its quantity and sign, and nothing
\* else, also across failures and restarts, as long as handlers do not overlap.
ImplementsLedger == BookOfFills!Spec

\* The row of an order only goes forward through the states of the design, FILLED is
\* final and no recorded fill is taken back, as long as handlers do not overlap.
RowsGoForward ==
  [][\A o \in Orders : /\ Progress(row'[o].status) >= Progress(row[o].status)
                       /\ row'[o].filled >= row[o].filled
                       /\ row[o].status \in Terminal => row'[o] = row[o]]_vars

-----------------------------------------------------------------------------
(* What comments and documents say and the code does not do.               *)

\* record_fill: "If exists, updates quantity": the position is the sum of the fills
\* recorded on it.  Two handlers that have both read it lose the fill of one.
PositionIsSumOfFills ==
  MapThenSumSet(LAMBDA i : position[i], DOMAIN position) = MapThenSumSet(Signed, written)

\* RiskLimits: "Maximum concurrent open orders".  Every fill lowers the count by one
\* order, a partial one and a repeated one as well.
OpenOrdersWithinLimit == Cardinality({o \in Orders : live[o] = "working"}) <= MaxOpen

\* "Persist PENDING before submit: no signal loss on crash": a signal that was popped
\* is being processed or has a row.
NoSignalLost ==
  \A o \in taken : row[o].status # "none" \/ consumer.order = o

\* REJECTED is a terminal state: the broker does not have the order.
RejectedIsNotWorking == \A o \in Orders : row[o].status = "rejected" => live[o] # "working"

\* Neither the manager's records nor its rows run ahead of the broker, and no fill
\* is booked twice, whatever is lost, repeated, late or interrupted by a crash
\* (manager.py:96-195).
OrdersSound == TypeOK /\ BookedOnce /\ FillsSound
=============================================================================
