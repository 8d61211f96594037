---------------------------- MODULE OrdersProofs ----------------------------
(***************************************************************************)
(* The invariants of Orders, for every set of orders, every quantity and   *)
(* every limit of open orders; then those of Alerts and of the checks of   *)
(* expiring options that use it, for every set of keys, emitters, checkers *)
(* and workers, every queue size and number of retries, with every         *)
(* interleaving of emitters, workers, failing sessions, crashing checkers  *)
(* and days that pass.                                                     *)
(***************************************************************************)
EXTENDS Orders, Expiration, SumLemmas, SequenceTheorems

-----------------------------------------------------------------------------
(* Type correctness.                                                       *)

LEMMA OrderParts == \A f \in Fills : f[1] \in Orders
  BY DEF Fills

LEMMA RestingTypes ==
  /\ NoOrder \in OrderRec
  /\ Idle \in Handler
  /\ Resting \in Consumer
  BY DEF NoOrder, Idle, Resting, OrderRec, Handler, Consumer, Status

\* A position row that is overwritten stays one row.
LEMMA Overwritten ==
  ASSUME NEW s \in Seq(Int), NEW q \in Int
  PROVE  /\ [i \in DOMAIN s |-> q] \in Seq(Int)
         /\ Len([i \in DOMAIN s |-> q]) = Len(s)
<1> DEFINE t == [i \in DOMAIN s |-> q]
<1>1. Len(s) \in Nat /\ DOMAIN s = 1 .. Len(s)
  OBVIOUS
<1>2. t \in [1 .. Len(s) -> Int]
  BY <1>1
<1>3. t \in Seq(Int)
  BY <1>1, <1>2, SeqDef
<1>4. Len(t) = Len(s)
  BY <1>1, <1>3, LenProperties
<1> QED BY <1>3, <1>4

LEMMA SingleRow == TypeOK /\ Len(position) = 1 => position[1] \in Int
<1> SUFFICES ASSUME TypeOK, Len(position) = 1 PROVE position[1] \in Int
  OBVIOUS
<1>1. position \in Seq(Int)
  BY DEF TypeOK
<1>2. 1 \in 1 .. Len(position)
  OBVIOUS
<1> QED BY <1>1, <1>2, ElementOfSeq

LEMMA InitTypes == Init => TypeOK
  BY RestingTypes, QuantityAssumption DEF Init, TypeOK

LEMMA SignalTypes ==
  ASSUME TypeOK, NEW o \in Orders, ProcessSignal(o)
  PROVE  TypeOK'
<1> USE DEF TypeOK, broker, ledger
<1>1. CASE TakeSignal(o)
  BY <1>1 DEF TakeSignal, OrderRec, Status, Consumer
<1>2. CASE SaveNew(o)
  BY <1>2 DEF SaveNew, ConsumerGoes, Consumer
<1>3. CASE Reject(o)
  BY ZenonT(30), <1>3 DEF Reject, Rejected, ConsumerSaves, Consumer, OrderRec, Status
<1>4. CASE Accept(o)
  BY <1>4 DEF Accept, Accepts, ConsumerGoes, Consumer
<1>5. CASE AcceptAndRaise(o)
  BY ZenonT(30), <1>5 DEF AcceptAndRaise, Accepts, Rejected, ConsumerSaves, Consumer, OrderRec, Status
<1>6. CASE Submitted(o)
  <2>1. [order[o] EXCEPT !.status = "submitted"] \in OrderRec
    BY DEF OrderRec, Status
  <2>2. order' = [order EXCEPT ![o] = [order[o] EXCEPT !.status = "submitted"]]
    BY <1>6 DEF Submitted
  <2>5. order' \in [Orders -> OrderRec] /\ order'[o] \in OrderRec
    BY <2>1, <2>2
  <2>3. consumer' \in Consumer
    BY <1>6, <2>5 DEF Submitted, ConsumerSaves, Consumer
  <2>4. openCount' \in Nat
    BY <1>6 DEF Submitted
  <2> QED BY <1>6, <2>3, <2>4, <2>5 DEF Submitted
<1>7. CASE SaveOutcome(o)
  BY <1>7, RestingTypes DEF SaveOutcome, Update, ConsumerAt, Consumer
<1> QED BY <1>1, <1>2, <1>3, <1>4, <1>5, <1>6, <1>7 DEF ProcessSignal

LEMMA AfterTypes ==
  ASSUME TypeOK, NEW f \in Fills
  PROVE  /\ After(f) \in OrderRec
         /\ Signed(f) \in Int
         /\ handler[f].old # None => NewQuantity(f) \in Int
<1>1. trade[f] \in Int /\ trade[f] >= 0 /\ order[f[1]].filled \in Nat
  BY OrderParts, QuantityAssumption DEF TypeOK, OrderRec
<1>2. After(f) \in OrderRec
  BY <1>1 DEF After, OrderRec, Status
<1>3. Signed(f) \in Int
  BY <1>1 DEF Signed
<1>4. handler[f].old # None => handler[f].old \in Int
  BY DEF TypeOK, Handler
<1> QED BY <1>2, <1>3, <1>4 DEF NewQuantity

LEMMA WrittenTypes ==
  ASSUME TypeOK, NEW f \in Fills, Written(f), position' \in Seq(Int)
  PROVE  TypeOK'
  BY DEF TypeOK, Written, HandlerGoes, Handler, broker, memory

LEMMA FillTypes ==
  ASSUME TypeOK, NEW f \in Fills, HandleFill(f)
  PROVE  TypeOK'
<1> USE DEF TypeOK, broker, memory, ledger
<1>1. CASE Arrive(f)
  <2>1. openCount' \in Nat
    <3>1. openCount \in Nat /\ CountDown
      BY <1>1 DEF Arrive
    <3> QED BY <3>1 DEF CountDown
  <2>2. order' \in [Orders -> OrderRec] /\ handler' \in [Fills -> Handler]
    <3>1. CASE Known(f)
      <4>1. order' = [order EXCEPT ![f[1]] = After(f)]
        BY <1>1, <3>1 DEF Arrive, Handle
      <4>2. handler' = [handler EXCEPT ![f].pc = "read"]
        BY <1>1, <3>1 DEF Arrive, Handle, HandlerGoes
      <4> QED BY <4>1, <4>2, AfterTypes DEF Handler
    <3>2. CASE ~Known(f)
      BY <1>1, <3>2 DEF Arrive
    <3> QED BY <3>1, <3>2
  <2> QED BY <1>1, <2>1, <2>2 DEF Arrive
<1>2. CASE ReadPosition(f)
  <2>1. Len(position) = 1 => position[1] \in Int
    BY SingleRow
  <2>2. handler' \in [Fills -> Handler]
    <3>1. CASE Len(position) = 0
      <4>1. handler' = [handler EXCEPT ![f] = [@ EXCEPT !.pc = "write", !.old = None]]
        BY <1>2, <3>1 DEF ReadPosition
      <4> QED BY <4>1 DEF Handler
    <3>2. CASE Len(position) = 1
      <4>1. handler' = [handler EXCEPT ![f] = [@ EXCEPT !.pc = "write", !.old = position[1]]]
        BY <1>2, <3>2 DEF ReadPosition
      <4> QED BY <2>1, <3>2, <4>1 DEF Handler
    <3>3. CASE Len(position) # 0 /\ Len(position) # 1
      <4>1. handler' = [handler EXCEPT ![f] = Idle]
        BY <1>2, <3>3 DEF ReadPosition
      <4> QED BY <4>1, RestingTypes
    <3> QED BY <3>1, <3>2, <3>3
  <2> QED BY <1>2, <2>2 DEF ReadPosition
<1>3. CASE CreatePosition(f)
  <2>1. position' \in Seq(Int)
    BY <1>3, AfterTypes, AppendProperties DEF CreatePosition
  <2> QED BY <1>3, <2>1, WrittenTypes DEF CreatePosition
<1>4. CASE DeletePosition(f)
  BY <1>4, WrittenTypes DEF DeletePosition
<1>5. CASE UpdatePosition(f)
  <2>1. CASE Len(position) <= 1
    <3>1. position' \in Seq(Int)
      BY <1>5, <2>1, AfterTypes, Overwritten DEF UpdatePosition
    <3> QED BY <1>5, <2>1, <3>1, WrittenTypes DEF UpdatePosition
  <2>2. CASE ~(Len(position) <= 1)
    BY <1>5, <2>2, RestingTypes DEF UpdatePosition
  <2> QED BY <2>1, <2>2
<1>6. CASE RecordTransaction(f)
  <2>1. booked' \in [Fills -> Nat]
    BY <1>6 DEF RecordTransaction
  <2>2. handler' = [handler EXCEPT ![f].pc = "publish"]
    BY <1>6 DEF RecordTransaction, HandlerGoes
  <2>3. handler' \in [Fills -> Handler]
    BY <2>2 DEF Handler
  <2> QED BY <1>6, <2>1, <2>3 DEF RecordTransaction
<1>7. CASE PublishFill(f)
  <2>1. order[f[1]] \in OrderRec
    BY OrderParts
  <2> QED BY ZenonT(30), <1>7, <2>1 DEF PublishFill, Handler
<1>8. CASE HandlerRaises(f)
  BY <1>8, RestingTypes DEF HandlerRaises
<1>9. CASE PersistFill(f)
  <2>1. handler[f].saved \in OrderRec
    BY DEF Handler
  <2>2. row' \in [Orders -> OrderRec]
    BY <1>9, <2>1 DEF PersistFill, Update
  <2>3. mapped' \subseteq Orders
    BY <1>9 DEF PersistFill
  <2>4. handler' \in [Fills -> Handler]
    BY <1>9, RestingTypes DEF PersistFill
  <2> QED BY <1>9, <2>2, <2>3, <2>4 DEF PersistFill
<1> QED BY <1>1, <1>2, <1>3, <1>4, <1>5, <1>6, <1>7, <1>8, <1>9 DEF HandleFill

LEMMA BrokerTypes ==
  ASSUME TypeOK, NEW o \in Orders, BrokerFill(o) \/ BrokerEnd(o)
  PROVE  TypeOK'
<1> USE DEF TypeOK, memory, ledger
<1>1. CASE BrokerFill(o)
  <2>1. PICK n \in 1 .. Quantity, q \in 1 .. Quantity :
          /\ trade' = [trade EXCEPT ![<<o, n>>] = q]
          /\ \E s \in {"done", "working"} : live' = [live EXCEPT ![o] = s]
    BY <1>1 DEF BrokerFill
  <2>2. q \in 0 .. Quantity
    BY QuantityAssumption
  <2>3. trade' \in [Fills -> 0 .. Quantity]
    BY <2>1, <2>2
  <2> QED BY <1>1, <2>1, <2>3 DEF BrokerFill
<1>2. CASE BrokerEnd(o)
  BY <1>2 DEF BrokerEnd
<1> QED BY <1>1, <1>2

LEMMA TypeStep == TypeOK /\ [Next]_vars => TypeOK'
<1> SUFFICES ASSUME TypeOK, [Next]_vars PROVE TypeOK'
  OBVIOUS
<1>1. CASE Restart
  BY <1>1, RestingTypes DEF Restart, TypeOK, broker, ledger
<1>2. CASE UNCHANGED vars
  BY <1>2 DEF vars, TypeOK
<1> QED BY <1>1, <1>2, SignalTypes, FillTypes, BrokerTypes DEF Next

\* Every variable of the order manager, the ledger and the broker keeps its type in
\* every environment: above all, the count of open orders never goes below zero, though
\* repeated and partial fills lower it more often than submissions raise it.
THEOREM TypeCorrect == Spec => []TypeOK
  BY InitTypes, TypeStep, PTL DEF Spec

-----------------------------------------------------------------------------
(* A fill is booked at most once, in every environment.                    *)

\* An order no fill of which can be recognised any more: after a restart, or once it
\* is filled or rejected.
Forgotten(o) == o \in taken /\ o \notin mapped /\ consumer.order # o

Orderly ==
  /\ mapped \subseteq taken
  /\ consumer.order \in taken \cup {None}

\* While a fill is handled it is marked as processed, and it reaches the position
\* before the transactions.  After a restart the mark is lost, but so is the order.
Handled(f) ==
  handler[f].pc # "idle" => f \in processed /\ trade[f] > 0 /\ f[1] \in taken

Applied(f) ==
  f \in written => f[1] \in taken /\ (f \in processed \/ Forgotten(f[1]))

Placed(f) ==
  /\ handler[f].pc \in {"read", "write"} => f \notin written
  /\ handler[f].pc = "book" => f \in written /\ booked[f] = 0

Booked(f) == booked[f] <= 1 /\ (booked[f] = 1 => f \in written)

FillOnce(f) == Handled(f) /\ Applied(f) /\ Placed(f) /\ Booked(f)

OnceInv == TypeOK /\ Orderly /\ \A f \in Fills : FillOnce(f)

LEMMA InitOnce == Init => OnceInv
  BY InitTypes
  DEF Init, OnceInv, Orderly, FillOnce, Handled, Applied, Placed, Booked, Resting, Idle

\* A step of process_signal handles no fill.
LEMMA SignalOnce ==
  ASSUME OnceInv, NEW o \in Orders, ProcessSignal(o)
  PROVE  Orderly' /\ \A f \in Fills : FillOnce(f)'
<1>1. /\ Orderly'
      /\ taken \subseteq taken'
      /\ \A p \in Orders : Forgotten(p) => Forgotten(p)'
  <2> USE DEF OnceInv, Orderly, Forgotten, TypeOK
  <2>1. CASE TakeSignal(o)
    BY <2>1, NoneAssumption DEF TakeSignal, Consumer
  <2>2. CASE SaveNew(o)
    BY <2>2 DEF SaveNew, ConsumerGoes, Consumer
  <2>3. CASE Reject(o)
    BY <2>3 DEF Reject, ConsumerSaves, Consumer
  <2>4. CASE Accept(o)
    BY <2>4 DEF Accept, Accepts, ConsumerGoes, Consumer
  <2>5. CASE AcceptAndRaise(o)
    BY <2>5 DEF AcceptAndRaise, Accepts, ConsumerSaves, Consumer
  <2>6. CASE Submitted(o)
    <3>1. consumer.order = o /\ mapped' = mapped \cup {o} /\ taken' = taken
      BY <2>6 DEF Submitted
    <3>2. consumer'.order = consumer.order
      BY <2>6 DEF Submitted, ConsumerSaves, Consumer
    <3> QED BY <3>1, <3>2, NoneAssumption
  <2>7. CASE SaveOutcome(o)
    BY <2>7, NoneAssumption DEF SaveOutcome, Resting
  <2> QED BY <2>1, <2>2, <2>3, <2>4, <2>5, <2>6, <2>7 DEF ProcessSignal
<1>2. UNCHANGED <<trade, processed, handler, ledger>>
  BY DEF ProcessSignal, TakeSignal, SaveNew, Reject, Accept, Accepts, AcceptAndRaise,
         Submitted, SaveOutcome, broker
<1>3. ASSUME NEW f \in Fills PROVE FillOnce(f)'
  <2>1. f[1] \in Orders /\ FillOnce(f)
    BY OrderParts DEF OnceInv
  <2> QED BY <1>1, <1>2, <2>1 DEF FillOnce, Handled, Applied, Placed, Booked, ledger
<1> QED BY <1>1, <1>3

\* A step of the handler of one fill leaves the others alone.
LEMMA OthersKept ==
  ASSUME OnceInv, NEW f \in Fills,
         UNCHANGED <<trade, consumer, taken>>,
         mapped' \subseteq mapped,
         processed \subseteq processed',
         \A g \in Fills \ {f} : /\ handler'[g] = handler[g] /\ booked'[g] = booked[g]
                                /\ g \in written' <=> g \in written,
         FillOnce(f)'
  PROVE  Orderly' /\ \A g \in Fills : FillOnce(g)'
<1>1. Orderly'
  BY DEF OnceInv, Orderly
<1>2. \A p \in Orders : Forgotten(p) => Forgotten(p)'
  BY DEF Forgotten
<1>3. ASSUME NEW g \in Fills \ {f} PROVE FillOnce(g)'
  <2>1. g[1] \in Orders /\ FillOnce(g)
    BY OrderParts DEF OnceInv
  <2> QED BY <1>2, <2>1 DEF FillOnce, Handled, Applied, Placed, Booked
<1> QED BY <1>1, <1>3

\* The three ways to update the position.
LEMMA WrittenOnce ==
  ASSUME OnceInv, NEW f \in Fills, handler[f].pc = "write", Written(f)
  PROVE  Orderly' /\ \A g \in Fills : FillOnce(g)'
<1>1. handler' = [handler EXCEPT ![f].pc = "book"] /\ written' = written \cup {f}
  BY DEF Written, HandlerGoes
<1>2. UNCHANGED <<trade, mapped, processed, consumer, booked, taken>>
  BY DEF Written, broker, memory
<1>3. handler \in [Fills -> Handler] /\ booked[f] \in Nat /\ FillOnce(f)
  BY DEF OnceInv, TypeOK
<1>4. handler'[f].pc = "book"
  BY <1>1, <1>3 DEF Handler
<1>5. FillOnce(f)'
  BY <1>1, <1>2, <1>3, <1>4 DEF FillOnce, Handled, Applied, Placed, Booked
<1>6. \A g \in Fills \ {f} : /\ handler'[g] = handler[g] /\ booked'[g] = booked[g]
                             /\ g \in written' <=> g \in written
  BY <1>1, <1>2, <1>3
<1> QED BY <1>2, <1>5, <1>6, OthersKept

\* A handler that stops, or goes on to what no longer concerns the ledger.
LEMMA LeavesOnce ==
  ASSUME OnceInv, NEW f \in Fills, NEW h \in Handler,
         handler' = [handler EXCEPT ![f] = h],
         h.pc \in {"idle", "publish", "persist"},
         h.pc # "idle" => handler[f].pc # "idle",
         mapped' \subseteq mapped,
         UNCHANGED <<trade, processed, consumer, ledger, taken>>
  PROVE  Orderly' /\ \A g \in Fills : FillOnce(g)'
<1>1. handler \in [Fills -> Handler] /\ FillOnce(f) /\ f[1] \in Orders
  BY OrderParts DEF OnceInv, TypeOK
<1>2. handler'[f] = h
  BY <1>1
<1>3. Forgotten(f[1]) => Forgotten(f[1])'
  BY DEF Forgotten
<1>4. FillOnce(f)'
  BY <1>1, <1>2, <1>3 DEF FillOnce, Handled, Applied, Placed, Booked, ledger
<1> QED BY <1>1, <1>4, OthersKept DEF ledger

LEMMA FillStepOnce ==
  ASSUME OnceInv, NEW f \in Fills, HandleFill(f)
  PROVE  Orderly' /\ \A g \in Fills : FillOnce(g)'
<1>t. handler \in [Fills -> Handler] /\ booked \in [Fills -> Nat]
  BY DEF OnceInv, TypeOK
<1>f. FillOnce(f)
  BY DEF OnceInv
<1>1. CASE Arrive(f)
  <2>1. processed' = processed \cup {f} /\ trade[f] > 0
    BY <1>1 DEF Arrive
  <2>2. UNCHANGED <<trade, mapped, consumer, booked, written, taken>>
    BY <1>1 DEF Arrive, broker, ledger
  <2>3. \A g \in Fills \ {f} : handler'[g] = handler[g]
    BY <1>1, <1>t DEF Arrive, Handle, HandlerGoes
  <2>4. FillOnce(f)'
    <3>1. CASE Known(f)
      <4>1. f[1] \in taken /\ f \notin written
        BY <1>f, <3>1 DEF Known, FillOnce, Applied, Forgotten, OnceInv, Orderly
      <4>2. handler' = [handler EXCEPT ![f].pc = "read"]
        BY <1>1, <3>1 DEF Arrive, Handle, HandlerGoes
      <4>3. handler'[f].pc = "read"
        BY <1>t, <4>2 DEF Handler
      <4> QED BY <1>f, <2>1, <2>2, <4>1, <4>3
              DEF FillOnce, Handled, Applied, Placed, Booked
    <3>2. CASE ~Known(f)
      <4>1. handler' = handler
        BY <1>1, <3>2 DEF Arrive
      <4> QED BY <1>f, <2>1, <2>2, <4>1 DEF FillOnce, Handled, Applied, Placed, Booked
    <3> QED BY <3>1, <3>2
  <2> QED BY <2>1, <2>2, <2>3, <2>4, OthersKept
<1>2. CASE ReadPosition(f)
  <2>1. UNCHANGED <<trade, mapped, processed, consumer, booked, written, taken>>
    BY <1>2 DEF ReadPosition, broker, memory, ledger
  <2>2. handler[f].pc = "read" /\ handler'[f].pc \in {"write", "idle"}
    BY <1>2, <1>t DEF ReadPosition, Handler, Idle
  <2>3. \A g \in Fills \ {f} : handler'[g] = handler[g]
    BY <1>2, <1>t DEF ReadPosition
  <2>4. FillOnce(f)'
    BY <1>f, <2>1, <2>2 DEF FillOnce, Handled, Applied, Placed, Booked, Forgotten
  <2> QED BY <2>1, <2>3, <2>4, OthersKept
<1>3. CASE CreatePosition(f) \/ DeletePosition(f)
  BY <1>3, WrittenOnce DEF CreatePosition, DeletePosition
<1>4. CASE UpdatePosition(f)
  <2>1. CASE Written(f)
    BY <1>4, <2>1, WrittenOnce DEF UpdatePosition
  <2>2. CASE ~Written(f)
    <3>1. handler' = [handler EXCEPT ![f] = Idle]
      BY <1>4, <2>2 DEF UpdatePosition
    <3>2. UNCHANGED <<trade, mapped, processed, consumer, ledger, taken>>
      BY <1>4, <2>2 DEF UpdatePosition, broker, memory
    <3> QED BY <3>1, <3>2, RestingTypes, LeavesOnce DEF Idle
  <2> QED BY <2>1, <2>2
<1>5. CASE RecordTransaction(f)
  <2>1. UNCHANGED <<trade, mapped, processed, consumer, written, taken>>
    BY <1>5 DEF RecordTransaction, broker, memory
  <2>2. handler[f].pc = "book" /\ handler' = [handler EXCEPT ![f].pc = "publish"]
    BY <1>5 DEF RecordTransaction, HandlerGoes
  <2>3. handler'[f].pc = "publish" /\ \A g \in Fills \ {f} : handler'[g] = handler[g]
    BY <1>t, <2>2 DEF Handler
  <2>4. booked' = [booked EXCEPT ![f] = booked[f] + 1]
    BY <1>5 DEF RecordTransaction
  <2>5. booked[f] = 0 /\ f \in written
    BY <1>f, <2>2 DEF FillOnce, Placed
  <2>6. booked'[f] = 1 /\ \A g \in Fills \ {f} : booked'[g] = booked[g]
    BY <1>t, <2>4, <2>5
  <2>7. FillOnce(f)'
    BY <1>f, <2>1, <2>2, <2>3, <2>5, <2>6
    DEF FillOnce, Handled, Applied, Placed, Booked, Forgotten
  <2> QED BY <2>1, <2>3, <2>6, <2>7, OthersKept
<1>6. CASE PublishFill(f)
  <2> DEFINE h == [handler[f] EXCEPT !.pc = "persist", !.saved = order[f[1]]]
  <2>1. order[f[1]] \in OrderRec
    BY OrderParts DEF OnceInv, TypeOK
  <2>2. h \in Handler /\ h.pc = "persist"
    BY <1>t, <2>1 DEF Handler
  <2>3. handler' = [handler EXCEPT ![f] = h] /\ handler[f].pc # "idle"
    BY <1>6 DEF PublishFill
  <2>4. UNCHANGED <<trade, mapped, processed, consumer, ledger, taken>>
    BY <1>6 DEF PublishFill, broker, memory
  <2> HIDE DEF h
  <2> QED BY <2>2, <2>3, <2>4, LeavesOnce
<1>7. CASE HandlerRaises(f)
  <2>1. UNCHANGED <<trade, mapped, processed, consumer, ledger, taken>>
    BY <1>7 DEF HandlerRaises, broker, memory
  <2>2. handler' = [handler EXCEPT ![f] = Idle]
    BY <1>7 DEF HandlerRaises
  <2> QED BY <2>1, <2>2, RestingTypes, LeavesOnce DEF Idle
<1>8. CASE PersistFill(f)
  <2>1. mapped' \subseteq mapped /\ handler' = [handler EXCEPT ![f] = Idle]
    BY <1>8 DEF PersistFill
  <2>2. UNCHANGED <<trade, processed, consumer, ledger, taken>>
    BY <1>8 DEF PersistFill, broker
  <2> QED BY <2>1, <2>2, RestingTypes, LeavesOnce DEF Idle
<1> QED BY <1>1, <1>2, <1>3, <1>4, <1>5, <1>6, <1>7, <1>8 DEF HandleFill

\* The broker makes new fills and changes none.
LEMMA BrokerStep ==
  ASSUME TypeOK, NEW o \in Orders, BrokerFill(o) \/ BrokerEnd(o)
  PROVE  /\ \A f \in Fills : trade[f] > 0 => trade'[f] = trade[f]
         /\ UNCHANGED <<memory, handler, row, ledger, taken>>
<1>1. CASE BrokerFill(o)
  <2>1. PICK n \in 1 .. Quantity, q \in 1 .. Quantity :
          /\ \A m \in 1 .. Quantity : trade[<<o, m>>] = 0 <=> m >= n
          /\ trade' = [trade EXCEPT ![<<o, n>>] = q]
    BY <1>1 DEF BrokerFill
  <2>2. trade[<<o, n>>] = 0
    BY <2>1
  <2> QED BY <1>1, <2>1, <2>2 DEF BrokerFill, TypeOK
<1>2. CASE BrokerEnd(o)
  BY <1>2 DEF BrokerEnd
<1> QED BY <1>1, <1>2

LEMMA OnceStep == OnceInv /\ [Next]_vars => OnceInv'
<1> SUFFICES ASSUME OnceInv, [Next]_vars PROVE Orderly' /\ \A f \in Fills : FillOnce(f)'
  BY TypeStep DEF OnceInv
<1>1. ASSUME NEW o \in Orders, BrokerFill(o) \/ BrokerEnd(o)
      PROVE  Orderly' /\ \A f \in Fills : FillOnce(f)'
  <2>1. /\ \A f \in Fills : trade[f] > 0 => trade'[f] = trade[f]
        /\ UNCHANGED <<memory, handler, row, ledger, taken>>
    BY <1>1, BrokerStep DEF OnceInv
  <2> QED BY <2>1 DEF OnceInv, Orderly, Forgotten, FillOnce, Handled, Applied, Placed,
                      Booked, memory, ledger
<1>2. CASE Restart
  <2>1. /\ mapped' = {} /\ consumer' = Resting
        /\ handler' = [f \in Fills |-> Idle]
        /\ UNCHANGED <<ledger, taken>>
    BY <1>2 DEF Restart
  <2>2. \A p \in taken : Forgotten(p)'
    BY <2>1, NoneAssumption DEF Forgotten, Resting, OnceInv, TypeOK
  <2>3. Orderly'
    BY <2>1 DEF Orderly, Resting
  <2>4. ASSUME NEW f \in Fills PROVE FillOnce(f)'
    <3>1. FillOnce(f) /\ handler'[f].pc = "idle"
      BY <2>1 DEF OnceInv, Idle
    <3> QED BY <2>1, <2>2, <3>1 DEF FillOnce, Handled, Applied, Placed, Booked, ledger
  <2> QED BY <2>3, <2>4
<1>3. CASE UNCHANGED vars
  BY <1>3 DEF vars, OnceInv, Orderly, Forgotten, FillOnce, Handled, Applied, Placed, Booked
<1> QED BY <1>1, <1>2, <1>3, SignalOnce, FillStepOnce DEF Next

\* However often fills are delivered, in whatever order, whatever fails and whenever
\* the process restarts, with handlers that overlap or not, no fill is recorded as two
\* transactions, nor without an update of the position.
THEOREM BookedAtMostOnce == Spec => []BookedOnce
<1>1. OnceInv => BookedOnce
  BY DEF OnceInv, FillOnce, Booked, BookedOnce
<1> QED BY <1>1, InitOnce, OnceStep, PTL DEF Spec

-----------------------------------------------------------------------------
(* The ledger is implemented as long as handlers do not overlap.           *)

SingleHandler ==
  \A f, g \in Fills : handler[f].pc # "idle" /\ handler[g].pc # "idle" => f = g

\* What a handler has read is still the position when it writes.
Fresh(f) ==
  handler[f].pc = "write" =>
    IF handler[f].old = None THEN position = <<>> ELSE position = <<handler[f].old>>

SerialInv ==
  /\ OnceInv
  /\ Len(position) <= 1
  /\ SingleHandler
  /\ \A f \in Fills : Fresh(f)

LEMMA InitSerial == Init => SerialInv
  BY InitOnce DEF Init, SerialInv, SingleHandler, Fresh, Idle

\* While one fill is handled, a step of its handler cannot disturb another.
LEMMA Alone ==
  ASSUME SerialInv, NEW f \in Fills, NEW h \in Handler,
         handler[f].pc # "idle" \/ ~Busy,
         handler' = [handler EXCEPT ![f] = h],
         h.pc = "write" =>
           IF h.old = None THEN position' = <<>> ELSE position' = <<h.old>>
  PROVE  SingleHandler' /\ \A g \in Fills : Fresh(g)'
<1>1. handler \in [Fills -> Handler]
  BY DEF SerialInv, OnceInv, TypeOK
<1>2. handler'[f] = h
  BY <1>1
<1>3. \A g \in Fills \ {f} : handler'[g] = handler[g] /\ handler[g].pc = "idle"
  BY <1>1 DEF SerialInv, SingleHandler, Busy
<1>4. SingleHandler'
  BY <1>3 DEF SingleHandler
<1>5. ASSUME NEW g \in Fills PROVE Fresh(g)'
  BY <1>2, <1>3 DEF Fresh
<1> QED BY <1>4, <1>5

\* The position after an update is one row or none.
LEMMA WrittenSerial ==
  ASSUME SerialInv, NEW f \in Fills, handler[f].pc = "write", Written(f),
         Len(position') <= 1
  PROVE  Len(position') <= 1 /\ SingleHandler' /\ \A g \in Fills : Fresh(g)'
<1> DEFINE h == [handler[f] EXCEPT !.pc = "book"]
<1>1. handler \in [Fills -> Handler]
  BY DEF SerialInv, OnceInv, TypeOK
<1>2. h \in Handler /\ h.pc = "book"
  BY <1>1 DEF Handler
<1>3. handler' = [handler EXCEPT ![f] = h]
  BY DEF Written, HandlerGoes
<1> HIDE DEF h
<1> QED BY <1>2, <1>3, Alone

LEMMA RowOf ==
  ASSUME TypeOK
  PROVE  /\ Len(position) = 0 => position = <<>>
         /\ Len(position) = 1 => position = <<position[1]>>
         /\ Len(position) \in Nat
<1>1. position \in Seq(Int) /\ Len(position) \in Nat
  BY DEF TypeOK
<1>2. Len(position) = 0 => position = <<>>
  BY <1>1, EmptySeq
<1>3. Len(position) = 1 => position = <<position[1]>>
  BY <1>1
<1> QED BY <1>1, <1>2, <1>3

LEMMA FillStepSerial ==
  ASSUME SerialInv, "overlap" \notin Anomalies, NEW f \in Fills, HandleFill(f)
  PROVE  Len(position') <= 1 /\ SingleHandler' /\ \A g \in Fills : Fresh(g)'
<1>t. TypeOK /\ handler \in [Fills -> Handler] /\ Len(position) <= 1
  BY DEF SerialInv, OnceInv, TypeOK
<1>1. CASE Arrive(f)
  <2>1. position' = position /\ ~Busy
    BY <1>1 DEF Arrive, ledger, CanArrive
  <2>2. CASE Known(f)
    <3> DEFINE h == [handler[f] EXCEPT !.pc = "read"]
    <3>1. h \in Handler /\ h.pc = "read"
      BY <1>t DEF Handler
    <3>2. handler' = [handler EXCEPT ![f] = h]
      BY <1>1, <2>2 DEF Arrive, Handle, HandlerGoes
    <3> HIDE DEF h
    <3> QED BY <1>t, <2>1, <3>1, <3>2, Alone
  <2>3. CASE ~Known(f)
    BY <1>1, <2>1, <2>3 DEF Arrive, SerialInv, SingleHandler, Fresh
  <2> QED BY <2>2, <2>3
<1>2. CASE ReadPosition(f)
  <2>1. position' = position /\ handler[f].pc = "read"
    BY <1>2 DEF ReadPosition, ledger
  <2>2. CASE Len(position) = 0
    <3> DEFINE h == [handler[f] EXCEPT !.pc = "write", !.old = None]
    <3>1. h \in Handler /\ h.old = None
      BY <1>t DEF Handler
    <3>2. handler' = [handler EXCEPT ![f] = h]
      BY <1>2, <2>2 DEF ReadPosition
    <3>3. position' = <<>>
      BY <1>t, <2>1, <2>2, RowOf
    <3> HIDE DEF h
    <3> QED BY <1>t, <2>1, <3>1, <3>2, <3>3, Alone
  <2>3. CASE Len(position) = 1
    <3> DEFINE h == [handler[f] EXCEPT !.pc = "write", !.old = position[1]]
    <3>1. position[1] \in Int
      BY <1>t, <2>3, SingleRow
    <3>2. h \in Handler /\ h.old = position[1]
      BY <1>t, <3>1 DEF Handler
    <3>3. handler' = [handler EXCEPT ![f] = h]
      BY <1>2, <2>3 DEF ReadPosition
    <3>4. position' = <<position[1]>> /\ position[1] # None
      BY <1>t, <2>1, <2>3, <3>1, RowOf, NoneAssumption
    <3> HIDE DEF h
    <3> QED BY <1>t, <2>1, <3>2, <3>3, <3>4, Alone
  <2>4. Len(position) = 0 \/ Len(position) = 1
    <3>1. Len(position) \in Nat
      BY <1>t, RowOf
    <3>2. Len(position) <= 1
      BY <1>t
    <3> QED BY <3>1, <3>2
  <2> QED BY <2>2, <2>3, <2>4
<1>3. CASE CreatePosition(f)
  <2>1. position = <<>>
    BY <1>3 DEF CreatePosition, SerialInv, Fresh
  <2>2. Len(position') = 1
    BY <1>3, <2>1 DEF CreatePosition
  <2> QED BY <1>3, <2>2, WrittenSerial DEF CreatePosition
<1>4. CASE DeletePosition(f)
  <2>1. Len(position') = 0
    BY <1>4 DEF DeletePosition
  <2> QED BY <1>4, <2>1, WrittenSerial DEF DeletePosition
<1>5. CASE UpdatePosition(f)
  <2>1. position' = [i \in DOMAIN position |-> NewQuantity(f)] /\ Written(f)
    BY <1>5, <1>t DEF UpdatePosition
  <2>2. NewQuantity(f) \in Int
    BY <1>5, <1>t, AfterTypes DEF UpdatePosition
  <2>3. Len(position') = Len(position)
    BY <1>t, <2>1, <2>2, Overwritten DEF TypeOK
  <2> QED BY <1>5, <1>t, <2>1, <2>3, WrittenSerial DEF UpdatePosition
<1>6. CASE RecordTransaction(f)
  <2> DEFINE h == [handler[f] EXCEPT !.pc = "publish"]
  <2>1. h \in Handler /\ h.pc = "publish"
    BY <1>t DEF Handler
  <2>2. handler' = [handler EXCEPT ![f] = h] /\ handler[f].pc # "idle" /\ position' = position
    BY <1>6 DEF RecordTransaction, HandlerGoes
  <2> HIDE DEF h
  <2> QED BY <1>t, <2>1, <2>2, Alone
<1>7. CASE PublishFill(f)
  <2> DEFINE h == [handler[f] EXCEPT !.pc = "persist", !.saved = order[f[1]]]
  <2>1. order[f[1]] \in OrderRec
    BY <1>t, OrderParts DEF TypeOK
  <2>2. h \in Handler /\ h.pc = "persist"
    BY <1>t, <2>1 DEF Handler
  <2>3. handler' = [handler EXCEPT ![f] = h] /\ handler[f].pc # "idle" /\ position' = position
    BY <1>7 DEF PublishFill, ledger
  <2> HIDE DEF h
  <2> QED BY <1>t, <2>2, <2>3, Alone
<1>8. CASE HandlerRaises(f) \/ PersistFill(f)
  <2>1. handler' = [handler EXCEPT ![f] = Idle] /\ handler[f].pc # "idle" /\ position' = position
    BY <1>8 DEF HandlerRaises, PersistFill, ledger
  <2> QED BY <1>t, <2>1, RestingTypes, Alone DEF Idle
<1> QED BY <1>1, <1>2, <1>3, <1>4, <1>5, <1>6, <1>7, <1>8 DEF HandleFill

LEMMA SerialStep ==
  ASSUME "overlap" \notin Anomalies
  PROVE  SerialInv /\ [Next]_vars => SerialInv'
<1> SUFFICES ASSUME SerialInv, [Next]_vars
             PROVE  Len(position') <= 1 /\ SingleHandler' /\ \A f \in Fills : Fresh(f)'
  BY OnceStep DEF SerialInv
<1>1. CASE UNCHANGED <<handler, position>>
  BY <1>1 DEF SerialInv, SingleHandler, Fresh
<1>2. ASSUME NEW o \in Orders, ProcessSignal(o) \/ BrokerFill(o) \/ BrokerEnd(o)
      PROVE  UNCHANGED <<handler, position>>
  BY <1>2 DEF ProcessSignal, TakeSignal, SaveNew, Reject, Accept, AcceptAndRaise,
              Submitted, SaveOutcome, BrokerFill, BrokerEnd, ledger
<1>3. CASE Restart
  BY <1>3 DEF Restart, SerialInv, SingleHandler, Fresh, Idle, ledger
<1> QED BY <1>1, <1>2, <1>3, FillStepSerial DEF Next, vars

LEMMA Negation == \A q \in Int : -q \in Int /\ (-q = 0 <=> q = 0)
<1> TAKE q \in Int
<1>1. -q = 0 - q
  OBVIOUS
<1>2. 0 - q \in Int /\ (0 - q = 0 <=> q = 0)
  OBVIOUS
<1> QED BY <1>1, <1>2

LEMMA SignedOf ==
  ASSUME NEW f \in Fills, trade[f] \in Int
  PROVE  Signed(f) \in Int /\ (trade[f] = 0 <=> Signed(f) = 0)
<1>1. -trade[f] \in Int /\ (-trade[f] = 0 <=> trade[f] = 0)
  BY Negation
<1> QED BY <1>1 DEF Signed

LEMMA InitLedger == Init => BookOfFills!Init
<1> SUFFICES ASSUME Init PROVE BookOfFills!Init
  OBVIOUS
<1>1. ASSUME NEW f \in Fills PROVE Signed(f) = 0
  <2>1. trade[f] = 0
    BY DEF Init
  <2>2. trade[f] \in Int
    BY <2>1
  <2> QED BY <2>1, <2>2, SignedOf
<1>2. Held = 0 /\ written = {}
  BY DEF Init, Held
<1> QED BY <1>1, <1>2 DEF BookOfFills!Init

\* A fill of the broker gives an amount to a fill that had none.
LEMMA FillIsFill ==
  ASSUME TypeOK, NEW o \in Orders, BrokerFill(o)
  PROVE  \E f \in Fills : BookOfFills!Fill(f)
<1>1. PICK n \in 1 .. Quantity, q \in 1 .. Quantity :
        /\ \A m \in 1 .. Quantity : trade[<<o, m>>] = 0 <=> m >= n
        /\ trade' = [trade EXCEPT ![<<o, n>>] = q]
  BY DEF BrokerFill
<1> DEFINE f == <<o, n>>
<1>2. f \in Fills /\ trade[f] = 0
  BY <1>1 DEF Fills
<1>3. trade'[f] = q /\ q \in Int /\ \A g \in Fills \ {f} : trade'[g] = trade[g]
  BY <1>1, <1>2, QuantityAssumption DEF TypeOK
<1> HIDE DEF f
<1>4. Signed(f) = 0 /\ Signed(f)' \in Int
  <2>1. trade[f] \in Int
    BY <1>2
  <2>2. trade'[f] \in Int /\ -trade'[f] \in Int
    BY <1>3, Negation
  <2>3. Signed(f)' \in Int
    BY <2>2 DEF Signed
  <2> QED BY <1>2, <2>1, <2>3, SignedOf
<1>5. \A g \in Fills \ {f} : Signed(g)' = Signed(g)
  BY <1>3 DEF Signed
<1>6. UNCHANGED <<written, Held>>
  BY DEF BrokerFill, ledger, Held
<1>7. BookOfFills!Fill(f)
  BY <1>2, <1>4, <1>5, <1>6 DEF BookOfFills!Fill
<1> QED BY <1>2, <1>7

LEMMA SignedKept == UNCHANGED trade => \A f \in Fills : Signed(f)' = Signed(f)
  BY DEF Signed

\* An update of the position applies the fill that is handled.
LEMMA WriteIsApply ==
  ASSUME SerialInv, NEW f \in Fills, handler[f].pc = "write", Written(f),
         Held' = Held + Signed(f)
  PROVE  BookOfFills!Apply(f)
<1>1. FillOnce(f)
  BY DEF SerialInv, OnceInv
<1>2. f \notin written /\ trade[f] > 0
  BY <1>1 DEF FillOnce, Handled, Placed
<1>3. trade[f] \in Int
  BY QuantityAssumption DEF SerialInv, OnceInv, TypeOK
<1>4. Signed(f) # 0
  BY <1>2, <1>3 DEF Signed
<1>5. written' = written \cup {f} /\ UNCHANGED trade
  BY DEF Written, broker
<1>6. \A g \in Fills : Signed(g)' = Signed(g)
  BY <1>5, SignedKept
<1> QED BY <1>2, <1>4, <1>5, <1>6 DEF BookOfFills!Apply

LEMMA FillStepLedger ==
  ASSUME SerialInv, NEW f \in Fills, HandleFill(f)
  PROVE  BookOfFills!Apply(f) \/ UNCHANGED <<trade, written, position>>
<1>t. TypeOK /\ Len(position) <= 1 /\ Fresh(f)
  BY DEF SerialInv, OnceInv
<1>n. Signed(f) \in Int
  BY <1>t, AfterTypes
<1>o. handler[f].old # None => handler[f].old \in Int /\ NewQuantity(f) \in Int
  BY <1>t, AfterTypes DEF TypeOK, Handler
<1>1. CASE CreatePosition(f)
  <2>1. position = <<>> /\ position' = <<Signed(f)>>
    BY <1>1, <1>t DEF CreatePosition, Fresh
  <2>2. Held = 0 /\ Held' = Signed(f)
    BY <2>1 DEF Held
  <2>3. Held' = Held + Signed(f)
    BY <1>n, <2>2
  <2> QED BY <1>1, <2>3, WriteIsApply DEF CreatePosition
<1>2. CASE DeletePosition(f)
  <2>1. position = <<handler[f].old>> /\ position' = <<>> /\ handler[f].old + Signed(f) = 0
    BY <1>2, <1>t DEF DeletePosition, Fresh, Closes, NewQuantity
  <2>2. Held = handler[f].old /\ Held' = 0
    BY <2>1 DEF Held
  <2>3. Held' = Held + Signed(f)
    BY <2>1, <2>2
  <2> QED BY <1>2, <2>3, WriteIsApply DEF DeletePosition
<1>3. CASE UpdatePosition(f)
  <2>1. position = <<handler[f].old>> /\ Written(f)
        /\ position' = [i \in DOMAIN position |-> NewQuantity(f)]
    BY <1>3, <1>t DEF UpdatePosition, Fresh
  <2>2. DOMAIN position = {1} /\ 1 \in DOMAIN position'
    BY <2>1
  <2>3. Held = handler[f].old /\ position'[1] = NewQuantity(f)
    BY <2>1, <2>2 DEF Held
  <2>4. position' # <<>>
    BY <2>2
  <2>5. Held' = NewQuantity(f)
    BY <2>3, <2>4 DEF Held
  <2>6. Held' = Held + Signed(f)
    BY <2>3, <2>5 DEF NewQuantity
  <2> QED BY <1>3, <2>1, <2>6, WriteIsApply DEF UpdatePosition
<1>4. CASE \/ Arrive(f) \/ ReadPosition(f) \/ RecordTransaction(f) \/ PublishFill(f)
           \/ HandlerRaises(f) \/ PersistFill(f)
  BY <1>4 DEF Arrive, ReadPosition, RecordTransaction, PublishFill, HandlerRaises,
              PersistFill, broker, ledger
<1> QED BY <1>1, <1>2, <1>3, <1>4 DEF HandleFill

LEMMA StutterLedger ==
  ASSUME UNCHANGED <<trade, written, position>>
  PROVE  UNCHANGED BookOfFills!vars
<1>1. \A f \in Fills : Signed(f)' = Signed(f)
  BY SignedKept
<1>2. UNCHANGED <<written, Held>>
  BY DEF Held
<1> QED BY <1>1, <1>2 DEF BookOfFills!vars

LEMMA LedgerStep ==
  ASSUME SerialInv, [Next]_vars
  PROVE  [BookOfFills!Next]_(BookOfFills!vars)
<1>1. ASSUME NEW f \in Fills, HandleFill(f)
      PROVE  BookOfFills!Next \/ UNCHANGED BookOfFills!vars
  BY <1>1, FillStepLedger, StutterLedger DEF BookOfFills!Next
<1>2. ASSUME NEW o \in Orders, BrokerFill(o)
      PROVE  BookOfFills!Next
  BY <1>2, FillIsFill DEF BookOfFills!Next, SerialInv, OnceInv
<1>3. ASSUME NEW o \in Orders, ProcessSignal(o) \/ BrokerEnd(o)
      PROVE  UNCHANGED <<trade, written, position>>
  BY <1>3 DEF ProcessSignal, TakeSignal, SaveNew, Reject, Accept, Accepts, AcceptAndRaise,
              Submitted, SaveOutcome, BrokerEnd, ledger, broker
<1>4. CASE Restart \/ UNCHANGED vars
  BY <1>4, StutterLedger DEF Restart, vars, broker, ledger
<1> QED BY <1>1, <1>2, <1>3, <1>4, StutterLedger DEF Next

\* As long as handlers do not overlap, the position counts each fill of the broker at
\* most once, with its quantity and sign, and nothing else: record_fill, with the
\* duplicates handle_fill filters, implements Ledger across failures and restarts.
THEOREM LedgerImplemented ==
  ASSUME "overlap" \notin Anomalies
  PROVE  Spec => ImplementsLedger
<1>1. SerialInv /\ [Next]_vars => SerialInv'
  BY SerialStep
<1>2. SerialInv /\ [Next]_vars => [BookOfFills!Next]_(BookOfFills!vars)
  BY LedgerStep
<1> QED BY <1>1, <1>2, InitSerial, InitLedger, PTL
        DEF Spec, ImplementsLedger, BookOfFills!Spec
-----------------------------------------------------------------------------
(* Records never run ahead of the broker.                                  *)

Trades(o) == [n \in 1 .. Quantity |-> trade[<<o, n>>]]

LEMMA TradedIsSum ==
  ASSUME NEW o
  PROVE  /\ Traded(o) = Sum(Trades(o), 1 .. Quantity)
         /\ Traded(o)' = Sum(Trades(o)', 1 .. Quantity)
<1> DEFINE Terms(t, g) ==
             [s \in SUBSET (1 .. Quantity) |->
                IF s = {} THEN 0
                ELSE LET x == CHOOSE y \in s : TRUE IN t[<<o, x>>] + g[s \ {x}]]
<1>1. /\ Traded(o) = (CHOOSE g : g = Terms(trade, g))[1 .. Quantity]
      /\ Traded(o)' = (CHOOSE g : g = Terms(trade', g))[1 .. Quantity]
  BY DEF Traded, MapThenSumSet, MapThenFoldSet
<1>2. /\ \A g : Terms(trade, g) = Unfold(Trades(o), g, 1 .. Quantity)
      /\ \A g : Terms(trade', g) = Unfold(Trades(o)', g, 1 .. Quantity)
  BY DEF Unfold, Trades, Pick
<1>3. /\ (CHOOSE g : g = Terms(trade, g)) = Recursion(Trades(o), 1 .. Quantity)
      /\ (CHOOSE g : g = Terms(trade', g)) = Recursion(Trades(o)', 1 .. Quantity)
  <2> HIDE DEF Terms
  <2> QED BY Zenon, <1>2 DEF Recursion
<1>4. /\ Sum(Trades(o), 1 .. Quantity) = Recursion(Trades(o), 1 .. Quantity)[1 .. Quantity]
      /\ Sum(Trades(o)', 1 .. Quantity) = Recursion(Trades(o)', 1 .. Quantity)[1 .. Quantity]
  BY SumIsRecursion
<1> QED BY <1>1, <1>3, <1>4

\* What the fills of o amount to that handle_fill has seen.
Seen(o) == {n \in 1 .. Quantity : <<o, n>> \in processed}
Counted(o) == Sum(Trades(o), Seen(o))

LEMMA Terms ==
  ASSUME TypeOK, NEW o \in Orders
  PROVE  /\ IsFiniteSet(1 .. Quantity)
         /\ \A n \in 1 .. Quantity : Trades(o)[n] = trade[<<o, n>>] /\ Trades(o)[n] \in Nat
         /\ IsFiniteSet(Seen(o)) /\ Seen(o) \in SUBSET (1 .. Quantity)
<1>1. IsFiniteSet(1 .. Quantity)
  BY QuantityAssumption, FS_Interval
<1>2. \A n \in 1 .. Quantity : <<o, n>> \in Fills
  BY DEF Fills
<1>3. \A n \in 1 .. Quantity : trade[<<o, n>>] \in Nat
  BY <1>2, QuantityAssumption DEF TypeOK
<1>4. Seen(o) \in SUBSET (1 .. Quantity)
  BY DEF Seen
<1> QED BY <1>1, <1>3, <1>4, FS_Subset DEF Trades

LEMMA CountedBelowTraded ==
  ASSUME TypeOK, NEW o \in Orders
  PROVE  /\ Counted(o) \in Nat /\ Traded(o) \in Nat
         /\ Counted(o) <= Traded(o)
<1>1. Counted(o) \in Nat /\ Sum(Trades(o), 1 .. Quantity) \in Nat
  BY Terms, SumNat DEF Counted
<1>2. Counted(o) <= Sum(Trades(o), 1 .. Quantity)
  <2> DEFINE t == Trades(o)
  <2>1. \A n \in 1 .. Quantity : t[n] \in Nat
    BY Terms
  <2> HIDE DEF t
  <2>2. Sum(t, Seen(o)) <= Sum(t, 1 .. Quantity)
    BY <2>1, Terms, SumSubset
  <2> QED BY <2>2 DEF t, Counted
<1> QED BY <1>1, <1>2, TradedIsSum

\* More fills seen amount to more.
LEMMA CountedGrows ==
  ASSUME TypeOK, NEW o \in Orders, UNCHANGED trade, processed \subseteq processed'
  PROVE  Counted(o)' \in Nat /\ Counted(o) <= Counted(o)'
<1> DEFINE t == Trades(o)
           seen == Seen(o)'
<1>1. Trades(o)' = t
  BY DEF Trades
<1>2. \A n \in 1 .. Quantity : t[n] \in Nat
  BY Terms
<1>3. seen \in SUBSET (1 .. Quantity) /\ Seen(o) \in SUBSET seen
  BY DEF Seen
<1>4. IsFiniteSet(seen)
  BY <1>3, Terms, FS_Subset
<1>5. Counted(o) = Sum(t, Seen(o)) /\ Counted(o)' = Sum(t, seen)
  BY <1>1 DEF Counted
<1> HIDE DEF t, seen
<1>6. \A n \in seen : t[n] \in Nat
  BY <1>2, <1>3
<1>7. Sum(t, seen) \in Nat /\ Sum(t, Seen(o)) <= Sum(t, seen)
  BY <1>3, <1>4, <1>6, SumSubset
<1> QED BY <1>5, <1>7

\* A fill that is marked as processed for the first time counts.
LEMMA CountedNew ==
  ASSUME TypeOK, NEW f \in Fills, f \notin processed,
         UNCHANGED trade, processed' = processed \cup {f}
  PROVE  Counted(f[1])' = Counted(f[1]) + trade[f]
<1>1. PICK o \in Orders, n \in 1 .. Quantity : f = <<o, n>>
  BY DEF Fills
<1> DEFINE t == Trades(o)
           old == Seen(o)
           seen == Seen(o)'
<1>2. Trades(o)' = t
  BY DEF Trades
<1>3. n \notin old /\ seen = old \cup {n}
  BY <1>1 DEF Seen
<1>4. t[n] = trade[f] /\ \A m \in 1 .. Quantity : t[m] \in Nat
  BY <1>1, Terms
<1>5. IsFiniteSet(old) /\ old \in SUBSET (1 .. Quantity)
  BY Terms
<1>6. Counted(o)' = Sum(t, seen) /\ Counted(o) = Sum(t, old)
  BY <1>2 DEF Counted
<1> HIDE DEF t, old, seen
<1>7. IsFiniteSet(seen) /\ n \in seen /\ seen \ {n} = old /\ seen \in SUBSET (1 .. Quantity)
  BY <1>3, <1>5, FS_AddElement
<1>8. \A m \in seen : t[m] \in Int
  BY <1>4, <1>7
<1>9. Sum(t, seen) = t[n] + Sum(t, old)
  <2>1. \A m \in seen : Sum(t, seen) = t[m] + Sum(t, seen \ {m})
    BY <1>7, <1>8, SumRemove
  <2> QED BY <1>7, <2>1
<1>10. t[n] \in Nat /\ Sum(t, old) \in Nat
  BY <1>4, <1>5, SumNat
<1>11. Sum(t, seen) = Sum(t, old) + t[n]
  BY <1>9, <1>10
<1> QED BY <1>1, <1>4, <1>6, <1>11

LEMMA CountedNext ==
  ASSUME TypeOK', NEW o \in Orders
  PROVE  Counted(o)' \in Nat /\ Traded(o)' \in Nat
<1> DEFINE t == Trades(o)'
           seen == Seen(o)'
<1>1. \A n \in 1 .. Quantity : t[n] = trade'[<<o, n>>] /\ <<o, n>> \in Fills
  BY DEF Trades, Fills
<1>2. \A n \in 1 .. Quantity : t[n] \in Nat
  <2> TAKE n \in 1 .. Quantity
  <2>1. t[n] \in 0 .. Quantity
    BY <1>1 DEF TypeOK
  <2> QED BY <2>1, QuantityAssumption
<1>3. IsFiniteSet(1 .. Quantity) /\ seen \in SUBSET (1 .. Quantity)
  BY QuantityAssumption, FS_Interval DEF Seen
<1>4. Counted(o)' = Sum(t, seen) /\ Traded(o)' = Sum(t, 1 .. Quantity)
  BY TradedIsSum DEF Counted
<1> HIDE DEF t, seen
<1> QED BY <1>2, <1>3, <1>4, SumSubset

\* A record of o shows no more than the broker has executed.
Bounded(o, rec) ==
  rec.filled <= Traded(o) /\ (rec.status = "filled" => Traded(o) = Quantity)

FilledInv ==
  /\ TypeOK
  /\ \A o \in Orders : /\ Traded(o) <= Quantity
                       /\ order[o].filled <= Counted(o)
                       /\ Bounded(o, order[o]) /\ Bounded(o, row[o])
  /\ consumer.pc = "save" => consumer.order \in Orders /\ Bounded(consumer.order, consumer.saved)
  /\ \A f \in Fills : handler[f].pc = "persist" => Bounded(f[1], handler[f].saved)

LEMMA InitFilled == Init => FilledInv
<1> SUFFICES ASSUME Init PROVE FilledInv
  OBVIOUS
<1>1. TypeOK
  BY InitTypes
<1>2. ASSUME NEW o \in Orders PROVE Traded(o) = 0
  <2>1. \A n \in 1 .. Quantity : Trades(o)[n] = 0
    BY DEF Init, Trades, Fills
  <2>2. IsFiniteSet(1 .. Quantity)
    BY <1>1, Terms
  <2>3. Sum(Trades(o), 1 .. Quantity) = 0
    BY <2>1, <2>2, SumZero
  <2> QED BY <2>3, TradedIsSum
<1>3. \A o \in Orders : order[o] = NoOrder /\ row[o] = NoOrder
  BY DEF Init
<1>4. consumer.pc = "idle" /\ \A f \in Fills : handler[f].pc = "idle"
  BY DEF Init, Resting, Idle
<1>5. \A o \in Orders : Counted(o) \in Nat
  BY <1>1, CountedBelowTraded
<1> QED BY <1>1, <1>2, <1>3, <1>4, <1>5, QuantityAssumption DEF FilledInv, Bounded, NoOrder

\* Steps that leave the broker and the set of processed fills alone: it is enough that
\* each record comes from a bounded one.
LEMMA RecordsKept ==
  ASSUME FilledInv, TypeOK', UNCHANGED trade, processed \subseteq processed',
         \A o \in Orders : \/ order'[o].filled <= order[o].filled
                           \/ order'[o].filled <= Counted(o)',
         \A o \in Orders : Bounded(o, order'[o]) /\ Bounded(o, row'[o]),
         consumer'.pc = "save" =>
           consumer'.order \in Orders /\ Bounded(consumer'.order, consumer'.saved),
         \A f \in Fills : handler'[f].pc = "persist" => Bounded(f[1], handler'[f].saved)
  PROVE  FilledInv'
<1>1. ASSUME NEW o PROVE Traded(o)' = Traded(o)
  <2>1. Trades(o)' = Trades(o)
    BY DEF Trades
  <2> QED BY <2>1, TradedIsSum
<1>2. \A o, rec : Bounded(o, rec) => Bounded(o, rec)'
  BY <1>1 DEF Bounded
<1>3. ASSUME NEW o \in Orders PROVE order'[o].filled <= Counted(o)'
  <2>1. order[o].filled <= Counted(o) /\ order[o].filled \in Nat
    BY DEF FilledInv, TypeOK, OrderRec
  <2>2. order'[o].filled \in Nat
    BY DEF TypeOK, OrderRec
  <2>3. Counted(o) \in Nat /\ Counted(o)' \in Nat
    BY CountedBelowTraded, CountedGrows DEF FilledInv
  <2>4. Counted(o) <= Counted(o)'
    BY CountedGrows DEF FilledInv
  <2> QED BY <2>1, <2>2, <2>3, <2>4
<1> QED BY <1>1, <1>2, <1>3 DEF FilledInv
LEMMA BoundedParts ==
  ASSUME FilledInv, NEW o \in Orders
  PROVE  /\ Bounded(o, order[o]) /\ Bounded(o, row[o])
         /\ order[o] \in OrderRec /\ row[o] \in OrderRec
         /\ Traded(o) \in Nat /\ Counted(o) \in Nat /\ Traded(o) <= Quantity
         /\ order[o].filled <= Counted(o) /\ Counted(o) <= Traded(o)
  BY CountedBelowTraded DEF FilledInv, TypeOK

LEMMA SignalFilled ==
  ASSUME FilledInv, NEW o \in Orders, ProcessSignal(o)
  PROVE  FilledInv'
<1>t. TypeOK /\ TypeOK'
  BY SignalTypes DEF FilledInv
<1>u. UNCHANGED <<trade, processed, handler>>
  BY DEF ProcessSignal, TakeSignal, SaveNew, Reject, Accept, Accepts, AcceptAndRaise,
         Submitted, SaveOutcome, broker
<1>o. Bounded(o, order[o]) /\ order[o] \in OrderRec /\ Traded(o) \in Nat
  BY BoundedParts
<1>h. \A f \in Fills : handler'[f].pc = "persist" => Bounded(f[1], handler'[f].saved)
  BY <1>u DEF FilledInv
<1>s. ASSUME NEW rec \in OrderRec, order' = [order EXCEPT ![o] = rec],
             rec.filled <= order[o].filled, Bounded(o, rec), row' = row,
             \/ consumer'.pc # "save"
             \/ consumer'.order = o /\ consumer'.saved = rec
      PROVE  FilledInv'
  <2>1. order'[o] = rec /\ \A p \in Orders \ {o} : order'[p] = order[p]
    BY <1>s, <1>t DEF TypeOK
  <2>2. \A p \in Orders : order'[p].filled <= order[p].filled
    BY <1>s, <2>1, BoundedParts DEF OrderRec
  <2>3. \A p \in Orders : Bounded(p, order'[p]) /\ Bounded(p, row'[p])
    BY <1>s, <2>1, BoundedParts
  <2> QED BY <1>t, <1>u, <1>h, <1>s, <2>2, <2>3, RecordsKept
<1>k. ASSUME order' = order, NEW rec \in OrderRec, Bounded(o, rec),
             row' \in {row, [row EXCEPT ![o] = rec]}, consumer'.pc # "save"
      PROVE  FilledInv'
  <2>1. \A p \in Orders : Bounded(p, order'[p]) /\ Bounded(p, row'[p])
    BY <1>k, <1>t, BoundedParts DEF TypeOK
  <2>2. \A p \in Orders : order'[p].filled <= order[p].filled
    BY <1>k, BoundedParts DEF OrderRec
  <2> QED BY <1>t, <1>u, <1>h, <1>k, <2>1, <2>2, RecordsKept
<1>1. CASE TakeSignal(o)
  <2> DEFINE rec == [status |-> "pending", filled |-> 0]
  <2>1. rec \in OrderRec /\ rec.filled <= order[o].filled /\ Bounded(o, rec)
    BY <1>o DEF OrderRec, Status, Bounded
  <2>2. order' = [order EXCEPT ![o] = rec] /\ row' = row /\ consumer'.pc # "save"
    BY <1>1, <1>t DEF TakeSignal, TypeOK, Consumer
  <2> QED BY <1>s, <2>1, <2>2
<1>2. CASE SaveNew(o)
  <2>1. order' = order /\ row' \in {row, [row EXCEPT ![o] = order[o]]} /\ consumer'.pc # "save"
    BY <1>2, <1>t DEF SaveNew, ConsumerGoes, TypeOK, Consumer
  <2> QED BY <1>k, <1>o, <2>1
<1>3. CASE Reject(o) \/ AcceptAndRaise(o)
  <2> DEFINE rec == Rejected(o)
  <2>1. rec \in OrderRec /\ rec.filled <= order[o].filled /\ Bounded(o, rec)
    BY <1>o DEF OrderRec, Status, Bounded, Rejected
  <2>2. order' = [order EXCEPT ![o] = rec] /\ row' = row
    BY <1>3 DEF Reject, AcceptAndRaise
  <2>3. consumer'.order = o /\ consumer'.saved = rec
    BY <1>3, <1>t DEF Reject, AcceptAndRaise, Accepts, ConsumerSaves, TypeOK, Consumer
  <2> QED BY <1>s, <2>1, <2>2, <2>3
<1>4. CASE Accept(o)
  <2>1. order' = order /\ row' = row /\ consumer'.pc # "save"
    BY <1>4, <1>t DEF Accept, ConsumerGoes, TypeOK, Consumer
  <2> QED BY <1>k, <1>o, <2>1
<1>5. CASE Submitted(o)
  <2> DEFINE rec == [order[o] EXCEPT !.status = "submitted"]
  <2>1. rec \in OrderRec /\ rec.filled <= order[o].filled /\ Bounded(o, rec)
    BY <1>o DEF OrderRec, Status, Bounded
  <2>2. order' = [order EXCEPT ![o] = rec] /\ row' = row
    BY <1>5 DEF Submitted
  <2>3. order'[o] = rec
    BY <1>t, <2>2 DEF TypeOK
  <2>4. consumer'.order = o /\ consumer'.saved = rec
    BY <1>5, <1>t, <2>3 DEF Submitted, ConsumerSaves, TypeOK, Consumer
  <2> QED BY <1>s, <2>1, <2>2, <2>4
<1>6. CASE SaveOutcome(o)
  <2>1. consumer.pc = "save" /\ consumer.order = o
    BY <1>6 DEF SaveOutcome, ConsumerAt
  <2>2. Bounded(o, consumer.saved) /\ consumer.saved \in OrderRec
    BY <1>t, <2>1 DEF FilledInv, TypeOK, Consumer
  <2>3. /\ order' = order /\ consumer'.pc # "save"
        /\ row' \in {row, [row EXCEPT ![o] = consumer.saved]}
    BY <1>6 DEF SaveOutcome, Update, Resting
  <2> QED BY <1>k, <2>2, <2>3
<1> QED BY <1>1, <1>2, <1>3, <1>4, <1>5, <1>6 DEF ProcessSignal

\* The total a fill brings an order to is covered by the fills that have been seen.
LEMMA AfterBounded ==
  ASSUME FilledInv, NEW f \in Fills, f \notin processed, UNCHANGED trade,
         processed' = processed \cup {f}
  PROVE  After(f).filled <= Counted(f[1])' /\ Bounded(f[1], After(f))
<1> DEFINE o == f[1]
<1>1. o \in Orders /\ TypeOK
  BY OrderParts DEF FilledInv
<1>2. Counted(o)' = Counted(o) + trade[f]
  BY <1>1, CountedNew
<1>3. Counted(o)' <= Traded(o)
  <2>1. Counted(o)' <= Sum(Trades(o), 1 .. Quantity)
    <3> DEFINE t == Trades(o)
               seen == Seen(o)'
    <3>1. Counted(o)' = Sum(t, seen) /\ seen \in SUBSET (1 .. Quantity)
      <4>1. Trades(o)' = t
        BY DEF Trades
      <4> QED BY <4>1 DEF Counted, Seen
    <3>2. IsFiniteSet(1 .. Quantity) /\ \A n \in 1 .. Quantity : t[n] \in Nat
      BY <1>1, Terms
    <3> HIDE DEF t, seen
    <3>3. Counted(o)' <= Sum(t, 1 .. Quantity)
      BY <3>1, <3>2, SumSubset
    <3> QED BY <3>3 DEF t
  <2> QED BY <2>1, TradedIsSum
<1>4. /\ order[o].filled \in Nat /\ order[o].filled <= Counted(o)
      /\ Counted(o) \in Nat /\ Traded(o) \in Nat /\ Traded(o) <= Quantity
  BY <1>1, BoundedParts DEF OrderRec
<1>5. trade[f] \in Nat
  BY <1>1, QuantityAssumption DEF TypeOK
<1>6. After(f).filled = order[o].filled + trade[f]
      /\ (After(f).status = "filled" => After(f).filled >= Quantity)
  BY DEF After
<1> HIDE DEF o
<1>7. After(f).filled <= Counted(o)' /\ After(f).filled <= Traded(o)
  BY <1>2, <1>3, <1>4, <1>5, <1>6
<1>8. After(f).status = "filled" => Traded(o) = Quantity
  BY <1>3, <1>4, <1>5, <1>6, <1>7, QuantityAssumption
<1> QED BY <1>7, <1>8 DEF Bounded, o
LEMMA FillFilled ==
  ASSUME FilledInv, NEW f \in Fills, HandleFill(f)
  PROVE  FilledInv'
<1> DEFINE o == f[1]
<1>t. TypeOK /\ TypeOK' /\ o \in Orders
  BY FillTypes, OrderParts DEF FilledInv
<1>u. UNCHANGED <<trade, consumer>>
  BY DEF HandleFill, Arrive, ReadPosition, CreatePosition, DeletePosition, UpdatePosition,
         Written, RecordTransaction, PublishFill, HandlerRaises, PersistFill, broker, memory
<1>c. consumer'.pc = "save" =>
        consumer'.order \in Orders /\ Bounded(consumer'.order, consumer'.saved)
  BY <1>u DEF FilledInv
\* Steps that only move the handler on.
<1>m. ASSUME UNCHANGED <<order, processed, row>>, NEW h \in Handler,
             handler' = [handler EXCEPT ![f] = h],
             h.pc = "persist" => Bounded(o, h.saved)
      PROVE  FilledInv'
  <2>1. \A g \in Fills : handler'[g].pc = "persist" => Bounded(g[1], handler'[g].saved)
    BY <1>m, <1>t DEF FilledInv, TypeOK
  <2>2. \A p \in Orders : /\ order'[p].filled <= order[p].filled
                          /\ Bounded(p, order'[p]) /\ Bounded(p, row'[p])
    BY <1>m, BoundedParts DEF OrderRec
  <2> QED BY <1>t, <1>u, <1>c, <1>m, <2>1, <2>2, RecordsKept
<1>w. ASSUME Written(f) PROVE FilledInv'
  <2> DEFINE h == [handler[f] EXCEPT !.pc = "book"]
  <2>1. h \in Handler /\ h.pc = "book"
    BY ZenonT(30), <1>t DEF TypeOK, Handler
  <2>2. handler' = [handler EXCEPT ![f] = h] /\ UNCHANGED <<order, processed, row>>
    BY <1>w DEF Written, HandlerGoes, memory
  <2> HIDE DEF h
  <2> QED BY <1>m, <2>1, <2>2
<1>1. CASE Arrive(f) /\ Known(f)
  <2>1. /\ f \notin processed /\ processed' = processed \cup {f} /\ row' = row
        /\ order' = [order EXCEPT ![o] = After(f)]
        /\ handler' = [handler EXCEPT ![f].pc = "read"]
    BY <1>1 DEF Arrive, Known, Handle, HandlerGoes
  <2>2. After(f).filled <= Counted(o)' /\ Bounded(o, After(f))
    BY <1>u, <2>1, AfterBounded
  <2>3. order'[o] = After(f) /\ \A p \in Orders \ {o} : order'[p] = order[p]
    BY <1>t, <2>1 DEF TypeOK
  <2>4. \A p \in Orders : \/ order'[p].filled <= order[p].filled
                          \/ order'[p].filled <= Counted(p)'
    BY <2>2, <2>3, BoundedParts DEF OrderRec
  <2>5. \A p \in Orders : Bounded(p, order'[p]) /\ Bounded(p, row'[p])
    BY <2>1, <2>2, <2>3, BoundedParts
  <2>6. \A g \in Fills : handler'[g].pc = "persist" => Bounded(g[1], handler'[g].saved)
    BY <1>t, <2>1 DEF FilledInv, TypeOK, Handler
  <2> QED BY <1>t, <1>u, <1>c, <2>1, <2>4, <2>5, <2>6, RecordsKept
<1>2. CASE Arrive(f) /\ ~Known(f)
  <2>1. processed \subseteq processed' /\ UNCHANGED <<order, handler, row>>
    BY <1>2 DEF Arrive
  <2>2. \A p \in Orders : /\ order'[p].filled <= order[p].filled
                          /\ Bounded(p, order'[p]) /\ Bounded(p, row'[p])
    BY <2>1, BoundedParts DEF OrderRec
  <2>3. \A g \in Fills : handler'[g].pc = "persist" => Bounded(g[1], handler'[g].saved)
    BY <2>1 DEF FilledInv
  <2> QED BY <1>t, <1>u, <1>c, <2>1, <2>2, <2>3, RecordsKept
<1>3. CASE ReadPosition(f)
  <2>1. /\ handler' = [handler EXCEPT ![f] = handler'[f]] /\ handler'[f] \in Handler
        /\ handler'[f].pc # "persist"
    BY <1>3, <1>t DEF ReadPosition, TypeOK, Handler, Idle
  <2>2. UNCHANGED <<order, processed, row>>
    BY <1>3 DEF ReadPosition, memory
  <2> QED BY <1>m, <2>1, <2>2
<1>4. CASE CreatePosition(f) \/ DeletePosition(f)
  BY <1>4, <1>w DEF CreatePosition, DeletePosition
<1>5. CASE UpdatePosition(f)
  <2>1. CASE Len(position) <= 1
    BY <1>5, <1>w, <2>1 DEF UpdatePosition
  <2>2. CASE ~(Len(position) <= 1)
    <3>1. handler' = [handler EXCEPT ![f] = Idle] /\ UNCHANGED <<order, processed, row>>
      BY <1>5, <2>2 DEF UpdatePosition, memory
    <3> QED BY <1>m, <3>1, RestingTypes DEF Idle
  <2> QED BY <2>1, <2>2
<1>6. CASE RecordTransaction(f)
  <2> DEFINE h == [handler[f] EXCEPT !.pc = "publish"]
  <2>1. h \in Handler /\ h.pc = "publish"
    BY ZenonT(30), <1>t DEF TypeOK, Handler
  <2>2. handler' = [handler EXCEPT ![f] = h] /\ UNCHANGED <<order, processed, row>>
    BY <1>6 DEF RecordTransaction, HandlerGoes, memory
  <2> HIDE DEF h
  <2> QED BY <1>m, <2>1, <2>2
<1>7. CASE PublishFill(f)
  <2> DEFINE h == [handler[f] EXCEPT !.pc = "persist", !.saved = order[o]]
  <2>1. order[o] \in OrderRec /\ Bounded(o, order[o])
    BY <1>t, BoundedParts
  <2>2. h \in Handler /\ h.saved = order[o]
    BY ZenonT(30), <1>t, <2>1 DEF TypeOK, Handler
  <2>3. handler' = [handler EXCEPT ![f] = h] /\ UNCHANGED <<order, processed, row>>
    BY <1>7 DEF PublishFill, memory
  <2> HIDE DEF h
  <2> QED BY <1>m, <2>1, <2>2, <2>3
<1>8. CASE HandlerRaises(f)
  <2>1. handler' = [handler EXCEPT ![f] = Idle] /\ UNCHANGED <<order, processed, row>>
    BY <1>8 DEF HandlerRaises, memory
  <2> QED BY <1>m, <2>1, RestingTypes DEF Idle
<1>9. CASE PersistFill(f)
  <2>1. /\ handler[f].pc = "persist" /\ UNCHANGED <<order, processed>>
        /\ row' \in {row, [row EXCEPT ![o] = handler[f].saved]}
        /\ handler' = [handler EXCEPT ![f] = Idle]
    BY <1>9 DEF PersistFill, Update
  <2>2. Bounded(o, handler[f].saved)
    BY <2>1 DEF FilledInv
  <2>3. \A p \in Orders : /\ order'[p].filled <= order[p].filled
                          /\ Bounded(p, order'[p]) /\ Bounded(p, row'[p])
    <3> TAKE p \in Orders
    <3>1. row'[p] = row[p] \/ (p = o /\ row'[p] = handler[f].saved)
      BY <1>t, <2>1 DEF TypeOK
    <3>2. order[p].filled \in Nat /\ Bounded(p, order[p]) /\ Bounded(p, row[p])
      BY BoundedParts DEF OrderRec
    <3> QED BY <2>1, <2>2, <3>1, <3>2
  <2>4. \A g \in Fills : handler'[g].pc = "persist" => Bounded(g[1], handler'[g].saved)
    BY <1>t, <2>1 DEF FilledInv, TypeOK, Idle
  <2> QED BY <1>t, <1>u, <1>c, <2>1, <2>3, <2>4, RecordsKept
<1> QED BY <1>1, <1>2, <1>3, <1>4, <1>5, <1>6, <1>7, <1>8, <1>9 DEF HandleFill

\* Each fill of the broker adds to what it has executed, and stays within the order.
LEMMA BrokerFillTraded ==
  ASSUME FilledInv, NEW o \in Orders, BrokerFill(o), NEW p \in Orders
  PROVE  /\ Traded(p) <= Traded(p)' /\ Traded(p)' <= Quantity
         /\ Counted(p) <= Counted(p)'
<1>1. PICK n \in 1 .. Quantity, q \in 1 .. Quantity :
        /\ Traded(o) + q <= Quantity
        /\ \A m \in 1 .. Quantity : trade[<<o, m>>] = 0 <=> m >= n
        /\ trade' = [trade EXCEPT ![<<o, n>>] = q]
  BY DEF BrokerFill
<1>2. trade[<<o, n>>] = 0 /\ q \in Nat /\ n \in Nat
  BY <1>1, QuantityAssumption
<1> DEFINE t == Trades(p)
           u == Trades(p)'
<1>3. \A m \in 1 .. Quantity : t[m] = trade[<<p, m>>] /\ t[m] \in Nat
  BY Terms DEF FilledInv
<1>4. \A m \in 1 .. Quantity : u[m] = IF p = o /\ m = n THEN q ELSE t[m]
  <2>1. \A m \in 1 .. Quantity : <<p, m>> \in Fills /\ u[m] = trade'[<<p, m>>]
    BY DEF Fills, Trades
  <2>2. \A m \in 1 .. Quantity :
          trade'[<<p, m>>] = IF p = o /\ m = n THEN q ELSE trade[<<p, m>>]
    BY <1>1, <2>1 DEF FilledInv, TypeOK
  <2> QED BY <1>3, <2>1, <2>2
<1>6. IsFiniteSet(1 .. Quantity) /\ Seen(p) \in SUBSET (1 .. Quantity) /\ IsFiniteSet(Seen(p))
  BY Terms DEF FilledInv
<1>7. Seen(p)' = Seen(p)
  BY DEF BrokerFill, memory, Seen
<1>8. /\ Traded(p) = Sum(t, 1 .. Quantity) /\ Traded(p)' = Sum(u, 1 .. Quantity)
      /\ Counted(p) = Sum(t, Seen(p)) /\ Counted(p)' = Sum(u, Seen(p))
  BY <1>7, TradedIsSum DEF Counted
<1>9. Traded(p) \in Nat /\ Traded(p) <= Quantity
  BY BoundedParts
<1> HIDE DEF t, u
<1>5. \A m \in 1 .. Quantity : /\ t[m] \in Int /\ u[m] \in Int
                               /\ u[m] >= 0 /\ t[m] <= u[m]
  <2> TAKE m \in 1 .. Quantity
  <2>1. t[m] \in Nat /\ u[m] = IF p = o /\ m = n THEN q ELSE t[m]
    BY <1>3, <1>4
  <2>2. p = o /\ m = n => t[m] = 0
    BY <1>2, <1>3
  <2> QED BY <1>2, <2>1, <2>2
<1>10. \A S \in {1 .. Quantity, Seen(p)} : Sum(t, S) <= Sum(u, S)
  <2> TAKE S \in {1 .. Quantity, Seen(p)}
  <2>1. IsFiniteSet(S) /\ S \in SUBSET S
    BY <1>6
  <2>2. \A m \in S : t[m] \in Int /\ u[m] \in Int /\ u[m] >= 0 /\ t[m] <= u[m]
    <3> TAKE m \in S
    <3>1. m \in 1 .. Quantity
      BY <1>6
    <3> QED BY <1>5, <3>1
  <2> QED BY <2>1, <2>2, SumMonotone
<1>11. Sum(u, 1 .. Quantity) <= Quantity
  <2>1. CASE p = o
    <3>1. /\ \A m \in 1 .. Quantity : t[m] \in Int /\ u[m] \in Int
          /\ \A m \in 1 .. Quantity : m # n => t[m] = u[m]
      BY <1>4, <1>5
    <3>2. Sum(u, 1 .. Quantity) = (Sum(t, 1 .. Quantity) - t[n]) + u[n]
      <4> DEFINE S == 1 .. Quantity
      <4>1. n \in S /\ IsFiniteSet(S)
        BY <1>6
      <4>2. /\ \A m \in S : t[m] \in Int /\ u[m] \in Int
            /\ \A m \in S : m # n => t[m] = u[m]
        BY <3>1
      <4> HIDE DEF S
      <4>3. Sum(u, S) = (Sum(t, S) - t[n]) + u[n]
        BY ZenonT(30), <4>1, <4>2, SumChange
      <4> QED BY <4>3 DEF S
    <3>3. t[n] = 0 /\ u[n] = q
      BY <1>2, <1>3, <1>4, <2>1
    <3> QED BY <1>1, <1>2, <1>8, <1>9, <2>1, <3>2, <3>3
  <2>2. CASE p # o
    <3>1. Sum(t, 1 .. Quantity) = Sum(u, 1 .. Quantity)
      <4>1. \A m \in 1 .. Quantity : t[m] = u[m]
        BY <1>4, <2>2
      <4> QED BY <1>6, <4>1, SumAgree
    <3> QED BY <1>8, <1>9, <3>1
  <2> QED BY <2>1, <2>2
<1> QED BY <1>8, <1>10, <1>11
LEMMA BrokerFilled ==
  ASSUME FilledInv, NEW o \in Orders, BrokerFill(o)
  PROVE  FilledInv'
<1>1. TypeOK' /\ UNCHANGED <<order, processed, consumer, handler, row>>
  BY BrokerTypes DEF FilledInv, BrokerFill, memory
<1>2. ASSUME NEW p \in Orders
      PROVE  /\ Traded(p) <= Traded(p)' /\ Traded(p)' <= Quantity
             /\ Counted(p) <= Counted(p)'
             /\ {Traded(p), Traded(p)', Counted(p), Counted(p)'} \subseteq Nat
  BY <1>1, BrokerFillTraded, CountedBelowTraded, CountedNext DEF FilledInv
<1>3. ASSUME NEW p \in Orders, NEW rec \in OrderRec, Bounded(p, rec)
      PROVE  Bounded(p, rec)'
  <2>1. rec.filled \in Nat
    BY DEF OrderRec
  <2> QED BY <1>2, <1>3, <2>1, QuantityAssumption DEF Bounded
<1>4. \A p \in Orders : /\ Traded(p)' <= Quantity
                        /\ order'[p].filled <= Counted(p)'
                        /\ Bounded(p, order[p])' /\ Bounded(p, row[p])'
  <2> TAKE p \in Orders
  <2>1. order[p].filled \in Nat /\ order[p].filled <= Counted(p)
        /\ order[p] \in OrderRec /\ row[p] \in OrderRec
        /\ Bounded(p, order[p]) /\ Bounded(p, row[p])
    BY BoundedParts DEF OrderRec
  <2> QED BY <1>1, <1>2, <1>3, <2>1
<1>5. consumer'.pc = "save" =>
        consumer'.order \in Orders /\ Bounded(consumer.order, consumer.saved)'
  BY <1>1, <1>3 DEF FilledInv, TypeOK, Consumer
<1>6. \A f \in Fills : handler'[f].pc = "persist" => Bounded(f[1], handler[f].saved)'
  BY <1>1, <1>3, OrderParts DEF FilledInv, TypeOK, Handler
<1> QED BY <1>1, <1>4, <1>5, <1>6 DEF FilledInv

LEMMA FilledStep == FilledInv /\ [Next]_vars => FilledInv'
<1> SUFFICES ASSUME FilledInv, [Next]_vars PROVE FilledInv'
  OBVIOUS
<1>t. TypeOK'
  BY TypeStep DEF FilledInv
<1>1. ASSUME NEW o \in Orders, BrokerEnd(o) PROVE FilledInv'
  <2>1. UNCHANGED <<trade, order, processed, consumer, handler, row>>
    BY <1>1 DEF BrokerEnd, memory
  <2>2. \A p \in Orders : order'[p].filled <= order[p].filled
    BY <2>1, BoundedParts DEF OrderRec
  <2> QED BY <1>t, <2>1, <2>2, RecordsKept DEF FilledInv
<1>2. CASE UNCHANGED vars
  <2>1. UNCHANGED <<trade, order, processed, consumer, handler, row>>
    BY <1>2 DEF vars
  <2>2. \A p \in Orders : order'[p].filled <= order[p].filled
    BY <2>1, BoundedParts DEF OrderRec
  <2> QED BY <1>t, <2>1, <2>2, RecordsKept DEF FilledInv
<1>3. CASE Restart
  <2>1. /\ UNCHANGED <<trade, row>> /\ consumer'.pc = "idle"
        /\ \A p \in Orders : order'[p] = NoOrder
        /\ \A f \in Fills : handler'[f].pc = "idle"
    BY <1>3 DEF Restart, broker, Resting, Idle
  <2>2. ASSUME NEW p PROVE Traded(p)' = Traded(p)
    <3>1. Trades(p)' = Trades(p)
      BY <2>1 DEF Trades
    <3> QED BY <3>1, TradedIsSum
  <2>3. ASSUME NEW p \in Orders
        PROVE  Traded(p)' <= Quantity /\ order'[p].filled <= Counted(p)'
               /\ Bounded(p, order[p])' /\ Bounded(p, row[p])'
    <3>1. Counted(p)' \in Nat
      BY <1>t, CountedNext
    <3> QED BY <2>1, <2>2, <3>1, BoundedParts DEF Bounded, NoOrder
  <2> QED BY <1>t, <2>1, <2>3 DEF FilledInv
<1> QED BY <1>1, <1>2, <1>3, SignalFilled, FillFilled, BrokerFilled DEF Next

\* Whatever is lost, repeated, late or interrupted by a crash, in every environment:
\* no order, in memory or in its row, shows more than the broker has executed, none is
\* FILLED before that is all of it, and no fill is booked twice.
THEOREM OrdersAreSound == Spec => []OrdersSound
<1>1. FilledInv => FillsSound
  BY DEF FilledInv, FillsSound, Bounded
<1>2. FilledInv /\ OnceInv => OrdersSound
  <2>1. OnceInv => BookedOnce
    BY DEF OnceInv, FillOnce, Booked, BookedOnce
  <2> QED BY <1>1, <2>1 DEF OrdersSound, OnceInv
<1> QED BY <1>2, InitFilled, FilledStep, InitOnce, OnceStep, PTL DEF Spec

-----------------------------------------------------------------------------
(* The rows go forward as long as handlers do not overlap.                 *)

\* The row of an order not yet taken is empty; while the consumer has the order it is at
\* most pending; while the order is mapped its row is behind it, or empty; afterwards
\* nobody writes the row again.
RowInv(o) ==
  /\ o \notin taken => row[o] = NoOrder
  /\ consumer.order = o =>
       /\ consumer.pc # "idle" /\ row[o].status \in {"none", "pending"} /\ row[o].filled = 0
       /\ consumer.pc = "new" => row[o] = NoOrder
       /\ consumer.pc # "save" => o \notin mapped /\ order[o] = [status |-> "pending", filled |-> 0]
       /\ consumer.pc = "save" =>
            /\ consumer.saved = order[o] /\ order[o].filled = 0
            /\ order[o].status = "submitted" \/ (order[o].status = "rejected" /\ o \notin mapped)
  /\ o \in mapped =>
       /\ row[o].status \in {"none", "pending", "submitted", "partial"}
       /\ order[o].status \in {"submitted", "partial", "filled"}
       /\ row[o].status = "partial" => order[o].status # "submitted"
       /\ row[o].filled <= order[o].filled

\* A fill is handled only while its order is mapped and the consumer has left it, and what
\* its handler saves is the order.
Handling(f) ==
  handler[f].pc # "idle" =>
    /\ f[1] \in mapped /\ consumer.order # f[1]
    /\ handler[f].pc = "persist" => handler[f].saved = order[f[1]]

RowsInv ==
  /\ SerialInv
  /\ \A o \in Orders : RowInv(o)
  /\ \A f \in Fills : Handling(f)

\* What RowsGoForward says of a step and of one order.
RowForward(o) ==
  /\ Progress(row'[o].status) >= Progress(row[o].status)
  /\ row'[o].filled >= row[o].filled
  /\ row[o].status \in Terminal => row'[o] = row[o]

LEMMA InitRows == Init => RowsInv
  BY InitSerial, NoneAssumption DEF Init, RowsInv, RowInv, Handling, Resting, Idle

\* A row that is not written does not go back.
LEMMA SameRow ==
  ASSUME TypeOK, NEW o \in Orders, row'[o] = row[o]
  PROVE  RowForward(o)
<1>1. row[o].status \in Status /\ row[o].filled \in Nat
  BY DEF TypeOK, OrderRec
<1>2. Progress(row[o].status) \in Nat
  BY <1>1 DEF Progress, Status
<1> QED BY <1>1, <1>2 DEF RowForward

\* A step of process_signal changes only what concerns its order.
LEMMA OtherRows ==
  ASSUME RowsInv, NEW o \in Orders,
         UNCHANGED handler,
         \A p \in Orders \ {o} : /\ order'[p] = order[p] /\ row'[p] = row[p]
                                 /\ p \in mapped <=> p \in mapped'
                                 /\ p \in taken <=> p \in taken'
                                 /\ consumer'.order # p,
         o \notin taken \/ consumer.order = o,
         RowInv(o)', RowForward(o)
  PROVE  /\ \A p \in Orders : RowInv(p)' /\ RowForward(p)
         /\ \A f \in Fills : Handling(f)'
<1>1. ASSUME NEW p \in Orders \ {o} PROVE RowInv(p)' /\ RowForward(p)
  <2>1. RowInv(p) /\ TypeOK
    BY DEF RowsInv, SerialInv, OnceInv
  <2> QED BY <2>1, SameRow DEF RowInv
<1>2. ASSUME NEW f \in Fills PROVE Handling(f)'
  <2>1. CASE handler[f].pc = "idle"
    BY <2>1 DEF Handling
  <2>2. CASE handler[f].pc # "idle"
    <3>1. Handling(f) /\ f[1] \in Orders /\ mapped \subseteq taken
      BY OrderParts DEF RowsInv, SerialInv, OnceInv, Orderly
    <3>2. f[1] # o
      BY <2>2, <3>1 DEF Handling
    <3> QED BY <2>2, <3>1, <3>2 DEF Handling
  <2> QED BY <2>1, <2>2
<1> QED BY <1>1, <1>2

LEMMA SignalRows ==
  ASSUME RowsInv, NEW o \in Orders, ProcessSignal(o)
  PROVE  /\ \A p \in Orders : RowInv(p)' /\ RowForward(p)
         /\ \A f \in Fills : Handling(f)'
<1>t. /\ TypeOK /\ RowInv(o)
      /\ order \in [Orders -> OrderRec] /\ row \in [Orders -> OrderRec]
      /\ consumer \in Consumer /\ mapped \subseteq taken
  BY DEF RowsInv, SerialInv, OnceInv, TypeOK, Orderly
<1>p. consumer.pc = "idle" => \A p \in Orders : consumer.order # p
  BY DEF RowsInv, RowInv
<1>1. CASE TakeSignal(o)
  <2>1. /\ o \notin taken /\ taken' = taken \cup {o}
        /\ order'[o] = [status |-> "pending", filled |-> 0]
        /\ \A p \in Orders \ {o} : order'[p] = order[p]
        /\ UNCHANGED <<mapped, handler, row>>
    BY <1>1, <1>t DEF TakeSignal
  <2>2. consumer'.pc = "new" /\ consumer'.order = o
    BY <1>1, <1>t DEF TakeSignal, Consumer
  <2>3. RowInv(o)'
    BY <1>t, <2>1, <2>2 DEF RowInv, NoOrder
  <2>4. RowForward(o)
    BY <1>t, <2>1, SameRow
  <2> QED BY <2>1, <2>2, <2>3, <2>4, OtherRows
<1>2. CASE SaveNew(o)
  <2>1. /\ consumer.pc = "new" /\ consumer.order = o
        /\ UNCHANGED <<order, mapped, handler, taken>>
    BY <1>2 DEF SaveNew, ConsumerAt
  <2>2. consumer'.pc = "submit" /\ consumer'.order = o
    BY <1>2, <1>t DEF SaveNew, ConsumerGoes, Consumer
  <2>3. /\ row'[o] \in {row[o], order[o]}
        /\ \A p \in Orders \ {o} : row'[p] = row[p]
    BY <1>2, <1>t DEF SaveNew
  <2>4. /\ row[o] = NoOrder /\ o \notin mapped
        /\ order[o] = [status |-> "pending", filled |-> 0]
    BY <1>t, <2>1 DEF RowInv
  <2>5. o \in taken
    BY <1>t, <2>1, NoneAssumption DEF RowsInv, SerialInv, OnceInv, Orderly
  <2>6. RowInv(o)'
    BY <2>1, <2>2, <2>3, <2>4, <2>5 DEF RowInv, NoOrder
  <2>7. RowForward(o)
    BY <2>3, <2>4 DEF RowForward, NoOrder, Progress, Terminal
  <2> QED BY <2>1, <2>2, <2>3, <2>6, <2>7, OtherRows
<1>3. CASE Reject(o) \/ AcceptAndRaise(o)
  <2>1. /\ consumer.pc = "submit" /\ consumer.order = o
        /\ UNCHANGED <<mapped, handler, taken, row>>
        /\ order' = [order EXCEPT ![o] = Rejected(o)]
        /\ ConsumerSaves(Rejected(o))
    BY <1>3 DEF Reject, AcceptAndRaise, Accepts, ConsumerAt
  <2>2. consumer'.pc = "save" /\ consumer'.order = o /\ consumer'.saved = Rejected(o)
    BY <1>t, <2>1 DEF ConsumerSaves, Consumer
  <2>3. o \notin mapped /\ order[o] = [status |-> "pending", filled |-> 0]
    BY <1>t, <2>1 DEF RowInv
  <2>4. Rejected(o).status = "rejected" /\ Rejected(o).filled = 0
    BY <2>3 DEF Rejected
  <2>5. order'[o] = Rejected(o) /\ \A p \in Orders \ {o} : order'[p] = order[p]
    BY <1>t, <2>1
  <2>6. RowInv(o)'
    BY <1>t, <2>1, <2>2, <2>3, <2>4, <2>5 DEF RowInv
  <2>7. RowForward(o)
    BY <1>t, <2>1, SameRow
  <2> QED BY <2>1, <2>2, <2>5, <2>6, <2>7, OtherRows
<1>4. CASE Accept(o)
  <2>1. /\ consumer.pc = "submit" /\ consumer.order = o
        /\ UNCHANGED <<order, mapped, handler, taken, row>>
    BY <1>4 DEF Accept, Accepts, ConsumerAt
  <2>2. consumer'.pc = "waiting" /\ consumer'.order = o
    BY <1>4, <1>t DEF Accept, Accepts, ConsumerGoes, Consumer
  <2>3. RowInv(o)'
    BY <1>t, <2>1, <2>2 DEF RowInv
  <2>4. RowForward(o)
    BY <1>t, <2>1, SameRow
  <2> QED BY <2>1, <2>2, <2>3, <2>4, OtherRows
<1>5. CASE Submitted(o)
  <2>1. /\ consumer.pc = "waiting" /\ consumer.order = o
        /\ UNCHANGED <<handler, taken, row>>
        /\ order' = [order EXCEPT ![o].status = "submitted"]
        /\ mapped' = mapped \cup {o}
        /\ ConsumerSaves(order'[o])
    BY <1>5 DEF Submitted, ConsumerAt
  <2>2. consumer'.pc = "save" /\ consumer'.order = o /\ consumer'.saved = order'[o]
    BY <1>t, <2>1 DEF ConsumerSaves, Consumer
  <2>3. /\ order[o] = [status |-> "pending", filled |-> 0]
        /\ row[o].status \in {"none", "pending"} /\ row[o].filled = 0
    BY <1>t, <2>1 DEF RowInv
  <2>4. /\ order'[o].status = "submitted" /\ order'[o].filled = 0
        /\ \A p \in Orders \ {o} : order'[p] = order[p]
    BY <1>t, <2>1, <2>3
  <2>5. RowInv(o)'
    BY <1>t, <2>1, <2>2, <2>3, <2>4 DEF RowInv
  <2>6. RowForward(o)
    BY <1>t, <2>1, SameRow
  <2> QED BY <2>1, <2>2, <2>4, <2>5, <2>6, OtherRows
<1>6. CASE SaveOutcome(o)
  <2>1. /\ consumer.pc = "save" /\ consumer.order = o
        /\ UNCHANGED <<order, mapped, handler, taken>>
        /\ consumer'.order = None
    BY <1>6 DEF SaveOutcome, ConsumerAt, Resting
  <2>2. /\ consumer.saved = order[o] /\ order[o].filled = 0
        /\ row[o].status \in {"none", "pending"} /\ row[o].filled = 0
        /\ order[o].status = "submitted" \/ (order[o].status = "rejected" /\ o \notin mapped)
    BY <1>t, <2>1 DEF RowInv
  <2>3. /\ row'[o] \in {row[o], order[o]}
        /\ \A p \in Orders \ {o} : row'[p] = row[p]
    BY <1>6, <1>t, <2>2 DEF SaveOutcome, Update
  <2>4. o \in taken
    BY <1>t, <2>1, NoneAssumption DEF RowsInv, SerialInv, OnceInv, Orderly
  <2>5. RowInv(o)'
    BY <2>1, <2>2, <2>3, <2>4, NoneAssumption DEF RowInv
  <2>6. RowForward(o)
    BY <2>2, <2>3 DEF RowForward, Progress, Terminal
  <2> QED BY <2>1, <2>3, <2>5, <2>6, NoneAssumption, OtherRows
<1> QED BY <1>1, <1>2, <1>3, <1>4, <1>5, <1>6 DEF ProcessSignal

\* While a fill is handled no other is, and a step of its handler keeps the others' orders.
LEMMA OtherFills ==
  ASSUME RowsInv, NEW f \in Fills, NEW h \in Handler,
         handler[f].pc # "idle" \/ ~Busy,
         handler' = [handler EXCEPT ![f] = h],
         UNCHANGED <<consumer, taken>>,
         \A p \in Orders \ {f[1]} : /\ order'[p] = order[p] /\ row'[p] = row[p]
                                    /\ p \in mapped' <=> p \in mapped,
         h.pc # "idle" =>
           /\ f[1] \in mapped' /\ consumer.order # f[1]
           /\ h.pc = "persist" => h.saved = order'[f[1]],
         RowInv(f[1])', RowForward(f[1])
  PROVE  /\ \A p \in Orders : RowInv(p)' /\ RowForward(p)
         /\ \A g \in Fills : Handling(g)'
<1>1. ASSUME NEW p \in Orders \ {f[1]} PROVE RowInv(p)' /\ RowForward(p)
  <2>1. RowInv(p) /\ TypeOK
    BY DEF RowsInv, SerialInv, OnceInv
  <2> QED BY <2>1, SameRow DEF RowInv
<1>2. handler \in [Fills -> Handler]
  BY DEF RowsInv, SerialInv, OnceInv, TypeOK
<1>3. handler'[f] = h
  BY <1>2
<1>4. \A g \in Fills \ {f} : handler'[g].pc = "idle"
  BY <1>2 DEF RowsInv, SerialInv, SingleHandler, Busy
<1>5. ASSUME NEW g \in Fills PROVE Handling(g)'
  BY <1>3, <1>4 DEF Handling
<1> QED BY <1>1, <1>5

\* A handler that goes on without touching the orders or their rows.
LEMMA HandlerMoves ==
  ASSUME RowsInv, NEW f \in Fills, NEW h \in Handler, handler[f].pc # "idle",
         handler' = [handler EXCEPT ![f] = h],
         h.pc = "persist" => h.saved = order[f[1]],
         UNCHANGED <<consumer, taken, order, mapped, row>>
  PROVE  /\ \A p \in Orders : RowInv(p)' /\ RowForward(p)
         /\ \A g \in Fills : Handling(g)'
<1>1. f[1] \in Orders /\ RowInv(f[1]) /\ Handling(f) /\ TypeOK
  BY OrderParts DEF RowsInv, SerialInv, OnceInv
<1>2. RowInv(f[1])'
  BY <1>1 DEF RowInv
<1>3. RowForward(f[1])
  BY <1>1, SameRow
<1>4. f[1] \in mapped /\ consumer.order # f[1]
  BY <1>1 DEF Handling
<1> QED BY <1>2, <1>3, <1>4, OtherFills

LEMMA FillRows ==
  ASSUME RowsInv, "overlap" \notin Anomalies, NEW f \in Fills, HandleFill(f)
  PROVE  /\ \A p \in Orders : RowInv(p)' /\ RowForward(p)
         /\ \A g \in Fills : Handling(g)'
<1> DEFINE o == f[1]
<1>t. /\ TypeOK /\ o \in Orders /\ RowInv(o) /\ Handling(f)
      /\ order \in [Orders -> OrderRec] /\ row \in [Orders -> OrderRec]
      /\ handler \in [Fills -> Handler] /\ handler[f] \in Handler
      /\ order[o] \in OrderRec /\ row[o] \in OrderRec
      /\ mapped \subseteq taken
  BY OrderParts DEF RowsInv, SerialInv, OnceInv, TypeOK, Orderly
<1>1. CASE Arrive(f) /\ Known(f)
  <2>1. /\ ~Busy /\ ~(consumer.pc = "save" /\ consumer.order = o) /\ o \in mapped
        /\ order' = [order EXCEPT ![o] = After(f)]
        /\ UNCHANGED <<consumer, taken, mapped, row>>
    BY <1>1 DEF Arrive, CanArrive, ConsumerAt, Known, Handle
  <2>2. consumer.order # o
    BY <1>t, <2>1 DEF RowInv
  <2>3. /\ order'[o] = After(f) /\ \A p \in Orders \ {o} : order'[p] = order[p]
    BY <1>t, <2>1
  <2>4. After(f).status \in {"partial", "filled"} /\ After(f).filled >= order[o].filled
    BY <1>t DEF After, TypeOK, OrderRec
  <2>5. After(f).filled >= row[o].filled
    <3>1. row[o].filled <= order[o].filled
      BY <1>t, <2>1 DEF RowInv
    <3>2. row[o].filled \in Nat /\ order[o].filled \in Nat /\ After(f).filled \in Nat
      BY <1>t, QuantityAssumption DEF After, TypeOK, OrderRec
    <3> QED BY <2>4, <3>1, <3>2
  <2>6. RowInv(o)'
    BY <1>t, <2>1, <2>2, <2>3, <2>4, <2>5 DEF RowInv
  <2>7. RowForward(o)
    BY <1>t, <2>1, SameRow
  <2> DEFINE h == [handler[f] EXCEPT !.pc = "read"]
  <2>8. h \in Handler /\ h.pc = "read"
    BY <1>t DEF Handler
  <2>9. handler' = [handler EXCEPT ![f] = h]
    BY <1>1 DEF Arrive, Handle, HandlerGoes
  <2> HIDE DEF h
  <2> QED BY <2>1, <2>2, <2>3, <2>6, <2>7, <2>8, <2>9, OtherFills
<1>2. CASE Arrive(f) /\ ~Known(f)
  <2>1. UNCHANGED <<consumer, taken, mapped, row, order, handler>>
    BY <1>2 DEF Arrive
  <2> QED BY <1>t, <2>1, SameRow DEF RowsInv, RowInv, Handling
<1>3. CASE ReadPosition(f)
  <2>1. handler[f].pc = "read" /\ UNCHANGED <<consumer, taken, order, mapped, row>>
    BY <1>3 DEF ReadPosition, memory
  <2>2. CASE Len(position) = 0
    <3> DEFINE h == [handler[f] EXCEPT !.pc = "write", !.old = None]
    <3>1. h \in Handler /\ h.pc = "write"
      BY <1>t DEF Handler
    <3>2. handler' = [handler EXCEPT ![f] = h]
      BY <1>3, <2>2 DEF ReadPosition
    <3> HIDE DEF h
    <3> QED BY <2>1, <3>1, <3>2, HandlerMoves
  <2>3. CASE Len(position) = 1
    <3> DEFINE h == [handler[f] EXCEPT !.pc = "write", !.old = position[1]]
    <3>1. position[1] \in Int
      BY <1>t, <2>3, SingleRow
    <3>2. h \in Handler /\ h.pc = "write"
      BY <1>t, <3>1 DEF Handler
    <3>3. handler' = [handler EXCEPT ![f] = h]
      BY <1>3, <2>3 DEF ReadPosition
    <3> HIDE DEF h
    <3> QED BY <2>1, <3>2, <3>3, HandlerMoves
  <2>4. CASE Len(position) # 0 /\ Len(position) # 1
    <3>1. handler' = [handler EXCEPT ![f] = Idle]
      BY <1>3, <2>4 DEF ReadPosition
    <3>2. Idle \in Handler /\ Idle.pc = "idle"
      BY RestingTypes DEF Idle
    <3> QED BY <2>1, <3>1, <3>2, HandlerMoves
  <2> QED BY <2>2, <2>3, <2>4
<1>4. CASE CreatePosition(f) \/ DeletePosition(f) \/ (UpdatePosition(f) /\ Len(position) <= 1)
  <2> DEFINE h == [handler[f] EXCEPT !.pc = "book"]
  <2>1. handler[f].pc = "write" /\ Written(f)
    BY <1>4 DEF CreatePosition, DeletePosition, UpdatePosition
  <2>2. UNCHANGED <<consumer, taken, order, mapped, row>>
    BY <2>1 DEF Written, memory
  <2>3. h \in Handler /\ h.pc = "book"
    BY <1>t DEF Handler
  <2>4. handler' = [handler EXCEPT ![f] = h]
    BY <2>1 DEF Written, HandlerGoes
  <2> HIDE DEF h
  <2> QED BY <2>1, <2>2, <2>3, <2>4, HandlerMoves
<1>5. CASE HandlerRaises(f) \/ (UpdatePosition(f) /\ ~(Len(position) <= 1))
  <2>1. /\ handler' = [handler EXCEPT ![f] = Idle] /\ handler[f].pc # "idle"
        /\ UNCHANGED <<consumer, taken, order, mapped, row>>
    BY <1>5 DEF HandlerRaises, UpdatePosition, memory
  <2>2. Idle \in Handler /\ Idle.pc = "idle"
    BY RestingTypes DEF Idle
  <2> QED BY <2>1, <2>2, HandlerMoves
<1>6. CASE RecordTransaction(f)
  <2> DEFINE h == [handler[f] EXCEPT !.pc = "publish"]
  <2>1. h \in Handler /\ h.pc = "publish"
    BY <1>t DEF Handler
  <2>2. /\ handler' = [handler EXCEPT ![f] = h] /\ handler[f].pc # "idle"
        /\ UNCHANGED <<consumer, taken, order, mapped, row>>
    BY <1>6 DEF RecordTransaction, HandlerGoes, memory
  <2> HIDE DEF h
  <2> QED BY <2>1, <2>2, HandlerMoves
<1>7. CASE PublishFill(f)
  <2> DEFINE h == [handler[f] EXCEPT !.pc = "persist", !.saved = order[f[1]]]
  <2>1. h \in Handler /\ h.saved = order[f[1]]
    BY <1>t DEF Handler
  <2>2. /\ handler' = [handler EXCEPT ![f] = h] /\ handler[f].pc # "idle"
        /\ UNCHANGED <<consumer, taken, order, mapped, row>>
    BY <1>7 DEF PublishFill, memory
  <2> HIDE DEF h
  <2> QED BY <2>1, <2>2, HandlerMoves
<1>8. CASE PersistFill(f)
  <2>1. /\ handler[f].pc = "persist" /\ handler' = [handler EXCEPT ![f] = Idle]
        /\ UNCHANGED <<consumer, taken, order>>
        /\ mapped' = IF order[o].status = "filled" THEN mapped \ {o} ELSE mapped
    BY <1>8 DEF PersistFill
  <2>2. /\ o \in mapped /\ o \in taken /\ consumer.order # o
        /\ handler[f].saved = order[o]
    BY <1>t, <2>1 DEF Handling
  <2>3. /\ row'[o] = row[o] \/ (row[o].status # "none" /\ row'[o] = order[o])
        /\ \A p \in Orders \ {o} : row'[p] = row[p]
    BY <1>8, <1>t, <2>2 DEF PersistFill, Update
  <2>4. /\ row[o].status \in {"none", "pending", "submitted", "partial"}
        /\ order[o].status \in {"submitted", "partial", "filled"}
        /\ row[o].status = "partial" => order[o].status # "submitted"
        /\ row[o].filled <= order[o].filled
        /\ row[o].filled \in Nat /\ order[o].filled \in Nat
    BY <1>t, <2>2 DEF RowInv, OrderRec
  <2>5. RowInv(o)'
    BY <2>1, <2>2, <2>3, <2>4 DEF RowInv
  <2>6. RowForward(o)
    <3>1. CASE row'[o] = row[o]
      BY <1>t, <3>1, SameRow
    <3>2. CASE row'[o] = order[o]
      BY <2>4, <3>2 DEF RowForward, Progress, Terminal
    <3> QED BY <2>3, <3>1, <3>2
  <2>7. Idle \in Handler /\ Idle.pc = "idle"
    BY RestingTypes DEF Idle
  <2>8. \A p \in Orders \ {o} : /\ order'[p] = order[p] /\ row'[p] = row[p]
                                /\ p \in mapped' <=> p \in mapped
    BY <2>1, <2>3
  <2>9. handler[f].pc # "idle" /\ UNCHANGED <<consumer, taken>>
    BY <2>1
  <2> QED BY <2>1, <2>5, <2>6, <2>7, <2>8, <2>9, OtherFills
<1> QED BY <1>1, <1>2, <1>3, <1>4, <1>5, <1>6, <1>7, <1>8 DEF HandleFill

LEMMA RowsStep ==
  ASSUME "overlap" \notin Anomalies, RowsInv, [Next]_vars
  PROVE  RowsInv' /\ \A o \in Orders : RowForward(o)
<1>s. SerialInv' /\ TypeOK
  BY SerialStep DEF RowsInv, SerialInv, OnceInv
<1>1. CASE UNCHANGED <<order, mapped, consumer, handler, row, taken>>
  BY <1>1, <1>s, SameRow DEF RowsInv, RowInv, Handling
<1>2. CASE Restart
  <2>1. /\ UNCHANGED <<row, taken>> /\ mapped' = {} /\ consumer'.order = None
        /\ \A f \in Fills : handler'[f].pc = "idle"
    BY <1>2 DEF Restart, Resting, Idle
  <2> QED BY <1>s, <2>1, SameRow, NoneAssumption DEF RowsInv, RowInv, Handling
<1>3. ASSUME NEW o \in Orders, ProcessSignal(o) PROVE RowsInv' /\ \A p \in Orders : RowForward(p)
  BY <1>3, <1>s, SignalRows DEF RowsInv
<1>4. ASSUME NEW f \in Fills, HandleFill(f) PROVE RowsInv' /\ \A p \in Orders : RowForward(p)
  BY <1>4, <1>s, FillRows DEF RowsInv
<1>5. ASSUME NEW o \in Orders, BrokerFill(o) \/ BrokerEnd(o)
      PROVE  UNCHANGED <<order, mapped, consumer, handler, row, taken>>
  BY <1>5 DEF BrokerFill, BrokerEnd, memory
<1>6. CASE UNCHANGED vars
  BY <1>1, <1>6 DEF vars
<1> QED BY <1>1, <1>2, <1>3, <1>4, <1>5, <1>6 DEF Next

\* As long as handlers do not overlap, the row of an order only goes forward, its last
\* state is final and no recorded fill is taken back, whatever is lost, repeated, fails
\* or is interrupted by a crash (update_order, manager.py).
THEOREM RowsOnlyGoForward ==
  ASSUME "overlap" \notin Anomalies
  PROVE  Spec => RowsGoForward
<1>1. RowsInv /\ [Next]_vars => RowsInv'
  BY RowsStep
<1>2. RowsInv /\ [Next]_vars => [\A o \in Orders : RowForward(o)]_vars
  BY RowsStep
<1>3. [\A o \in Orders : RowForward(o)]_vars <=>
        [\A o \in Orders : /\ Progress(row'[o].status) >= Progress(row[o].status)
                           /\ row'[o].filled >= row[o].filled
                           /\ row[o].status \in Terminal => row'[o] = row[o]]_vars
  BY DEF RowForward
<1> QED BY <1>1, <1>2, <1>3, InitRows, PTL DEF Spec, RowsGoForward


-----------------------------------------------------------------------------
(* The inductive invariant of the alerts: the types, the shape of a process *)
(* by what it is doing, and per key where its alert is and what is on       *)
(* record of its deliveries.                                                *)

Persisting == {"select", "insert", "update"}
Trying == {"record", "send", "sent", "failed", "unsure"}
Statuses3 == {"pending", "sent", "failed"}
Outcomes == {"none", "pending", "done", "dropped", "abandoned"}

\* What may be left of an alert's destinations.
Lefts == {<<>>, <<"webhook">>, <<"email", "webhook">>,
          <<Absent>>, <<Absent, "webhook">>, <<Absent, "email", "webhook">>}

ProcessRec ==
  [at : Place, alert : Alert \union {Absent}, send : BOOLEAN, row : Keys \union {Absent}, left : Lefts,
   attempt : 1 .. MaxRetries, result : {"none", "new", "duplicate", "raised"}]

TypesInv ==
  /\ rows \in [Keys -> {Absent} \union [sev : 1 .. 3, suppressed : Nat]]
  /\ attempts \in [Keys -> [Destinations -> Seq(Statuses3)]]
  /\ queue \in Seq(Alert) /\ Len(queue) <= QueueSize
  /\ proc \in [Processes -> ProcessRec]
  /\ aborted \subseteq Sessions /\ calls \in 0 .. MaxCalls /\ failures \in 0 .. MaxFailures
  /\ handed \in [Keys -> Nat] /\ duplicates \in [Keys -> Nat]
  /\ accepted \in [Keys -> [Destinations -> Nat]] /\ unrecorded \in [Keys -> [Destinations -> Nat]]
  /\ outcome \in [Keys -> Outcomes]

Shape(p) ==
  /\ proc[p].at \in {"idle", "enqueue"} => proc[p].left = <<>>
  /\ proc[p].at \in {"next"} \union Trying => proc[p].left # <<>>
  /\ proc[p].at \in Trying => Head(proc[p].left) \in Destinations
  /\ proc[p].at # "idle" => proc[p].alert \in Alert
  /\ proc[p].at \in Persisting =>
       IF p \in Workers
         THEN /\ proc[p].row = FailedKey /\ proc[p].left # <<>> /\ Key(p) # FailedKey
              /\ proc[p].alert.sev = 1
         ELSE proc[p].row = Key(p) /\ proc[p].left = <<>>
  /\ proc[p].at = "update" => rows[proc[p].row] # Absent
  /\ p \in Checkers => proc[p].at \in {"idle"} \union Persisting /\ ~proc[p].send
  /\ p \in Workers => proc[p].at # "enqueue"
  /\ p \in Callers => proc[p].attempt = 1

Delivering(k) == {p \in Processes : proc[p].left # <<>> /\ Key(p) = k}
Entering(k) == {p \in Processes : proc[p].at = "enqueue" /\ Key(p) = k}
Waiting(k) == {i \in DOMAIN queue : queue[i].key = k}
Untried(k) == \A d \in Destinations : attempts[k][d] = <<>> /\ accepted[k][d] = 0

\* Where the alert of a key is, one place at most.
PlaceInv(k) ==
  /\ handed[k] <= 1
  /\ handed[k] = 0 => outcome[k] = "none" /\ Delivering(k) = {} /\ Waiting(k) = {} /\ Untried(k)
  /\ Entering(k) # {} => handed[k] = 0
  /\ rows[k] = Absent => handed[k] = 0 /\ Entering(k) = {}
  /\ \A p, q \in Entering(k) : p = q
  /\ \A p \in Entering(k) : rows[k].sev = proc[p].alert.sev
  /\ \A p, q \in Delivering(k) : p = q
  /\ \A p \in Delivering(k) : rows[k].sev = proc[p].alert.sev /\ outcome[k] = "pending" /\ Waiting(k) = {}
  /\ \A i, j \in Waiting(k) : i = j
  /\ \A i \in Waiting(k) : rows[k].sev = queue[i].sev /\ outcome[k] = "pending" /\ Untried(k)
  /\ outcome[k] = "pending" => Waiting(k) # {} \/ Delivering(k) # {}
  /\ outcome[k] = "dropped" => rows[k].sev # 1

\* The attempts on record.
AttemptsInv(k, d) ==
  LET tries == attempts[k][d] IN
  /\ Len(tries) <= MaxRetries
  /\ \A i \in 1 .. Len(tries) - 1 : tries[i] = "failed"
  /\ (\E i \in 1 .. Len(tries) : tries[i] = "sent") => accepted[k][d] > 0
  /\ accepted[k][d] <= 1 + unrecorded[k][d]

\* Where the attempts of the alert being delivered stand.
StageInv(p, k) ==
  /\ \A i \in 2 .. Len(proc[p].left) : attempts[k][proc[p].left[i]] = <<>> /\ accepted[k][proc[p].left[i]] = 0
  /\ proc[p].at \in Trying =>
       LET tries == attempts[k][Head(proc[p].left)]
           sends == accepted[k][Head(proc[p].left)]
           lost == unrecorded[k][Head(proc[p].left)] IN
       IF proc[p].at = "record"
         THEN Len(tries) = proc[p].attempt - 1 /\ (\A i \in 1 .. Len(tries) : tries[i] = "failed") /\ sends <= lost
         ELSE /\ Len(tries) = proc[p].attempt /\ tries[Len(tries)] = "pending"
              /\ IF proc[p].at = "sent" THEN sends > 0 ELSE sends <= lost

\* A critical alert given up on is reported, is being reported, or was abandoned.
ReportedInv(k) ==
  rows[k] # Absent /\ rows[k].sev = 1
    /\ (\E d \in Destinations : Len(attempts[k][d]) = MaxRetries /\ attempts[k][d][MaxRetries] = "failed")
  => \/ rows[FailedKey] # Absent \/ MaxRetries = 1 \/ outcome[k] = "abandoned"
     \/ \E p \in Delivering(k) : p \in Workers /\ proc[p].at \in Persisting

KeyInv(k) ==
  /\ PlaceInv(k) /\ ReportedInv(k)
  /\ \A d \in Destinations : AttemptsInv(k, d)
  /\ \A p \in Delivering(k) : StageInv(p, k)

CountInv(k) ==
  IF rows[k] = Absent THEN duplicates[k] = 0 ELSE rows[k].suppressed = duplicates[k]

AlertsInv ==
  /\ TypesInv
  /\ \A p \in Processes : Shape(p)
  /\ \A k \in Keys : CountInv(k)
  /\ \A k \in Keys \ RecoveryKeys : KeyInv(k)

-----------------------------------------------------------------------------
LEMMA LeftsParts ==
  ASSUME NEW l \in Lefts
  PROVE  /\ Len(l) \in Nat /\ l \in Seq({Absent, "email", "webhook"})
         /\ l # <<>> => Len(l) >= 1 /\ Tail(l) \in Lefts /\ Len(Tail(l)) = Len(l) - 1
         /\ \A i \in 2 .. Len(l) : l[i] \in Destinations /\ l[i] # Head(l)
         /\ Len(l) > 1 => Tail(l) # <<>> /\ Head(Tail(l)) = l[2] /\ 2 \in 2 .. Len(l)
                          /\ \A i \in 2 .. Len(Tail(l)) : /\ i + 1 \in 2 .. Len(l)
                                                          /\ Tail(l)[i] = l[i + 1]
<1>1. CASE l = <<>>
  BY <1>1
<1>2. CASE l = <<"webhook">> \/ l = <<Absent>>
  <2>1. PICK a \in {Absent, "email", "webhook"} : l = <<a>>
    BY <1>2
  <2>2. Len(l) = 1 /\ Tail(l) = <<>>
    BY <2>1
  <2> QED BY <2>1, <2>2 DEF Lefts
<1>3. CASE l = <<"email", "webhook">> \/ l = <<Absent, "webhook">>
  <2>1. PICK a \in {Absent, "email"} : l = <<a, "webhook">>
    BY <1>3
  <2>2. Len(l) = 2 /\ Tail(l) = <<"webhook">> /\ l[2] = "webhook" /\ Head(l) = a
    BY <2>1
  <2>3. a # "webhook"
    BY <2>1, AbsentAssumption DEF Destinations
  <2> QED BY <2>1, <2>2, <2>3 DEF Lefts, Destinations
<1>4. CASE l = <<Absent, "email", "webhook">>
  <2>1. Len(l) = 3 /\ Tail(l) = <<"email", "webhook">> /\ l[2] = "email" /\ l[3] = "webhook" /\ Head(l) = Absent
    BY <1>4
  <2>2. Absent # "email" /\ Absent # "webhook"
    BY AbsentAssumption DEF Destinations
  <2>3. \A i \in 2 .. Len(l) : i = 2 \/ i = 3
    BY <2>1
  <2> QED BY <1>4, <2>1, <2>2, <2>3 DEF Lefts, Destinations
<1> QED BY <1>1, <1>2, <1>3, <1>4 DEF Lefts

LEMMA Prefixed == \A a, b, c : <<a>> \o <<b>> = <<a, b>> /\ <<a>> \o <<b, c>> = <<a, b, c>>
<1> SUFFICES ASSUME NEW a, NEW b, NEW c PROVE <<a>> \o <<b>> = <<a, b>> /\ <<a>> \o <<b, c>> = <<a, b, c>>
  OBVIOUS
<1>1. <<a>> \in Seq({a, b, c}) /\ <<b>> \in Seq({a, b, c}) /\ <<b, c>> \in Seq({a, b, c})
      /\ <<a, b>> \in Seq({a, b, c}) /\ <<a, b, c>> \in Seq({a, b, c})
  OBVIOUS
<1>2. <<a>> \o <<b>> = <<a, b>>
  <2> DEFINE s == <<a>> \o <<b>>
  <2>1. s \in Seq({a, b, c}) /\ Len(s) = 2 /\ s[1] = a /\ s[2] = b
    BY <1>1, ConcatProperties
  <2> HIDE DEF s
  <2>2. s = <<a, b>>
    BY <1>1, <2>1, SeqEqual
  <2> QED BY <2>2 DEF s
<1>3. <<a>> \o <<b, c>> = <<a, b, c>>
  <2> DEFINE s == <<a>> \o <<b, c>>
  <2>1. s \in Seq({a, b, c}) /\ Len(s) = 3 /\ s[1] = a /\ s[2] = b /\ s[3] = c
    BY <1>1, ConcatProperties
  <2> HIDE DEF s
  <2>2. s = <<a, b, c>>
    BY <1>1, <2>1, SeqEqual
  <2> QED BY <2>2 DEF s
<1> QED BY <1>2, <1>3

LEMMA DestinationsForIs ==
  ASSUME NEW a \in Alert
  PROVE  /\ DestinationsFor(a) \in Lefts /\ <<Absent>> \o DestinationsFor(a) \in Lefts
         /\ (<<Absent>> \o DestinationsFor(a)) # <<>> /\ Head(<<Absent>> \o DestinationsFor(a)) = Absent
         /\ a.sev = 1 => DestinationsFor(a) # <<>> /\ Head(DestinationsFor(a)) \in Destinations
<1>1. a.sev = 1 \/ a.sev = 2 \/ a.sev = 3
  BY DEF Alert
<1>2. CASE a.sev = 1
  <2>1. DestinationsFor(a) = <<"email", "webhook">>
    BY <1>2 DEF DestinationsFor
  <2>2. <<Absent>> \o DestinationsFor(a) = <<Absent, "email", "webhook">>
    BY <2>1, Prefixed
  <2> QED BY <2>1, <2>2 DEF Lefts, Destinations
<1>3. CASE a.sev = 2
  <2>1. DestinationsFor(a) = <<"webhook">>
    BY <1>3 DEF DestinationsFor
  <2>2. <<Absent>> \o DestinationsFor(a) = <<Absent, "webhook">>
    BY <2>1, Prefixed
  <2> QED BY <1>3, <2>1, <2>2 DEF Lefts, Destinations
<1>4. CASE a.sev = 3
  <2>1. DestinationsFor(a) = <<>>
    BY <1>4 DEF DestinationsFor
  <2>2. <<Absent>> \o DestinationsFor(a) = <<Absent>>
    BY <2>1
  <2> QED BY <1>4, <2>1, <2>2 DEF Lefts, Destinations
<1> QED BY <1>1, <1>2, <1>3, <1>4

RowsGrow(k) == rows[k] # Absent => rows'[k] # Absent /\ rows'[k].sev = rows[k].sev

LEMMA PlaceKept ==
  ASSUME NEW k \in Keys, PlaceInv(k), RowsGrow(k),
         handed'[k] = handed[k], outcome'[k] = outcome[k],
         Delivering(k)' = Delivering(k), Entering(k)' = Entering(k), Waiting(k)' = Waiting(k),
         \A p \in Delivering(k) \union Entering(k) : proc'[p].alert = proc[p].alert,
         \A i \in Waiting(k) : queue'[i] = queue[i],
         Delivering(k) = {} => attempts'[k] = attempts[k] /\ accepted'[k] = accepted[k]
  PROVE  PlaceInv(k)'
<1>1. /\ Delivering(k) = {} /\ Untried(k) => Untried(k)'
      /\ handed[k] = 0 \/ Waiting(k) # {} => Delivering(k) = {}
  BY DEF PlaceInv, Untried
<1>2. rows'[k] = Absent => rows[k] = Absent
  BY DEF RowsGrow
<1>3. rows[k] # Absent => rows'[k].sev = rows[k].sev
  BY DEF RowsGrow
<1>4. /\ handed[k] # 0 => rows[k] # Absent /\ Entering(k) = {}
      /\ Entering(k) # {} => rows[k] # Absent
  BY DEF PlaceInv
<1>5. Delivering(k) # {} \/ Waiting(k) # {} \/ outcome[k] # "none" => rows[k] # Absent
  BY DEF PlaceInv
<1> HIDE DEF RowsGrow, Delivering, Entering, Waiting
<1>6. /\ handed'[k] <= 1
      /\ handed'[k] = 0 => outcome'[k] = "none" /\ Delivering(k)' = {} /\ Waiting(k)' = {} /\ Untried(k)'
      /\ Entering(k)' # {} => handed'[k] = 0
      /\ rows'[k] = Absent => handed'[k] = 0 /\ Entering(k)' = {}
  BY <1>1, <1>2 DEF PlaceInv
<1>7. /\ \A p, q \in Entering(k)' : p = q
      /\ \A p \in Entering(k)' : rows'[k].sev = proc'[p].alert.sev
      /\ \A p, q \in Delivering(k)' : p = q
      /\ \A p \in Delivering(k)' : rows'[k].sev = proc'[p].alert.sev /\ outcome'[k] = "pending" /\ Waiting(k)' = {}
  BY <1>3, <1>4, <1>5 DEF PlaceInv
<1>8. /\ \A i, j \in Waiting(k)' : i = j
      /\ \A i \in Waiting(k)' : rows'[k].sev = queue'[i].sev /\ outcome'[k] = "pending" /\ Untried(k)'
      /\ outcome'[k] = "pending" => Waiting(k)' # {} \/ Delivering(k)' # {}
      /\ outcome'[k] = "dropped" => rows'[k].sev # 1
  BY <1>1, <1>3, <1>5 DEF PlaceInv
<1> QED BY <1>6, <1>7, <1>8 DEF PlaceInv

LEMMA KeyKept ==
  ASSUME NEW k \in Keys, KeyInv(k), RowsGrow(k), rows[FailedKey] # Absent => rows'[FailedKey] # Absent,
         handed'[k] = handed[k], outcome'[k] = outcome[k],
         attempts'[k] = attempts[k], accepted'[k] = accepted[k], unrecorded'[k] = unrecorded[k],
         Delivering(k)' = Delivering(k), Entering(k)' = Entering(k), Waiting(k)' = Waiting(k),
         \A p \in Delivering(k) \union Entering(k) : proc'[p] = proc[p],
         \A i \in Waiting(k) : queue'[i] = queue[i]
  PROVE  KeyInv(k)'
<1>1. PlaceInv(k)'
  BY PlaceKept DEF KeyInv
<1>2. \A d \in Destinations : AttemptsInv(k, d)'
  BY DEF KeyInv, AttemptsInv
<1>3. \A p \in Delivering(k)' : StageInv(p, k)'
  <2>1. SUFFICES ASSUME NEW p \in Delivering(k) PROVE StageInv(p, k)'
    OBVIOUS
  <2>2. StageInv(p, k) /\ proc'[p] = proc[p]
    BY <2>1 DEF KeyInv
  <2> QED BY <2>2 DEF StageInv
<1>4. ReportedInv(k)'
  <2>1. rows[k] # Absent /\ rows[k].sev = 1
          /\ (\E d \in Destinations : Len(attempts[k][d]) = MaxRetries /\ attempts[k][d][MaxRetries] = "failed")
        => \/ rows[FailedKey] # Absent \/ MaxRetries = 1 \/ outcome[k] = "abandoned"
           \/ \E p \in Delivering(k) : p \in Workers /\ proc[p].at \in Persisting
    BY DEF KeyInv, ReportedInv
  <2>2. CASE rows[k] # Absent
    BY <2>1, <2>2 DEF ReportedInv, RowsGrow
  <2>3. CASE rows[k] = Absent
    <3>1. \A d \in Destinations : attempts[k][d] = <<>>
      BY <2>3 DEF KeyInv, PlaceInv, Untried
    <3>2. MaxRetries # 0
      BY BoundsAssumption
    <3> QED BY <3>1, <3>2 DEF ReportedInv
  <2> QED BY <2>2, <2>3
<1> QED BY <1>1, <1>2, <1>3, <1>4 DEF KeyInv

LEMMA SetProc ==
  ASSUME TypesInv, NEW p \in Processes, NEW r, Set(p, r)
  PROVE  /\ proc'[p] = r /\ \A q \in Processes : q # p => proc'[q] = proc[q]
         /\ \A k \in Keys :
              /\ Delivering(k)' = IF r.left # <<>> /\ r.alert.key = k THEN Delivering(k) \union {p}
                                  ELSE Delivering(k) \ {p}
              /\ Entering(k)' = IF r.at = "enqueue" /\ r.alert.key = k THEN Entering(k) \union {p}
                                ELSE Entering(k) \ {p}
<1>1. proc'[p] = r /\ \A q \in Processes : q # p => proc'[q] = proc[q]
  BY DEF TypesInv, Set
<1>2. ASSUME NEW k \in Keys
      PROVE  /\ Delivering(k)' = IF r.left # <<>> /\ r.alert.key = k THEN Delivering(k) \union {p}
                                 ELSE Delivering(k) \ {p}
             /\ Entering(k)' = IF r.at = "enqueue" /\ r.alert.key = k THEN Entering(k) \union {p}
                               ELSE Entering(k) \ {p}
  <2>1. \A q \in Processes : q \in Delivering(k)' <=> proc'[q].left # <<>> /\ proc'[q].alert.key = k
    BY DEF Delivering, Key
  <2>2. \A q \in Processes : q \in Delivering(k) <=> proc[q].left # <<>> /\ proc[q].alert.key = k
    BY DEF Delivering, Key
  <2>3. \A q \in Processes : q \in Entering(k)' <=> proc'[q].at = "enqueue" /\ proc'[q].alert.key = k
    BY DEF Entering, Key
  <2>4. \A q \in Processes : q \in Entering(k) <=> proc[q].at = "enqueue" /\ proc[q].alert.key = k
    BY DEF Entering, Key
  <2>5. /\ Delivering(k)' \subseteq Processes /\ Delivering(k) \subseteq Processes
        /\ Entering(k)' \subseteq Processes /\ Entering(k) \subseteq Processes
    BY DEF Delivering, Entering
  <2> HIDE DEF Delivering, Entering
  <2>6. Delivering(k)' = IF r.left # <<>> /\ r.alert.key = k THEN Delivering(k) \union {p} ELSE Delivering(k) \ {p}
    BY <1>1, <2>1, <2>2, <2>5
  <2>7. Entering(k)' = IF r.at = "enqueue" /\ r.alert.key = k THEN Entering(k) \union {p} ELSE Entering(k) \ {p}
    BY <1>1, <2>3, <2>4, <2>5
  <2> QED BY <2>6, <2>7
<1> QED BY <1>1, <1>2

LEMMA QueueKept == ASSUME UNCHANGED queue, NEW k
                   PROVE  Waiting(k)' = Waiting(k) /\ \A i \in Waiting(k) : queue'[i] = queue[i]
  BY DEF Waiting

\* What a step needs to be, of the database, to leave a key alone.
Spared(k) ==
  /\ RowsGrow(k) /\ (rows[FailedKey] # Absent => rows'[FailedKey] # Absent)
  /\ handed'[k] = handed[k] /\ outcome'[k] = outcome[k]
  /\ attempts'[k] = attempts[k] /\ accepted'[k] = accepted[k] /\ unrecorded'[k] = unrecorded[k]

LEMMA AsideKept ==
  ASSUME TypesInv, NEW k \in Keys, KeyInv(k), NEW p \in Processes, NEW r, Set(p, r), UNCHANGED queue, Spared(k),
         p \notin Delivering(k), p \notin Entering(k), r.alert.key = k => r.left = <<>> /\ r.at # "enqueue"
  PROVE  KeyInv(k)'
<1>1. Delivering(k)' = Delivering(k) /\ Entering(k)' = Entering(k)
  <2>1. /\ Delivering(k)' = IF r.left # <<>> /\ r.alert.key = k THEN Delivering(k) \union {p}
                           ELSE Delivering(k) \ {p}
        /\ Entering(k)' = IF r.at = "enqueue" /\ r.alert.key = k THEN Entering(k) \union {p}
                         ELSE Entering(k) \ {p}
    BY SetProc
  <2> HIDE DEF Delivering, Entering
  <2> QED BY <2>1
<1>2. Waiting(k)' = Waiting(k) /\ \A i \in Waiting(k) : queue'[i] = queue[i]
  BY QueueKept
<1>3. \A q \in Delivering(k) \union Entering(k) : q \in Processes /\ q # p
  BY DEF Delivering, Entering
<1>4. \A q \in Delivering(k) \union Entering(k) : proc'[q] = proc[q]
  BY <1>3, SetProc
<1> QED BY <1>1, <1>2, <1>4, KeyKept DEF Spared

LEMMA OwnPlaceKept ==
  ASSUME TypesInv, NEW k \in Keys, KeyInv(k), NEW p \in Processes, NEW r, Set(p, r), UNCHANGED queue,
         p \in Delivering(k), r.left # <<>>, r.alert = proc[p].alert, r.at # "enqueue", Shape(p),
         RowsGrow(k), handed'[k] = handed[k], outcome'[k] = outcome[k]
  PROVE  PlaceInv(k)' /\ Delivering(k) = {p} /\ Delivering(k)' = {p} /\ rows[k] # Absent
         /\ rows[k].sev = proc[p].alert.sev /\ proc'[p] = r
<1>1. proc[p].alert.key = k /\ proc[p].at # "enqueue" /\ p \notin Entering(k)
  BY DEF Delivering, Key, Shape, Entering
<1>2. Delivering(k)' = Delivering(k) /\ Entering(k)' = Entering(k)
  <2>1. /\ Delivering(k)' = IF r.left # <<>> /\ r.alert.key = k THEN Delivering(k) \union {p}
                           ELSE Delivering(k) \ {p}
        /\ Entering(k)' = IF r.at = "enqueue" /\ r.alert.key = k THEN Entering(k) \union {p}
                         ELSE Entering(k) \ {p}
    BY SetProc
  <2> HIDE DEF Delivering, Entering
  <2> QED BY <1>1, <2>1
<1>3. Waiting(k)' = Waiting(k) /\ \A i \in Waiting(k) : queue'[i] = queue[i]
  BY QueueKept
<1>4. \A q \in Delivering(k) \union Entering(k) : q \in Processes
  BY DEF Delivering, Entering
<1>5. \A q \in Delivering(k) \union Entering(k) : proc'[q].alert = proc[q].alert
  BY <1>4, SetProc
<1>6. Delivering(k) # {}
  OBVIOUS
<1>7. PlaceInv(k) /\ \A q \in Delivering(k) : q = p
  BY DEF KeyInv, PlaceInv
<1>8. rows[k] # Absent /\ rows[k].sev = proc[p].alert.sev
  BY <1>6 DEF KeyInv, PlaceInv
<1>9. PlaceInv(k)'
  BY <1>2, <1>3, <1>5, <1>6, <1>7, PlaceKept
<1> QED BY <1>2, <1>7, <1>8, <1>9, SetProc

LEMMA LeaveKept ==
  ASSUME TypesInv, NEW k \in Keys, KeyInv(k), NEW p \in Processes, NEW r, Set(p, r), UNCHANGED queue,
         p \in Delivering(k), r.left = <<>>, r.at # "enqueue", Shape(p),
         RowsGrow(k), rows[FailedKey] # Absent => rows'[FailedKey] # Absent, handed'[k] = handed[k],
         attempts'[k] = attempts[k], accepted'[k] = accepted[k], unrecorded'[k] = unrecorded[k],
         outcome'[k] \in {"done", "abandoned"},
         p \in Workers /\ proc[p].at \in Persisting => outcome'[k] = "abandoned"
  PROVE  KeyInv(k)'
<1>0. PlaceInv(k)
  BY DEF KeyInv
<1>1. proc[p].alert.key = k /\ proc[p].at # "enqueue" /\ p \notin Entering(k)
  BY DEF Delivering, Key, Shape, Entering
<1>2. Delivering(k)' = Delivering(k) \ {p} /\ Entering(k)' = Entering(k)
  <2>1. /\ Delivering(k)' = IF r.left # <<>> /\ r.alert.key = k THEN Delivering(k) \union {p}
                           ELSE Delivering(k) \ {p}
        /\ Entering(k)' = IF r.at = "enqueue" /\ r.alert.key = k THEN Entering(k) \union {p}
                         ELSE Entering(k) \ {p}
    BY SetProc
  <2> HIDE DEF Delivering, Entering
  <2> QED BY <1>1, <2>1
<1>3. Delivering(k) # {} /\ \A q \in Delivering(k) : q = p
  BY <1>0 DEF PlaceInv
<1>4. Delivering(k)' = {}
  BY <1>2, <1>3
<1>5. /\ handed[k] # 0 /\ rows[k] # Absent /\ Entering(k) = {} /\ Waiting(k) = {}
  BY <1>0, <1>3 DEF PlaceInv
<1>6. Waiting(k)' = {} /\ Entering(k)' = {}
  BY <1>2, <1>5, QueueKept
<1>7. rows'[k] # Absent /\ rows'[k].sev = rows[k].sev
  BY <1>5 DEF RowsGrow
<1>8. PlaceInv(k)'
  BY <1>0, <1>4, <1>5, <1>6, <1>7 DEF PlaceInv
<1>9. ReportedInv(k)'
  <2>1. CASE outcome'[k] = "abandoned"
    BY <2>1 DEF ReportedInv
  <2>2. CASE outcome'[k] = "done"
    <3>1. ReportedInv(k) /\ outcome[k] = "pending"
      BY <1>0, <1>3 DEF KeyInv, PlaceInv
    <3>2. ~\E q \in Delivering(k) : q \in Workers /\ proc[q].at \in Persisting
      BY <1>3, <2>2
    <3> QED BY <1>5, <1>7, <3>1, <3>2 DEF ReportedInv
  <2> QED BY <2>1, <2>2
<1>10. \A d \in Destinations : AttemptsInv(k, d)'
  BY DEF KeyInv, AttemptsInv
<1>11. \A q \in Delivering(k)' : StageInv(q, k)'
  BY <1>4
<1> QED BY <1>8, <1>9, <1>10, <1>11 DEF KeyInv

LEMMA ShapeKept ==
  ASSUME AlertsInv, NEW p \in Processes, NEW r, Set(p, r), Shape(p)',
         \A k \in Keys : rows[k] # Absent => rows'[k] # Absent
  PROVE  \A q \in Processes : Shape(q)'
<1> SUFFICES ASSUME NEW q \in Processes, q # p PROVE Shape(q)'
  OBVIOUS
<1>1. proc'[q] = proc[q] /\ Shape(q)
  BY SetProc DEF AlertsInv
<1>2. proc[q].at = "update" => proc[q].row \in Keys
  BY <1>1, KeysAssumption DEF Shape, Persisting, Alert, Key
<1> QED BY <1>1, <1>2 DEF Shape, Key

\* A process that holds no alert goes on without touching one.
LEMMA QuietKept ==
  ASSUME AlertsInv, NEW p \in Processes, NEW r \in ProcessRec, Set(p, r), Shape(p)',
         UNCHANGED <<rows, attempts, queue, history>>,
         aborted' \subseteq Sessions, calls' \in 0 .. MaxCalls, failures' \in 0 .. MaxFailures,
         proc[p].left = <<>>, proc[p].at # "enqueue", r.left = <<>>, r.at # "enqueue"
  PROVE  AlertsInv'
<1>1. TypesInv'
  <2>1. proc' \in [Processes -> ProcessRec]
    BY DEF AlertsInv, TypesInv, Set
  <2> QED BY <2>1 DEF AlertsInv, TypesInv, history
<1>2. \A q \in Processes : Shape(q)'
  BY ShapeKept
<1>3. \A k \in Keys : CountInv(k)'
  BY DEF AlertsInv, CountInv, history
<1>4. ASSUME NEW k \in Keys \ RecoveryKeys PROVE KeyInv(k)'
  <2>1. p \notin Delivering(k) /\ p \notin Entering(k)
    BY DEF Delivering, Entering
  <2>2. Spared(k)
    BY DEF Spared, RowsGrow, history
  <2>3. TypesInv /\ KeyInv(k)
    BY DEF AlertsInv
  <2>4. UNCHANGED queue
    OBVIOUS
  <2>5. r.alert.key = k => r.left = <<>> /\ r.at # "enqueue"
    OBVIOUS
  <2> QED BY <2>1, <2>2, <2>3, <2>4, <2>5, AsideKept
<1> QED BY <1>1, <1>2, <1>3, <1>4 DEF AlertsInv

\* A process goes on with the alert it is delivering.
LEMMA WorkKept ==
  ASSUME AlertsInv, NEW p \in Processes, NEW r, Set(p, r), Shape(p)', TypesInv', UNCHANGED queue,
         NEW k0 \in Keys, Key(p) = k0, proc[p].left # <<>>,
         r.left # <<>>, r.alert = proc[p].alert, r.at # "enqueue",
         UNCHANGED <<handed, outcome>>,
         \A k \in Keys : RowsGrow(k) /\ CountInv(k)',
         \A k \in Keys : k # k0 =>
           attempts'[k] = attempts[k] /\ accepted'[k] = accepted[k] /\ unrecorded'[k] = unrecorded[k],
         k0 \notin RecoveryKeys =>
           StageInv(p, k0)' /\ ReportedInv(k0)' /\ \A d \in Destinations : AttemptsInv(k0, d)'
  PROVE  AlertsInv'
<1>1. \A q \in Processes : Shape(q)'
  <2>1. \A k \in Keys : rows[k] # Absent => rows'[k] # Absent
    BY DEF RowsGrow
  <2> QED BY <2>1, ShapeKept
<1>2. TypesInv /\ FailedKey \in Keys
  BY KeysAssumption DEF AlertsInv
<1>3. ASSUME NEW k \in Keys \ RecoveryKeys, k # k0 PROVE KeyInv(k)'
  <2>1. p \notin Delivering(k) /\ p \notin Entering(k)
    BY <1>3 DEF Delivering, Entering
  <2>2. Spared(k)
    BY <1>2, <1>3 DEF Spared, RowsGrow
  <2>3. KeyInv(k)
    BY DEF AlertsInv
  <2>4. r.alert.key = k => r.left = <<>> /\ r.at # "enqueue"
    BY <1>3 DEF Key
  <2> QED BY <1>2, <2>1, <2>2, <2>3, <2>4, AsideKept
<1>4. ASSUME k0 \notin RecoveryKeys PROVE KeyInv(k0)'
  <2>1. KeyInv(k0) /\ Shape(p)
    BY <1>4 DEF AlertsInv
  <2>2. p \in Delivering(k0)
    BY DEF Delivering
  <2>3. RowsGrow(k0) /\ handed'[k0] = handed[k0] /\ outcome'[k0] = outcome[k0]
    OBVIOUS
  <2>4. PlaceInv(k0)' /\ Delivering(k0)' = {p}
    BY <1>2, <2>1, <2>2, <2>3, OwnPlaceKept
  <2> QED BY <1>4, <2>4 DEF KeyInv
<1> QED BY <1>1, <1>3, <1>4 DEF AlertsInv

\* A process ends with the alert it was delivering.
LEMMA EndKept ==
  ASSUME AlertsInv, NEW p \in Processes, Set(p, AtRest), UNCHANGED <<rows, queue, handed, attempts, accepted,
                                                                     unrecorded, duplicates>>,
         calls' \in 0 .. MaxCalls, failures' \in 0 .. MaxFailures, aborted' \subseteq Sessions,
         NEW k0 \in Keys, Key(p) = k0, proc[p].left # <<>>,
         NEW end \in {"done", "abandoned"}, outcome' = [outcome EXCEPT ![k0] = end],
         p \in Workers /\ proc[p].at \in Persisting => end = "abandoned"
  PROVE  AlertsInv'
<1>0. TypesInv /\ FailedKey \in Keys
  BY KeysAssumption DEF AlertsInv
<1>1. AtRest \in ProcessRec /\ AtRest.left = <<>> /\ AtRest.at = "idle" /\ AtRest.attempt = 1 /\ AtRest.send = FALSE
  BY BoundsAssumption DEF AtRest, ProcessRec, Place, Lefts
<1>2. TypesInv'
  <2>1. proc' \in [Processes -> ProcessRec] /\ outcome' \in [Keys -> Outcomes]
    BY <1>0, <1>1 DEF TypesInv, Set, Outcomes
  <2> QED BY <1>0, <2>1 DEF TypesInv
<1>3. proc'[p] = AtRest
  BY <1>0, SetProc
<1>4. Shape(p)'
  BY <1>1, <1>3 DEF Shape, Persisting, Trying
<1>5. \A q \in Processes : Shape(q)'
  BY <1>4, ShapeKept
<1>6. \A k \in Keys : CountInv(k)'
  BY DEF AlertsInv, CountInv
<1>7. \A k \in Keys : RowsGrow(k)
  BY DEF RowsGrow
<1>8. ASSUME NEW k \in Keys \ RecoveryKeys, k # k0 PROVE KeyInv(k)'
  <2>1. p \notin Delivering(k) /\ p \notin Entering(k)
    BY <1>8 DEF Delivering, Entering
  <2>2. Spared(k)
    BY <1>0, <1>7, <1>8 DEF Spared, TypesInv
  <2>3. KeyInv(k)
    BY DEF AlertsInv
  <2>4. AtRest.alert.key = k => AtRest.left = <<>> /\ AtRest.at # "enqueue"
    BY <1>1
  <2>5. UNCHANGED queue
    OBVIOUS
  <2> QED BY <1>0, <2>1, <2>2, <2>3, <2>4, <2>5, AsideKept
<1>9. ASSUME k0 \notin RecoveryKeys PROVE KeyInv(k0)'
  <2>1. KeyInv(k0) /\ Shape(p)
    BY <1>9 DEF AlertsInv
  <2>2. p \in Delivering(k0)
    BY DEF Delivering
  <2>3. outcome'[k0] = end
    BY <1>0 DEF TypesInv
  <2>4. /\ RowsGrow(k0) /\ (rows[FailedKey] # Absent => rows'[FailedKey] # Absent) /\ handed'[k0] = handed[k0]
        /\ attempts'[k0] = attempts[k0] /\ accepted'[k0] = accepted[k0] /\ unrecorded'[k0] = unrecorded[k0]
        /\ UNCHANGED queue
    BY <1>7
  <2>5. outcome'[k0] \in {"done", "abandoned"} /\ (p \in Workers /\ proc[p].at \in Persisting => outcome'[k0] = "abandoned")
    BY <2>3
  <2>6. AtRest.left = <<>> /\ AtRest.at # "enqueue"
    BY <1>1
  <2> QED BY <1>0, <2>1, <2>2, <2>4, <2>5, <2>6, LeaveKept
<1> QED BY <1>2, <1>5, <1>6, <1>8, <1>9 DEF AlertsInv

-----------------------------------------------------------------------------
LEMMA ProcIn == ASSUME AlertsInv, NEW p \in Processes PROVE proc[p] \in ProcessRec /\ Shape(p)
  BY DEF AlertsInv, TypesInv

LEMMA MovedIs ==
  ASSUME NEW x \in ProcessRec, NEW a \in Place
  PROVE  /\ [x EXCEPT !.at = a] \in ProcessRec
         /\ [x EXCEPT !.at = a].at = a /\ [x EXCEPT !.at = a].alert = x.alert
         /\ [x EXCEPT !.at = a].left = x.left /\ [x EXCEPT !.at = a].row = x.row
         /\ [x EXCEPT !.at = a].attempt = x.attempt /\ [x EXCEPT !.at = a].send = x.send
  BY DEF ProcessRec

LEMMA AtRestIn == /\ AtRest \in ProcessRec /\ AtRest.at = "idle" /\ AtRest.left = <<>> /\ AtRest.attempt = 1
                  /\ AtRest.send = FALSE
<1>1. 1 \in 1 .. MaxRetries /\ <<>> \in Lefts /\ "idle" \in Place /\ FALSE \in BOOLEAN
  BY BoundsAssumption DEF Lefts, Place
<1> QED BY <1>1 DEF AtRest, ProcessRec

LEMMA RestIs ==
  ASSUME NEW s \in {"none", "new", "duplicate", "raised"}
  PROVE  /\ AtRest \in ProcessRec /\ [AtRest EXCEPT !.result = s] \in ProcessRec
         /\ AtRest.at = "idle" /\ [AtRest EXCEPT !.result = s].at = "idle"
         /\ AtRest.left = <<>> /\ [AtRest EXCEPT !.result = s].left = <<>>
         /\ AtRest.attempt = 1 /\ [AtRest EXCEPT !.result = s].attempt = 1
         /\ AtRest.send = FALSE /\ [AtRest EXCEPT !.result = s].send = FALSE
<1>1. AtRest \in ProcessRec /\ AtRest.at = "idle" /\ AtRest.left = <<>> /\ AtRest.attempt = 1 /\ AtRest.send = FALSE
  BY AtRestIn
<1>2. \A x \in ProcessRec : /\ [x EXCEPT !.result = s] \in ProcessRec /\ [x EXCEPT !.result = s].at = x.at
                            /\ [x EXCEPT !.result = s].left = x.left /\ [x EXCEPT !.result = s].attempt = x.attempt
                            /\ [x EXCEPT !.result = s].send = x.send
  BY DEF ProcessRec
<1> QED BY <1>1, <1>2

LEMMA RestShape ==
  ASSUME NEW p, proc'[p].at = "idle", proc'[p].left = <<>>, proc'[p].attempt = 1, proc'[p].send = FALSE
  PROVE  Shape(p)'
  BY DEF Shape, Persisting, Trying

LEMMA SessionIn == ASSUME NEW p \in Processes PROVE SessionOf(p) \in Sessions
  BY DEF SessionOf, Sessions

LEMMA RaisesTypes ==
  ASSUME TypesInv, NEW p \in Processes, Raises(p)
  PROVE  aborted' \subseteq Sessions /\ failures' \in 0 .. MaxFailures
<1>1. failures \in 0 .. MaxFailures /\ aborted \subseteq Sessions
  BY DEF TypesInv
<1>2. MaxFailures \in Nat
  BY BoundsAssumption
<1>3. CASE UNCHANGED <<aborted, failures>>
  BY <1>1, <1>3
<1>4. CASE failures < MaxFailures /\ failures' = failures + 1 /\ aborted' \in {aborted, aborted \union {SessionOf(p)}}
  BY <1>1, <1>2, <1>4, SessionIn
<1> QED BY <1>3, <1>4 DEF Raises

LEMMA BeginKept ==
  ASSUME AlertsInv, NEW c \in Callers, NEW a \in Alert, NEW send \in BOOLEAN, c \in Checkers => ~send,
         Begin(c, a, send), UNCHANGED <<database, queue, failures, history>>, calls' \in 0 .. MaxCalls
  PROVE  AlertsInv'
<1> DEFINE r == [AtRest EXCEPT !.at = "select", !.alert = a, !.send = send, !.row = a.key]
<1>1. c \in Processes /\ c \notin Workers
  BY ProcessesAssumption DEF Processes
<1>2. /\ r \in ProcessRec /\ r.at = "select" /\ r.left = <<>> /\ r.attempt = 1 /\ r.alert = a
      /\ r.send = send /\ r.row = a.key
  <2>1. "select" \in Place /\ a.key \in Keys
    BY DEF Place, Alert
  <2>2. \A x \in ProcessRec : [x EXCEPT !.at = "select", !.alert = a, !.send = send, !.row = a.key] \in ProcessRec
    BY <2>1 DEF ProcessRec
  <2>3. r.at = "select" /\ r.left = <<>> /\ r.attempt = 1 /\ r.alert = a /\ r.send = send /\ r.row = a.key
    BY DEF AtRest
  <2> QED BY <2>2, <2>3, AtRestIn
<1>3. Set(c, r) /\ proc[c].at = "idle"
  BY DEF Begin, At
<1> HIDE DEF r
<1>4. proc'[c] = r
  BY <1>1, <1>3, SetProc DEF AlertsInv
<1>5. Shape(c)'
  BY <1>1, <1>2, <1>4 DEF Shape, Persisting, Trying, Key
<1>6. proc[c].left = <<>>
  BY <1>1, <1>3, ProcIn DEF Shape
<1>7. aborted' \subseteq Sessions /\ failures' \in 0 .. MaxFailures /\ UNCHANGED <<rows, attempts, queue, history>>
  BY DEF AlertsInv, TypesInv, database
<1> QED BY <1>1, <1>2, <1>3, <1>5, <1>6, <1>7, QuietKept

LEMMA RestedKept ==
  ASSUME AlertsInv, NEW p \in Processes, NEW s \in {"none", "new", "duplicate", "raised"},
         Set(p, AtRest) \/ Set(p, [AtRest EXCEPT !.result = s]), UNCHANGED <<rows, attempts, queue, history>>,
         aborted' \subseteq Sessions, calls' \in 0 .. MaxCalls, failures' \in 0 .. MaxFailures,
         proc[p].left = <<>>, proc[p].at # "enqueue"
  PROVE  AlertsInv'
<1>1. PICK r \in {AtRest, [AtRest EXCEPT !.result = s]} : Set(p, r)
  OBVIOUS
<1>2. r \in ProcessRec /\ r.at = "idle" /\ r.left = <<>> /\ r.attempt = 1 /\ r.send = FALSE
  BY <1>1, RestIs
<1>3. proc'[p] = r
  BY <1>1, SetProc DEF AlertsInv
<1>4. Shape(p)'
  BY <1>2, <1>3, RestShape
<1> QED BY <1>1, <1>2, <1>4, QuietKept

LEMMA OwnFacts ==
  ASSUME AlertsInv, NEW p \in Processes, proc[p].left # <<>>
  PROVE  /\ Key(p) \in Keys /\ proc[p].alert \in Alert
         /\ Key(p) \notin RecoveryKeys =>
              /\ KeyInv(Key(p)) /\ Delivering(Key(p)) = {p} /\ handed[Key(p)] = 1
              /\ rows[Key(p)] # Absent /\ rows[Key(p)].sev = proc[p].alert.sev
              /\ StageInv(p, Key(p)) /\ ReportedInv(Key(p))
              /\ \A d \in Destinations : AttemptsInv(Key(p), d)
<1>1. proc[p].at # "idle"
  BY ProcIn DEF Shape
<1>2. proc[p].alert \in Alert /\ Key(p) \in Keys
  BY <1>1, ProcIn DEF Shape, Alert, Key
<1>3. ASSUME Key(p) \notin RecoveryKeys PROVE KeyInv(Key(p)) /\ p \in Delivering(Key(p))
  BY <1>2, <1>3 DEF AlertsInv, Delivering
<1>4. ASSUME NEW k \in Keys, KeyInv(k), p \in Delivering(k)
      PROVE  /\ Delivering(k) = {p} /\ rows[k] # Absent /\ rows[k].sev = proc[p].alert.sev /\ StageInv(p, k)
             /\ handed[k] # 0 /\ handed[k] <= 1
  <2>1. PlaceInv(k)
    BY <1>4 DEF KeyInv
  <2> QED BY <1>4, <2>1 DEF KeyInv, PlaceInv
<1>5. \A k \in Keys : handed[k] \in Nat
  BY DEF AlertsInv, TypesInv
<1> QED BY <1>2, <1>3, <1>4, <1>5 DEF KeyInv

LEMMA ReportedOwn ==
  ASSUME NEW k \in Keys, NEW p, ReportedInv(k), rows[k] # Absent, RowsGrow(k), UNCHANGED outcome,
         rows[FailedKey] # Absent => rows'[FailedKey] # Absent,
         Delivering(k) = {p}, p \in Delivering(k)',
         p \in Workers /\ proc[p].at \in Persisting => proc'[p].at \in Persisting \/ rows'[FailedKey] # Absent,
         \A d \in Destinations : Len(attempts'[k][d]) = MaxRetries /\ attempts'[k][d][MaxRetries] = "failed" =>
           \/ Len(attempts[k][d]) = MaxRetries /\ attempts[k][d][MaxRetries] = "failed"
           \/ rows[k].sev # 1 \/ MaxRetries = 1 \/ rows'[FailedKey] # Absent
           \/ p \in Workers /\ proc'[p].at \in Persisting
  PROVE  ReportedInv(k)'
<1> SUFFICES ASSUME rows'[k] # Absent, rows'[k].sev = 1,
                    NEW d \in Destinations, Len(attempts'[k][d]) = MaxRetries, attempts'[k][d][MaxRetries] = "failed"
             PROVE  \/ rows'[FailedKey] # Absent \/ MaxRetries = 1 \/ outcome'[k] = "abandoned"
                    \/ \E q \in Delivering(k)' : q \in Workers /\ proc'[q].at \in Persisting
  BY DEF ReportedInv
<1>1. rows[k].sev = 1
  BY DEF RowsGrow
<1>2. CASE Len(attempts[k][d]) = MaxRetries /\ attempts[k][d][MaxRetries] = "failed"
  <2>1. \/ rows[FailedKey] # Absent \/ MaxRetries = 1 \/ outcome[k] = "abandoned"
        \/ \E q \in Delivering(k) : q \in Workers /\ proc[q].at \in Persisting
    BY <1>1, <1>2 DEF ReportedInv
  <2>2. CASE \E q \in Delivering(k) : q \in Workers /\ proc[q].at \in Persisting
    BY <2>2
  <2> QED BY <2>1, <2>2
<1> QED BY <1>1, <1>2

\* A caller that persists an alert goes on: to the queue, with an alert that is new or a
\* recovery, or to rest.
LEMMA CallerKept ==
  ASSUME AlertsInv, NEW p \in Processes, NEW r, Set(p, r), Shape(p)', TypesInv',
         UNCHANGED <<attempts, queue, handed, accepted, unrecorded, outcome>>,
         \A k \in Keys : RowsGrow(k) /\ CountInv(k)',
         proc[p].left = <<>>, proc[p].at # "enqueue", r.left = <<>>,
         NEW k0 \in Keys, r.at = "enqueue" => r.alert.key = k0,
         r.at = "enqueue" /\ k0 \notin RecoveryKeys => KeyInv(k0)'
  PROVE  AlertsInv'
<1>1. \A q \in Processes : Shape(q)'
  <2>1. \A k \in Keys : rows[k] # Absent => rows'[k] # Absent
    BY DEF RowsGrow
  <2> QED BY <2>1, ShapeKept
<1>2. TypesInv /\ FailedKey \in Keys
  BY KeysAssumption DEF AlertsInv
<1>3. ASSUME NEW k \in Keys \ RecoveryKeys, ~(r.at = "enqueue" /\ k = k0) PROVE KeyInv(k)'
  <2>1. p \notin Delivering(k) /\ p \notin Entering(k)
    BY DEF Delivering, Entering
  <2>2. Spared(k)
    BY <1>2 DEF Spared, RowsGrow
  <2>3. KeyInv(k)
    BY DEF AlertsInv
  <2>4. r.alert.key = k => r.left = <<>> /\ r.at # "enqueue"
    BY <1>3
  <2>5. UNCHANGED queue
    OBVIOUS
  <2> QED BY <1>2, <2>1, <2>2, <2>3, <2>4, <2>5, AsideKept
<1>4. \A k \in Keys \ RecoveryKeys : KeyInv(k)'
  BY <1>3
<1> QED BY <1>1, <1>4 DEF AlertsInv

LEMMA SelectKept == ASSUME AlertsInv, NEW p \in Processes, Select(p) PROVE AlertsInv'
<1>1. PICK a \in {"insert", "update"} :
        Set(p, [proc[p] EXCEPT !.at = a]) /\ (a = "update" => rows[proc[p].row] # Absent)
  BY DEF Select
<1> DEFINE r == [proc[p] EXCEPT !.at = a]
<1>2. proc[p].at = "select" /\ UNCHANGED <<database, queue, calls, failures, history>>
  BY DEF Select, At
<1>3. /\ r \in ProcessRec /\ r.at = a /\ r.alert = proc[p].alert /\ r.left = proc[p].left /\ r.row = proc[p].row
      /\ r.attempt = proc[p].attempt /\ r.send = proc[p].send
  <2>1. a \in Place
    BY DEF Place
  <2> QED BY <2>1, ProcIn, MovedIs
<1>4. Set(p, r)
  BY <1>1
<1> HIDE DEF r
<1>5. proc'[p] = r
  BY <1>4, SetProc DEF AlertsInv
<1>6. Shape(p)'
  BY <1>1, <1>2, <1>3, <1>5, ProcIn DEF Shape, Persisting, Trying, Key, database
<1>7. a \in Persisting /\ proc[p].at \in Persisting
  BY <1>2 DEF Persisting
<1>8. /\ UNCHANGED <<rows, attempts, queue, history, handed, outcome, accepted, unrecorded>>
      /\ aborted' \subseteq Sessions /\ calls' \in 0 .. MaxCalls /\ failures' \in 0 .. MaxFailures
  BY <1>2 DEF AlertsInv, TypesInv, database, history
<1>9. CASE proc[p].left = <<>>
  BY <1>2, <1>3, <1>4, <1>6, <1>8, <1>9, QuietKept
<1>10. CASE proc[p].left # <<>>
  <2>1. /\ Key(p) \in Keys /\ proc[p].alert \in Alert
        /\ Key(p) \notin RecoveryKeys =>
             /\ KeyInv(Key(p)) /\ Delivering(Key(p)) = {p} /\ rows[Key(p)] # Absent
             /\ StageInv(p, Key(p)) /\ ReportedInv(Key(p))
             /\ \A d \in Destinations : AttemptsInv(Key(p), d)
    BY <1>10, OwnFacts
  <2>2. PICK k \in Keys : k = Key(p)
    BY <2>1
  <2>3. \A j \in Keys : RowsGrow(j) /\ CountInv(j)'
    BY <1>2 DEF RowsGrow, AlertsInv, CountInv, database, history
  <2>4. TypesInv'
    <3>1. proc' \in [Processes -> ProcessRec]
      BY <1>3, <1>4 DEF AlertsInv, TypesInv, Set
    <3> QED BY <1>2, <3>1 DEF AlertsInv, TypesInv, database, history
  <2>5. ASSUME k \notin RecoveryKeys
        PROVE  StageInv(p, k)' /\ ReportedInv(k)' /\ \A d \in Destinations : AttemptsInv(k, d)'
    <3>1. KeyInv(k) /\ Delivering(k) = {p} /\ rows[k] # Absent /\ StageInv(p, k) /\ ReportedInv(k)
          /\ \A d \in Destinations : AttemptsInv(k, d)
      BY <2>1, <2>2, <2>5
    <3>2. p \in Delivering(k)'
      BY <1>3, <1>5, <1>10, <2>2 DEF Delivering, Key
    <3>3. StageInv(p, k)'
      <4>1. a \notin Trying
        BY DEF Trying
      <4> QED BY <1>3, <1>5, <1>8, <3>1, <4>1 DEF StageInv
    <3>4. \A d \in Destinations : AttemptsInv(k, d)'
      BY <1>8, <3>1 DEF AttemptsInv
    <3>5. ReportedInv(k)'
      BY <1>3, <1>5, <1>7, <1>8, <2>3, <3>1, <3>2, ReportedOwn
    <3> QED BY <3>3, <3>4, <3>5
  <2>6. r.left # <<>> /\ r.alert = proc[p].alert /\ r.at # "enqueue" /\ proc[p].left # <<>>
    BY <1>3, <1>10
  <2>7. UNCHANGED queue /\ UNCHANGED <<handed, outcome>>
        /\ \A j \in Keys : attempts'[j] = attempts[j] /\ accepted'[j] = accepted[j] /\ unrecorded'[j] = unrecorded[j]
    BY <1>8
  <2> QED BY <1>4, <1>6, <2>2, <2>3, <2>4, <2>5, <2>6, <2>7, WorkKept
<1> QED BY <1>9, <1>10

LEMMA ThrownKept ==
  ASSUME AlertsInv, NEW p \in Processes, proc[p].at \in Persisting, Set(p, Thrown(p)), Abandon(p),
         UNCHANGED <<rows, attempts, queue, handed, duplicates, accepted, unrecorded>>,
         aborted' \subseteq Sessions, calls' \in 0 .. MaxCalls, failures' \in 0 .. MaxFailures
  PROVE  AlertsInv'
<1>1. proc[p].at # "enqueue" /\ proc[p].at # "idle"
  BY DEF Persisting
<1>2. CASE p \in Workers
  <2>1. p \notin Checkers /\ proc[p].left # <<>>
    BY <1>2, ProcIn, ProcessesAssumption DEF Shape, Callers
  <2>2. PICK k \in Keys : k = Key(p)
    BY <2>1, OwnFacts
  <2>3. Set(p, AtRest) /\ outcome' = [outcome EXCEPT ![k] = "abandoned"]
    BY <1>2, <2>1, <2>2 DEF Thrown, Abandon
  <2> QED BY <2>1, <2>2, <2>3, EndKept
<1>3. CASE p \notin Workers
  <2>1. proc[p].left = <<>> /\ outcome' = outcome
    BY <1>3, ProcIn DEF Shape, Abandon
  <2>2. Set(p, AtRest) \/ Set(p, [AtRest EXCEPT !.result = "raised"])
    BY DEF Thrown
  <2>3. UNCHANGED <<rows, attempts, queue, history>>
    BY <2>1 DEF history
  <2> QED BY <1>1, <2>1, <2>2, <2>3, RestedKept
<1> QED BY <1>2, <1>3

LEMMA PersistFailsKept ==
  ASSUME AlertsInv, NEW p \in Processes, PersistRaises(p) \/ InsertRefused(p) PROVE AlertsInv'
<1>1. proc[p].at \in Persisting
  BY DEF PersistRaises, InsertRefused, At, Persisting
<1>2. aborted' \subseteq Sessions /\ failures' \in 0 .. MaxFailures
  <2>1. CASE PersistRaises(p)
    BY <2>1, RaisesTypes DEF PersistRaises, AlertsInv
  <2>2. CASE InsertRefused(p)
    BY <2>2, SessionIn DEF InsertRefused, AlertsInv, TypesInv
  <2> QED BY <2>1, <2>2
<1>3. calls' \in 0 .. MaxCalls
  BY DEF PersistRaises, InsertRefused, AlertsInv, TypesInv
<1>4. Set(p, Thrown(p)) /\ Abandon(p) /\ UNCHANGED <<rows, attempts, queue, handed, duplicates, accepted, unrecorded>>
  BY DEF PersistRaises, InsertRefused
<1> QED BY <1>1, <1>2, <1>3, <1>4, ThrownKept

LEMMA PersistedKept ==
  ASSUME AlertsInv, NEW p \in Processes, proc[p].at \in {"insert", "update"}, NEW result \in {"new", "duplicate"},
         Set(p, AfterPersist(p, result)), UNCHANGED <<attempts, aborted, queue, calls, failures, handed, accepted,
                                                       unrecorded, outcome>>,
         rows' \in [Keys -> {Absent} \union [sev : 1 .. 3, suppressed : Nat]], duplicates' \in [Keys -> Nat],
         \A k \in Keys : RowsGrow(k) /\ CountInv(k)',
         rows'[proc[p].row] # Absent,
         result = "new" => rows[proc[p].row] = Absent
                           /\ (p \notin Workers => rows'[proc[p].row].sev = proc[p].alert.sev)
  PROVE  AlertsInv'
<1> DEFINE r == AfterPersist(p, result)
<1>0. proc[p] \in ProcessRec /\ Shape(p) /\ proc[p].at \in Persisting /\ proc[p].at # "idle" /\ proc[p].at # "enqueue"
  BY ProcIn DEF Persisting
<1>1. proc[p].alert \in Alert /\ Key(p) \in Keys
  BY <1>0 DEF Shape, Key, Alert
<1>2. Set(p, r)
  OBVIOUS
<1>3. /\ p \in Workers => /\ r \in ProcessRec /\ r.at = "next" /\ r.alert = proc[p].alert /\ r.left = proc[p].left
                          /\ r.attempt = proc[p].attempt /\ r.send = proc[p].send
      /\ p \notin Workers /\ proc[p].send /\ (result = "new" \/ Key(p) \in RecoveryKeys) =>
           /\ r \in ProcessRec /\ r.at = "enqueue" /\ r.alert = proc[p].alert /\ r.left = proc[p].left
           /\ r.attempt = proc[p].attempt /\ r.send = proc[p].send
      /\ p \notin Workers /\ ~(proc[p].send /\ (result = "new" \/ Key(p) \in RecoveryKeys)) =>
           r \in ProcessRec /\ r.at = "idle" /\ r.left = <<>> /\ r.attempt = 1 /\ r.send = FALSE
  <2>1. CASE p \in Workers
    <3>1. r = [proc[p] EXCEPT !.at = "next", !.row = Absent]
      BY <2>1 DEF AfterPersist
    <3>2. "next" \in Place
      BY DEF Place
    <3>3. \A x \in ProcessRec : LET y == [x EXCEPT !.at = "next", !.row = Absent] IN
            /\ y \in ProcessRec /\ y.at = "next" /\ y.alert = x.alert /\ y.left = x.left
            /\ y.attempt = x.attempt /\ y.send = x.send
      BY <3>2 DEF ProcessRec
    <3> QED BY <1>0, <2>1, <3>1, <3>3
  <2>2. CASE p \notin Workers /\ proc[p].send /\ (result = "new" \/ Key(p) \in RecoveryKeys)
    <3>1. r = [proc[p] EXCEPT !.at = "enqueue"]
      BY <2>2 DEF AfterPersist
    <3>2. "enqueue" \in Place
      BY DEF Place
    <3>3. \A x \in ProcessRec : LET y == [x EXCEPT !.at = "enqueue"] IN
            /\ y \in ProcessRec /\ y.at = "enqueue" /\ y.alert = x.alert /\ y.left = x.left
            /\ y.attempt = x.attempt /\ y.send = x.send
      BY <3>2 DEF ProcessRec
    <3> QED BY <1>0, <2>2, <3>1, <3>3
  <2>3. CASE p \notin Workers /\ ~(proc[p].send /\ (result = "new" \/ Key(p) \in RecoveryKeys))
    <3>1. PICK s \in {"none", "new", "duplicate", "raised"} : r = [AtRest EXCEPT !.result = s]
      BY <2>3 DEF AfterPersist
    <3> QED BY <2>3, <3>1, RestIs
  <2> QED BY <2>1, <2>2, <2>3
<1> HIDE DEF r
<1>4. proc'[p] = r
  BY <1>2, SetProc DEF AlertsInv
<1>5. TypesInv'
  <2>1. proc' \in [Processes -> ProcessRec]
    BY <1>2, <1>3 DEF AlertsInv, TypesInv, Set
  <2> QED BY <2>1 DEF AlertsInv, TypesInv
<1>6. UNCHANGED queue /\ UNCHANGED <<handed, outcome>> /\ UNCHANGED <<attempts, queue, handed, accepted, unrecorded, outcome>>
      /\ \A j \in Keys : attempts'[j] = attempts[j] /\ accepted'[j] = accepted[j] /\ unrecorded'[j] = unrecorded[j]
  OBVIOUS
<1>7. CASE p \in Workers
  <2>1. proc[p].left # <<>> /\ proc[p].row = FailedKey /\ rows'[FailedKey] # Absent
    BY <1>0, <1>7 DEF Shape
  <2>2. Shape(p)'
    BY <1>1, <1>3, <1>4, <1>7, <2>1, ProcessesAssumption DEF Shape, Persisting, Trying, Key, Callers
  <2>3. PICK k \in Keys : k = Key(p)
    BY <1>1
  <2>4. ASSUME k \notin RecoveryKeys
        PROVE  StageInv(p, k)' /\ ReportedInv(k)' /\ \A d \in Destinations : AttemptsInv(k, d)'
    <3>1. Delivering(k) = {p} /\ rows[k] # Absent /\ StageInv(p, k) /\ ReportedInv(k)
          /\ \A d \in Destinations : AttemptsInv(k, d)
      BY <2>1, <2>3, <2>4, OwnFacts
    <3>2. StageInv(p, k)'
      <4>1. "next" \notin Trying
        BY DEF Trying
      <4> QED BY <1>3, <1>4, <1>6, <1>7, <3>1, <4>1 DEF StageInv
    <3>3. \A d \in Destinations : AttemptsInv(k, d)'
      BY <1>6, <3>1 DEF AttemptsInv
    <3>4. ReportedInv(k)'
      BY <2>1 DEF ReportedInv
    <3> QED BY <3>2, <3>3, <3>4
  <2>5. r.left # <<>> /\ r.alert = proc[p].alert /\ r.at # "enqueue"
    BY <1>3, <1>7, <2>1
  <2> QED BY <1>2, <1>5, <1>6, <2>1, <2>2, <2>3, <2>4, <2>5, WorkKept
<1>8. CASE p \notin Workers
  <2>1. proc[p].left = <<>> /\ proc[p].row = Key(p) /\ (p \in Callers => proc[p].attempt = 1)
    BY <1>0, <1>8 DEF Shape
  <2>2. p \in Callers /\ (p \in Checkers => ~proc[p].send)
    BY <1>0, <1>8 DEF Processes, Shape
  <2>3. r.left = <<>> /\ (r.at = "enqueue" => r.alert = proc[p].alert /\ proc[p].send) /\ r.at \in {"idle", "enqueue"}
    BY <1>3, <1>8, <2>1
  <2>4. Shape(p)'
    BY <1>1, <1>3, <1>4, <1>8, <2>1, <2>2, <2>3 DEF Shape, Persisting, Trying, Key
  <2>5. PICK k \in Keys : k = Key(p)
    BY <1>1
  <2>6. r.at = "enqueue" => r.alert.key = k
    BY <2>3, <2>5 DEF Key
  <2>7. ASSUME r.at = "enqueue", k \notin RecoveryKeys PROVE KeyInv(k)'
    <3>1. result = "new" /\ rows[k] = Absent /\ rows'[k] # Absent /\ rows'[k].sev = proc[p].alert.sev
      BY <1>3, <1>8, <2>1, <2>5, <2>7
    <3>2. PlaceInv(k)
      BY <2>7 DEF AlertsInv, KeyInv
    <3>3. handed[k] = 0 /\ Entering(k) = {} /\ outcome[k] = "none" /\ Delivering(k) = {} /\ Waiting(k) = {} /\ Untried(k)
      BY <3>1, <3>2 DEF PlaceInv
    <3>4. Entering(k)' = {p} /\ Delivering(k)' = {} /\ Waiting(k)' = {}
      <4>1. /\ Delivering(k)' = IF r.left # <<>> /\ r.alert.key = k THEN Delivering(k) \union {p}
                                ELSE Delivering(k) \ {p}
            /\ Entering(k)' = IF r.at = "enqueue" /\ r.alert.key = k THEN Entering(k) \union {p}
                              ELSE Entering(k) \ {p}
        BY <1>2, SetProc DEF AlertsInv
      <4> HIDE DEF Delivering, Entering
      <4>2. Entering(k)' = {p} /\ Delivering(k)' = {}
        BY <2>3, <2>6, <2>7, <3>3, <4>1
      <4> QED BY <3>3, <4>2, QueueKept
    <3>5. Untried(k)'
      BY <3>3 DEF Untried
    <3>6. proc'[p].alert = proc[p].alert
      BY <1>4, <2>3, <2>7
    <3>7. PlaceInv(k)'
      BY <3>1, <3>3, <3>4, <3>5, <3>6 DEF PlaceInv
    <3>8. \A d \in Destinations : attempts'[k][d] = <<>> /\ accepted'[k][d] = 0 /\ unrecorded'[k][d] \in Nat
      BY <3>3 DEF Untried, AlertsInv, TypesInv
    <3>9. MaxRetries \in Nat \ {0}
      BY BoundsAssumption
    <3>10. \A d \in Destinations : AttemptsInv(k, d)'
      BY <3>8, <3>9 DEF AttemptsInv
    <3>11. ReportedInv(k)'
      BY <3>8, <3>9 DEF ReportedInv
    <3> QED BY <3>4, <3>7, <3>10, <3>11 DEF KeyInv
  <2> QED BY <1>0, <1>2, <1>5, <1>6, <2>1, <2>3, <2>4, <2>6, <2>7, CallerKept
<1> QED BY <1>7, <1>8

LEMMA InsertKept == ASSUME AlertsInv, NEW p \in Processes, Insert(p) PROVE AlertsInv'
<1>0. proc[p] \in ProcessRec /\ Shape(p) /\ proc[p].at = "insert" /\ proc[p].at \in Persisting
  BY ProcIn DEF Insert, At, Persisting
<1>1. proc[p].alert \in Alert /\ Key(p) \in Keys /\ FailedKey \in Keys
  BY <1>0, KeysAssumption DEF Shape, Key, Alert
<1>2. PICK k \in Keys : k = proc[p].row
  BY <1>0, <1>1 DEF Shape
<1>3. PICK s \in 1 .. 3 : s = IF p \in Workers THEN 1 ELSE proc[p].alert.sev
  BY <1>1 DEF Alert
<1>4. rows[k] = Absent /\ rows' = [rows EXCEPT ![k] = [sev |-> s, suppressed |-> 0]]
  BY <1>2, <1>3 DEF Insert
<1>5. [sev |-> s, suppressed |-> 0] \in [sev : 1 .. 3, suppressed : Nat] /\ [sev |-> s, suppressed |-> 0] # Absent
  <2>1. [sev |-> s, suppressed |-> 0] \in [sev : 1 .. 3, suppressed : Nat]
    OBVIOUS
  <2> QED BY <2>1, AbsentAssumption
<1>6. rows \in [Keys -> {Absent} \union [sev : 1 .. 3, suppressed : Nat]]
  BY DEF AlertsInv, TypesInv
<1>7. /\ rows' \in [Keys -> {Absent} \union [sev : 1 .. 3, suppressed : Nat]]
      /\ rows'[k] # Absent /\ rows'[k].sev = s /\ rows'[k].suppressed = 0 /\ \A j \in Keys : j # k => rows'[j] = rows[j]
  BY <1>4, <1>5, <1>6
<1>8. UNCHANGED <<attempts, aborted, queue, calls, failures, history>> /\ Set(p, AfterPersist(p, "new"))
  BY DEF Insert
<1>9. \A j \in Keys : RowsGrow(j) /\ CountInv(j)'
  BY <1>4, <1>7, <1>8 DEF RowsGrow, CountInv, AlertsInv, history
<1>10. UNCHANGED <<attempts, aborted, queue, calls, failures, handed, accepted, unrecorded, outcome>>
       /\ duplicates' \in [Keys -> Nat]
  BY <1>8 DEF history, AlertsInv, TypesInv
<1>11. rows'[proc[p].row] # Absent /\ rows[proc[p].row] = Absent
       /\ (p \notin Workers => rows'[proc[p].row].sev = proc[p].alert.sev)
  BY <1>2, <1>3, <1>4, <1>7
<1> QED BY <1>0, <1>7, <1>8, <1>9, <1>10, <1>11, PersistedKept

LEMMA UpdateKept == ASSUME AlertsInv, NEW p \in Processes, UpdateRow(p) PROVE AlertsInv'
<1>0. proc[p] \in ProcessRec /\ Shape(p) /\ proc[p].at = "update" /\ proc[p].at \in Persisting
  BY ProcIn DEF UpdateRow, At, Persisting
<1>1. proc[p].alert \in Alert /\ Key(p) \in Keys /\ FailedKey \in Keys
  BY <1>0, KeysAssumption DEF Shape, Key, Alert
<1>2. PICK k \in Keys : k = proc[p].row
  BY <1>0, <1>1 DEF Shape
<1>3. rows[k] # Absent
  BY <1>0, <1>2 DEF Shape
<1>4. /\ rows \in [Keys -> {Absent} \union [sev : 1 .. 3, suppressed : Nat]] /\ duplicates \in [Keys -> Nat]
      /\ rows[k] \in [sev : 1 .. 3, suppressed : Nat] /\ \A j \in Keys : CountInv(j)
  BY <1>3 DEF AlertsInv, TypesInv
<1>5. /\ rows' = [rows EXCEPT ![k].suppressed = @ + 1] /\ duplicates' = [duplicates EXCEPT ![k] = @ + 1]
      /\ Set(p, AfterPersist(p, "duplicate"))
      /\ UNCHANGED <<attempts, aborted, queue, calls, failures, handed, accepted, unrecorded, outcome>>
  BY <1>2 DEF UpdateRow
<1> DEFINE x == [rows[k] EXCEPT !.suppressed = rows[k].suppressed + 1]
<1>6. /\ x \in [sev : 1 .. 3, suppressed : Nat] /\ x.sev = rows[k].sev /\ x.suppressed = rows[k].suppressed + 1
  BY <1>4
<1>7. x # Absent
  BY <1>6, AbsentAssumption
<1>8. rows'[k] = x /\ \A j \in Keys : j # k => rows'[j] = rows[j]
  BY <1>4, <1>5
<1>9. rows' \in [Keys -> {Absent} \union [sev : 1 .. 3, suppressed : Nat]]
  BY <1>4, <1>5, <1>6
<1> HIDE DEF x
<1>10. /\ duplicates' \in [Keys -> Nat] /\ duplicates'[k] = duplicates[k] + 1
       /\ \A j \in Keys : j # k => duplicates'[j] = duplicates[j]
  BY <1>4, <1>5
<1>11. \A j \in Keys : RowsGrow(j) /\ CountInv(j)'
  BY <1>3, <1>4, <1>6, <1>7, <1>8, <1>10 DEF RowsGrow, CountInv
<1>12. rows'[proc[p].row] # Absent
  BY <1>2, <1>7, <1>8
<1> QED BY <1>0, <1>5, <1>9, <1>10, <1>11, <1>12, PersistedKept

-----------------------------------------------------------------------------
LEMMA TriesSet ==
  ASSUME TypesInv, NEW k \in Keys, NEW d \in Destinations, NEW s \in Seq(Statuses3),
         attempts' = [attempts EXCEPT ![k][d] = s]
  PROVE  /\ attempts' \in [Keys -> [Destinations -> Seq(Statuses3)]] /\ attempts'[k][d] = s
         /\ \A e \in Destinations : e # d => attempts'[k][e] = attempts[k][e]
         /\ \A j \in Keys : j # k => attempts'[j] = attempts[j]
  BY DEF TypesInv

LEMMA CountsSet ==
  ASSUME NEW f \in [Keys -> [Destinations -> Nat]], NEW g, NEW k \in Keys, NEW d \in Destinations,
         g = [f EXCEPT ![k][d] = @ + 1]
  PROVE  /\ g \in [Keys -> [Destinations -> Nat]] /\ g[k][d] = f[k][d] + 1
         /\ \A e \in Destinations : e # d => g[k][e] = f[k][e]
         /\ \A j \in Keys : j # k => g[j] = f[j]
  OBVIOUS

\* A delivery goes on at its first destination: what the step does to the record there
\* is all there is to look at.
Delivers(p, r, k0, d0) ==
  /\ Set(p, r) /\ Shape(p)' /\ UNCHANGED <<rows, queue, handed, outcome, duplicates>>
  /\ proc[p].left # <<>> /\ r.left # <<>> /\ r.alert = proc[p].alert /\ r.at # "enqueue" /\ r.left = proc[p].left
  /\ proc[p].at \notin Persisting
  /\ aborted' \subseteq Sessions /\ calls' \in 0 .. MaxCalls /\ failures' \in 0 .. MaxFailures
  /\ attempts' \in [Keys -> [Destinations -> Seq(Statuses3)]]
  /\ accepted' \in [Keys -> [Destinations -> Nat]] /\ unrecorded' \in [Keys -> [Destinations -> Nat]]
  /\ k0 = Key(p) /\ d0 = Head(proc[p].left)
  /\ \A k \in Keys : k # k0 =>
       attempts'[k] = attempts[k] /\ accepted'[k] = accepted[k] /\ unrecorded'[k] = unrecorded[k]
  /\ \A d \in Destinations : d # d0 => /\ attempts'[k0][d] = attempts[k0][d]
                                        /\ accepted'[k0][d] = accepted[k0][d]
                                        /\ unrecorded'[k0][d] = unrecorded[k0][d]

\* How the record stands after it.
Leaves(p, r, k0, d0) ==
  /\ r.at \in Trying =>
       IF r.at = "record"
         THEN /\ Len(attempts'[k0][d0]) = r.attempt - 1
              /\ \A i \in 1 .. Len(attempts'[k0][d0]) : attempts'[k0][d0][i] = "failed"
              /\ accepted'[k0][d0] <= unrecorded'[k0][d0]
         ELSE /\ Len(attempts'[k0][d0]) = r.attempt /\ attempts'[k0][d0][Len(attempts'[k0][d0])] = "pending"
              /\ IF r.at = "sent" THEN accepted'[k0][d0] > 0 ELSE accepted'[k0][d0] <= unrecorded'[k0][d0]
  /\ Len(attempts'[k0][d0]) = MaxRetries /\ attempts'[k0][d0][MaxRetries] = "failed" =>
       \/ rows[k0].sev # 1 \/ MaxRetries = 1 \/ rows[FailedKey] # Absent
       \/ p \in Workers /\ r.at \in Persisting
       \/ attempts'[k0][d0] = attempts[k0][d0]

LEMMA DeliveryKept ==
  ASSUME AlertsInv, NEW p \in Processes, NEW r \in ProcessRec, NEW k0 \in Keys, NEW d0 \in Destinations,
         Delivers(p, r, k0, d0), k0 \notin RecoveryKeys => AttemptsInv(k0, d0)' /\ Leaves(p, r, k0, d0)
  PROVE  AlertsInv'
<1> USE DEF Delivers, Leaves
<1>1. proc'[p] = r /\ TypesInv
  BY SetProc DEF AlertsInv
<1>2. TypesInv'
  <2>1. proc' \in [Processes -> ProcessRec]
    BY <1>1 DEF TypesInv, Set
  <2> QED BY <1>1, <2>1 DEF TypesInv
<1>3. \A k \in Keys : RowsGrow(k) /\ CountInv(k)'
  BY DEF RowsGrow, CountInv, AlertsInv
<1>4. ASSUME k0 \notin RecoveryKeys
      PROVE  StageInv(p, k0)' /\ ReportedInv(k0)' /\ \A d \in Destinations : AttemptsInv(k0, d)'
  <2>1. Delivering(k0) = {p} /\ rows[k0] # Absent /\ StageInv(p, k0) /\ ReportedInv(k0)
        /\ \A d \in Destinations : AttemptsInv(k0, d)
    BY <1>4, OwnFacts
  <2>2. p \in Delivering(k0)'
    BY <1>1 DEF Delivering, Key
  <2>3. \A d \in Destinations : AttemptsInv(k0, d)'
    <3>1. ASSUME NEW d \in Destinations, d # d0 PROVE AttemptsInv(k0, d)'
      <4>1. AttemptsInv(k0, d) /\ attempts'[k0][d] = attempts[k0][d] /\ accepted'[k0][d] = accepted[k0][d]
            /\ unrecorded'[k0][d] = unrecorded[k0][d]
        BY <2>1, <3>1
      <4> QED BY SMTT(30), <4>1 DEF AttemptsInv
    <3> QED BY <1>4, <3>1
  <2>4. StageInv(p, k0)'
    <3>1. \A i \in 2 .. Len(proc[p].left) : proc[p].left[i] \in Destinations /\ proc[p].left[i] # d0
      BY ProcIn, LeftsParts DEF ProcessRec
    <3>2. \A i \in 2 .. Len(r.left) : attempts'[k0][r.left[i]] = <<>> /\ accepted'[k0][r.left[i]] = 0
      <4>1. \A i \in 2 .. Len(proc[p].left) :
              attempts[k0][proc[p].left[i]] = <<>> /\ accepted[k0][proc[p].left[i]] = 0
        BY <2>1 DEF StageInv
      <4>2. \A i \in 2 .. Len(proc[p].left) :
              attempts'[k0][proc[p].left[i]] = <<>> /\ accepted'[k0][proc[p].left[i]] = 0
        BY ZenonT(30), <3>1, <4>1
      <4> QED BY <4>2
    <3>3. Head(proc'[p].left) = d0 /\ proc'[p].left = r.left /\ proc'[p].at = r.at /\ proc'[p].attempt = r.attempt
      BY <1>1
    <3>4. r.at \in Trying =>
             IF r.at = "record"
               THEN /\ Len(attempts'[k0][d0]) = r.attempt - 1
                    /\ \A i \in 1 .. Len(attempts'[k0][d0]) : attempts'[k0][d0][i] = "failed"
                    /\ accepted'[k0][d0] <= unrecorded'[k0][d0]
               ELSE /\ Len(attempts'[k0][d0]) = r.attempt /\ attempts'[k0][d0][Len(attempts'[k0][d0])] = "pending"
                    /\ IF r.at = "sent" THEN accepted'[k0][d0] > 0 ELSE accepted'[k0][d0] <= unrecorded'[k0][d0]
      BY <1>4
    <3>5. \A i \in 2 .. Len(proc'[p].left) :
            attempts'[k0][proc'[p].left[i]] = <<>> /\ accepted'[k0][proc'[p].left[i]] = 0
      BY <3>2, <3>3
    <3>6. proc'[p].at \in Trying =>
            LET tries == attempts'[k0][d0]
                sends == accepted'[k0][d0]
                lost == unrecorded'[k0][d0] IN
            IF proc'[p].at = "record"
              THEN Len(tries) = proc'[p].attempt - 1 /\ (\A i \in 1 .. Len(tries) : tries[i] = "failed") /\ sends <= lost
              ELSE /\ Len(tries) = proc'[p].attempt /\ tries[Len(tries)] = "pending"
                   /\ IF proc'[p].at = "sent" THEN sends > 0 ELSE sends <= lost
      BY <3>3, <3>4
    <3>7. attempts'[k0][Head(proc'[p].left)] = attempts'[k0][d0] /\ accepted'[k0][Head(proc'[p].left)] = accepted'[k0][d0]
          /\ unrecorded'[k0][Head(proc'[p].left)] = unrecorded'[k0][d0]
      BY <3>3
    <3> HIDE DEF Delivers, Leaves
    <3>8. StageInv(p, k0)' <=>
            /\ \A i \in 2 .. Len(proc'[p].left) :
                 attempts'[k0][proc'[p].left[i]] = <<>> /\ accepted'[k0][proc'[p].left[i]] = 0
            /\ proc'[p].at \in Trying =>
                 LET tries == attempts'[k0][Head(proc'[p].left)]
                     sends == accepted'[k0][Head(proc'[p].left)]
                     lost == unrecorded'[k0][Head(proc'[p].left)] IN
                 IF proc'[p].at = "record"
                   THEN Len(tries) = proc'[p].attempt - 1 /\ (\A i \in 1 .. Len(tries) : tries[i] = "failed")
                        /\ sends <= lost
                   ELSE /\ Len(tries) = proc'[p].attempt /\ tries[Len(tries)] = "pending"
                        /\ IF proc'[p].at = "sent" THEN sends > 0 ELSE sends <= lost
      BY DEF StageInv
    <3> QED BY <3>3, <3>5, <3>6, <3>8
  <2>5. ReportedInv(k0)'
    <3>1. \A d \in Destinations : Len(attempts'[k0][d]) = MaxRetries /\ attempts'[k0][d][MaxRetries] = "failed" =>
           \/ Len(attempts[k0][d]) = MaxRetries /\ attempts[k0][d][MaxRetries] = "failed"
           \/ rows[k0].sev # 1 \/ MaxRetries = 1 \/ rows'[FailedKey] # Absent
           \/ p \in Workers /\ proc'[p].at \in Persisting
      BY SMTT(90), <1>1, <1>4
    <3> QED BY <1>3, <2>1, <2>2, <3>1, ReportedOwn
  <2> QED BY <2>3, <2>4, <2>5
<1>5. UNCHANGED queue /\ UNCHANGED <<handed, outcome>> /\ Key(p) = k0
  OBVIOUS
<1> QED BY <1>2, <1>3, <1>4, <1>5, WorkKept

LEMMA TryingIs ==
  ASSUME AlertsInv, NEW p \in Processes, proc[p].at \in Trying
  PROVE  /\ proc[p] \in ProcessRec /\ Shape(p) /\ proc[p].left # <<>> /\ Head(proc[p].left) \in Destinations
         /\ Key(p) \in Keys /\ proc[p].alert \in Alert /\ proc[p].at \notin Persisting
         /\ proc[p].attempt \in 1 .. MaxRetries
<1>1. proc[p] \in ProcessRec /\ Shape(p)
  BY ProcIn
<1>2. proc[p].left # <<>>
  BY <1>1 DEF Shape
<1>3. proc[p].at \notin Persisting
  BY DEF Trying, Persisting
<1> QED BY <1>1, <1>2, <1>3, OwnFacts DEF Shape, ProcessRec

LEMMA OwnStage ==
  ASSUME AlertsInv, NEW p \in Processes, proc[p].at \in Trying, Key(p) \notin RecoveryKeys
  PROVE  LET k == Key(p)
             d == Head(proc[p].left)
         IN /\ AttemptsInv(k, d) /\ rows[k] # Absent /\ rows[k].sev = proc[p].alert.sev
            /\ IF proc[p].at = "record"
                 THEN /\ Len(attempts[k][d]) = proc[p].attempt - 1
                      /\ \A i \in 1 .. Len(attempts[k][d]) : attempts[k][d][i] = "failed"
                      /\ accepted[k][d] <= unrecorded[k][d]
                 ELSE /\ Len(attempts[k][d]) = proc[p].attempt /\ attempts[k][d][Len(attempts[k][d])] = "pending"
                      /\ IF proc[p].at = "sent" THEN accepted[k][d] > 0 ELSE accepted[k][d] <= unrecorded[k][d]
<1>1. StageInv(p, Key(p)) /\ rows[Key(p)] # Absent /\ rows[Key(p)].sev = proc[p].alert.sev
      /\ AttemptsInv(Key(p), Head(proc[p].left))
  BY TryingIs, OwnFacts
<1> QED BY <1>1 DEF StageInv

LEMMA TryingShape ==
  ASSUME AlertsInv, NEW p \in Processes, proc[p].at \in Trying, NEW a \in {"next"} \union Trying,
         proc'[p].at = a, proc'[p].alert = proc[p].alert, proc'[p].left = proc[p].left,
         proc'[p].attempt = proc[p].attempt \/ p \notin Callers
  PROVE  Shape(p)'
<1>1. p \notin Checkers
  BY TryingIs DEF Shape, Trying, Persisting
<1> QED BY <1>1, TryingIs DEF Shape, Trying, Persisting

LEMMA AddedPending ==
  ASSUME NEW s \in Seq(Statuses3), NEW n \in Nat, Len(s) = n - 1, \A i \in 1 .. Len(s) : s[i] = "failed"
  PROVE  LET t == Append(s, "pending")
         IN /\ t \in Seq(Statuses3) /\ Len(t) = n /\ t[n] = "pending"
            /\ \A i \in 1 .. Len(t) - 1 : t[i] = "failed"
            /\ \A i \in 1 .. Len(t) : t[i] # "sent"
<1>1. "pending" \in Statuses3
  BY DEF Statuses3
<1> DEFINE t == Append(s, "pending")
<1>2. t \in Seq(Statuses3) /\ Len(t) = Len(s) + 1 /\ t[Len(s) + 1] = "pending" /\ \A i \in 1 .. Len(s) : t[i] = s[i]
  BY <1>1, AppendProperties
<1> HIDE DEF t
<1>3. Len(s) + 1 = n /\ Len(s) \in Nat
  OBVIOUS
<1>4. t \in Seq(Statuses3) /\ Len(t) = n /\ t[n] = "pending" /\ \A i \in 1 .. Len(t) - 1 : t[i] = "failed"
  BY <1>2, <1>3
<1>5. \A i \in 1 .. Len(t) : i \in 1 .. Len(t) - 1 \/ i = n
  BY <1>3, <1>4
<1>6. \A i \in 1 .. Len(t) : t[i] # "sent"
  BY <1>4, <1>5
<1> QED BY <1>4, <1>6 DEF t

LEMMA RecordKept == ASSUME AlertsInv, NEW p \in Processes, Record(p) PROVE AlertsInv'
<1>1. proc[p].at = "record" /\ proc[p].at \in Trying
  BY DEF Record, At, Trying
<1>2. /\ proc[p] \in ProcessRec /\ proc[p].left # <<>> /\ Head(proc[p].left) \in Destinations
      /\ Key(p) \in Keys /\ proc[p].at \notin Persisting /\ proc[p].attempt \in 1 .. MaxRetries
  BY <1>1, TryingIs
<1>3. PICK k \in Keys : k = Key(p)
  BY <1>2
<1>4. PICK d \in Destinations : d = Head(proc[p].left)
  BY <1>2
<1> DEFINE r == [proc[p] EXCEPT !.at = "send"]
           s == Append(attempts[k][d], "pending")
<1>5. /\ r \in ProcessRec /\ r.at = "send" /\ r.alert = proc[p].alert /\ r.left = proc[p].left
      /\ r.attempt = proc[p].attempt
  <2>1. "send" \in Place
    BY DEF Place
  <2> QED BY <1>2, <2>1, MovedIs
<1>6. /\ Set(p, r) /\ attempts' = [attempts EXCEPT ![k][d] = s]
      /\ UNCHANGED <<rows, aborted, queue, calls, failures, handed, duplicates, accepted, unrecorded, outcome>>
  BY <1>3, <1>4 DEF Record, Destination, history
<1>7. attempts[k][d] \in Seq(Statuses3) /\ accepted[k][d] \in Nat /\ unrecorded[k][d] \in Nat
  BY DEF AlertsInv, TypesInv
<1>8. s \in Seq(Statuses3)
  BY <1>7 DEF Statuses3
<1> HIDE DEF r
<1>9. proc'[p] = r
  BY <1>6, SetProc DEF AlertsInv
<1>10. Shape(p)'
  <2>1. "send" \in {"next"} \union Trying
    BY DEF Trying
  <2> QED BY <1>1, <1>5, <1>9, <2>1, TryingShape
<1>11. ASSUME k \notin RecoveryKeys
       PROVE  /\ Len(s) = proc[p].attempt /\ s[Len(s)] = "pending" /\ (\A i \in 1 .. Len(s) - 1 : s[i] = "failed")
              /\ (\A i \in 1 .. Len(s) : s[i] # "sent") /\ accepted[k][d] <= unrecorded[k][d]
  <2>1. /\ Len(attempts[k][d]) = proc[p].attempt - 1 /\ accepted[k][d] <= unrecorded[k][d]
        /\ \A i \in 1 .. Len(attempts[k][d]) : attempts[k][d][i] = "failed"
    BY <1>1, <1>3, <1>4, <1>11, OwnStage
  <2>2. PICK n \in Nat : n = proc[p].attempt
    BY <1>2
  <2>3. PICK u \in Seq(Statuses3) : u = attempts[k][d]
    BY <1>7
  <2>4. Len(u) = n - 1 /\ \A i \in 1 .. Len(u) : u[i] = "failed"
    BY <2>1, <2>2, <2>3
  <2>5. PICK t : t = Append(u, "pending")
    OBVIOUS
  <2>6. /\ Len(t) = n /\ t[n] = "pending"
        /\ \A i \in 1 .. Len(t) - 1 : t[i] = "failed"
        /\ \A i \in 1 .. Len(t) : t[i] # "sent"
    BY <2>4, <2>5, AddedPending
  <2>7. t = s
    BY <2>3, <2>5
  <2> HIDE DEF s
  <2> QED BY <2>1, <2>2, <2>6, <2>7
<1> HIDE DEF s
<1>12. /\ attempts' \in [Keys -> [Destinations -> Seq(Statuses3)]] /\ attempts'[k][d] = s
       /\ \A e \in Destinations : e # d => attempts'[k][e] = attempts[k][e]
       /\ \A j \in Keys : j # k => attempts'[j] = attempts[j]
  BY <1>6, <1>8, TriesSet DEF AlertsInv
<1>13. /\ aborted' \subseteq Sessions /\ calls' \in 0 .. MaxCalls /\ failures' \in 0 .. MaxFailures
       /\ accepted' \in [Keys -> [Destinations -> Nat]] /\ unrecorded' \in [Keys -> [Destinations -> Nat]]
  BY <1>6 DEF AlertsInv, TypesInv
<1>14. ASSUME k \notin RecoveryKeys
       PROVE  /\ AttemptsInv(k, d)'
              /\ Len(attempts'[k][d]) = r.attempt /\ attempts'[k][d][Len(attempts'[k][d])] = "pending"
              /\ accepted'[k][d] <= unrecorded'[k][d]
              /\ ~(Len(attempts'[k][d]) = MaxRetries /\ attempts'[k][d][MaxRetries] = "failed")
  <2>1. accepted'[k][d] = accepted[k][d] /\ unrecorded'[k][d] = unrecorded[k][d]
    BY <1>6
  <2>2. Len(s) <= MaxRetries /\ accepted[k][d] <= 1 + unrecorded[k][d]
    BY <1>2, <1>7, <1>11, <1>14, BoundsAssumption
  <2> QED BY <1>5, <1>11, <1>12, <1>14, <2>1, <2>2 DEF AttemptsInv
<1>15. \A j \in Keys : j # k => attempts'[j] = attempts[j] /\ accepted'[j] = accepted[j] /\ unrecorded'[j] = unrecorded[j]
  BY <1>6, <1>12
<1>16. \A e \in Destinations : e # d => /\ attempts'[k][e] = attempts[k][e] /\ accepted'[k][e] = accepted[k][e]
                                        /\ unrecorded'[k][e] = unrecorded[k][e]
  BY <1>6, <1>12
<1>17. k \notin RecoveryKeys => AttemptsInv(k, d)' /\ Leaves(p, r, k, d)
  BY <1>5, <1>14 DEF Leaves
<1>18. UNCHANGED <<rows, queue, handed, outcome, duplicates>>
  BY <1>6
<1>19. r.left # <<>> /\ r.at # "enqueue" /\ r.alert = proc[p].alert /\ r.left = proc[p].left /\ Set(p, r)
  BY <1>2, <1>5, <1>6
<1>20. Delivers(p, r, k, d)
  BY <1>2, <1>3, <1>4, <1>10, <1>12, <1>13, <1>15, <1>16, <1>18, <1>19 DEF Delivers
<1> QED BY <1>5, <1>17, <1>20, DeliveryKept

LEMMA SendKept == ASSUME AlertsInv, NEW p \in Processes, Send(p) PROVE AlertsInv'
<1>1. proc[p].at = "send" /\ proc[p].at \in Trying
  BY DEF Send, At, Trying
<1>2. /\ proc[p] \in ProcessRec /\ proc[p].left # <<>> /\ Head(proc[p].left) \in Destinations
      /\ Key(p) \in Keys /\ proc[p].at \notin Persisting /\ proc[p].attempt \in 1 .. MaxRetries
  BY <1>1, TryingIs
<1>3. PICK k \in Keys : k = Key(p)
  BY <1>2
<1>4. PICK d \in Destinations : d = Head(proc[p].left)
  BY <1>2
<1>5. PICK a \in {"sent", "failed"} :
        /\ Set(p, [proc[p] EXCEPT !.at = a])
        /\ a = "sent" => accepted' = [accepted EXCEPT ![k][d] = @ + 1]
        /\ a = "failed" => accepted' = accepted
  BY <1>3, <1>4 DEF Send, Destination
<1> DEFINE r == [proc[p] EXCEPT !.at = a]
<1>6. /\ r \in ProcessRec /\ r.at = a /\ r.alert = proc[p].alert /\ r.left = proc[p].left
      /\ r.attempt = proc[p].attempt
  <2>1. a \in Place
    BY DEF Place
  <2> QED BY <1>2, <2>1, MovedIs
<1>7. /\ Set(p, r)
      /\ UNCHANGED <<rows, attempts, aborted, queue, calls, failures, handed, duplicates, unrecorded, outcome>>
  BY <1>5 DEF Send, database
<1> HIDE DEF r
<1>8. proc'[p] = r
  BY <1>7, SetProc DEF AlertsInv
<1>9. Shape(p)'
  <2>1. a \in {"next"} \union Trying
    BY DEF Trying
  <2> QED BY <1>1, <1>6, <1>8, <2>1, TryingShape
<1>10. accepted \in [Keys -> [Destinations -> Nat]] /\ accepted[k][d] \in Nat /\ unrecorded[k][d] \in Nat
  BY DEF AlertsInv, TypesInv
<1>11. /\ accepted' \in [Keys -> [Destinations -> Nat]]
       /\ accepted'[k][d] = IF a = "sent" THEN accepted[k][d] + 1 ELSE accepted[k][d]
       /\ \A e \in Destinations : e # d => accepted'[k][e] = accepted[k][e]
       /\ \A j \in Keys : j # k => accepted'[j] = accepted[j]
  <2>1. CASE a = "sent"
    BY <1>5, <1>10, <2>1, CountsSet
  <2>2. CASE a = "failed"
    BY <1>5, <1>10, <2>2
  <2> QED BY <2>1, <2>2
<1>12. /\ aborted' \subseteq Sessions /\ calls' \in 0 .. MaxCalls /\ failures' \in 0 .. MaxFailures
       /\ attempts' \in [Keys -> [Destinations -> Seq(Statuses3)]] /\ unrecorded' \in [Keys -> [Destinations -> Nat]]
  BY <1>7 DEF AlertsInv, TypesInv
<1>13. ASSUME k \notin RecoveryKeys
       PROVE  /\ AttemptsInv(k, d)' /\ attempts'[k][d] = attempts[k][d]
              /\ Len(attempts'[k][d]) = r.attempt /\ attempts'[k][d][Len(attempts'[k][d])] = "pending"
              /\ IF a = "sent" THEN accepted'[k][d] > 0 ELSE accepted'[k][d] <= unrecorded'[k][d]
  <2>1. /\ AttemptsInv(k, d) /\ Len(attempts[k][d]) = proc[p].attempt
        /\ attempts[k][d][Len(attempts[k][d])] = "pending" /\ accepted[k][d] <= unrecorded[k][d]
    BY <1>1, <1>3, <1>4, <1>13, OwnStage
  <2>2. attempts'[k][d] = attempts[k][d] /\ unrecorded'[k][d] = unrecorded[k][d]
    BY <1>7
  <2>3. /\ accepted'[k][d] >= accepted[k][d] /\ accepted'[k][d] <= 1 + unrecorded[k][d]
        /\ IF a = "sent" THEN accepted'[k][d] > 0 ELSE accepted'[k][d] <= unrecorded[k][d]
        /\ (accepted[k][d] > 0 => accepted'[k][d] > 0)
    BY <1>10, <1>11, <2>1
  <2>4. AttemptsInv(k, d)'
    BY <2>1, <2>2, <2>3 DEF AttemptsInv
  <2> QED BY <1>6, <2>1, <2>2, <2>3, <2>4
<1>14. \A j \in Keys : j # k => attempts'[j] = attempts[j] /\ accepted'[j] = accepted[j] /\ unrecorded'[j] = unrecorded[j]
  BY <1>7, <1>11
<1>15. \A e \in Destinations : e # d => /\ attempts'[k][e] = attempts[k][e] /\ accepted'[k][e] = accepted[k][e]
                                        /\ unrecorded'[k][e] = unrecorded[k][e]
  BY <1>7, <1>11
<1>17. k \notin RecoveryKeys => AttemptsInv(k, d)' /\ Leaves(p, r, k, d)
  BY <1>6, <1>13 DEF Leaves
<1>18. UNCHANGED <<rows, queue, handed, outcome, duplicates>>
  BY <1>7
<1>19. r.left # <<>> /\ r.at # "enqueue" /\ r.alert = proc[p].alert /\ r.left = proc[p].left /\ Set(p, r)
  BY <1>2, <1>6, <1>7
<1>20. Delivers(p, r, k, d)
  BY <1>2, <1>3, <1>4, <1>9, <1>11, <1>12, <1>14, <1>15, <1>18, <1>19 DEF Delivers
<1> QED BY <1>6, <1>17, <1>20, DeliveryKept

LEMMA LastSet ==
  ASSUME NEW s \in Seq(Statuses3), NEW x \in Statuses3
  PROVE  LET t == [s EXCEPT ![Len(s)] = x]
         IN /\ t \in Seq(Statuses3) /\ Len(t) = Len(s)
            /\ \A i \in 1 .. Len(s) : t[i] = IF i = Len(s) THEN x ELSE s[i]
<1> DEFINE t == [s EXCEPT ![Len(s)] = x]
<1>1. Len(s) \in Nat /\ DOMAIN s = 1 .. Len(s)
  OBVIOUS
<1>2. CASE Len(s) = 0
  <2>1. s = <<>> /\ t = s
    BY <1>2
  <2>2. ~\E i \in 1 .. Len(s) : TRUE
    BY <1>2
  <2> HIDE DEF t
  <2>3. t \in Seq(Statuses3) /\ Len(t) = Len(s)
    BY <2>1
  <2>4. \A i \in 1 .. Len(s) : t[i] = IF i = Len(s) THEN x ELSE s[i]
    BY <2>2
  <2> QED BY <2>3, <2>4 DEF t
<1>3. CASE Len(s) # 0
  <2>1. Len(s) \in 1 .. Len(s)
    BY <1>1, <1>3
  <2> QED BY <2>1, ExceptSeq
<1> QED BY <1>2, <1>3

\* The status of the attempt made last is put on record.
LEMMA StatusKept ==
  ASSUME AlertsInv, NEW p \in Processes, proc[p].at \in Trying, NEW status \in {"sent", "failed"},
         IF status = "sent" THEN proc[p].at = "sent" ELSE proc[p].at \in {"failed", "unsure"},
         WithStatus(p, status), UNCHANGED <<rows, aborted, queue, calls, failures, history>>,
         NEW r \in ProcessRec, Set(p, r), Shape(p)', r.alert = proc[p].alert, r.left = proc[p].left, r.at # "enqueue",
         IF status = "sent" THEN r.at = "next"
         ELSE \/ r.at = "record" /\ r.attempt = proc[p].attempt + 1
              \/ r.at = "select" /\ p \in Workers
              \/ r.at = "next" /\ (\/ proc[p].alert.sev # 1 \/ Key(p) = FailedKey
                                   \/ (proc[p].attempt = 1 /\ p \in Callers))
  PROVE  AlertsInv'
<1>2. /\ proc[p] \in ProcessRec /\ proc[p].left # <<>> /\ Head(proc[p].left) \in Destinations
      /\ Key(p) \in Keys /\ proc[p].at \notin Persisting /\ proc[p].attempt \in 1 .. MaxRetries
  BY TryingIs
<1>3. PICK k \in Keys : k = Key(p)
  BY <1>2
<1>4. PICK d \in Destinations : d = Head(proc[p].left)
  BY <1>2
<1>5. attempts[k][d] \in Seq(Statuses3) /\ accepted[k][d] \in Nat /\ unrecorded[k][d] \in Nat /\ status \in Statuses3
  BY DEF AlertsInv, TypesInv, Statuses3
<1> DEFINE t == [attempts[k][d] EXCEPT ![Len(attempts[k][d])] = status]
<1>6. /\ t \in Seq(Statuses3) /\ Len(t) = Len(attempts[k][d])
      /\ \A i \in 1 .. Len(attempts[k][d]) : t[i] = IF i = Len(attempts[k][d]) THEN status ELSE attempts[k][d][i]
  BY <1>5, LastSet
<1>7. attempts' = [attempts EXCEPT ![k][d] = t]
  BY <1>3, <1>4 DEF WithStatus, Destination
<1> HIDE DEF t
<1>8. /\ attempts' \in [Keys -> [Destinations -> Seq(Statuses3)]] /\ attempts'[k][d] = t
      /\ \A e \in Destinations : e # d => attempts'[k][e] = attempts[k][e]
      /\ \A j \in Keys : j # k => attempts'[j] = attempts[j]
  BY <1>6, <1>7, TriesSet DEF AlertsInv
<1>9. ASSUME k \notin RecoveryKeys PROVE AttemptsInv(k, d)' /\ Leaves(p, r, k, d)
  <2>1. /\ AttemptsInv(k, d) /\ rows[k] # Absent /\ rows[k].sev = proc[p].alert.sev
        /\ Len(attempts[k][d]) = proc[p].attempt
        /\ IF proc[p].at = "sent" THEN accepted[k][d] > 0 ELSE accepted[k][d] <= unrecorded[k][d]
    BY <1>3, <1>4, <1>9, OwnStage
  <2>2. accepted'[k][d] = accepted[k][d] /\ unrecorded'[k][d] = unrecorded[k][d]
    BY DEF history
  <2> DEFINE n == proc[p].attempt
  <2>3. n \in Nat \ {0} /\ n <= MaxRetries /\ MaxRetries \in Nat \ {0}
    BY <1>2, BoundsAssumption
  <2> HIDE DEF n
  <2>4. /\ Len(t) = n /\ t[n] = status /\ \A i \in 1 .. n - 1 : t[i] = "failed"
    BY SMTT(30), <1>6, <2>1, <2>3 DEF AttemptsInv, n
  <2>5. (\E i \in 1 .. Len(t) : t[i] = "sent") => accepted[k][d] > 0
    <3>1. CASE status = "sent"
      BY <2>1, <3>1
    <3>2. CASE status = "failed"
      <4>1. \A i \in 1 .. n : i \in 1 .. n - 1 \/ i = n
        BY <2>3
      <4>2. \A i \in 1 .. n : t[i] = "failed"
        BY <2>4, <3>2, <4>1
      <4> QED BY <2>4, <4>2
    <3> QED BY <3>1, <3>2
  <2>6. AttemptsInv(k, d)'
    <3>1. accepted[k][d] <= 1 + unrecorded[k][d]
      BY <2>1 DEF AttemptsInv
    <3> QED BY <1>8, <2>2, <2>3, <2>4, <2>5, <3>1 DEF AttemptsInv
  <2>7. CASE status = "sent"
    <3>1. r.at = "next" /\ r.at \notin Trying
      BY <2>7 DEF Trying
    <3>2. t[n] = "sent" /\ Len(t) = n
      BY <2>4, <2>7
    <3> QED BY <1>8, <2>6, <3>1, <3>2 DEF Leaves
  <2>8. CASE status = "failed" /\ r.at = "record" /\ r.attempt = n + 1
    <3>1. \A i \in 1 .. n : i \in 1 .. n - 1 \/ i = n
      BY <2>3
    <3>2. \A i \in 1 .. Len(t) : t[i] = "failed"
      BY <2>4, <2>8, <3>1
    <3>3. Len(t) = r.attempt - 1 /\ accepted'[k][d] <= unrecorded'[k][d]
      BY <2>1, <2>2, <2>3, <2>4, <2>8
    <3>4. n < MaxRetries
      BY <2>3, <2>8 DEF ProcessRec
    <3>5. Len(t) # MaxRetries
      BY <2>3, <2>4, <3>4
    <3> QED BY <1>8, <2>6, <2>8, <3>2, <3>3, <3>5 DEF Leaves
  <2>9. CASE status = "failed" /\ r.at = "select" /\ p \in Workers
    <3>1. r.at \notin Trying /\ r.at \in Persisting
      BY <2>9 DEF Trying, Persisting
    <3> QED BY <2>6, <2>9, <3>1 DEF Leaves
  <2>10. CASE status = "failed" /\ r.at = "next" /\ (proc[p].alert.sev # 1 \/ Key(p) = FailedKey \/ (n = 1 /\ p \in Callers))
    <3>1. r.at \notin Trying
      BY <2>10 DEF Trying
    <3>2. rows[k].sev # 1 \/ rows[FailedKey] # Absent \/ n = 1
      BY <1>3, <2>1, <2>10
    <3>3. Len(attempts'[k][d]) = MaxRetries => n = MaxRetries
      BY <1>8, <2>4
    <3> QED BY <2>6, <3>1, <3>2, <3>3 DEF Leaves
  <2> QED BY <2>7, <2>8, <2>9, <2>10 DEF n
<1>10. Delivers(p, r, k, d)
  <2>1. /\ UNCHANGED <<rows, queue, handed, outcome, duplicates>>
        /\ UNCHANGED <<accepted, unrecorded>>
    BY DEF history
  <2>2. /\ aborted' \subseteq Sessions /\ calls' \in 0 .. MaxCalls /\ failures' \in 0 .. MaxFailures
        /\ accepted' \in [Keys -> [Destinations -> Nat]] /\ unrecorded' \in [Keys -> [Destinations -> Nat]]
    BY <2>1 DEF AlertsInv, TypesInv
  <2> QED BY <1>2, <1>3, <1>4, <1>8, <2>1, <2>2 DEF Delivers
<1> QED BY <1>9, <1>10, DeliveryKept

LEMMA RecordSentKept == ASSUME AlertsInv, NEW p \in Processes, RecordSent(p) PROVE AlertsInv'
<1>1. proc[p].at = "sent" /\ proc[p].at \in Trying
  BY DEF RecordSent, At, Trying
<1> DEFINE r == [proc[p] EXCEPT !.at = "next"]
<1>2. /\ r \in ProcessRec /\ r.at = "next" /\ r.alert = proc[p].alert /\ r.left = proc[p].left
      /\ r.attempt = proc[p].attempt
  <2>1. "next" \in Place
    BY DEF Place
  <2> QED BY <1>1, <2>1, MovedIs, TryingIs
<1>3. Set(p, r) /\ WithStatus(p, "sent") /\ UNCHANGED <<rows, aborted, queue, calls, failures, history>>
  BY DEF RecordSent
<1> HIDE DEF r
<1>4. proc'[p] = r
  BY <1>3, SetProc DEF AlertsInv
<1>5. Shape(p)'
  BY <1>1, <1>2, <1>4, TryingShape
<1>6. r.at # "enqueue" /\ r.at = "next"
  BY <1>2
<1> QED BY <1>1, <1>2, <1>3, <1>5, <1>6, StatusKept

LEMMA ReportingIs ==
  ASSUME NEW x \in ProcessRec
  PROVE  /\ [x EXCEPT !.at = "select", !.row = FailedKey] \in ProcessRec
         /\ [x EXCEPT !.at = "select", !.row = FailedKey].at = "select"
         /\ [x EXCEPT !.at = "select", !.row = FailedKey].row = FailedKey
         /\ [x EXCEPT !.at = "select", !.row = FailedKey].alert = x.alert
         /\ [x EXCEPT !.at = "select", !.row = FailedKey].left = x.left
         /\ [x EXCEPT !.at = "select", !.row = FailedKey].send = x.send
<1>1. "select" \in Place /\ FailedKey \in Keys
  BY KeysAssumption DEF Place
<1> QED BY <1>1 DEF ProcessRec

LEMMA RetriedIs ==
  ASSUME AlertsInv, NEW p \in Processes, proc[p].at \in {"failed", "unsure"}
  PROVE  LET r == Retry(p)
         IN /\ r \in ProcessRec /\ r.alert = proc[p].alert /\ r.left = proc[p].left /\ r.send = proc[p].send
            /\ \/ r.at = "record" /\ r.attempt = proc[p].attempt + 1 /\ p \in Workers
               \/ r.at = "select" /\ r.row = FailedKey /\ p \in Workers /\ proc[p].alert.sev = 1 /\ Key(p) # FailedKey
               \/ r.at = "next" /\ r.attempt = proc[p].attempt
                  /\ (proc[p].alert.sev # 1 \/ Key(p) = FailedKey \/ (proc[p].attempt = 1 /\ p \in Callers))
<1>1. /\ proc[p] \in ProcessRec /\ Shape(p) /\ proc[p].attempt \in 1 .. MaxRetries
  BY TryingIs DEF Trying
<1>2. MaxRetries \in Nat
  BY BoundsAssumption
<1>3. p \in Callers \/ p \in Workers
  BY DEF Processes
<1>4. {"record", "select", "next"} \subseteq Place /\ FailedKey \in Keys
  BY KeysAssumption DEF Place
<1>5. CASE p \in Workers /\ proc[p].attempt < MaxRetries
  <2>1. PICK n \in 1 .. MaxRetries : n = proc[p].attempt + 1
    BY <1>1, <1>2, <1>5
  <2> DEFINE y == [proc[p] EXCEPT !.at = "record", !.attempt = n]
  <2>2. /\ y \in ProcessRec /\ y.alert = proc[p].alert /\ y.left = proc[p].left
        /\ y.send = proc[p].send /\ y.at = "record" /\ y.attempt = n
    BY <1>1, <1>4, <2>1 DEF ProcessRec
  <2>3. Retry(p) = y
    BY <1>5, <2>1 DEF Retry
  <2> HIDE DEF y
  <2> QED BY <1>5, <2>1, <2>2, <2>3
<1>6. CASE p \in Workers /\ ~(proc[p].attempt < MaxRetries) /\ proc[p].alert.sev = 1 /\ Key(p) # FailedKey
  <2> DEFINE y == [proc[p] EXCEPT !.at = "select", !.row = FailedKey]
  <2>1. /\ y \in ProcessRec /\ y.alert = proc[p].alert /\ y.left = proc[p].left
        /\ y.send = proc[p].send /\ y.at = "select" /\ y.row = FailedKey
    BY <1>1, ReportingIs, Zenon
  <2>2. Retry(p) = y
    BY <1>6 DEF Retry
  <2> HIDE DEF y
  <2> QED BY <1>6, <2>1, <2>2
<1>7. CASE p \notin Workers \/ (~(proc[p].attempt < MaxRetries) /\ ~(proc[p].alert.sev = 1 /\ Key(p) # FailedKey))
  <2>1. Retry(p) = [proc[p] EXCEPT !.at = "next"]
    BY <1>7 DEF Retry
  <2>2. p \in Callers => proc[p].attempt = 1
    BY <1>1 DEF Shape
  <2>3. \A x \in ProcessRec :
          LET y == [x EXCEPT !.at = "next"]
          IN y \in ProcessRec /\ y.alert = x.alert /\ y.left = x.left /\ y.at = "next" /\ y.attempt = x.attempt
             /\ y.send = x.send
    BY <1>4 DEF ProcessRec
  <2>4. proc[p].alert.sev # 1 \/ Key(p) = FailedKey \/ (proc[p].attempt = 1 /\ p \in Callers)
    BY <1>3, <1>7, <2>2
  <2> QED BY <1>1, <2>1, <2>3, <2>4
<1> QED BY <1>5, <1>6, <1>7

LEMMA RecordFailedKept == ASSUME AlertsInv, NEW p \in Processes, RecordFailed(p) PROVE AlertsInv'
<1>1. proc[p].at \in {"failed", "unsure"} /\ proc[p].at \in Trying
  BY DEF RecordFailed, At, Trying
<1>2. Set(p, Retry(p)) /\ WithStatus(p, "failed") /\ UNCHANGED <<rows, aborted, queue, calls, failures, history>>
  BY DEF RecordFailed
<1>3. PICK r : r = Retry(p)
  OBVIOUS
<1>4. /\ r \in ProcessRec /\ r.alert = proc[p].alert /\ r.left = proc[p].left /\ r.send = proc[p].send
      /\ \/ r.at = "record" /\ r.attempt = proc[p].attempt + 1 /\ p \in Workers
         \/ r.at = "select" /\ r.row = FailedKey /\ p \in Workers /\ proc[p].alert.sev = 1 /\ Key(p) # FailedKey
         \/ r.at = "next" /\ r.attempt = proc[p].attempt
            /\ (proc[p].alert.sev # 1 \/ Key(p) = FailedKey \/ (proc[p].attempt = 1 /\ p \in Callers))
  BY <1>1, <1>3, RetriedIs
<1>5. Set(p, r)
  BY <1>2, <1>3
<1>6. proc'[p] = r
  BY <1>5, SetProc DEF AlertsInv
<1>7. p \in Workers => p \notin Callers /\ p \notin Checkers
  BY ProcessesAssumption DEF Callers
<1>8. Shape(p)'
  <2>1. CASE r.at = "record" \/ r.at = "next"
    <3>1. r.at \in {"next"} \union Trying
      BY <2>1 DEF Trying
    <3>2. r.attempt = proc[p].attempt \/ p \notin Callers
      BY <1>4, <1>7, <2>1
    <3> QED BY <1>1, <1>4, <1>6, <3>1, <3>2, TryingShape
  <2>2. CASE r.at = "select"
    <3>1. proc[p].left # <<>> /\ proc[p].alert \in Alert
      BY <1>1, TryingIs
    <3> QED BY <1>4, <1>6, <1>7, <2>2, <3>1 DEF Shape, Persisting, Trying, Key
  <2> QED BY <1>4, <2>1, <2>2
<1>9. r.at # "enqueue"
  BY <1>4
<1>10. \/ r.at = "record" /\ r.attempt = proc[p].attempt + 1
       \/ r.at = "select" /\ p \in Workers
       \/ r.at = "next" /\ (proc[p].alert.sev # 1 \/ Key(p) = FailedKey \/ (proc[p].attempt = 1 /\ p \in Callers))
  BY <1>4
<1> QED BY <1>1, <1>2, <1>4, <1>5, <1>8, <1>9, <1>10, StatusKept

LEMMA DeliveryRaisesKept == ASSUME AlertsInv, NEW p \in Processes, DeliveryRaises(p) PROVE AlertsInv'
<1>1. proc[p].at \in {"record", "sent", "failed", "unsure"} /\ proc[p].at \in Trying
  BY DEF DeliveryRaises, At, Trying
<1>2. /\ proc[p] \in ProcessRec /\ Shape(p) /\ proc[p].left # <<>> /\ Head(proc[p].left) \in Destinations
      /\ Key(p) \in Keys /\ proc[p].at \notin Persisting
  BY <1>1, TryingIs
<1>3. PICK k \in Keys : k = Key(p)
  BY <1>2
<1>4. PICK d \in Destinations : d = Head(proc[p].left)
  BY <1>2
<1>5. aborted' \subseteq Sessions /\ failures' \in 0 .. MaxFailures
  BY RaisesTypes DEF DeliveryRaises, AlertsInv
<1>6. UNCHANGED <<rows, attempts, queue, calls, handed, duplicates, accepted>>
  BY DEF DeliveryRaises
<1>7. calls' \in 0 .. MaxCalls
  BY <1>6 DEF AlertsInv, TypesInv
<1>8. unrecorded' = IF proc[p].at = "sent" THEN [unrecorded EXCEPT ![k][d] = @ + 1] ELSE unrecorded
  BY <1>3, <1>4 DEF DeliveryRaises, At, Destination
<1>9. ASSUME NEW a \in {"next", "unsure"}, Set(p, [proc[p] EXCEPT !.at = a]), UNCHANGED outcome,
             a = "unsure" => proc[p].at \in {"sent", "failed"}
      PROVE  AlertsInv'
  <2> DEFINE r == [proc[p] EXCEPT !.at = a]
  <2>1. /\ r \in ProcessRec /\ r.at = a /\ r.alert = proc[p].alert /\ r.left = proc[p].left
        /\ r.attempt = proc[p].attempt
    <3>1. a \in Place
      BY DEF Place
    <3> QED BY <1>2, <3>1, MovedIs
  <2>2. Set(p, r)
    BY <1>9
  <2> HIDE DEF r
  <2>3. proc'[p] = r
    BY <2>2, SetProc DEF AlertsInv
  <2>4. Shape(p)'
    <3>1. a \in {"next"} \union Trying
      BY DEF Trying
    <3> QED BY <1>1, <2>1, <2>3, <3>1, TryingShape
  <2>5. unrecorded \in [Keys -> [Destinations -> Nat]] /\ unrecorded[k][d] \in Nat /\ accepted[k][d] \in Nat
    BY DEF AlertsInv, TypesInv
  <2>6. /\ unrecorded' \in [Keys -> [Destinations -> Nat]]
        /\ unrecorded'[k][d] = IF proc[p].at = "sent" THEN unrecorded[k][d] + 1 ELSE unrecorded[k][d]
        /\ \A e \in Destinations : e # d => unrecorded'[k][e] = unrecorded[k][e]
        /\ \A j \in Keys : j # k => unrecorded'[j] = unrecorded[j]
    <3>1. CASE proc[p].at = "sent"
      BY <1>8, <2>5, <3>1, CountsSet
    <3>2. CASE proc[p].at # "sent"
      BY <1>8, <2>5, <3>2
    <3> QED BY <3>1, <3>2
  <2>7. Delivers(p, r, k, d)
    <3>1. /\ attempts' \in [Keys -> [Destinations -> Seq(Statuses3)]] /\ accepted' \in [Keys -> [Destinations -> Nat]]
          /\ UNCHANGED <<rows, queue, handed, outcome, duplicates>> /\ UNCHANGED <<attempts, accepted>>
      BY <1>6, <1>9 DEF AlertsInv, TypesInv
    <3>2. r.left # <<>> /\ r.at # "enqueue"
      BY <1>2, <2>1
    <3> QED BY <1>2, <1>3, <1>4, <1>5, <1>7, <2>1, <2>2, <2>4, <2>6, <3>1, <3>2 DEF Delivers
  <2>8. ASSUME k \notin RecoveryKeys PROVE AttemptsInv(k, d)' /\ Leaves(p, r, k, d)
    <3>1. /\ AttemptsInv(k, d)
          /\ proc[p].at \in {"sent", "failed"} =>
               /\ Len(attempts[k][d]) = proc[p].attempt /\ attempts[k][d][Len(attempts[k][d])] = "pending"
               /\ IF proc[p].at = "sent" THEN accepted[k][d] > 0 ELSE accepted[k][d] <= unrecorded[k][d]
      BY <1>1, <1>3, <1>4, <2>8, OwnStage
    <3>2. attempts'[k][d] = attempts[k][d] /\ accepted'[k][d] = accepted[k][d]
      BY <1>6
    <3>3. unrecorded'[k][d] >= unrecorded[k][d] /\ accepted[k][d] <= 1 + unrecorded'[k][d]
      BY <2>5, <2>6, <3>1 DEF AttemptsInv
    <3>4. AttemptsInv(k, d)'
      BY <3>1, <3>2, <3>3 DEF AttemptsInv
    <3>5. proc[p].at \in {"sent", "failed"} => accepted[k][d] <= unrecorded'[k][d]
      BY <2>5, <2>6, <3>1 DEF AttemptsInv
    <3>6. Leaves(p, r, k, d)
      <4>1. CASE a = "next"
        <5>1. a \notin Trying
          BY <4>1 DEF Trying
        <5> QED BY <2>1, <3>2, <5>1 DEF Leaves
      <4>2. CASE a = "unsure"
        BY <1>9, <2>1, <3>1, <3>2, <3>5, <4>2 DEF Leaves
      <4> QED BY <4>1, <4>2
    <3> QED BY <3>4, <3>6
  <2> QED BY <2>1, <2>7, <2>8, DeliveryKept
<1>10. ASSUME p \in Workers, proc[p].at \in {"record", "unsure"}, Set(p, AtRest), Abandon(p) PROVE AlertsInv'
  <2>1. outcome' = [outcome EXCEPT ![k] = "abandoned"]
    BY <1>3, <1>10 DEF Abandon
  <2>2. UNCHANGED <<rows, queue, handed, attempts, accepted, unrecorded, duplicates>>
    BY <1>6, <1>8, <1>10
  <2> QED BY <1>2, <1>3, <1>5, <1>7, <1>10, <2>1, <2>2, EndKept
<1>11. CASE p \in Callers
  BY <1>9, <1>11 DEF DeliveryRaises
<1>12. CASE p \notin Callers /\ proc[p].at \in {"sent", "failed"}
  BY <1>9, <1>12 DEF DeliveryRaises, At
<1>13. CASE p \notin Callers /\ proc[p].at \in {"record", "unsure"}
  BY <1>10, <1>13 DEF DeliveryRaises, At, Processes
<1> QED BY <1>1, <1>11, <1>12, <1>13

LEMMA NextKept == ASSUME AlertsInv, NEW p \in Processes, NextDestination(p) PROVE AlertsInv'
<1>1. proc[p].at = "next" /\ proc[p].at \notin Persisting
  BY DEF NextDestination, At, Persisting
<1>2. proc[p] \in ProcessRec /\ Shape(p) /\ proc[p].left # <<>> /\ proc[p].left \in Lefts
  BY <1>1, ProcIn DEF Shape, ProcessRec
<1>3. PICK k \in Keys : k = Key(p)
  BY <1>2, OwnFacts
<1>4. /\ UNCHANGED <<rows, attempts, aborted, queue, calls, failures, handed, duplicates, accepted, unrecorded>>
      /\ aborted' \subseteq Sessions /\ calls' \in 0 .. MaxCalls /\ failures' \in 0 .. MaxFailures
  BY DEF NextDestination, database, AlertsInv, TypesInv
<1>5. CASE Len(proc[p].left) > 1
  <2> DEFINE r == [proc[p] EXCEPT !.at = "record", !.left = Tail(proc[p].left), !.attempt = 1]
  <2>1. Set(p, r) /\ UNCHANGED outcome
    BY <1>5 DEF NextDestination
  <2>2. PICK l \in Lefts : l = Tail(proc[p].left)
    BY <1>2, LeftsParts
  <2>3. /\ l # <<>> /\ 2 \in 2 .. Len(proc[p].left) /\ Head(l) = proc[p].left[2]
        /\ \A i \in 2 .. Len(l) : i + 1 \in 2 .. Len(proc[p].left) /\ l[i] = proc[p].left[i + 1]
        /\ \A i \in 2 .. Len(proc[p].left) : proc[p].left[i] \in Destinations
    BY <1>2, <1>5, <2>2, LeftsParts
  <2>4. r \in ProcessRec /\ r.at = "record" /\ r.left = l /\ r.attempt = 1 /\ r.alert = proc[p].alert /\ r.send = proc[p].send
    <3>1. "record" \in Place /\ 1 \in 1 .. MaxRetries
      BY BoundsAssumption DEF Place
    <3>2. \A x \in ProcessRec : LET y == [x EXCEPT !.at = "record", !.left = l, !.attempt = 1] IN
            y \in ProcessRec /\ y.at = "record" /\ y.left = l /\ y.attempt = 1 /\ y.alert = x.alert /\ y.send = x.send
      BY <3>1 DEF ProcessRec
    <3>3. r = [proc[p] EXCEPT !.at = "record", !.left = l, !.attempt = 1]
      BY <2>2
    <3> QED BY <1>2, <3>2, <3>3
  <2> HIDE DEF r
  <2>5. proc'[p] = r
    BY <2>1, SetProc DEF AlertsInv
  <2>6. Shape(p)'
    <3>1. p \notin Checkers /\ proc[p].alert \in Alert
      BY <1>1, <1>2 DEF Shape, Persisting
    <3> QED BY <2>3, <2>4, <2>5, <3>1 DEF Shape, Persisting, Trying
  <2>7. TypesInv'
    <3>1. proc' \in [Processes -> ProcessRec]
      BY <2>1, <2>4 DEF AlertsInv, TypesInv, Set
    <3> QED BY <1>4, <2>1, <3>1 DEF AlertsInv, TypesInv
  <2>8. ASSUME k \notin RecoveryKeys
        PROVE  StageInv(p, k)' /\ ReportedInv(k)' /\ \A d \in Destinations : AttemptsInv(k, d)'
    <3>1. Delivering(k) = {p} /\ rows[k] # Absent /\ StageInv(p, k) /\ ReportedInv(k)
          /\ \A d \in Destinations : AttemptsInv(k, d)
      BY <1>2, <1>3, <2>8, OwnFacts
    <3>2. p \in Delivering(k)'
      BY <1>3, <2>3, <2>4, <2>5 DEF Delivering, Key
    <3>3. \A d \in Destinations : AttemptsInv(k, d)'
      BY <1>4, <3>1 DEF AttemptsInv
    <3>4. ReportedInv(k)'
      <4>1. RowsGrow(k) /\ UNCHANGED outcome /\ attempts'[k] = attempts[k] /\ rows'[FailedKey] = rows[FailedKey]
        BY <1>4, <2>1 DEF RowsGrow
      <4> QED BY <1>1, <3>1, <3>2, <4>1, ReportedOwn
    <3>5. \A i \in 2 .. Len(proc[p].left) : attempts[k][proc[p].left[i]] = <<>> /\ accepted[k][proc[p].left[i]] = 0
      BY <3>1 DEF StageInv
    <3>6. attempts[k][Head(l)] = <<>> /\ accepted[k][Head(l)] = 0 /\ unrecorded[k][Head(l)] \in Nat
      <4>1. PICK e \in Destinations : e = Head(l)
        BY <2>3
      <4>2. attempts[k][e] = <<>> /\ accepted[k][e] = 0
        BY <2>3, <3>5, <4>1
      <4>3. unrecorded[k][e] \in Nat
        BY DEF AlertsInv, TypesInv
      <4> QED BY <4>1, <4>2, <4>3
    <3>7. \A i \in 2 .. Len(l) : attempts[k][l[i]] = <<>> /\ accepted[k][l[i]] = 0
      BY <2>3, <3>5
    <3>8. proc'[p].left = l /\ proc'[p].at = "record" /\ proc'[p].attempt = 1
      BY <2>4, <2>5
    <3>9. StageInv(p, k)'
      <4>1. \A i \in 2 .. Len(proc'[p].left) : attempts'[k][proc'[p].left[i]] = <<>> /\ accepted'[k][proc'[p].left[i]] = 0
        BY <1>4, <3>7, <3>8
      <4>2. /\ attempts'[k][Head(proc'[p].left)] = <<>> /\ accepted'[k][Head(proc'[p].left)] = 0
            /\ unrecorded'[k][Head(proc'[p].left)] \in Nat
        BY <1>4, <3>6, <3>8
      <4> QED BY <3>8, <4>1, <4>2 DEF StageInv
    <3> QED BY <3>3, <3>4, <3>9
  <2>9. \A j \in Keys : RowsGrow(j) /\ CountInv(j)'
    BY <1>4 DEF RowsGrow, CountInv, AlertsInv
  <2>10. UNCHANGED queue /\ UNCHANGED <<handed, outcome>>
         /\ \A j \in Keys : attempts'[j] = attempts[j] /\ accepted'[j] = accepted[j] /\ unrecorded'[j] = unrecorded[j]
    BY <1>4, <2>1
  <2>11. r.left # <<>> /\ r.alert = proc[p].alert /\ r.at # "enqueue"
    BY <2>3, <2>4
  <2> QED BY <1>2, <1>3, <2>1, <2>6, <2>7, <2>8, <2>9, <2>10, <2>11, WorkKept
<1>6. CASE ~(Len(proc[p].left) > 1)
  <2>1. Set(p, AtRest) /\ outcome' = [outcome EXCEPT ![k] = "done"]
    BY <1>3, <1>6 DEF NextDestination
  <2> QED BY <1>1, <1>2, <1>3, <1>4, <2>1, EndKept
<1> QED BY <1>5, <1>6

\* The alerts of a key that wait in the queue are the same ones, in their places or moved up.
WaitsAlike(k) ==
  /\ Waiting(k)' = {} <=> Waiting(k) = {}
  /\ (\A i, j \in Waiting(k) : i = j) => \A i, j \in Waiting(k)' : i = j
  /\ \A i \in Waiting(k)' : \E h \in Waiting(k) : queue'[i] = queue[h]

LEMMA WaitedKept ==
  ASSUME NEW k \in Keys, KeyInv(k), UNCHANGED <<rows, attempts, accepted, unrecorded>>,
         handed'[k] = handed[k], outcome'[k] = outcome[k],
         Delivering(k)' = Delivering(k), Entering(k)' = Entering(k),
         \A p \in Delivering(k) \union Entering(k) : proc'[p] = proc[p], WaitsAlike(k)
  PROVE  KeyInv(k)'
<1>1. /\ Waiting(k)' = {} <=> Waiting(k) = {}
      /\ (\A i, j \in Waiting(k) : i = j) => \A i, j \in Waiting(k)' : i = j
      /\ \A i \in Waiting(k)' : \E h \in Waiting(k) : queue'[i] = queue[h]
  BY DEF WaitsAlike
<1>2. Untried(k)' <=> Untried(k)
  BY DEF Untried
<1> HIDE DEF Delivering, Entering, Waiting
<1>3. PlaceInv(k)'
  <2>1. /\ handed'[k] <= 1
        /\ handed'[k] = 0 => outcome'[k] = "none" /\ Delivering(k)' = {} /\ Waiting(k)' = {} /\ Untried(k)'
        /\ Entering(k)' # {} => handed'[k] = 0
        /\ rows'[k] = Absent => handed'[k] = 0 /\ Entering(k)' = {}
    BY <1>1, <1>2 DEF KeyInv, PlaceInv
  <2>2. /\ \A p, q \in Entering(k)' : p = q
        /\ \A p \in Entering(k)' : rows'[k].sev = proc'[p].alert.sev
        /\ \A p, q \in Delivering(k)' : p = q
        /\ \A p \in Delivering(k)' : rows'[k].sev = proc'[p].alert.sev /\ outcome'[k] = "pending" /\ Waiting(k)' = {}
    BY <1>1 DEF KeyInv, PlaceInv
  <2>3. \A i, j \in Waiting(k)' : i = j
    BY <1>1 DEF KeyInv, PlaceInv
  <2>4. \A i \in Waiting(k)' : rows'[k].sev = queue'[i].sev /\ outcome'[k] = "pending" /\ Untried(k)'
    BY <1>1, <1>2 DEF KeyInv, PlaceInv
  <2>5. /\ outcome'[k] = "pending" => Waiting(k)' # {} \/ Delivering(k)' # {}
        /\ outcome'[k] = "dropped" => rows'[k].sev # 1
    BY <1>1 DEF KeyInv, PlaceInv
  <2> QED BY <2>1, <2>2, <2>3, <2>4, <2>5 DEF PlaceInv
<1>4. \A d \in Destinations : AttemptsInv(k, d)'
  BY DEF KeyInv, AttemptsInv
<1>5. \A p \in Delivering(k)' : StageInv(p, k)'
  <2>1. SUFFICES ASSUME NEW p \in Delivering(k) PROVE StageInv(p, k)'
    OBVIOUS
  <2>2. StageInv(p, k) /\ proc'[p] = proc[p]
    BY <2>1 DEF KeyInv
  <2> QED BY <2>2 DEF StageInv
<1>6. ReportedInv(k)'
  BY DEF KeyInv, ReportedInv
<1> QED BY <1>3, <1>4, <1>5, <1>6 DEF KeyInv

LEMMA FreshKept ==
  ASSUME TypesInv, NEW k \in Keys, Untried(k), UNCHANGED <<rows, attempts, accepted, unrecorded>>, PlaceInv(k)',
         \A p \in Delivering(k)' : StageInv(p, k)'
  PROVE  KeyInv(k)'
<1>1. MaxRetries \in Nat /\ MaxRetries # 0
  BY BoundsAssumption
<1>2. \A d \in Destinations : attempts'[k][d] = <<>> /\ accepted'[k][d] = 0 /\ unrecorded'[k][d] \in Nat
  BY DEF Untried, TypesInv
<1>3. \A d \in Destinations : AttemptsInv(k, d)'
  <2>1. SUFFICES ASSUME NEW d \in Destinations PROVE AttemptsInv(k, d)'
    OBVIOUS
  <2>2. /\ Len(attempts'[k][d]) = 0 /\ accepted'[k][d] = 0 /\ unrecorded'[k][d] \in Nat
    BY <1>2
  <2> QED BY <1>1, <2>2 DEF AttemptsInv
<1>4. ReportedInv(k)'
  BY <1>1, <1>2 DEF ReportedInv
<1> QED BY <1>3, <1>4 DEF KeyInv

\* The alert of a key comes to p, or leaves it for the queue; other keys see at most their
\* alerts in the queue move up.
Gives(p, r, k0) ==
  /\ Set(p, r) /\ Shape(p)' /\ UNCHANGED <<rows, attempts, duplicates, accepted, unrecorded>>
  /\ proc[p].left = <<>> /\ r.at # "enqueue" /\ (r.left # <<>> => r.alert.key = k0)
  /\ proc[p].at = "enqueue" => Key(p) = k0
  /\ \A k \in Keys : k # k0 => handed'[k] = handed[k] /\ outcome'[k] = outcome[k] /\ WaitsAlike(k)

LEMMA GivenKept ==
  ASSUME AlertsInv, NEW p \in Processes, NEW r, NEW k0 \in Keys, Gives(p, r, k0), TypesInv',
         k0 \notin RecoveryKeys => KeyInv(k0)'
  PROVE  AlertsInv'
<1>1. Set(p, r) /\ UNCHANGED <<rows, attempts, duplicates, accepted, unrecorded>> /\ Shape(p)'
  BY DEF Gives
<1>2. \A q \in Processes : Shape(q)'
  BY <1>1, ShapeKept
<1>3. \A k \in Keys : CountInv(k)'
  BY <1>1 DEF AlertsInv, CountInv
<1>4. ASSUME NEW k \in Keys, k # k0, k \notin RecoveryKeys PROVE KeyInv(k)'
  <2>1. p \notin Delivering(k) /\ p \notin Entering(k)
    BY <1>4 DEF Gives, Delivering, Entering
  <2>2. /\ ~(r.left # <<>> /\ r.alert.key = k) /\ ~(r.at = "enqueue" /\ r.alert.key = k)
    BY <1>4 DEF Gives
  <2>3. TypesInv
    BY DEF AlertsInv
  <2>4. Delivering(k)' = Delivering(k) /\ Entering(k)' = Entering(k)
    <3>1. Delivering(k)' = Delivering(k) \ {p} /\ Entering(k)' = Entering(k) \ {p}
      BY <1>1, <2>2, <2>3, SetProc
    <3> QED BY <2>1, <3>1
  <2>5. \A q \in Delivering(k) \union Entering(k) : proc'[q] = proc[q]
    <3>1. \A q \in Processes : q # p => proc'[q] = proc[q]
      BY <1>1, <2>3, SetProc
    <3> QED BY <2>1, <3>1 DEF Delivering, Entering
  <2>6. handed'[k] = handed[k] /\ outcome'[k] = outcome[k] /\ WaitsAlike(k)
    BY <1>4 DEF Gives
  <2>7. KeyInv(k)
    BY <1>4 DEF AlertsInv
  <2> QED BY <1>1, <2>4, <2>5, <2>6, <2>7, WaitedKept
<1>5. \A k \in Keys \ RecoveryKeys : KeyInv(k)'
  BY <1>4
<1> QED BY <1>2, <1>3, <1>5 DEF AlertsInv

LEMMA EnteringIs ==
  ASSUME AlertsInv, NEW p \in Processes, proc[p].at = "enqueue"
  PROVE  /\ proc[p] \in ProcessRec /\ proc[p].left = <<>> /\ proc[p].alert \in Alert /\ Key(p) \in Keys
         /\ p \in Callers /\ p \notin Checkers /\ proc[p].attempt = 1 /\ p \in Entering(Key(p))
         /\ Key(p) \notin RecoveryKeys =>
              /\ PlaceInv(Key(p)) /\ handed[Key(p)] = 0 /\ outcome[Key(p)] = "none" /\ Entering(Key(p)) = {p}
              /\ Delivering(Key(p)) = {} /\ Waiting(Key(p)) = {} /\ Untried(Key(p))
              /\ rows[Key(p)] # Absent /\ rows[Key(p)].sev = proc[p].alert.sev
<1>1. proc[p] \in ProcessRec /\ Shape(p)
  BY ProcIn
<1>2. proc[p].left = <<>> /\ proc[p].alert \in Alert /\ p \notin Workers /\ p \notin Checkers
      /\ (p \in Callers => proc[p].attempt = 1)
  BY <1>1 DEF Shape, Persisting
<1>3. Key(p) \in Keys /\ p \in Callers
  BY <1>2 DEF Key, Alert, Processes
<1>4. p \in Entering(Key(p))
  BY DEF Entering
<1>5. ASSUME Key(p) \notin RecoveryKeys
      PROVE  /\ PlaceInv(Key(p)) /\ handed[Key(p)] = 0 /\ outcome[Key(p)] = "none" /\ Entering(Key(p)) = {p}
             /\ Delivering(Key(p)) = {} /\ Waiting(Key(p)) = {} /\ Untried(Key(p))
             /\ rows[Key(p)] # Absent /\ rows[Key(p)].sev = proc[p].alert.sev
  <2>1. PlaceInv(Key(p))
    BY <1>3, <1>5 DEF AlertsInv, KeyInv
  <2> QED BY <1>4, <2>1 DEF PlaceInv
<1> QED BY <1>1, <1>2, <1>3, <1>4, <1>5

\* What the queue and the counts are when an alert of key k has been given to the hub.
GivenTypes(k, n, end) ==
  /\ queue' \in Seq(Alert) /\ Len(queue') <= QueueSize
  /\ handed' = [handed EXCEPT ![k] = @ + 1] /\ n = handed[k] + 1
  /\ end \in Outcomes /\ outcome' = [outcome EXCEPT ![k] = end]
  /\ UNCHANGED <<database, calls, failures, duplicates, accepted, unrecorded>>

LEMMA GivenTypesKept ==
  ASSUME TypesInv, NEW k \in Keys, NEW n, NEW end, GivenTypes(k, n, end),
         NEW p \in Processes, NEW r \in ProcessRec, Set(p, r)
  PROVE  /\ TypesInv' /\ handed'[k] = n /\ outcome'[k] = end /\ n = handed[k] + 1
         /\ \A j \in Keys : j # k => handed'[j] = handed[j] /\ outcome'[j] = outcome[j]
<1>1. /\ handed' \in [Keys -> Nat] /\ handed'[k] = n /\ \A j \in Keys : j # k => handed'[j] = handed[j]
  BY DEF TypesInv, GivenTypes
<1>2. /\ outcome' \in [Keys -> Outcomes] /\ outcome'[k] = end /\ \A j \in Keys : j # k => outcome'[j] = outcome[j]
  BY DEF TypesInv, GivenTypes
<1>3. proc' \in [Processes -> ProcessRec]
  BY DEF TypesInv, Set
<1>4. /\ queue' \in Seq(Alert) /\ Len(queue') <= QueueSize
      /\ UNCHANGED <<rows, attempts, aborted, calls, failures, duplicates, accepted, unrecorded>>
  BY DEF GivenTypes, database
<1>5. TypesInv'
  BY <1>1, <1>2, <1>3, <1>4 DEF TypesInv
<1> QED BY <1>1, <1>2, <1>5 DEF GivenTypes

LEMMA EnqueueKept == ASSUME AlertsInv, NEW p \in Processes, Enqueue(p) PROVE AlertsInv'
<1>1. proc[p].at = "enqueue"
  BY DEF Enqueue, At
<1>2. PICK k \in Keys : k = Key(p)
  BY <1>1, EnteringIs
<1>3. /\ proc[p] \in ProcessRec /\ proc[p].left = <<>> /\ proc[p].alert \in Alert /\ proc[p].alert.key = k
      /\ p \in Callers /\ p \notin Checkers /\ proc[p].attempt = 1
      /\ k \notin RecoveryKeys =>
           /\ PlaceInv(k) /\ handed[k] = 0 /\ outcome[k] = "none" /\ Entering(k) = {p}
           /\ Delivering(k) = {} /\ Waiting(k) = {} /\ Untried(k)
           /\ rows[k] # Absent /\ rows[k].sev = proc[p].alert.sev
  <2>1. /\ proc[p] \in ProcessRec /\ proc[p].left = <<>> /\ proc[p].alert \in Alert
        /\ p \in Callers /\ p \notin Checkers /\ proc[p].attempt = 1
        /\ Key(p) \notin RecoveryKeys =>
             /\ PlaceInv(Key(p)) /\ handed[Key(p)] = 0 /\ outcome[Key(p)] = "none" /\ Entering(Key(p)) = {p}
             /\ Delivering(Key(p)) = {} /\ Waiting(Key(p)) = {} /\ Untried(Key(p))
             /\ rows[Key(p)] # Absent /\ rows[Key(p)].sev = proc[p].alert.sev
    BY <1>1, EnteringIs
  <2> QED BY <1>2, <2>1 DEF Key
<1>4. TypesInv /\ queue \in Seq(Alert) /\ Len(queue) \in Nat /\ Len(queue) <= QueueSize /\ QueueSize \in Nat
  BY BoundsAssumption DEF AlertsInv, TypesInv
<1>5. UNCHANGED <<database, calls, failures, duplicates, accepted, unrecorded>>
  BY DEF Enqueue
<1>6. UNCHANGED <<rows, attempts, duplicates, accepted, unrecorded>>
  BY <1>5 DEF database
<1>7. handed[k] \in Nat
  BY <1>4 DEF TypesInv
<1>8. PICK n \in Nat : n = handed[k] + 1
  BY <1>7
<1>9. ASSUME NEW end \in Outcomes, NEW r \in ProcessRec, Set(p, r), GivenTypes(k, n, end), Shape(p)',
             r.at # "enqueue", r.left # <<>> => r.alert.key = k,
             \A j \in Keys : j # k => WaitsAlike(j),
             k \notin RecoveryKeys => KeyInv(k)'
      PROVE  AlertsInv'
  <2>1. TypesInv' /\ \A j \in Keys : j # k => handed'[j] = handed[j] /\ outcome'[j] = outcome[j]
    BY <1>4, <1>9, GivenTypesKept
  <2>2. Gives(p, r, k)
    BY <1>2, <1>3, <1>6, <1>9, <2>1 DEF Gives
  <2> QED BY <1>9, <2>1, <2>2, GivenKept
<1>10. UNCHANGED queue => \A j \in Keys : WaitsAlike(j)
  BY DEF WaitsAlike, Waiting
<1>11. CASE Len(queue) < QueueSize
  <2> DEFINE alert == proc[p].alert
  <2>1. queue' = Append(queue, alert) /\ Set(p, AtRest)
        /\ handed' = [handed EXCEPT ![k] = @ + 1] /\ outcome' = [outcome EXCEPT ![k] = "pending"]
    BY <1>2, <1>3, <1>11 DEF Enqueue
  <2>2. /\ queue' \in Seq(Alert) /\ Len(queue') = Len(queue) + 1 /\ queue'[Len(queue) + 1] = alert
        /\ \A i \in 1 .. Len(queue) : queue'[i] = queue[i]
        /\ DOMAIN queue = 1 .. Len(queue) /\ DOMAIN queue' = 1 .. Len(queue')
    <3>1. alert \in Alert
      BY <1>3
    <3> HIDE DEF alert
    <3> QED BY <1>4, <2>1, <3>1, AppendProperties
  <2>3. GivenTypes(k, n, "pending")
    BY <1>4, <1>5, <1>8, <1>11, <2>1, <2>2 DEF GivenTypes, Outcomes
  <2>4. AtRest \in ProcessRec /\ AtRest.at = "idle" /\ AtRest.left = <<>> /\ AtRest.attempt = 1 /\ AtRest.send = FALSE
    BY AtRestIn
  <2>5. proc'[p] = AtRest
    BY <1>4, <2>1, SetProc
  <2>6. Shape(p)'
    BY <2>4, <2>5, RestShape
  <2>7. ASSUME NEW j \in Keys, j # k PROVE WaitsAlike(j)
    <3>1. \A i : i \in Waiting(j)' <=> i \in Waiting(j)
      BY <1>3, <1>4, <2>2, <2>7 DEF Waiting
    <3>2. \A i \in Waiting(j) : queue'[i] = queue[i]
      BY <2>2 DEF Waiting
    <3> HIDE DEF Waiting
    <3>3. Waiting(j)' = Waiting(j)
      BY <3>1
    <3> QED BY <3>2, <3>3 DEF WaitsAlike
  <2>8. ASSUME k \notin RecoveryKeys PROVE KeyInv(k)'
    <3>1. Waiting(k)' = {Len(queue) + 1}
      <4>1. \A i : i \in Waiting(k)' <=> i = Len(queue) + 1
        <5>1. \A i \in 1 .. Len(queue) : queue[i].key # k
          BY <1>3, <2>2, <2>8 DEF Waiting
        <5> QED BY <1>3, <1>4, <2>2, <5>1 DEF Waiting
      <4> HIDE DEF Waiting
      <4> QED BY <4>1
    <3>2. Delivering(k)' = {} /\ Entering(k)' = {}
      <4>1. Delivering(k)' = Delivering(k) \ {p} /\ Entering(k)' = Entering(k) \ {p}
        BY <1>4, <2>1, <2>4, SetProc
      <4> QED BY <1>3, <2>8, <4>1
    <3>3. handed'[k] = 1 /\ outcome'[k] = "pending"
      BY <1>3, <1>4, <1>8, <2>1, <2>3, <2>4, <2>8, GivenTypesKept
    <3>4. Untried(k)' /\ rows'[k] # Absent /\ rows'[k].sev = alert.sev
      BY <1>3, <1>6, <2>8 DEF Untried
    <3>5. queue'[Len(queue) + 1].sev = alert.sev
      BY <2>2
    <3> HIDE DEF Waiting, Delivering, Entering
    <3>6. PlaceInv(k)'
      BY <3>1, <3>2, <3>3, <3>4, <3>5 DEF PlaceInv
    <3> QED BY <1>3, <1>4, <1>6, <2>8, <3>2, <3>6, FreshKept
  <2>9. "pending" \in Outcomes
    BY DEF Outcomes
  <2> QED BY <1>9, <2>1, <2>3, <2>4, <2>6, <2>7, <2>8, <2>9
<1>12. CASE ~(Len(queue) < QueueSize) /\ proc[p].alert.sev = 1
  <2> DEFINE r == [proc[p] EXCEPT !.at = "record", !.left = DestinationsFor(proc[p].alert)]
  <2>1. queue' = queue /\ Set(p, r)
        /\ handed' = [handed EXCEPT ![k] = @ + 1] /\ outcome' = [outcome EXCEPT ![k] = "pending"]
    BY <1>2, <1>3, <1>12 DEF Enqueue
  <2>2. GivenTypes(k, n, "pending")
    BY <1>4, <1>5, <1>8, <2>1 DEF GivenTypes, Outcomes
  <2>3. PICK l \in Lefts : l = DestinationsFor(proc[p].alert) /\ l # <<>> /\ Head(l) \in Destinations
    BY <1>3, <1>12, DestinationsForIs
  <2>4. /\ r \in ProcessRec /\ r.at = "record" /\ r.left = l /\ r.alert = proc[p].alert /\ r.attempt = 1
        /\ r.send = proc[p].send
    <3>1. "record" \in Place
      BY DEF Place
    <3>2. \A x \in ProcessRec :
            LET y == [x EXCEPT !.at = "record", !.left = l]
            IN y \in ProcessRec /\ y.at = "record" /\ y.left = l /\ y.alert = x.alert /\ y.attempt = x.attempt
               /\ y.send = x.send
      BY <3>1 DEF ProcessRec
    <3> QED BY <1>3, <2>3, <3>2, Zenon
  <2> HIDE DEF r
  <2>5. proc'[p] = r
    BY <1>4, <2>1, SetProc
  <2>6. Shape(p)'
    BY <1>3, <2>3, <2>4, <2>5, ProcessesAssumption DEF Shape, Persisting, Trying, Callers
  <2>7. ASSUME k \notin RecoveryKeys PROVE KeyInv(k)'
    <3>1. Waiting(k)' = {}
      BY <1>3, <2>1, <2>7 DEF Waiting
    <3>2. Delivering(k)' = {p} /\ Entering(k)' = {}
      <4>1. Delivering(k)' = Delivering(k) \union {p} /\ Entering(k)' = Entering(k) \ {p}
        BY <1>3, <1>4, <2>1, <2>3, <2>4, SetProc
      <4> QED BY <1>3, <2>7, <4>1
    <3>3. handed'[k] = 1 /\ outcome'[k] = "pending"
      BY <1>3, <1>4, <1>8, <2>1, <2>2, <2>4, <2>7, GivenTypesKept
    <3>4. Untried(k)' /\ rows'[k] # Absent /\ rows'[k].sev = proc'[p].alert.sev
      BY <1>3, <1>6, <2>4, <2>5, <2>7 DEF Untried
    <3>5. StageInv(p, k)'
      <4>1. \A i \in 2 .. Len(l) : attempts'[k][l[i]] = <<>> /\ accepted'[k][l[i]] = 0
        BY <2>3, <3>4, LeftsParts DEF Untried
      <4>2. /\ attempts'[k][Head(l)] = <<>> /\ accepted'[k][Head(l)] = 0 /\ unrecorded'[k][Head(l)] \in Nat
        BY <1>4, <1>6, <2>3, <3>4 DEF Untried, TypesInv
      <4>3. /\ Len(attempts'[k][Head(l)]) = r.attempt - 1
            /\ (\A i \in 1 .. Len(attempts'[k][Head(l)]) : attempts'[k][Head(l)][i] = "failed")
            /\ accepted'[k][Head(l)] <= unrecorded'[k][Head(l)]
        BY <2>4, <4>2
      <4> QED BY <2>4, <2>5, <4>1, <4>3 DEF StageInv
    <3> HIDE DEF Waiting, Delivering, Entering
    <3>6. PlaceInv(k)'
      BY <3>1, <3>2, <3>3, <3>4 DEF PlaceInv
    <3> QED BY <1>3, <1>4, <1>6, <2>7, <3>2, <3>5, <3>6, FreshKept
  <2>8. "pending" \in Outcomes /\ r.at # "enqueue" /\ r.alert.key = k
    BY <1>3, <2>4 DEF Outcomes
  <2> QED BY <1>9, <1>10, <2>1, <2>2, <2>4, <2>6, <2>7, <2>8
<1>13. CASE ~(Len(queue) < QueueSize) /\ proc[p].alert.sev # 1
  <2>1. queue' = queue /\ Set(p, AtRest)
        /\ handed' = [handed EXCEPT ![k] = @ + 1] /\ outcome' = [outcome EXCEPT ![k] = "dropped"]
    BY <1>2, <1>3, <1>13 DEF Enqueue
  <2>2. GivenTypes(k, n, "dropped")
    BY <1>4, <1>5, <1>8, <2>1 DEF GivenTypes, Outcomes
  <2>3. AtRest \in ProcessRec /\ AtRest.at = "idle" /\ AtRest.left = <<>> /\ AtRest.attempt = 1 /\ AtRest.send = FALSE
    BY AtRestIn
  <2>4. proc'[p] = AtRest
    BY <1>4, <2>1, SetProc
  <2>5. Shape(p)'
    BY <2>3, <2>4, RestShape
  <2>6. ASSUME k \notin RecoveryKeys PROVE KeyInv(k)'
    <3>1. Waiting(k)' = {}
      BY <1>3, <2>1, <2>6 DEF Waiting
    <3>2. Delivering(k)' = {} /\ Entering(k)' = {}
      <4>1. Delivering(k)' = Delivering(k) \ {p} /\ Entering(k)' = Entering(k) \ {p}
        BY <1>4, <2>1, <2>3, SetProc
      <4> QED BY <1>3, <2>6, <4>1
    <3>3. handed'[k] = 1 /\ outcome'[k] = "dropped"
      BY <1>3, <1>4, <1>8, <2>1, <2>2, <2>3, <2>6, GivenTypesKept
    <3>4. Untried(k)' /\ rows'[k] # Absent /\ rows'[k].sev # 1
      BY <1>3, <1>6, <1>13, <2>6 DEF Untried
    <3> HIDE DEF Waiting, Delivering, Entering
    <3>5. PlaceInv(k)'
      BY <3>1, <3>2, <3>3, <3>4 DEF PlaceInv
    <3> QED BY <1>3, <1>4, <1>6, <2>6, <3>2, <3>5, FreshKept
  <2>7. "dropped" \in Outcomes
    BY DEF Outcomes
  <2> QED BY <1>9, <1>10, <2>1, <2>2, <2>3, <2>5, <2>6, <2>7
<1> QED BY <1>11, <1>12, <1>13

LEMMA TakeKept == ASSUME AlertsInv, NEW p \in Workers, Take(p) PROVE AlertsInv'
<1>1. p \in Processes /\ p \notin Callers /\ p \notin Checkers
  BY ProcessesAssumption DEF Processes, Callers
<1>2. proc[p].at = "idle" /\ queue # <<>> /\ queue' = Tail(queue)
      /\ UNCHANGED <<database, calls, failures, history>>
  BY DEF Take, At
<1>3. proc[p].left = <<>> /\ TypesInv
  BY <1>1, <1>2 DEF AlertsInv, Shape
<1>4. UNCHANGED <<rows, attempts, aborted, calls, failures, handed, duplicates, accepted, unrecorded, outcome>>
  BY <1>2 DEF database, history
<1>5. /\ queue \in Seq(Alert) /\ Len(queue) \in Nat /\ Len(queue) >= 1 /\ Len(queue) <= QueueSize
      /\ Head(queue) = queue[1] /\ queue[1] \in Alert /\ DOMAIN queue = 1 .. Len(queue) /\ QueueSize \in Nat
  <2>1. queue \in Seq(Alert) /\ Len(queue) <= QueueSize
    BY <1>3 DEF TypesInv
  <2> QED BY <1>2, <2>1, BoundsAssumption
<1>6. /\ queue' \in Seq(Alert) /\ Len(queue') = Len(queue) - 1 /\ DOMAIN queue' = 1 .. Len(queue')
      /\ \A i \in 1 .. Len(queue') : queue'[i] = queue[i + 1] /\ i + 1 \in DOMAIN queue
  BY <1>2, <1>5, HeadTailProperties
<1>7. PICK a \in Alert : a = Head(queue) /\ a = queue[1]
  BY <1>5
<1>8. PICK l \in Lefts : l = <<Absent>> \o DestinationsFor(a) /\ l # <<>>
  BY DestinationsForIs
<1>9. PICK k \in Keys : k = a.key
  BY DEF Alert
<1> DEFINE r == [AtRest EXCEPT !.at = "next", !.alert = a, !.left = l]
<1>10. Set(p, r)
  BY <1>7, <1>8 DEF Take
<1>11. r \in ProcessRec /\ r.at = "next" /\ r.alert = a /\ r.left = l
  <2>1. "next" \in Place
    BY DEF Place
  <2>2. \A x \in ProcessRec :
          LET y == [x EXCEPT !.at = "next", !.alert = a, !.left = l]
          IN y \in ProcessRec /\ y.at = "next" /\ y.alert = a /\ y.left = l
    BY <2>1 DEF ProcessRec
  <2>3. AtRest \in ProcessRec
    BY AtRestIn
  <2> QED BY <2>2, <2>3, Zenon
<1> HIDE DEF r
<1>12. proc'[p] = r
  BY <1>1, <1>3, <1>10, SetProc
<1>13. Shape(p)'
  BY <1>1, <1>8, <1>11, <1>12 DEF Shape, Persisting, Trying
<1>14. TypesInv'
  <2>1. proc' \in [Processes -> ProcessRec]
    BY <1>3, <1>10, <1>11 DEF TypesInv, Set
  <2>2. Len(queue') <= QueueSize
    BY <1>5, <1>6
  <2> QED BY <1>3, <1>4, <1>6, <2>1, <2>2 DEF TypesInv
<1>15. ASSUME NEW j \in Keys, j # k PROVE WaitsAlike(j)
  <2>1. \A i \in Waiting(j)' : i + 1 \in Waiting(j) /\ queue'[i] = queue[i + 1] /\ i \in Nat
    BY <1>6 DEF Waiting
  <2>2. \A h \in Waiting(j) : h # 1 /\ h \in 1 .. Len(queue)
    BY <1>5, <1>7, <1>9, <1>15 DEF Waiting
  <2>3. \A h \in Waiting(j) : h - 1 \in Waiting(j)'
    <3>1. SUFFICES ASSUME NEW h \in Waiting(j) PROVE h - 1 \in Waiting(j)'
      OBVIOUS
    <3>2. h - 1 \in 1 .. Len(queue') /\ (h - 1) + 1 = h
      BY <1>5, <1>6, <2>2
    <3>3. queue'[h - 1] = queue[h]
      BY <1>6, <3>2
    <3> QED BY <1>6, <3>2, <3>3 DEF Waiting
  <2> HIDE DEF Waiting
  <2>4. Waiting(j)' = {} <=> Waiting(j) = {}
    BY <2>1, <2>3
  <2>5. (\A g, h \in Waiting(j) : g = h) => \A g, h \in Waiting(j)' : g = h
    BY <2>1
  <2>6. \A i \in Waiting(j)' : \E h \in Waiting(j) : queue'[i] = queue[h]
    BY <2>1
  <2> QED BY <2>4, <2>5, <2>6 DEF WaitsAlike
<1>16. ASSUME k \notin RecoveryKeys PROVE KeyInv(k)'
  <2>1. PlaceInv(k)
    BY <1>16 DEF AlertsInv, KeyInv
  <2>2. 1 \in Waiting(k)
    BY <1>5, <1>7, <1>9 DEF Waiting
  <2>3. /\ Waiting(k) = {1} /\ Delivering(k) = {} /\ handed[k] # 0 /\ handed[k] <= 1 /\ outcome[k] = "pending"
        /\ Untried(k) /\ Entering(k) = {} /\ rows[k] # Absent /\ rows[k].sev = a.sev
    BY <1>7, <2>1, <2>2 DEF PlaceInv
  <2>4. Waiting(k)' = {}
    <3>1. \A i \in Waiting(k)' : i + 1 \in Waiting(k) /\ i \in 1 .. Len(queue')
      BY <1>6 DEF Waiting
    <3> HIDE DEF Waiting
    <3> QED BY <1>5, <1>6, <2>3, <3>1
  <2>5. Delivering(k)' = {p} /\ Entering(k)' = {}
    <3>1. Delivering(k)' = Delivering(k) \union {p} /\ Entering(k)' = Entering(k) \ {p}
      BY SMTT(90), <1>1, <1>3, <1>8, <1>9, <1>10, <1>11, SetProc
    <3> QED BY <2>3, <3>1
  <2>6. Untried(k)' /\ rows'[k] # Absent /\ rows'[k].sev = proc'[p].alert.sev
        /\ handed'[k] # 0 /\ handed'[k] <= 1 /\ outcome'[k] = "pending"
    BY <1>4, <1>11, <1>12, <2>3 DEF Untried
  <2>7. StageInv(p, k)'
    <3>1. \A i \in 2 .. Len(l) : attempts'[k][l[i]] = <<>> /\ accepted'[k][l[i]] = 0
      BY <2>6, LeftsParts DEF Untried
    <3> QED BY <1>11, <1>12, <3>1 DEF StageInv, Trying
  <2> HIDE DEF Waiting, Delivering, Entering
  <2>8. PlaceInv(k)'
    BY <2>4, <2>5, <2>6 DEF PlaceInv
  <2> QED BY <1>3, <1>4, <2>3, <2>5, <2>7, <2>8, FreshKept
<1>17. Gives(p, r, k)
  BY <1>2, <1>3, <1>4, <1>9, <1>10, <1>11, <1>13, <1>15 DEF Gives
<1> QED BY <1>1, <1>14, <1>16, <1>17, GivenKept

LEMMA ProceedKept == ASSUME AlertsInv, NEW p \in Processes, Proceed(p) PROVE AlertsInv'
<1>1. CASE Select(p) \/ Insert(p) \/ UpdateRow(p)
  BY <1>1, SelectKept, InsertKept, UpdateKept
<1>2. CASE PersistRaises(p) \/ InsertRefused(p)
  BY <1>2, PersistFailsKept
<1>3. CASE NextDestination(p) \/ Record(p) \/ Send(p)
  BY <1>3, NextKept, RecordKept, SendKept
<1>4. CASE RecordSent(p) \/ RecordFailed(p) \/ DeliveryRaises(p)
  BY <1>4, RecordSentKept, RecordFailedKept, DeliveryRaisesKept
<1>5. CASE p \in Callers /\ Enqueue(p)
  BY <1>5, EnqueueKept
<1>6. CASE p \in Workers /\ Take(p)
  BY <1>6, TakeKept
<1> QED BY <1>1, <1>2, <1>3, <1>4, <1>5, <1>6 DEF Proceed

LEMMA AlertsInitInv == ASSUME AlertsInit PROVE AlertsInv
<1>1. AtRest \in ProcessRec /\ AtRest.at = "idle" /\ AtRest.left = <<>> /\ AtRest.attempt = 1 /\ AtRest.send = FALSE
  BY AtRestIn
<1>2. \A p \in Processes : proc[p] = AtRest
  BY DEF AlertsInit
<1>3. /\ QueueSize \in Nat /\ MaxCalls \in Nat /\ MaxFailures \in Nat /\ MaxRetries \in Nat /\ MaxRetries # 0
  BY BoundsAssumption
<1>4. TypesInv
  <2>1. proc \in [Processes -> ProcessRec]
    BY <1>1 DEF AlertsInit
  <2>2. /\ rows \in [Keys -> {Absent} \union [sev : 1 .. 3, suppressed : Nat]]
        /\ attempts \in [Keys -> [Destinations -> Seq(Statuses3)]]
        /\ handed \in [Keys -> Nat] /\ duplicates \in [Keys -> Nat]
        /\ accepted \in [Keys -> [Destinations -> Nat]] /\ unrecorded \in [Keys -> [Destinations -> Nat]]
        /\ outcome \in [Keys -> Outcomes]
    BY DEF AlertsInit, Outcomes
  <2>3. queue \in Seq(Alert) /\ Len(queue) = 0
    BY DEF AlertsInit
  <2> QED BY <1>3, <2>1, <2>2, <2>3 DEF TypesInv, AlertsInit
<1>5. \A p \in Processes : Shape(p)
  BY <1>1, <1>2 DEF Shape, Persisting, Trying
<1>6. \A k \in Keys : CountInv(k)
  BY DEF CountInv, AlertsInit
<1>7. ASSUME NEW k \in Keys PROVE KeyInv(k)
  <2>1. Delivering(k) = {} /\ Entering(k) = {} /\ Waiting(k) = {}
    <3>1. queue = <<>>
      BY DEF AlertsInit
    <3> QED BY <1>1, <1>2, <3>1 DEF Delivering, Entering, Waiting
  <2>2. Untried(k) /\ handed[k] = 0 /\ outcome[k] = "none" /\ rows[k] = Absent
    BY DEF AlertsInit, Untried
  <2> HIDE DEF Delivering, Entering, Waiting
  <2>3. PlaceInv(k)
    BY <2>1, <2>2 DEF PlaceInv
  <2>4. \A d \in Destinations : attempts[k][d] = <<>> /\ accepted[k][d] = 0 /\ unrecorded[k][d] = 0
    BY DEF AlertsInit
  <2>5. \A d \in Destinations : AttemptsInv(k, d)
    <3>1. SUFFICES ASSUME NEW d \in Destinations PROVE AttemptsInv(k, d)
      OBVIOUS
    <3>2. Len(attempts[k][d]) = 0 /\ accepted[k][d] = 0 /\ unrecorded[k][d] = 0
      BY <2>4
    <3> QED BY <1>3, <3>2 DEF AttemptsInv
  <2>6. ReportedInv(k)
    BY <2>2 DEF ReportedInv
  <2> QED BY <2>1, <2>3, <2>5, <2>6 DEF KeyInv
<1> QED BY <1>4, <1>5, <1>6, <1>7 DEF AlertsInv

-----------------------------------------------------------------------------
(* The checks of expiring options, as clients of the alerts.               *)

CheckRec ==
  [at : {"idle", "read", "scan"}, days : {Absent} \union [OptionPositions -> -1 .. FirstDay],
   todo : SUBSET Keys, attempted : Nat, created : Nat, deduplicated : Nat, errors : Nat]

\* A checker has nothing under way, and no result to count.
Settled(c) == proc[c].at = "idle" /\ proc[c].result = "none"

OptionTypes ==
  /\ dte \in [OptionPositions -> -1 .. FirstDay] /\ locking \in BOOLEAN
  /\ \A pos, other \in OptionPositions : dte[pos] = dte[other]
  /\ lock \in [Checkers -> Nat] /\ leaked \subseteq Checkers
  /\ job \subseteq [position : OptionPositions, days : 0 .. WarningDays]
  /\ check \in [Checkers -> CheckRec]

\* What a check has counted, and where its pairs are.
CheckInv(c) ==
  /\ check[c].attempted = check[c].created + check[c].deduplicated + check[c].errors
                            + IF Settled(c) THEN 0 ELSE 1
  /\ check[c].at \in {"idle", "read"} => check[c].todo = {} /\ Settled(c)
  /\ check[c].at = "read" => check[c].days = Absent
  /\ proc[c].result # "none" => proc[c].at = "idle"
  /\ check[c].days # Absent /\ check[c].errors = 0 =>
       \A pos \in OptionPositions, t \in Thresholds : check[c].days[pos] \in 0 .. t =>
         \/ rows[OptionKey(pos, t)] # Absent \/ OptionKey(pos, t) \in check[c].todo
         \/ proc[c].at \in Persisting /\ proc[c].row = OptionKey(pos, t)
         \/ proc[c].at = "idle" /\ proc[c].result = "raised"

\* Who holds the advisory lock.
LockInv ==
  locking =>
    /\ \A c, other \in Checkers : lock[c] > 0 /\ lock[other] > 0 => c = other
    /\ \A c \in Checkers :
         /\ check[c].at # "idle" => lock[c] > 0
         /\ lock[c] > 0 => check[c].at # "idle" \/ c \in leaked
         /\ lock[c] > 1 => c \in leaked

OptionsInv == AlertsInv /\ OptionTypes /\ LockInv /\ \A c \in Checkers : CheckInv(c)

LEMMA CheckKept ==
  ASSUME NEW c \in Checkers, CheckInv(c), check'[c] = check[c], proc'[c] = proc[c],
         \A k \in Keys : rows[k] # Absent => rows'[k] # Absent
  PROVE  CheckInv(c)'
<1>1. \A pos \in OptionPositions, t \in Thresholds : OptionKey(pos, t) \in Keys
  BY OptionKeysAssumption
<1>2. Settled(c)' <=> Settled(c)
  BY DEF Settled
<1> QED BY <1>1, <1>2 DEF CheckInv

LEMMA OthersStay == ASSUME AlertsInv, NEW p \in Processes, Proceed(p), NEW q \in Processes, q # p
                    PROVE  proc'[q] = proc[q]
<1>1. ASSUME NEW r, Set(p, r) PROVE proc'[q] = proc[q]
  BY <1>1, SetProc DEF AlertsInv
<1>2. \E r : Set(p, r)
  <2>1. CASE Select(p) \/ Insert(p) \/ UpdateRow(p)
    BY <2>1 DEF Select, Insert, UpdateRow
  <2>2. CASE PersistRaises(p) \/ InsertRefused(p) \/ NextDestination(p)
    BY <2>2 DEF PersistRaises, InsertRefused, NextDestination
  <2>3. CASE Record(p) \/ Send(p) \/ RecordSent(p)
    BY <2>3 DEF Record, Send, RecordSent
  <2>4. CASE RecordFailed(p) \/ DeliveryRaises(p)
    BY <2>4 DEF RecordFailed, DeliveryRaises
  <2>5. CASE Enqueue(p) \/ Take(p)
    BY <2>5 DEF Enqueue, Take
  <2> QED BY <2>1, <2>2, <2>3, <2>4, <2>5 DEF Proceed
<1> QED BY <1>1, <1>2

LEMMA RowsStay == ASSUME AlertsInv, NEW p \in Processes, Proceed(p), NEW k \in Keys, rows[k] # Absent
                  PROVE  rows'[k] # Absent
<1>1. CASE UNCHANGED rows
  BY <1>1
<1>2. CASE Insert(p)
  <2>1. PICK sev, j : rows[j] = Absent /\ rows' = [rows EXCEPT ![j] = [sev |-> sev, suppressed |-> 0]]
    BY <1>2 DEF Insert
  <2>2. j # k
    BY <2>1
  <2> QED BY <2>1, <2>2 DEF AlertsInv, TypesInv
<1>3. CASE UpdateRow(p)
  <2>1. PICK j : rows' = [rows EXCEPT ![j].suppressed = @ + 1]
    BY <1>3 DEF UpdateRow
  <2>2. rows[k] \in [sev : 1 .. 3, suppressed : Nat] /\ rows \in [Keys -> {Absent} \union [sev : 1 .. 3, suppressed : Nat]]
    BY DEF AlertsInv, TypesInv
  <2>3. rows'[k] = rows[k] \/ rows'[k] = [rows[k] EXCEPT !.suppressed = rows[k].suppressed + 1]
    BY <2>1, <2>2
  <2>4. [rows[k] EXCEPT !.suppressed = rows[k].suppressed + 1] \in [sev : 1 .. 3, suppressed : Nat]
    BY <2>2
  <2> QED BY <2>2, <2>3, <2>4, AbsentAssumption
<1>4. CASE Select(p) \/ PersistRaises(p) \/ InsertRefused(p) \/ NextDestination(p)
  BY <1>1, <1>4 DEF Select, PersistRaises, InsertRefused, NextDestination, database
<1>5. CASE Record(p) \/ Send(p) \/ RecordSent(p) \/ RecordFailed(p) \/ DeliveryRaises(p)
  BY <1>1, <1>5 DEF Record, Send, RecordSent, RecordFailed, DeliveryRaises, database
<1>6. CASE Enqueue(p) \/ Take(p)
  BY <1>1, <1>6 DEF Enqueue, Take, database
<1> QED BY <1>2, <1>3, <1>4, <1>5, <1>6 DEF Proceed

\* What a checker's statement comes to.
CheckerMoves(c) ==
  \/ proc'[c].at \in Persisting /\ proc'[c].row = proc[c].row /\ proc'[c].result = proc[c].result
  \/ /\ proc'[c].at = "idle" /\ proc'[c].result # "none"
     /\ proc'[c].result = "raised" \/ rows'[proc[c].row] # Absent

LEMMA CheckerProceeds == ASSUME AlertsInv, NEW c \in Checkers, Proceed(c)
                         PROVE  proc[c].at \in Persisting /\ CheckerMoves(c)
<1>1. c \in Processes /\ c \notin Workers
  BY ProcessesAssumption DEF Processes, Callers
<1>2. proc[c] \in ProcessRec /\ Shape(c) /\ TypesInv
  BY <1>1, ProcIn DEF AlertsInv
<1>3. proc[c].at \in {"idle", "select", "insert", "update"} /\ proc[c].send = FALSE
  BY <1>2 DEF Shape, Persisting, ProcessRec
<1>4. AfterPersist(c, "new") = [AtRest EXCEPT !.result = "new"]
      /\ AfterPersist(c, "duplicate") = [AtRest EXCEPT !.result = "duplicate"]
      /\ Thrown(c) = [AtRest EXCEPT !.result = "raised"]
  BY <1>1, <1>3 DEF AfterPersist, Thrown
<1>5. \A s \in {"new", "duplicate", "raised"} : [AtRest EXCEPT !.result = s].at = "idle"
                                                 /\ [AtRest EXCEPT !.result = s].result = s
  BY DEF AtRest
<1>6. ASSUME NEW r, Set(c, r) PROVE proc'[c] = r
  BY <1>1, <1>2, <1>6, SetProc
<1>7. CASE Select(c)
  <2>1. PICK a \in {"insert", "update"} : Set(c, [proc[c] EXCEPT !.at = a])
    BY <1>7 DEF Select
  <2>2. proc'[c] = [proc[c] EXCEPT !.at = a]
    BY <1>6, <2>1
  <2>3. \A x \in ProcessRec : LET y == [x EXCEPT !.at = a] IN y.at = a /\ y.row = x.row /\ y.result = x.result
    BY DEF ProcessRec
  <2>4. proc'[c].at = a /\ proc'[c].row = proc[c].row /\ proc'[c].result = proc[c].result
    BY <1>2, <2>2, <2>3, Zenon
  <2> QED BY <1>7, <2>4 DEF Select, At, CheckerMoves, Persisting
<1>8. CASE Insert(c)
  <2>1. proc'[c] = [AtRest EXCEPT !.result = "new"]
    BY <1>4, <1>6, <1>8 DEF Insert
  <2>2. proc[c].at = "insert" /\ proc[c].row \in Keys
    <3>1. proc[c].at = "insert"
      BY <1>8 DEF Insert, At
    <3> QED BY <1>1, <1>2, <3>1 DEF Shape, Persisting, Key, Alert
  <2>3. PICK sev : rows' = [rows EXCEPT ![proc[c].row] = [sev |-> sev, suppressed |-> 0]] /\ sev \in 1 .. 3
    <3>1. proc[c].alert \in Alert
      BY <1>2, <2>2 DEF Shape
    <3> QED BY <1>1, <1>8, <3>1 DEF Insert, Alert
  <2>4. rows'[proc[c].row] \in [sev : 1 .. 3, suppressed : Nat]
    BY <1>2, <2>2, <2>3 DEF TypesInv
  <2>5. rows'[proc[c].row] # Absent
    BY <2>4, AbsentAssumption
  <2> QED BY <1>5, <2>1, <2>2, <2>5 DEF CheckerMoves, Persisting
<1>9. CASE UpdateRow(c)
  <2>1. proc'[c] = [AtRest EXCEPT !.result = "duplicate"]
    BY <1>4, <1>6, <1>9 DEF UpdateRow
  <2>2. proc[c].at = "update"
    BY <1>9 DEF UpdateRow, At
  <2>3. proc[c].row \in Keys /\ rows[proc[c].row] # Absent
    BY <1>1, <1>2, <2>2 DEF Shape, Persisting, Key, Alert
  <2>4. rows'[proc[c].row] # Absent
    BY <1>1, <2>3, RowsStay
  <2> QED BY <1>5, <2>1, <2>2, <2>4 DEF CheckerMoves, Persisting
<1>10. CASE PersistRaises(c) \/ InsertRefused(c)
  <2>1. proc'[c] = [AtRest EXCEPT !.result = "raised"]
    BY <1>4, <1>6, <1>10 DEF PersistRaises, InsertRefused
  <2>2. proc[c].at \in Persisting
    BY <1>10 DEF PersistRaises, InsertRefused, At, Persisting
  <2> QED BY <1>5, <2>1, <2>2 DEF CheckerMoves
<1>11. ~(NextDestination(c) \/ Record(c) \/ Send(c) \/ RecordSent(c) \/ RecordFailed(c) \/ DeliveryRaises(c))
  BY <1>3 DEF NextDestination, Record, Send, RecordSent, RecordFailed, DeliveryRaises, At
<1>12. ~(c \in Callers /\ Enqueue(c)) /\ ~(c \in Workers /\ Take(c))
  BY <1>1, <1>3 DEF Enqueue, At
<1> QED BY <1>7, <1>8, <1>9, <1>10, <1>11, <1>12 DEF Proceed

LEMMA BoundsKept ==
  ASSUME AlertsInv, UNCHANGED <<database, queue, proc, history>>,
         calls' \in 0 .. MaxCalls, failures' \in 0 .. MaxFailures
  PROVE  AlertsInv'
<1>1. UNCHANGED <<rows, attempts, aborted, queue, proc, handed, duplicates, accepted, unrecorded, outcome>>
  BY DEF database, history
<1>2. TypesInv'
  BY <1>1 DEF AlertsInv, TypesInv
<1>3. \A p \in Processes : Shape(p)'
  BY <1>1 DEF AlertsInv, Shape, Key
<1>4. \A k \in Keys : CountInv(k)'
  BY <1>1 DEF AlertsInv, CountInv
<1>5. ASSUME NEW k \in Keys, k \notin RecoveryKeys PROVE KeyInv(k)'
  <2>1. Delivering(k)' = Delivering(k) /\ Entering(k)' = Entering(k)
    BY <1>1 DEF Delivering, Entering, Key
  <2>2. WaitsAlike(k)
    BY <1>1 DEF WaitsAlike, Waiting
  <2>3. KeyInv(k)
    BY <1>5 DEF AlertsInv
  <2> QED BY <1>1, <2>1, <2>2, <2>3, WaitedKept
<1> QED BY <1>2, <1>3, <1>4, <1>5 DEF AlertsInv

LEMMA AlertsStay == ASSUME AlertsInv, UNCHANGED alertvars PROVE AlertsInv'
<1>1. UNCHANGED <<database, queue, proc, history, calls, failures>>
  BY DEF alertvars
<1>2. calls' \in 0 .. MaxCalls /\ failures' \in 0 .. MaxFailures
  BY <1>1 DEF AlertsInv, TypesInv
<1> QED BY <1>1, <1>2, BoundsKept

LEMMA CallTypes == ASSUME AlertsInv, Call PROVE calls' \in 0 .. MaxCalls
  BY BoundsAssumption DEF AlertsInv, TypesInv, Call

\* All checks but one are left alone.
OtherChecksStay(c) ==
  /\ \A other \in Checkers : other # c => check'[other] = check[other] /\ proc'[other] = proc[other]
  /\ \A k \in Keys : rows[k] # Absent => rows'[k] # Absent

LEMMA ChecksKept ==
  ASSUME OptionsInv, NEW c \in Checkers, OtherChecksStay(c), CheckInv(c)'
  PROVE  \A other \in Checkers : CheckInv(other)'
<1> SUFFICES ASSUME NEW other \in Checkers PROVE CheckInv(other)'
  OBVIOUS
<1>1. CASE other = c
  BY <1>1
<1>2. CASE other # c
  BY <1>2, CheckKept DEF OtherChecksStay, OptionsInv
<1> QED BY <1>1, <1>2

LEMMA AllChecksStay ==
  ASSUME OptionsInv, UNCHANGED check, \A c \in Checkers : proc'[c] = proc[c],
         \A k \in Keys : rows[k] # Absent => rows'[k] # Absent
  PROVE  \A c \in Checkers : CheckInv(c)'
  BY CheckKept DEF OptionsInv

LEMMA ProceedOptions ==
  ASSUME OptionsInv, NEW p \in Processes, Proceed(p), UNCHANGED expiration
  PROVE  OptionsInv'
<1>1. AlertsInv /\ AlertsInv'
  BY ProceedKept DEF OptionsInv
<1>2. UNCHANGED <<dte, locking, lock, check, job, leaked>>
  BY DEF expiration
<1>3. OptionTypes' /\ LockInv'
  BY <1>2 DEF OptionsInv, OptionTypes, LockInv
<1>4. \A k \in Keys : rows[k] # Absent => rows'[k] # Absent
  BY <1>1, RowsStay
<1>5. Checkers \subseteq Processes
  BY DEF Processes, Callers
<1>6. \A other \in Checkers : other # p => proc'[other] = proc[other]
  BY <1>1, <1>5, OthersStay
<1>7. CASE p \notin Checkers
  BY <1>1, <1>2, <1>3, <1>4, <1>6, <1>7, AllChecksStay DEF OptionsInv
<1>8. CASE p \in Checkers
  <2>1. proc[p].at \in Persisting /\ CheckerMoves(p)
    BY <1>1, <1>8, CheckerProceeds
  <2>2. CheckInv(p)
    BY <1>8 DEF OptionsInv
  <2>3. "idle" \notin Persisting
    BY DEF Persisting
  <2>4. ~Settled(p) /\ ~Settled(p)'
    BY <2>1, <2>2, <2>3 DEF Settled, CheckInv, CheckerMoves
  <2>5. /\ check'[p] = check[p]
        /\ check'[p].at \notin {"idle", "read"}
        /\ proc'[p].result # "none" => proc'[p].at = "idle"
    BY <1>2, <2>1, <2>2, <2>3, <2>4 DEF CheckInv, CheckerMoves
  <2>6. ASSUME check[p].days # Absent, check[p].errors = 0, NEW pos \in OptionPositions, NEW t \in Thresholds,
               check[p].days[pos] \in 0 .. t
        PROVE  \/ rows'[OptionKey(pos, t)] # Absent \/ OptionKey(pos, t) \in check[p].todo
               \/ proc'[p].at \in Persisting /\ proc'[p].row = OptionKey(pos, t)
               \/ proc'[p].at = "idle" /\ proc'[p].result = "raised"
    <3>1. PICK k \in Keys : k = OptionKey(pos, t)
      BY OptionKeysAssumption
    <3>2. rows[k] # Absent \/ k \in check[p].todo \/ (proc[p].at \in Persisting /\ proc[p].row = k)
      BY <2>1, <2>2, <2>3, <2>6, <3>1 DEF CheckInv
    <3>3. \/ rows'[k] # Absent \/ k \in check[p].todo
          \/ proc'[p].at \in Persisting /\ proc'[p].row = k
          \/ proc'[p].at = "idle" /\ proc'[p].result = "raised"
      BY <1>4, <2>1, <3>2 DEF CheckerMoves
    <3> QED BY <3>1, <3>3
  <2>7. CheckInv(p)'
    BY <2>2, <2>4, <2>5, <2>6 DEF CheckInv
  <2>8. OtherChecksStay(p)
    BY <1>2, <1>4, <1>6 DEF OtherChecksStay
  <2> QED BY <1>1, <1>3, <1>8, <2>7, <2>8, ChecksKept DEF OptionsInv
<1> QED BY <1>7, <1>8

LEMMA BeginIs ==
  ASSUME AlertsInv, NEW c \in Callers, NEW a \in Alert, NEW send \in BOOLEAN, Begin(c, a, send)
  PROVE  /\ Settled(c) /\ proc'[c].at = "select" /\ proc'[c].row = a.key /\ proc'[c].result = "none"
         /\ \A q \in Processes : q # c => proc'[q] = proc[q]
<1> DEFINE r == [AtRest EXCEPT !.at = "select", !.alert = a, !.send = send, !.row = a.key]
<1>1. Set(c, r) /\ Settled(c)
  BY DEF Begin, At, Settled
<1>2. r.at = "select" /\ r.row = a.key /\ r.result = "none"
  BY DEF AtRest
<1> HIDE DEF r
<1>3. c \in Processes /\ TypesInv
  BY DEF Processes, AlertsInv
<1> QED BY <1>1, <1>2, <1>3, SetProc

LEMMA EmitOptions ==
  ASSUME OptionsInv, NEW c \in Emitters, NEW a \in Events, Emit(c, a), UNCHANGED expiration
  PROVE  OptionsInv'
<1>1. AlertsInv /\ c \in Callers /\ c \notin Checkers /\ a \in Alert /\ Begin(c, a, TRUE) /\ Call
      /\ UNCHANGED <<database, queue, failures, history>>
  BY KeysAssumption, ProcessesAssumption DEF OptionsInv, Callers, Emit
<1>2. AlertsInv'
  <2>1. calls' \in 0 .. MaxCalls
    BY <1>1, CallTypes
  <2> QED BY <1>1, <2>1, BeginKept
<1>3. UNCHANGED <<dte, locking, lock, check, job, leaked, rows>>
  BY <1>1 DEF expiration, database
<1>4. OptionTypes' /\ LockInv'
  BY <1>3 DEF OptionsInv, OptionTypes, LockInv
<1>5. \A other \in Checkers : proc'[other] = proc[other]
  <2>1. \A q \in Processes : q # c => proc'[q] = proc[q]
    BY <1>1, BeginIs
  <2> QED BY <1>1, <2>1 DEF Processes, Callers
<1> QED BY <1>2, <1>3, <1>4, <1>5, AllChecksStay DEF OptionsInv

LEMMA StartCheckOptions == ASSUME OptionsInv, NEW c \in Checkers, StartCheck(c) PROVE OptionsInv'
<1>1. AlertsInv /\ OptionTypes /\ LockInv /\ CheckInv(c)
  BY DEF OptionsInv
<1>2. /\ check[c].at = "idle" /\ Call /\ UNCHANGED <<dte, locking, job, leaked>>
      /\ UNCHANGED <<database, queue, proc, failures, history, rows>>
  BY DEF StartCheck, database
<1>3. AlertsInv'
  <2>1. calls' \in 0 .. MaxCalls /\ failures' \in 0 .. MaxFailures
    BY <1>1, <1>2, CallTypes DEF AlertsInv, TypesInv
  <2> QED BY <1>1, <1>2, <2>1, BoundsKept
<1>4. CASE locking /\ ~Free(c)
  <2>1. UNCHANGED <<lock, check>>
    BY <1>4 DEF StartCheck
  <2>2. OptionTypes' /\ LockInv'
    BY <1>1, <1>2, <2>1 DEF OptionTypes, LockInv
  <2> QED BY <1>2, <1>3, <2>1, <2>2, AllChecksStay DEF OptionsInv
<1>5. CASE ~(locking /\ ~Free(c))
  <2> DEFINE new == [NoCheck EXCEPT !.at = "read"]
  <2>1. /\ lock' = IF locking THEN [lock EXCEPT ![c] = @ + 1] ELSE lock
        /\ check' = [check EXCEPT ![c] = new]
    BY <1>5 DEF StartCheck
  <2>2. /\ new \in CheckRec /\ new.at = "read" /\ new.days = Absent /\ new.todo = {} /\ new.attempted = 0
        /\ new.created = 0 /\ new.deduplicated = 0 /\ new.errors = 0
    BY DEF NoCheck, CheckRec
  <2> HIDE DEF new
  <2>3. /\ check' \in [Checkers -> CheckRec] /\ check'[c] = new
        /\ \A other \in Checkers : other # c => check'[other] = check[other]
    BY <1>1, <2>1, <2>2 DEF OptionTypes
  <2>4. lock' \in [Checkers -> Nat] /\ \A other \in Checkers : other # c => lock'[other] = lock[other]
    BY <1>1, <2>1 DEF OptionTypes
  <2>5. OptionTypes'
    BY <1>1, <1>2, <2>3, <2>4 DEF OptionTypes
  <2>6. LockInv'
    <3>1. SUFFICES ASSUME locking PROVE LockInv'
      BY <1>2 DEF LockInv
    <3>2. lock'[c] = lock[c] + 1 /\ lock[c] \in Nat /\ \A other \in Checkers \ {c} : lock[other] = 0
      BY <1>1, <1>5, <2>1, <3>1 DEF OptionTypes, Free
    <3>3. lock[c] > 0 => c \in leaked
      BY <1>1, <1>2, <3>1 DEF LockInv
    <3> QED BY <1>1, <1>2, <2>2, <2>3, <2>4, <3>1, <3>2, <3>3 DEF LockInv
  <2>7. CheckInv(c)'
    <3>1. Settled(c)'
      BY <1>1, <1>2 DEF CheckInv, Settled
    <3>2. proc'[c].result = "none"
      BY <3>1 DEF Settled
    <3> QED BY <2>2, <2>3, <3>1, <3>2 DEF CheckInv
  <2>8. OtherChecksStay(c)
    BY <1>2, <2>3 DEF OtherChecksStay
  <2> QED BY <1>3, <2>5, <2>6, <2>7, <2>8, ChecksKept DEF OptionsInv
<1> QED BY <1>4, <1>5

LEMMA ReadOptions == ASSUME OptionsInv, NEW c \in Checkers, ReadPositions(c) PROVE OptionsInv'
<1>1. AlertsInv /\ OptionTypes /\ LockInv /\ CheckInv(c)
  BY DEF OptionsInv
<1>2. /\ check[c].at = "read" /\ UNCHANGED <<dte, locking, lock, job, leaked>> /\ UNCHANGED alertvars
      /\ UNCHANGED <<rows, proc>>
  BY DEF ReadPositions, alertvars, database
<1>3. AlertsInv'
  BY <1>1, <1>2, AlertsStay
<1>4. Due \subseteq Keys
  BY OptionKeysAssumption DEF Due, Applicable
<1> DEFINE new == [check[c] EXCEPT !.at = "scan", !.days = dte, !.todo = Due]
<1>5. check[c] \in CheckRec /\ dte \in [OptionPositions -> -1 .. FirstDay]
  BY <1>1 DEF OptionTypes
<1>6. /\ new \in CheckRec /\ new.at = "scan" /\ new.days = dte /\ new.todo = Due
      /\ new.attempted = check[c].attempted /\ new.created = check[c].created
      /\ new.deduplicated = check[c].deduplicated /\ new.errors = check[c].errors
  BY <1>4, <1>5 DEF CheckRec
<1>7. check' = [check EXCEPT ![c] = new]
  BY <1>1 DEF ReadPositions, OptionTypes
<1> HIDE DEF new
<1>8. /\ check' \in [Checkers -> CheckRec] /\ check'[c] = new
      /\ \A other \in Checkers : other # c => check'[other] = check[other]
  BY <1>1, <1>6, <1>7 DEF OptionTypes
<1>9. OptionTypes'
  BY <1>1, <1>2, <1>8 DEF OptionTypes
<1>10. LockInv'
  BY <1>1, <1>2, <1>6, <1>8 DEF LockInv
<1>11. CheckInv(c)'
  <2>1. Settled(c)' /\ Settled(c) /\ proc'[c].result = "none"
    BY <1>1, <1>2 DEF CheckInv, Settled
  <2>2. \A pos \in OptionPositions, t \in Thresholds : new.days[pos] \in 0 .. t => OptionKey(pos, t) \in new.todo
    <3>1. SUFFICES ASSUME NEW pos \in OptionPositions, NEW t \in Thresholds, dte[pos] \in 0 .. t
                   PROVE  OptionKey(pos, t) \in Due
      BY <1>6
    <3>2. dte[pos] >= 0 /\ t >= dte[pos]
      BY <3>1, DaysAssumption
    <3> QED BY <3>2 DEF Due, Applicable
  <2>3. new.attempted = new.created + new.deduplicated + new.errors + IF Settled(c)' THEN 0 ELSE 1
    BY <1>1, <1>6, <2>1 DEF CheckInv
  <2> QED BY <1>6, <1>8, <2>1, <2>2, <2>3 DEF CheckInv
<1>12. OtherChecksStay(c)
  BY <1>2, <1>8 DEF OtherChecksStay
<1> QED BY <1>3, <1>9, <1>10, <1>11, <1>12, ChecksKept DEF OptionsInv

LEMMA CheckOneOptions == ASSUME OptionsInv, NEW c \in Checkers, CheckOne(c) PROVE OptionsInv'
<1>1. AlertsInv /\ OptionTypes /\ LockInv /\ CheckInv(c) /\ check[c] \in CheckRec
  BY DEF OptionsInv, OptionTypes
<1>2. PICK k \in check[c].todo :
        /\ check[c].at = "scan" /\ Begin(c, [key |-> k, sev |-> SeverityOf(k.threshold)], FALSE)
        /\ check' = [check EXCEPT ![c].todo = @ \ {k}, ![c].attempted = @ + 1]
        /\ UNCHANGED <<database, queue, calls, failures, history, dte, locking, lock, job, leaked>>
  BY DEF CheckOne
<1>3. PICK a \in Alert : a = [key |-> k, sev |-> SeverityOf(k.threshold)] /\ a.key = k
  <2>1. SeverityOf(k.threshold) \in 1 .. 3
    BY DEF SeverityOf
  <2>2. k \in Keys
    BY <1>1, <1>2 DEF CheckRec
  <2>3. \A s \in 1 .. 3 : [key |-> k, sev |-> s] \in Alert /\ [key |-> k, sev |-> s].key = k
    BY <2>2 DEF Alert
  <2>4. [key |-> k, sev |-> SeverityOf(k.threshold)] \in Alert
        /\ [key |-> k, sev |-> SeverityOf(k.threshold)].key = k
    BY <2>1, <2>3
  <2> QED BY <2>4
<1>4. c \in Callers /\ c \in Processes
  BY DEF Callers, Processes
<1>5. Begin(c, a, FALSE) /\ UNCHANGED <<database, queue, failures, history>> /\ calls' \in 0 .. MaxCalls
  BY <1>1, <1>2, <1>3 DEF AlertsInv, TypesInv
<1>6. AlertsInv'
  BY <1>1, <1>4, <1>5, BeginKept
<1>7. /\ Settled(c) /\ proc'[c].at = "select" /\ proc'[c].row = k /\ proc'[c].result = "none"
      /\ \A q \in Processes : q # c => proc'[q] = proc[q]
  BY <1>1, <1>3, <1>4, <1>5, BeginIs
<1>8. PICK rest \in SUBSET Keys, n \in Nat : rest = check[c].todo \ {k} /\ n = check[c].attempted + 1
  <2>1. check[c].todo \in SUBSET Keys /\ check[c].attempted \in Nat
    BY <1>1 DEF CheckRec
  <2>2. check[c].todo \ {k} \in SUBSET Keys /\ check[c].attempted + 1 \in Nat
    BY <2>1
  <2> QED BY <2>2
<1> DEFINE new == [check[c] EXCEPT !.todo = rest, !.attempted = n]
<1>9. /\ new \in CheckRec /\ new.at = check[c].at /\ new.days = check[c].days /\ new.todo = check[c].todo \ {k}
      /\ new.attempted = check[c].attempted + 1 /\ new.created = check[c].created
      /\ new.deduplicated = check[c].deduplicated /\ new.errors = check[c].errors
  <2>1. /\ new \in CheckRec /\ new.at = check[c].at /\ new.days = check[c].days /\ new.todo = rest
        /\ new.attempted = n /\ new.created = check[c].created
        /\ new.deduplicated = check[c].deduplicated /\ new.errors = check[c].errors
    BY <1>1, <1>8 DEF CheckRec
  <2> HIDE DEF new
  <2> QED BY <1>8, <2>1
<1>10. check' = [check EXCEPT ![c] = new]
  BY <1>1, <1>2, <1>8 DEF OptionTypes, CheckRec
<1> HIDE DEF new
<1>11. /\ check' \in [Checkers -> CheckRec] /\ check'[c] = new
       /\ \A other \in Checkers : other # c => check'[other] = check[other]
  BY <1>1, <1>9, <1>10 DEF OptionTypes
<1>12. OptionTypes'
  BY <1>1, <1>2, <1>11 DEF OptionTypes
<1>13. LockInv'
  BY <1>1, <1>2, <1>9, <1>11 DEF LockInv
<1>14. UNCHANGED rows
  BY <1>2 DEF database
<1>15. CheckInv(c)'
  <2>1. ~Settled(c)' /\ proc'[c].at \in Persisting /\ "select" # "idle"
    BY <1>7 DEF Settled, Persisting
  <2>2. new.attempted = new.created + new.deduplicated + new.errors + IF Settled(c)' THEN 0 ELSE 1
    <3>1. check[c].attempted = check[c].created + check[c].deduplicated + check[c].errors + 0
      BY <1>1, <1>7 DEF CheckInv
    <3> QED BY <1>1, <1>9, <2>1, <3>1 DEF CheckRec
  <2>3. ASSUME new.days # Absent, new.errors = 0, NEW pos \in OptionPositions, NEW t \in Thresholds,
               new.days[pos] \in 0 .. t
        PROVE  \/ rows'[OptionKey(pos, t)] # Absent \/ OptionKey(pos, t) \in new.todo
               \/ proc'[c].at \in Persisting /\ proc'[c].row = OptionKey(pos, t)
    <3>1. rows[OptionKey(pos, t)] # Absent \/ OptionKey(pos, t) \in check[c].todo
      BY <1>1, <1>7, <1>9, <2>3 DEF CheckInv, Settled, Persisting
    <3> QED BY <1>7, <1>9, <1>14, <2>1, <3>1
  <2> QED BY <1>2, <1>7, <1>9, <1>11, <2>1, <2>2, <2>3 DEF CheckInv
<1>16. OtherChecksStay(c)
  BY <1>4, <1>7, <1>11, <1>14 DEF OtherChecksStay, Processes, Callers
<1> QED BY <1>6, <1>12, <1>13, <1>15, <1>16, ChecksKept DEF OptionsInv

LEMMA CountOptions == ASSUME OptionsInv, NEW c \in Checkers, Count(c) PROVE OptionsInv'
<1>1. AlertsInv /\ OptionTypes /\ LockInv /\ CheckInv(c) /\ check[c] \in CheckRec /\ c \in Processes
  BY DEF OptionsInv, OptionTypes, Processes, Callers
<1>2. /\ proc[c].at = "idle" /\ proc[c].result # "none" /\ Set(c, AtRest)
      /\ UNCHANGED <<database, queue, calls, failures, history, dte, locking, lock, job, leaked>>
  BY DEF Count, At
<1>3. proc[c].left = <<>> /\ proc[c].result \in {"new", "duplicate", "raised"}
  BY <1>1, <1>2, ProcIn DEF Shape, ProcessRec
<1>4. AlertsInv'
  <2>1. /\ UNCHANGED <<rows, attempts, queue, history>> /\ aborted' \subseteq Sessions
        /\ calls' \in 0 .. MaxCalls /\ failures' \in 0 .. MaxFailures
    BY <1>1, <1>2 DEF AlertsInv, TypesInv, database
  <2> QED BY <1>1, <1>2, <1>3, <2>1, RestedKept
<1>5. proc'[c] = AtRest /\ \A q \in Processes : q # c => proc'[q] = proc[q]
  BY <1>1, <1>2, SetProc DEF AlertsInv
<1>6. Settled(c)' /\ proc'[c].result = "none"
  BY <1>5 DEF Settled, AtRest
<1>7. PICK new \in CheckRec :
        /\ check' = [check EXCEPT ![c] = new]
        /\ new.at = check[c].at /\ new.days = check[c].days /\ new.todo = check[c].todo
        /\ new.attempted = check[c].attempted
        /\ new.created + new.deduplicated + new.errors
             = check[c].created + check[c].deduplicated + check[c].errors + 1
        /\ new.errors = 0 => check[c].errors = 0 /\ proc[c].result # "raised"
  <2>1. CASE proc[c].result = "new"
    <3> DEFINE new == [check[c] EXCEPT !.created = check[c].created + 1]
    <3>1. check' = [check EXCEPT ![c] = new]
      BY <1>1, <2>1 DEF Count, OptionTypes
    <3>2. /\ new \in CheckRec /\ new.at = check[c].at /\ new.days = check[c].days /\ new.todo = check[c].todo
          /\ new.attempted = check[c].attempted /\ new.created = check[c].created + 1
          /\ new.deduplicated = check[c].deduplicated /\ new.errors = check[c].errors
      BY <1>1 DEF CheckRec
    <3>3. {check[c].created, check[c].deduplicated, check[c].errors} \subseteq Nat
      BY <1>1 DEF CheckRec
    <3> HIDE DEF new
    <3>4. /\ new.created + new.deduplicated + new.errors
               = check[c].created + check[c].deduplicated + check[c].errors + 1
          /\ new.errors = 0 => check[c].errors = 0 /\ proc[c].result # "raised"
      BY <2>1, <3>2, <3>3
    <3> QED BY <3>1, <3>2, <3>4
  <2>2. CASE proc[c].result = "duplicate"
    <3> DEFINE new == [check[c] EXCEPT !.deduplicated = check[c].deduplicated + 1]
    <3>1. check' = [check EXCEPT ![c] = new]
      BY <1>1, <2>2 DEF Count, OptionTypes
    <3>2. /\ new \in CheckRec /\ new.at = check[c].at /\ new.days = check[c].days /\ new.todo = check[c].todo
          /\ new.attempted = check[c].attempted /\ new.created = check[c].created
          /\ new.deduplicated = check[c].deduplicated + 1 /\ new.errors = check[c].errors
      BY <1>1 DEF CheckRec
    <3>3. {check[c].created, check[c].deduplicated, check[c].errors} \subseteq Nat
      BY <1>1 DEF CheckRec
    <3> HIDE DEF new
    <3>4. /\ new.created + new.deduplicated + new.errors
               = check[c].created + check[c].deduplicated + check[c].errors + 1
          /\ new.errors = 0 => check[c].errors = 0 /\ proc[c].result # "raised"
      BY <2>2, <3>2, <3>3
    <3> QED BY <3>1, <3>2, <3>4
  <2>3. CASE proc[c].result = "raised"
    <3> DEFINE new == [check[c] EXCEPT !.errors = check[c].errors + 1]
    <3>1. check' = [check EXCEPT ![c] = new]
      BY <1>1, <2>3 DEF Count, OptionTypes
    <3>2. /\ new \in CheckRec /\ new.at = check[c].at /\ new.days = check[c].days /\ new.todo = check[c].todo
          /\ new.attempted = check[c].attempted /\ new.created = check[c].created
          /\ new.deduplicated = check[c].deduplicated /\ new.errors = check[c].errors + 1
      BY <1>1 DEF CheckRec
    <3>3. {check[c].created, check[c].deduplicated, check[c].errors} \subseteq Nat
      BY <1>1 DEF CheckRec
    <3> HIDE DEF new
    <3>4. /\ new.created + new.deduplicated + new.errors
               = check[c].created + check[c].deduplicated + check[c].errors + 1
          /\ new.errors = 0 => check[c].errors = 0 /\ proc[c].result # "raised"
      BY <2>3, <3>2, <3>3
    <3> QED BY <3>1, <3>2, <3>4
  <2> QED BY <1>3, <2>1, <2>2, <2>3
<1>8. /\ check' \in [Checkers -> CheckRec] /\ check'[c] = new
      /\ \A other \in Checkers : other # c => check'[other] = check[other]
  BY <1>1, <1>7 DEF OptionTypes
<1>9. OptionTypes'
  BY <1>1, <1>2, <1>8 DEF OptionTypes
<1>10. LockInv'
  BY <1>1, <1>2, <1>7, <1>8 DEF LockInv
<1>11. UNCHANGED rows
  BY <1>2 DEF database
<1>12. CheckInv(c)'
  <2>1. new.attempted = new.created + new.deduplicated + new.errors + IF Settled(c)' THEN 0 ELSE 1
    <3>1. check[c].attempted = check[c].created + check[c].deduplicated + check[c].errors + 1
      BY <1>1, <1>2 DEF CheckInv, Settled
    <3>2. {new.created, new.deduplicated, new.errors} \subseteq Nat
      BY DEF CheckRec
    <3> QED BY <1>6, <1>7, <3>1, <3>2
  <2>2. ASSUME new.days # Absent, new.errors = 0, NEW pos \in OptionPositions, NEW t \in Thresholds,
               new.days[pos] \in 0 .. t
        PROVE  rows'[OptionKey(pos, t)] # Absent \/ OptionKey(pos, t) \in new.todo
    <3>1. rows[OptionKey(pos, t)] # Absent \/ OptionKey(pos, t) \in check[c].todo
      BY <1>1, <1>2, <1>7, <2>2 DEF CheckInv, Persisting
    <3> QED BY <1>7, <1>11, <3>1
  <2>3. check[c].at \notin {"idle", "read"}
    BY <1>1, <1>2 DEF CheckInv, Settled
  <2> QED BY <1>6, <1>7, <1>8, <2>1, <2>2, <2>3 DEF CheckInv
<1>13. OtherChecksStay(c)
  BY <1>5, <1>8, <1>11 DEF OtherChecksStay, Processes, Callers
<1> QED BY <1>4, <1>9, <1>10, <1>12, <1>13, ChecksKept DEF OptionsInv

LEMMA ReleaseOptions == ASSUME OptionsInv, NEW c \in Checkers, Release(c) PROVE OptionsInv'
<1>1. AlertsInv /\ OptionTypes /\ LockInv /\ CheckInv(c) /\ check[c] \in CheckRec
  BY DEF OptionsInv, OptionTypes
<1>2. /\ check[c].at # "idle" /\ check[c].todo = {} /\ Settled(c)
      /\ check' = [check EXCEPT ![c].at = "idle"]
      /\ UNCHANGED <<database, queue, proc, calls, history, dte, locking, job>> /\ UNCHANGED <<rows, proc>>
  BY <1>1 DEF Release, CheckInv, Settled, At, database
<1>3. \/ lock' = [lock EXCEPT ![c] = IF locking THEN @ - 1 ELSE @] /\ leaked' = leaked
      \/ locking /\ leaked' = leaked \union {c} /\ failures < MaxFailures /\ lock' = lock
  BY DEF Release
<1>4. AlertsInv'
  <2>1. failures \in 0 .. MaxFailures /\ MaxFailures \in Nat /\ calls' \in 0 .. MaxCalls
    BY <1>1, <1>2, BoundsAssumption DEF AlertsInv, TypesInv
  <2>2. check[c].at = "read" => failures < MaxFailures
    BY DEF Release
  <2>3. failures' = failures \/ (failures' = failures + 1 /\ failures < MaxFailures)
    BY <1>3, <2>2 DEF Release
  <2>4. failures' \in 0 .. MaxFailures
    BY <2>1, <2>3
  <2> QED BY <1>1, <1>2, <2>1, <2>4, BoundsKept
<1> DEFINE new == [check[c] EXCEPT !.at = "idle"]
<1>5. /\ new \in CheckRec /\ new.at = "idle" /\ new.days = check[c].days /\ new.todo = check[c].todo
      /\ new.attempted = check[c].attempted /\ new.created = check[c].created
      /\ new.deduplicated = check[c].deduplicated /\ new.errors = check[c].errors
  BY <1>1 DEF CheckRec
<1>6. check' = [check EXCEPT ![c] = new]
  BY <1>1, <1>2 DEF OptionTypes
<1> HIDE DEF new
<1>7. /\ check' \in [Checkers -> CheckRec] /\ check'[c] = new
      /\ \A other \in Checkers : other # c => check'[other] = check[other]
  BY <1>1, <1>5, <1>6 DEF OptionTypes
<1>8. /\ lock[c] \in Nat /\ lock \in [Checkers -> Nat]
      /\ locking => lock[c] > 0
  BY <1>1, <1>2 DEF OptionTypes, LockInv
<1>9. /\ lock' \in [Checkers -> Nat] /\ leaked' \subseteq Checkers /\ leaked \subseteq leaked'
      /\ \A other \in Checkers : other # c => lock'[other] = lock[other]
      /\ locking => \/ lock'[c] = lock[c] - 1
                    \/ lock'[c] = lock[c] /\ c \in leaked'
  BY <1>1, <1>3, <1>8 DEF OptionTypes
<1>10. OptionTypes'
  BY <1>1, <1>2, <1>7, <1>9 DEF OptionTypes
<1>11. LockInv'
  <2>1. SUFFICES ASSUME locking PROVE LockInv'
    BY <1>2 DEF LockInv
  <2>2. lock[c] > 0 /\ lock[c] \in Nat /\ (lock[c] > 1 => c \in leaked)
    BY <1>1, <1>8, <2>1 DEF LockInv
  <2>3. /\ lock'[c] > 0 => c \in leaked'
        /\ lock'[c] > 1 => c \in leaked'
        /\ lock'[c] \in Nat
    BY <1>9, <2>1, <2>2
  <2>4. \A other \in Checkers : other # c => lock'[other] = lock[other] /\ ~(lock[other] > 0)
    BY <1>1, <1>9, <2>1, <2>2 DEF LockInv
  <2>5. \A other \in Checkers : other # c => check[other].at = "idle"
    BY <1>1, <2>1, <2>4 DEF LockInv
  <2>6. \A other \in Checkers : other # c => check'[other].at = "idle"
    BY <1>7, <2>5
  <2>7. lock \in [Checkers -> Nat]
    BY <1>8
  <2> QED BY <1>5, <1>7, <1>9, <2>1, <2>3, <2>4, <2>6, <2>7 DEF LockInv
<1>12. CheckInv(c)'
  <2>1. Settled(c)' /\ proc'[c].result = "none"
    BY <1>2 DEF Settled
  <2>2. new.attempted = new.created + new.deduplicated + new.errors + IF Settled(c)' THEN 0 ELSE 1
    BY <1>1, <1>2, <1>5, <2>1 DEF CheckInv
  <2>3. \A pos \in OptionPositions, t \in Thresholds :
          new.days # Absent /\ new.errors = 0 /\ new.days[pos] \in 0 .. t => rows'[OptionKey(pos, t)] # Absent
    BY <1>1, <1>2, <1>5 DEF CheckInv, Settled, Persisting
  <2> QED BY <1>2, <1>5, <1>7, <2>1, <2>2, <2>3 DEF CheckInv
<1>13. OtherChecksStay(c)
  BY <1>2, <1>7 DEF OtherChecksStay
<1> QED BY <1>4, <1>10, <1>11, <1>12, <1>13, ChecksKept DEF OptionsInv

LEMMA CrashOptions == ASSUME OptionsInv, NEW c \in Checkers, Crash(c) PROVE OptionsInv'
<1>1. AlertsInv /\ OptionTypes /\ LockInv /\ CheckInv(c) /\ c \in Processes
  BY DEF OptionsInv, Processes, Callers
<1>2. /\ check' = [check EXCEPT ![c] = NoCheck] /\ lock' = [lock EXCEPT ![c] = 0] /\ leaked' = leaked \ {c}
      /\ Set(c, AtRest) /\ aborted' = aborted \ {c}
      /\ UNCHANGED <<rows, attempts, queue, calls, failures, history, dte, locking, job>>
  BY DEF Crash
<1>3. proc[c].left = <<>> /\ proc[c].at # "enqueue"
  <2>1. Shape(c) /\ c \notin Workers
    BY <1>1, ProcessesAssumption DEF AlertsInv, Callers
  <2> QED BY <2>1 DEF Shape, Persisting
<1>4. AlertsInv'
  <2>1. aborted' \subseteq Sessions /\ calls' \in 0 .. MaxCalls /\ failures' \in 0 .. MaxFailures
    BY <1>1, <1>2 DEF AlertsInv, TypesInv
  <2> QED BY <1>1, <1>2, <1>3, <2>1, RestedKept
<1>5. proc'[c] = AtRest /\ \A q \in Processes : q # c => proc'[q] = proc[q]
  BY <1>1, <1>2, SetProc DEF AlertsInv
<1>6. Settled(c)' /\ proc'[c].result = "none"
  BY <1>5 DEF Settled, AtRest
<1>7. /\ NoCheck \in CheckRec /\ NoCheck.at = "idle" /\ NoCheck.days = Absent /\ NoCheck.todo = {}
      /\ NoCheck.attempted = 0 /\ NoCheck.created = 0 /\ NoCheck.deduplicated = 0 /\ NoCheck.errors = 0
  BY DEF NoCheck, CheckRec
<1>8. /\ check' \in [Checkers -> CheckRec] /\ check'[c] = NoCheck
      /\ \A other \in Checkers : other # c => check'[other] = check[other]
  BY <1>1, <1>2, <1>7 DEF OptionTypes
<1>9. /\ lock' \in [Checkers -> Nat] /\ lock'[c] = 0 /\ leaked' \subseteq Checkers
      /\ \A other \in Checkers : other # c => lock'[other] = lock[other]
  BY <1>1, <1>2 DEF OptionTypes
<1>10. OptionTypes'
  BY <1>1, <1>2, <1>8, <1>9 DEF OptionTypes
<1>11. LockInv'
  BY <1>1, <1>2, <1>7, <1>8, <1>9 DEF LockInv
<1>12. CheckInv(c)'
  BY <1>6, <1>7, <1>8 DEF CheckInv
<1>13. OtherChecksStay(c)
  BY <1>2, <1>5, <1>8 DEF OtherChecksStay, Processes, Callers
<1> QED BY <1>4, <1>10, <1>11, <1>12, <1>13, ChecksKept DEF OptionsInv

LEMMA JobOptions == ASSUME OptionsInv, StartJob \/ JobEmits PROVE OptionsInv'
<1>1. AlertsInv /\ OptionTypes /\ LockInv
  BY DEF OptionsInv
<1>2. CASE StartJob
  <2>1. /\ Call /\ UNCHANGED <<database, queue, proc, failures, history, dte, locking, lock, check, leaked>>
        /\ UNCHANGED rows
    BY <1>2 DEF StartJob, database
  <2>2. AlertsInv'
    <3>1. calls' \in 0 .. MaxCalls /\ failures' \in 0 .. MaxFailures
      BY <1>1, <2>1, CallTypes DEF AlertsInv, TypesInv
    <3> QED BY <1>1, <2>1, <3>1, BoundsKept
  <2>3. job' \subseteq [position : OptionPositions, days : 0 .. WarningDays]
    BY <1>2 DEF StartJob
  <2>4. OptionTypes' /\ LockInv'
    BY <1>1, <2>1, <2>3 DEF OptionTypes, LockInv
  <2> QED BY <2>1, <2>2, <2>4, AllChecksStay DEF OptionsInv
<1>3. CASE JobEmits
  <2>1. PICK item \in job :
          /\ Begin(Job, [key |-> WorkerKey(item.position), sev |-> SeverityOf(item.days)], TRUE)
          /\ job' = job \ {item}
          /\ UNCHANGED <<database, queue, calls, failures, history, dte, locking, lock, check, leaked>>
    BY <1>3 DEF JobEmits
  <2>2. PICK a \in Alert : a = [key |-> WorkerKey(item.position), sev |-> SeverityOf(item.days)]
    <3>1. SeverityOf(item.days) \in 1 .. 3
      BY DEF SeverityOf
    <3>2. WorkerKey(item.position) \in Keys
      BY <1>1, <2>1, OptionKeysAssumption DEF OptionTypes
    <3>3. \A s \in 1 .. 3, k \in Keys : [key |-> k, sev |-> s] \in Alert
      BY DEF Alert
    <3> QED BY <3>1, <3>2, <3>3
  <2>3. Job \in Callers /\ Job \notin Checkers /\ Job \in Processes
    BY JobAssumption, ProcessesAssumption DEF Callers, Processes
  <2>4. /\ Begin(Job, a, TRUE) /\ UNCHANGED <<database, queue, failures, history, rows>>
        /\ calls' \in 0 .. MaxCalls
    BY <1>1, <2>1, <2>2 DEF AlertsInv, TypesInv, database
  <2>5. AlertsInv'
    BY <1>1, <2>3, <2>4, BeginKept
  <2>6. \A other \in Checkers : proc'[other] = proc[other]
    <3>1. \A q \in Processes : q # Job => proc'[q] = proc[q]
      BY <1>1, <2>3, <2>4, BeginIs
    <3> QED BY <2>3, <3>1 DEF Processes, Callers
  <2>7. OptionTypes' /\ LockInv'
    BY <1>1, <2>1 DEF OptionTypes, LockInv
  <2> QED BY <2>1, <2>4, <2>5, <2>6, <2>7, AllChecksStay DEF OptionsInv
<1> QED BY <1>2, <1>3

LEMMA DayOptions == ASSUME OptionsInv, NextDay PROVE OptionsInv'
<1>1. AlertsInv /\ OptionTypes /\ LockInv
  BY DEF OptionsInv
<1>2. /\ UNCHANGED <<alertvars, locking, lock, check, job, leaked>> /\ UNCHANGED <<rows, proc>>
  BY DEF NextDay, alertvars, database
<1>3. AlertsInv'
  BY <1>1, <1>2, AlertsStay
<1>4. PICK first \in OptionPositions : dte[first] >= 0
  BY DEF NextDay
<1>5. \A pos \in OptionPositions : dte[pos] = dte[first] /\ dte[pos] \in -1 .. FirstDay /\ FirstDay \in Nat
  BY <1>1, DaysAssumption DEF OptionTypes
<1>6. dte' = [pos \in OptionPositions |-> dte[pos] - 1]
  BY DEF NextDay
<1>7. \A pos \in OptionPositions : dte'[pos] = dte[first] - 1 /\ dte[pos] - 1 \in -1 .. FirstDay
  BY <1>4, <1>5, <1>6
<1>8. dte' \in [OptionPositions -> -1 .. FirstDay] /\ \A pos, other \in OptionPositions : dte'[pos] = dte'[other]
  BY <1>6, <1>7
<1>9. OptionTypes' /\ LockInv'
  BY <1>1, <1>2, <1>8 DEF OptionTypes, LockInv
<1> QED BY <1>2, <1>3, <1>9, AllChecksStay DEF OptionsInv

LEMMA OptionsInitInv == ASSUME ExpirationInit PROVE OptionsInv
<1>1. AlertsInv
  BY AlertsInitInv DEF ExpirationInit
<1>2. /\ NoCheck \in CheckRec /\ NoCheck.at = "idle" /\ NoCheck.days = Absent /\ NoCheck.todo = {}
      /\ NoCheck.attempted = 0 /\ NoCheck.created = 0 /\ NoCheck.deduplicated = 0 /\ NoCheck.errors = 0
  BY DEF NoCheck, CheckRec
<1>3. OptionTypes
  BY <1>2, DaysAssumption DEF ExpirationInit, OptionTypes
<1>4. LockInv
  BY <1>2 DEF ExpirationInit, LockInv
<1>5. \A c \in Checkers : check[c] = NoCheck /\ proc[c].at = "idle" /\ proc[c].result = "none"
  BY DEF ExpirationInit, AlertsInit, AtRest, Processes, Callers
<1>6. \A c \in Checkers : CheckInv(c)
  BY <1>2, <1>5 DEF CheckInv, Settled
<1> QED BY <1>1, <1>3, <1>4, <1>6 DEF OptionsInv

LEMMA OptionsInvStep == ASSUME OptionsInv, [ExpirationNext]_allVars PROVE OptionsInv'
<1>1. CASE \E p \in Processes : Proceed(p) /\ UNCHANGED expiration
  BY <1>1, ProceedOptions
<1>2. CASE \E c \in Checkers : Checking(c)
  BY <1>2, ReadOptions, CheckOneOptions, CountOptions, ReleaseOptions DEF Checking
<1>3. CASE \E c \in Emitters, alert \in Events : Emit(c, alert) /\ UNCHANGED expiration
  BY <1>3, EmitOptions
<1>4. CASE \E c \in Checkers : StartCheck(c) \/ Crash(c)
  BY <1>4, StartCheckOptions, CrashOptions
<1>5. CASE StartJob \/ JobEmits
  BY <1>5, JobOptions
<1>6. CASE NextDay
  BY <1>6, DayOptions
<1>7. CASE UNCHANGED allVars
  <2>1. UNCHANGED <<alertvars, expiration>> /\ UNCHANGED <<rows, proc>>
    BY <1>7 DEF allVars, alertvars, database
  <2>2. AlertsInv'
    BY <2>1, AlertsStay DEF OptionsInv
  <2>3. OptionTypes' /\ LockInv'
    BY <2>1 DEF OptionsInv, OptionTypes, LockInv, expiration
  <2> QED BY <2>1, <2>2, <2>3, AllChecksStay DEF OptionsInv, expiration
<1> QED BY <1>1, <1>2, <1>3, <1>4, <1>5, <1>6, <1>7 DEF ExpirationNext, Running

LEMMA OptionsInvHolds == ExpirationSpec => []OptionsInv
<1>1. ExpirationInit => OptionsInv
  BY OptionsInitInv
<1>2. OptionsInv /\ [ExpirationNext]_allVars => OptionsInv'
  BY OptionsInvStep
<1> QED BY <1>1, <1>2, PTL DEF ExpirationSpec

LEMMA AlertsInvSound == ASSUME AlertsInv PROVE AlertsSound
<1>1. OncePerKey
  BY DEF AlertsInv, KeyInv, PlaceInv, OncePerKey
<1>2. DuplicatesCounted
  BY DEF AlertsInv, CountInv, DuplicatesCounted
<1>3. RetriesFollowFailures
  BY DEF AlertsInv, KeyInv, AttemptsInv, RetriesFollowFailures
<1>4. SentMeansAccepted
  <2>1. SUFFICES ASSUME NEW k \in Keys \ RecoveryKeys, NEW d \in Destinations
                 PROVE  /\ (\E i \in DOMAIN attempts[k][d] : attempts[k][d][i] = "sent") => accepted[k][d] > 0
                        /\ accepted[k][d] <= 1 + unrecorded[k][d]
    BY DEF SentMeansAccepted
  <2>2. AttemptsInv(k, d)
    BY <2>1 DEF AlertsInv, KeyInv
  <2>3. attempts[k][d] \in Seq(Statuses3)
    BY <2>1 DEF AlertsInv, TypesInv
  <2>4. DOMAIN attempts[k][d] = 1 .. Len(attempts[k][d])
    BY <2>3
  <2> QED BY <2>2, <2>4 DEF AttemptsInv
<1>5. HandledOnce
  <2>1. SUFFICES ASSUME NEW k \in Keys \ RecoveryKeys
                 PROVE  /\ outcome[k] = "pending" =>
                             \/ \E i \in DOMAIN queue : queue[i].key = k
                             \/ \E p \in Processes : proc[p].alert # Absent /\ Key(p) = k /\ proc[p].left # <<>>
                        /\ outcome[k] = "dropped" => rows[k].sev # 1
    BY DEF HandledOnce
  <2>2. PlaceInv(k)
    BY <2>1 DEF AlertsInv, KeyInv
  <2>3. \A p \in Processes : proc[p].left # <<>> => proc[p].alert # Absent
    <3>1. SUFFICES ASSUME NEW p \in Processes, proc[p].left # <<>> PROVE proc[p].alert # Absent
      OBVIOUS
    <3>2. proc[p].alert \in Alert
      BY <3>1, OwnFacts
    <3> QED BY <3>2, AbsentAssumption
  <2> QED BY <2>2, <2>3 DEF PlaceInv, Waiting, Delivering
<1>6. FailuresReported
  <2>1. SUFFICES ASSUME NEW k \in Keys \ RecoveryKeys, rows[k] # Absent, rows[k].sev = 1, outcome[k] = "done",
                        \E d \in Destinations :
                          Len(attempts[k][d]) = MaxRetries /\ attempts[k][d][MaxRetries] = "failed"
                 PROVE  rows[FailedKey] # Absent \/ MaxRetries = 1
    BY DEF FailuresReported
  <2>2. PlaceInv(k) /\ ReportedInv(k)
    BY <2>1 DEF AlertsInv, KeyInv
  <2>3. Delivering(k) = {}
    BY <2>1, <2>2 DEF PlaceInv
  <2> QED BY <2>1, <2>2, <2>3 DEF ReportedInv
<1> QED BY <1>1, <1>2, <1>3, <1>4, <1>5, <1>6 DEF AlertsSound

\* An alert is stored, counted, delivered, retried and reported as AlertsSound says, for
\* every set of keys, emitters, checkers and workers, every queue size and number of
\* retries, with the checks of expiring options among the emitters.
THEOREM AlertsAreSound == ExpirationSpec => []AlertsSound
<1>1. OptionsInv => AlertsSound
  BY AlertsInvSound DEF OptionsInv
<1> QED BY <1>1, OptionsInvHolds, PTL

\* Checks of expiring options exclude each other when the deployment uses the lock, one
\* that ends without an error leaves an alert for every threshold that had come, and each
\* pair it attempted is counted as created, deduplicated or an error.
THEOREM ChecksAreSound == ExpirationSpec => [](ExpirationTypeOK /\ LockExcludes /\ CatchUp)
<1>1. OptionsInv => ExpirationTypeOK
  <2>1. SUFFICES ASSUME OptionsInv PROVE ExpirationTypeOK
    OBVIOUS
  <2>2. AlertsInv /\ TypesInv /\ OptionTypes
    BY <2>1 DEF OptionsInv, AlertsInv
  <2>3. AlertsTypeOK
    <3>1. \A p \in Processes :
            /\ proc[p].at \in Place /\ proc[p].alert \in Alert \union {Absent}
            /\ proc[p].send \in BOOLEAN /\ proc[p].row \in Keys \union {Absent}
            /\ proc[p].attempt \in 1 .. MaxRetries
            /\ proc[p].result \in {"none", "new", "duplicate", "raised"}
      <4>1. SUFFICES ASSUME NEW p \in Processes
                     PROVE  /\ proc[p].at \in Place /\ proc[p].alert \in Alert \union {Absent}
                            /\ proc[p].send \in BOOLEAN /\ proc[p].row \in Keys \union {Absent}
                            /\ proc[p].attempt \in 1 .. MaxRetries
                            /\ proc[p].result \in {"none", "new", "duplicate", "raised"}
        OBVIOUS
      <4>2. proc[p] \in ProcessRec
        BY <2>2 DEF TypesInv
      <4> QED BY <4>2, Zenon DEF ProcessRec
    <3>2. \A p \in Processes : At(p, {"record", "send", "sent", "failed", "unsure"}) =>
                                 Destination(p) \in Destinations
      BY <2>2, TryingIs DEF At, Destination, Trying
    <3> QED BY <2>2, <3>1, <3>2 DEF AlertsTypeOK, TypesInv, Statuses3, Outcomes
  <2>4. ASSUME NEW c \in Checkers
        PROVE  /\ check[c].at \in {"idle", "read", "scan"} /\ check[c].todo \subseteq Keys
               /\ check[c].days \in {Absent} \union [OptionPositions -> -1 .. FirstDay]
               /\ check[c].attempted = check[c].created + check[c].deduplicated + check[c].errors
                    + IF At(c, {"idle"}) /\ proc[c].result = "none" THEN 0 ELSE 1
    <3>1. check[c] \in CheckRec /\ CheckInv(c)
      BY <2>1, <2>2 DEF OptionsInv, OptionTypes
    <3>2. Settled(c) <=> At(c, {"idle"}) /\ proc[c].result = "none"
      BY DEF Settled, At
    <3> QED BY <3>1, <3>2 DEF CheckRec, CheckInv
  <2> QED BY <2>2, <2>3, <2>4 DEF OptionTypes, ExpirationTypeOK
<1>2. OptionsInv => LockExcludes
  BY DEF OptionsInv, LockInv, LockExcludes
<1>3. OptionsInv => CatchUp
  <2>1. SUFFICES ASSUME OptionsInv, NEW c \in Checkers, check[c].at = "idle", check[c].days # Absent,
                        check[c].errors = 0, NEW pos \in OptionPositions, NEW t \in Thresholds,
                        check[c].days[pos] \in 0 .. t
                 PROVE  rows[OptionKey(pos, t)] # Absent
    BY DEF CatchUp
  <2>2. CheckInv(c)
    BY <2>1 DEF OptionsInv
  <2> QED BY <2>1, <2>2 DEF CheckInv, Settled, Persisting
<1> QED BY <1>1, <1>2, <1>3, OptionsInvHolds, PTL
=============================================================================
