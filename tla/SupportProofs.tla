---------------------------- MODULE SupportProofs -----------------------------
(***************************************************************************)
(* Proofs about the parts beside the trading path, each for every value of *)
(* its constants: EventBus, Health, Agents, Reconciliation, WriteBuffer,   *)
(* Answers.                                                                *)
(***************************************************************************)
EXTENDS EventBus, Health, Agents, Reconciliation, WriteBuffer, Answers,
        SumLemmas, FiniteSetTheorems, SequenceTheorems, TLAPS

-----------------------------------------------------------------------------
(* EventBus: the loops.  Only the loop started last may be at work.        *)

LoopRec == [at : {"waiting", "handler", "deaf", "ended"}, event : 0 .. MaxEvents, next : Nat]
Busy(l) == loops[l].at \in {"handler", "deaf"}

BusLife ==
  /\ loops \in Seq(LoopRec) /\ Len(loops) <= MaxStarts
  /\ \A l \in 1 .. Len(loops) : l # Len(loops) => loops[l].at = "ended"
  /\ running => stopping = 0 /\ Len(loops) > 0 /\ taskLoop = Len(loops)
  /\ stopping # 0 => stopping = Len(loops)
  /\ ~running /\ stopping = 0 => \A l \in 1 .. Len(loops) : loops[l].at = "ended"
  /\ \A l \in 1 .. Len(loops) : Busy(l) => loops[l].next \in 1 .. Len(subscribers)

\* What was ever taken from the queue.
Handed == given \cup cut \cup InHand

\* What was taken is older than what waits, and what is in a handler is the last
\* that was taken.
InTurn ==
  /\ InHand \subseteq 1 .. published
  /\ \A i \in 1 .. Len(waiting) : \A e \in Handed : e < waiting[i]
  /\ \A i, j \in 1 .. Len(waiting) : i < j => waiting[i] < waiting[j]
  /\ \A e \in InHand, f \in given \cup cut : f < e

\* A handler was called with what was taken; with the event in hand, those in the
\* list up to the place of the loop.
CallsInv ==
  /\ \A i, j \in 1 .. Len(subscribers) : subscribers[i] = subscribers[j] => i = j
  /\ \A h \in Handlers : (\A i \in 1 .. Len(subscribers) : subscribers[i] # h) => got[h] = <<>>
  /\ \A h \in Handlers : \A i \in 1 .. Len(got[h]) : got[h][i] \in Handed
  /\ \A l \in 1 .. Len(loops) : Busy(l) =>
       \A k \in 1 .. Len(subscribers) :
         IF k <= loops[l].next
         THEN \E i \in 1 .. Len(got[subscribers[k]]) : got[subscribers[k]][i] = loops[l].event
         ELSE \A i \in 1 .. Len(got[subscribers[k]]) : got[subscribers[k]][i] # loops[l].event

BusInv ==
  BusTypeOK /\ EventsAccounted /\ InPublishedOrder /\ SubscribersAgree /\ BusLife /\ InTurn /\ CallsInv

BusSpec == BusInit /\ [][BusNext]_busvars

\* What is in hand, by the last loop.
LEMMA InHandIs ==
  ASSUME loops \in Seq(LoopRec),
         \A l \in 1 .. Len(loops) : l # Len(loops) => loops[l].at = "ended"
  PROVE  /\ \A l \in 1 .. Len(loops) : Busy(l) => InHand = {loops[l].event} /\ l = Len(loops)
         /\ (\A l \in 1 .. Len(loops) : ~Busy(l)) => InHand = {}
         /\ IsFiniteSet(InHand)
<1>1. DOMAIN loops = 1 .. Len(loops)
  BY LenProperties
<1>2. \A l \in 1 .. Len(loops) : Busy(l) => l = Len(loops)
  BY DEF Busy
<1>3. ASSUME NEW l \in 1 .. Len(loops), Busy(l)
      PROVE  InHand = {loops[l].event}
  BY <1>1, <1>2, <1>3 DEF InHand, Busy
<1>4. (\A l \in 1 .. Len(loops) : ~Busy(l)) => InHand = {}
  BY <1>1 DEF InHand, Busy
<1>5. IsFiniteSet(InHand)
  BY ZenonT(30), <1>3, <1>4, FS_EmptySet, FS_Singleton
<1> QED BY <1>2, <1>3, <1>4, <1>5

LEMMA BusLifeKept ==
  ASSUME BusInv, [BusNext]_busvars PROVE BusLife'
<1> USE DEF BusInv
<1>0. DOMAIN loops = 1 .. Len(loops) /\ Len(loops) \in Nat /\ loops \in [1 .. Len(loops) -> LoopRec]
  BY LenProperties DEF BusLife
<1>s. Len(subscribers) \in Nat /\ MaxStarts \in Nat
  BY LenProperties, BusAssumption DEF BusTypeOK
<1>1. CASE UNCHANGED busvars
  BY <1>1 DEF busvars, BusLife, Busy
<1>2. CASE PublishEvent
  BY <1>2 DEF PublishEvent, Life, Lists, BusLife, Busy
<1>3. CASE SetCallback
  BY <1>3 DEF SetCallback, Life, BusLife, Busy
<1>4. ASSUME NEW h \in Handlers, Subscribe(h) PROVE BusLife'
  <2>1. Len(subscribers') = Len(subscribers) + 1
    BY <1>4, AppendProperties DEF Subscribe, BusTypeOK
  <2> QED BY <1>4, <1>s, <2>1 DEF Subscribe, Life, BusLife, Busy
<1>5. ASSUME NEW l \in DOMAIN loops, NEW x \in LoopRec, l = Len(loops),
             loops' = [loops EXCEPT ![l] = x], UNCHANGED <<subscribers, running, stopping, taskLoop>>,
             x.at \in {"handler", "deaf"} => x.next \in 1 .. Len(subscribers),
             ~running /\ stopping = 0 => x.at = "ended"
      PROVE  BusLife'
  <2>1. /\ loops' \in Seq(LoopRec) /\ Len(loops') = Len(loops)
        /\ \A j \in 1 .. Len(loops) : loops'[j] = IF j = l THEN x ELSE loops[j]
    BY <1>0, <1>5, ExceptSeq DEF BusLife
  <2> QED BY <1>0, <1>5, <2>1 DEF BusLife, Busy
<1>6. ASSUME NEW l \in DOMAIN loops, Dispatching(l) PROVE BusLife'
  <2>1. l = Len(loops) /\ (~running => stopping # 0)
    BY <1>0, <1>6 DEF Dispatching, Take, TimesOut, HandlerReturns, BusLife
  <2>2. Waiting \in LoopRec /\ Ended \in LoopRec
    BY BusAssumption DEF LoopRec, Waiting, Ended
  <2>3. Rest \in {Waiting, Ended} /\ (~running => Rest = Ended)
    BY DEF Rest
  <2>4. CASE Take(l)
    <3>1. Head(waiting) \in 1 .. MaxEvents
      BY <2>4, HeadTailProperties DEF Take, BusTypeOK
    <3>2. CASE subscribers = <<>>
      BY <1>5, <2>1, <2>2, <2>3, <2>4, <3>2 DEF Take, Life, Waiting, Ended
    <3>3. CASE subscribers # <<>>
      <4> DEFINE x == [at |-> IF running THEN "handler" ELSE "deaf", event |-> Head(waiting), next |-> 1]
      <4>1. x \in LoopRec
        BY <3>1, BusAssumption DEF LoopRec
      <4>2. 1 \in 1 .. Len(subscribers)
        BY <3>3, EmptySeq, <1>s DEF BusTypeOK
      <4>3. loops' = [loops EXCEPT ![l] = x] /\ UNCHANGED <<subscribers, running, stopping, taskLoop>>
        BY <2>4, <3>3 DEF Take, Life
      <4>4. x.next = 1 /\ (~running /\ stopping = 0 => x.at = "ended")
        BY <2>1
      <4> HIDE DEF x
      <4> QED BY <1>5, <2>1, <4>1, <4>2, <4>3, <4>4
    <3> QED BY <3>2, <3>3
  <2>5. CASE TimesOut(l)
    BY <1>5, <2>1, <2>2, <2>5 DEF TimesOut, Lists, Life, Ended
  <2>6. CASE HandlerReturns(l)
    <3>1. CASE loops[l].next < Len(subscribers)
      <4> DEFINE x == [loops[l] EXCEPT !.next = loops[l].next + 1]
      <4>1. loops[l] \in LoopRec /\ loops[l].next \in 1 .. Len(subscribers)
        BY <1>0, <2>6 DEF HandlerReturns, BusLife, Busy
      <4>2. x \in LoopRec /\ x.next = loops[l].next + 1 /\ x.at = loops[l].at
        BY <4>1 DEF LoopRec
      <4>3. loops' = [loops EXCEPT ![l] = x] /\ UNCHANGED <<subscribers, running, stopping, taskLoop>>
        BY <2>6, <3>1 DEF HandlerReturns, Life
      <4>4. x.next \in 1 .. Len(subscribers)
        BY <1>s, <3>1, <4>1, <4>2
      <4> HIDE DEF x
      <4>5. ~running /\ stopping = 0 => x.at = "ended"
        BY <2>1
      <4> QED BY <1>5, <2>1, <4>2, <4>3, <4>4, <4>5
    <3>2. CASE ~(loops[l].next < Len(subscribers))
      BY <1>5, <2>1, <2>2, <2>3, <2>6, <3>2 DEF HandlerReturns, Life, Waiting, Ended
    <3> QED BY <3>1, <3>2
  <2> QED BY <1>6, <2>4, <2>5, <2>6 DEF Dispatching
<1>7. CASE StartBus
  <2>1. Waiting \in LoopRec
    BY BusAssumption DEF LoopRec, Waiting
  <2>2. /\ loops' \in Seq(LoopRec) /\ Len(loops') = Len(loops) + 1
        /\ \A j \in 1 .. Len(loops) : loops'[j] = loops[j]
        /\ loops'[Len(loops) + 1] = Waiting
    BY <1>7, <2>1, AppendProperties DEF StartBus, BusLife
  <2>3. /\ ~running /\ stopping = 0 /\ stopping' = 0 /\ running' = TRUE
        /\ taskLoop' = Len(loops) + 1 /\ Len(loops) + 1 <= MaxStarts
    BY <1>0, <1>s, <1>7 DEF StartBus
  <2>4. \A l \in 1 .. Len(loops) : loops[l].at = "ended"
    BY <2>3 DEF BusLife
  <2>5. \A l \in 1 .. Len(loops') : l \in 1 .. Len(loops) \/ (l = Len(loops') /\ loops'[l] = Waiting)
    BY <1>0, <2>2
  <2>6. \A l \in 1 .. Len(loops') :
          loops'[l].at \notin {"handler", "deaf"} /\ (l # Len(loops') => loops'[l].at = "ended")
    BY <1>0, <2>2, <2>4, <2>5 DEF Waiting
  <2>7. Len(loops') > 0 /\ Len(loops') <= MaxStarts /\ taskLoop' = Len(loops')
    BY <1>0, <2>2, <2>3
  <2>8. \A l \in 1 .. Len(loops') : ~Busy(l)'
    BY <2>6 DEF Busy
  <2> QED BY <2>2, <2>3, <2>6, <2>7, <2>8 DEF BusLife
<1>8. CASE StopBus
  BY <1>0, <1>8 DEF StopBus, Lists, BusLife, Busy
<1>9. CASE CancelReaches
  <2>1. stopping \in DOMAIN loops /\ stopping = Len(loops)
    BY <1>0, <1>9 DEF CancelReaches, BusLife, BusTypeOK
  <2>2. Ended \in LoopRec
    BY BusAssumption DEF LoopRec, Ended
  <2> QED BY <1>5, <1>9, <2>1, <2>2 DEF CancelReaches, Life, Ended
<1>10. CASE StopReturns
  BY <1>0, <1>10 DEF StopReturns, Lists, BusLife, Busy
<1> QED BY <1>1, <1>2, <1>3, <1>4, <1>6, <1>7, <1>8, <1>9, <1>10 DEF BusNext

\* An event that is counted at its new place.
LEMMA OneMore ==
  ASSUME NEW S, NEW n, S \subseteq 1 .. published, published \in Nat, n \notin S
  PROVE  /\ IsFiniteSet(S) /\ Cardinality(S) \in Nat
         /\ Cardinality(S \cup {n}) = Cardinality(S) + 1
<1>1. IsFiniteSet(1 .. published)
  BY FS_Interval
<1>2. IsFiniteSet(S)
  BY <1>1, FS_Subset
<1> QED BY <1>2, FS_CardinalityType, FS_AddElement

\* The place of each event, as facts about the counts.
LEMMA Counts ==
  ASSUME BusInv
  PROVE  /\ published \in Nat /\ Len(waiting) \in Nat
         /\ given \subseteq 1 .. published /\ cut \subseteq 1 .. published
         /\ dropped \subseteq 1 .. published /\ InHand \subseteq 1 .. published
         /\ Cardinality(InHand) \in Nat /\ Cardinality(given) \in Nat
         /\ Cardinality(cut) \in Nat /\ Cardinality(dropped) \in Nat
         /\ \A i \in 1 .. Len(waiting) : waiting[i] \in 1 .. published
         /\ ToSet(waiting) = {waiting[i] : i \in 1 .. Len(waiting)}
<1> USE DEF BusInv
<1>1. published \in Nat
  BY DEF BusTypeOK
<1>2. Len(waiting) \in Nat /\ DOMAIN waiting = 1 .. Len(waiting)
  BY LenProperties DEF BusTypeOK
<1>3. ToSet(waiting) = {waiting[i] : i \in 1 .. Len(waiting)}
  BY <1>2 DEF ToSet
<1>4. /\ given \subseteq 1 .. published /\ cut \subseteq 1 .. published
      /\ dropped \subseteq 1 .. published /\ InHand \subseteq 1 .. published
      /\ ToSet(waiting) \subseteq 1 .. published
  BY DEF EventsAccounted
<1>5. \A S : S \subseteq 1 .. published => Cardinality(S) \in Nat
  <2> SUFFICES ASSUME NEW S, S \subseteq 1 .. published PROVE Cardinality(S) \in Nat
    OBVIOUS
  <2>1. IsFiniteSet(1 .. published)
    BY <1>1, FS_Interval
  <2>2. IsFiniteSet(S)
    BY <2>1, FS_Subset
  <2> QED BY <2>2, FS_CardinalityType
<1> QED BY <1>1, <1>2, <1>3, <1>4, <1>5

\* What is in hand after a step of the last loop.
LEMMA HandMoves ==
  ASSUME BusInv, BusLife', NEW l \in DOMAIN loops, NEW x \in LoopRec, l = Len(loops),
         loops' = [loops EXCEPT ![l] = x]
  PROVE  InHand' = IF x.at \in {"handler", "deaf"} THEN {x.event} ELSE {}
<1>1. loops' \in Seq(LoopRec) /\ \A i \in 1 .. Len(loops') : i # Len(loops') => loops'[i].at = "ended"
  BY DEF BusLife
<1>2. l \in 1 .. Len(loops) /\ Len(loops') = Len(loops) /\ loops'[l] = x
  BY ExceptSeq, LenProperties DEF BusInv, BusLife
<1>3. DOMAIN loops' = 1 .. Len(loops')
  BY <1>1, LenProperties
<1>4. \A i \in 1 .. Len(loops') : loops'[i].at \in {"handler", "deaf"} => i = l
  BY <1>1, <1>2
<1> QED BY <1>2, <1>3, <1>4 DEF InHand

LEMMA BusTypeKept ==
  ASSUME BusInv, [BusNext]_busvars PROVE BusTypeOK'
<1> USE DEF BusInv
<1>0. /\ Len(waiting) \in Nat /\ Len(loops) \in Nat /\ DOMAIN loops = 1 .. Len(loops)
      /\ loops \in [1 .. Len(loops) -> LoopRec]
      /\ MaxEvents \in Nat /\ MaxStarts \in Nat /\ Capacity \in Nat
  BY LenProperties, BusAssumption DEF BusTypeOK, BusLife
<1>1. CASE UNCHANGED busvars
  BY <1>1 DEF busvars, BusTypeOK
<1>2. CASE PublishEvent
  <2>1. published + 1 \in 1 .. MaxEvents
    BY <1>0, <1>2 DEF PublishEvent, BusTypeOK
  <2>2. Len(waiting) < Capacity => /\ Append(waiting, published + 1) \in Seq(1 .. MaxEvents)
                                   /\ Len(Append(waiting, published + 1)) <= Capacity
    BY <1>0, <2>1, AppendProperties DEF BusTypeOK
  <2>3. waiting' \in Seq(1 .. MaxEvents) /\ Len(waiting') <= Capacity
    BY <1>2, <2>2 DEF PublishEvent, BusTypeOK
  <2>4. /\ dropped' \subseteq dropped \cup {published + 1}
        /\ logged' \subseteq logged \cup {published + 1}
        /\ degraded' \subseteq degraded \cup {published + 1}
    BY <1>2 DEF PublishEvent, WriteFallbackLog, LocalEmergencyDegrade
  <2>5. published' \in 0 .. MaxEvents /\ UNCHANGED <<Lists, Life>>
    BY <1>2, <2>1 DEF PublishEvent
  <2> QED BY <2>1, <2>3, <2>4, <2>5 DEF Life, Lists, BusTypeOK
<1>3. CASE SetCallback
  BY <1>3 DEF SetCallback, Life, Kept, BusTypeOK
<1>4. ASSUME NEW h \in Handlers, Subscribe(h) PROVE BusTypeOK'
  BY <1>4, AppendProperties DEF Subscribe, Life, Kept, BusTypeOK
<1>5. ASSUME NEW h \in Handlers, NEW e \in 1 .. MaxEvents PROVE [got EXCEPT ![h] = Append(@, e)] \in [Handlers -> Seq(1 .. MaxEvents)]
  BY AppendProperties DEF BusTypeOK
<1>6. ASSUME NEW l \in DOMAIN loops, Dispatching(l) PROVE BusTypeOK'
  <2>0. \A k \in 1 .. Len(subscribers) : subscribers[k] \in Handlers
    BY ElementOfSeq DEF BusTypeOK
  <2>1. CASE Take(l)
    <3>1. Head(waiting) \in 1 .. MaxEvents /\ Tail(waiting) \in Seq(1 .. MaxEvents)
          /\ Len(Tail(waiting)) <= Capacity
      <4>1. waiting \in Seq(1 .. MaxEvents) /\ waiting # <<>> /\ Len(waiting) <= Capacity
        BY <2>1 DEF Take, BusTypeOK
      <4>2. Head(waiting) \in 1 .. MaxEvents /\ Tail(waiting) \in Seq(1 .. MaxEvents)
            /\ Len(Tail(waiting)) = Len(waiting) - 1
        BY <4>1, HeadTailProperties
      <4> QED BY <1>0, <4>1, <4>2
    <3>2. subscribers # <<>> => 1 \in 1 .. Len(subscribers)
      BY EmptySeq DEF BusTypeOK
    <3>3. got' \in [Handlers -> Seq(1 .. MaxEvents)]
      <4>1. CASE subscribers = <<>>
        BY <2>1, <4>1 DEF Take, BusTypeOK
      <4>2. CASE subscribers # <<>>
        <5>1. got' = [got EXCEPT ![subscribers[1]] = Append(@, Head(waiting))]
          BY <2>1, <4>2 DEF Take, Call
        <5> QED BY <1>5, <2>0, <3>1, <3>2, <4>2, <5>1
      <4> QED BY <4>1, <4>2
    <3> QED BY <2>1, <3>1, <3>3 DEF Take, Life, BusTypeOK
  <2>2. CASE TimesOut(l)
    BY <2>2 DEF TimesOut, Kept, Lists, Life, BusTypeOK
  <2>3. CASE HandlerReturns(l)
    <3>0. Busy(l)
      BY <2>3 DEF HandlerReturns, Busy
    <3>1. loops[l].event \in 1 .. MaxEvents
      <4>1. loops[l].event \in InHand
        BY <3>0 DEF InHand, Busy
      <4>2. InHand \subseteq 1 .. published
        BY DEF InTurn
      <4>3. 1 .. published \subseteq 1 .. MaxEvents
        BY <1>0 DEF BusTypeOK
      <4> QED BY <4>1, <4>2, <4>3
    <3>2. loops[l].next \in 1 .. Len(subscribers)
      BY <1>0, <3>0 DEF BusLife
    <3>3. loops[l].next < Len(subscribers) => loops[l].next + 1 \in 1 .. Len(subscribers)
      BY <3>2, LenProperties DEF BusTypeOK
    <3>4. got' \in [Handlers -> Seq(1 .. MaxEvents)]
      <4>1. CASE loops[l].next < Len(subscribers)
        <5>1. got' = [got EXCEPT ![subscribers[loops[l].next + 1]] = Append(@, loops[l].event)]
          BY <2>3, <4>1 DEF HandlerReturns, Call
        <5> QED BY <1>5, <2>0, <3>1, <3>3, <4>1, <5>1
      <4>2. CASE ~(loops[l].next < Len(subscribers))
        BY <2>3, <4>2 DEF HandlerReturns, BusTypeOK
      <4> QED BY <4>1, <4>2
    <3> QED BY <2>3, <3>1, <3>4 DEF HandlerReturns, Kept, Life, BusTypeOK
  <2> QED BY <1>6, <2>1, <2>2, <2>3 DEF Dispatching
<1>7. CASE StartBus
  <2>1. taskLoop' \in 0 .. MaxStarts /\ stopping' \in 0 .. MaxStarts /\ running' \in BOOLEAN
    BY <1>0, <1>7 DEF StartBus
  <2> QED BY <1>7, <2>1 DEF StartBus, Kept, Lists, BusTypeOK
<1>8. CASE StopBus
  BY <1>8 DEF StopBus, Kept, Lists, BusTypeOK
<1>9. CASE CancelReaches
  <2>1. cut' \subseteq 1 .. MaxEvents
    <3>1. loops[stopping].at = "handler" => loops[stopping].event \in InHand
      BY <1>0, <1>9 DEF CancelReaches, InHand, BusLife, BusTypeOK
    <3>2. InHand \subseteq 1 .. published
      BY DEF InTurn
    <3>3. 1 .. published \subseteq 1 .. MaxEvents
      BY <1>0 DEF BusTypeOK
    <3> QED BY <1>9, <3>1, <3>2, <3>3 DEF CancelReaches, BusTypeOK
  <2> QED BY <1>9, <2>1 DEF CancelReaches, Kept, Life, BusTypeOK
<1>10. CASE StopReturns
  BY <1>0, <1>10 DEF StopReturns, Kept, Lists, BusTypeOK
<1> QED BY <1>1, <1>2, <1>3, <1>4, <1>6, <1>7, <1>8, <1>9, <1>10 DEF BusNext

-----------------------------------------------------------------------------
(* EventBus: places, order and calls.                                      *)

BusFlow == EventsAccounted /\ InPublishedOrder /\ SubscribersAgree /\ InTurn /\ CallsInv

\* The life of the loops and what is asked for do not touch the events.
LEMMA FlowUntouched ==
  ASSUME BusInv, UNCHANGED <<published, waiting, dropped, logged, degraded, subscribers, got, given, cut>>,
         InHand' = InHand,
         \A l \in 1 .. Len(loops') : Busy(l)' => l \in 1 .. Len(loops) /\ loops'[l] = loops[l]
  PROVE  BusFlow'
<1> USE DEF BusInv, BusFlow
<1>1. EventsAccounted' /\ InPublishedOrder' /\ SubscribersAgree' /\ InTurn'
  BY DEF EventsAccounted, InPublishedOrder, SubscribersAgree, InTurn, Handed
<1>2. Handed' = Handed
  BY DEF Handed
<1>3. \A l \in 1 .. Len(loops') : Busy(l)' => Busy(l)
  BY DEF Busy
<1>4. CallsInv'
  BY <1>2, <1>3 DEF CallsInv
<1> QED BY <1>1, <1>4

LEMMA PublishFlow ==
  ASSUME BusInv, PublishEvent PROVE BusFlow'
<1> DEFINE n == published + 1
<1>0. /\ UNCHANGED <<subscribers, got, given, cut, loops>>
      /\ InHand' = InHand /\ Handed' = Handed /\ published' = n
  BY DEF PublishEvent, Lists, InHand, Handed
<1>c. /\ published \in Nat /\ Len(waiting) \in Nat
      /\ given \subseteq 1 .. published /\ cut \subseteq 1 .. published
      /\ dropped \subseteq 1 .. published /\ InHand \subseteq 1 .. published
      /\ Cardinality(InHand) \in Nat /\ Cardinality(given) \in Nat
      /\ Cardinality(cut) \in Nat /\ Cardinality(dropped) \in Nat
      /\ \A i \in 1 .. Len(waiting) : waiting[i] \in 1 .. published
      /\ ToSet(waiting) = {waiting[i] : i \in 1 .. Len(waiting)}
  BY Counts
<1>1. InPublishedOrder' /\ SubscribersAgree' /\ CallsInv'
  BY <1>0 DEF BusInv, InPublishedOrder, SubscribersAgree, CallsInv, Busy
<1>2. CASE Len(waiting) < Capacity /\ waiting' = Append(waiting, n) /\ UNCHANGED <<dropped, logged, degraded>>
  <2>0. n \in 1 .. MaxEvents /\ waiting \in Seq(1 .. MaxEvents)
    BY SMTT(30), <1>c, BusAssumption DEF PublishEvent, BusInv, BusTypeOK
  <2>1. /\ Len(waiting') = Len(waiting) + 1 /\ waiting'[Len(waiting) + 1] = n
        /\ \A i \in 1 .. Len(waiting) : waiting'[i] = waiting[i]
        /\ waiting' \in Seq(1 .. MaxEvents)
    BY <1>2, <2>0, AppendProperties
  <2>2. ToSet(waiting') = ToSet(waiting) \cup {n}
    <3>1. DOMAIN waiting' = 1 .. Len(waiting) + 1
      BY <2>1, LenProperties
    <3>2. ToSet(waiting') = {waiting'[i] : i \in 1 .. Len(waiting) + 1}
      BY <3>1 DEF ToSet
    <3> QED BY SMTT(30), <1>c, <2>1, <3>2
  <2>3. 1 .. n = (1 .. published) \cup {n}
    BY <1>c
  <2>4. EventsAccounted'
    <3>1. Len(waiting) + Cardinality(InHand) + Cardinality(given) + Cardinality(cut)
            + Cardinality(dropped) = published
      BY DEF BusInv, EventsAccounted
    <3>2. Len(waiting') + Cardinality(InHand) + Cardinality(given) + Cardinality(cut)
            + Cardinality(dropped) = n
      BY <1>c, <2>1, <3>1
    <3>3. ToSet(waiting') \cup InHand' \cup given' \cup cut' \cup dropped' = 1 .. published'
      BY <1>0, <1>2, <2>2, <2>3 DEF BusInv, EventsAccounted
    <3>4. Len(waiting') + Cardinality(InHand') + Cardinality(given') + Cardinality(cut')
            + Cardinality(dropped') = published'
      <4> HIDE DEF n
      <4> QED BY <1>0, <1>2, <3>2
    <3>5. (Fallback => logged' = dropped') /\ degraded' \subseteq dropped' \cap Critical
      BY <1>2 DEF BusInv, EventsAccounted
    <3> QED BY <3>3, <3>4, <3>5 DEF EventsAccounted
  <2>5. InTurn'
    <3>1. \A i \in 1 .. Len(waiting') : i \in 1 .. Len(waiting) \/ i = Len(waiting) + 1
      BY <1>c, <2>1
    <3>2. \A e \in Handed : e \in 1 .. published
      BY <1>c DEF Handed
    <3>3. \A i \in 1 .. Len(waiting') : \A e \in Handed : e < waiting'[i]
      BY <1>c, <2>1, <3>1, <3>2 DEF BusInv, InTurn
    <3>4. \A i, j \in 1 .. Len(waiting') : i < j => waiting'[i] < waiting'[j]
      <4> SUFFICES ASSUME NEW i \in 1 .. Len(waiting'), NEW j \in 1 .. Len(waiting'), i < j
                   PROVE  waiting'[i] < waiting'[j]
        OBVIOUS
      <4>1. i \in 1 .. Len(waiting) /\ waiting'[i] = waiting[i] /\ waiting[i] \in 1 .. published
        BY <1>c, <2>1
      <4>2. CASE j \in 1 .. Len(waiting)
        BY <2>1, <4>1, <4>2 DEF BusInv, InTurn
      <4>3. CASE j = Len(waiting) + 1
        BY <1>c, <2>1, <4>1, <4>3
      <4> QED BY <3>1, <4>2, <4>3
    <3>5. InHand' \subseteq 1 .. published'
      BY <1>0, <1>c
    <3> QED BY <1>0, <3>3, <3>4, <3>5 DEF BusInv, InTurn
  <2> QED BY <1>1, <2>4, <2>5 DEF BusFlow
<1>3. CASE /\ dropped' = dropped \cup {n} /\ WriteFallbackLog(n) /\ UNCHANGED waiting
           /\ IF n \in Critical THEN LocalEmergencyDegrade(n) ELSE UNCHANGED degraded
  <2>1. Cardinality(dropped') = Cardinality(dropped) + 1
    <3>1. n \notin dropped
      BY <1>c
    <3> HIDE DEF n
    <3> QED BY <1>3, <1>c, <3>1, OneMore
  <2>2. 1 .. n = (1 .. published) \cup {n}
    BY <1>c
  <2>3. (Fallback => logged' = dropped') /\ degraded' \subseteq dropped' \cap Critical
    BY <1>3 DEF BusInv, EventsAccounted, WriteFallbackLog, LocalEmergencyDegrade
  <2>4. EventsAccounted'
    BY SMTT(30), <1>0, <1>3, <1>c, <2>1, <2>2, <2>3 DEF BusInv, EventsAccounted
  <2>5. InTurn'
    BY SMTT(30), <1>0, <1>3, <1>c DEF BusInv, InTurn
  <2> QED BY <1>1, <2>4, <2>5 DEF BusFlow
<1> QED BY <1>2, <1>3 DEF PublishEvent

LEMMA SubscribeFlow ==
  ASSUME BusInv, NEW h \in Handlers, Subscribe(h) PROVE BusFlow'
<1>0. /\ UNCHANGED <<published, waiting, dropped, logged, degraded, got, given, cut, loops>>
      /\ InHand' = InHand /\ Handed' = Handed
  BY DEF Subscribe, Kept, InHand, Handed
<1>1. EventsAccounted' /\ InPublishedOrder' /\ InTurn'
  BY <1>0 DEF BusInv, EventsAccounted, InPublishedOrder, InTurn
<1>2. /\ subscribers \in Seq(Handlers) /\ Len(subscribers) \in Nat
      /\ DOMAIN subscribers = 1 .. Len(subscribers)
      /\ Len(subscribers') = Len(subscribers) + 1 /\ subscribers'[Len(subscribers) + 1] = h
      /\ \A i \in 1 .. Len(subscribers) : subscribers'[i] = subscribers[i]
      /\ subscribers' \in Seq(Handlers)
  BY AppendProperties, LenProperties DEF Subscribe, BusInv, BusTypeOK
<1>3. \A i \in 1 .. Len(subscribers) : subscribers[i] # h
  BY <1>2 DEF Subscribe, ToSet
<1>4. got[h] = <<>> /\ Len(got[h]) = 0 /\ DOMAIN got[h] = {}
  BY <1>3 DEF BusInv, CallsInv
<1>5. \A i \in 1 .. Len(subscribers') : i \in 1 .. Len(subscribers) \/ i = Len(subscribers) + 1
  BY <1>2
<1>6. SubscribersAgree'
  <2> SUFFICES ASSUME NEW i \in 1 .. Len(subscribers'), NEW j \in 1 .. Len(subscribers'), NEW e \in given,
                      i < j, e \in ToSet(got[subscribers'[i]]),
                      NEW k \in DOMAIN got[subscribers'[j]], got[subscribers'[j]][k] < e
               PROVE  e \in ToSet(got[subscribers'[j]])
    <3>1. DOMAIN subscribers' = 1 .. Len(subscribers')
      BY <1>2, LenProperties
    <3> QED BY <1>0, <3>1 DEF SubscribersAgree
  <2>1. j \in 1 .. Len(subscribers)
    BY <1>2, <1>4, <1>5
  <2>2. i \in 1 .. Len(subscribers)
    BY <1>2, <1>5, <2>1
  <2> QED BY <1>2, <2>1, <2>2 DEF BusInv, SubscribersAgree
<1>7. CallsInv'
  <2>1. \A i, j \in 1 .. Len(subscribers') : subscribers'[i] = subscribers'[j] => i = j
    BY <1>2, <1>3, <1>5 DEF BusInv, CallsInv
  <2>2. \A g \in Handlers : (\A i \in 1 .. Len(subscribers') : subscribers'[i] # g) => got'[g] = <<>>
    <3>1. \A i \in 1 .. Len(subscribers) : i \in 1 .. Len(subscribers')
      BY <1>2
    <3> QED BY <1>0, <1>2, <3>1 DEF BusInv, CallsInv
  <2>3. \A g \in Handlers : \A i \in 1 .. Len(got'[g]) : got'[g][i] \in Handed'
    BY <1>0 DEF BusInv, CallsInv
  <2>4. ASSUME NEW l \in 1 .. Len(loops'), Busy(l)', NEW k \in 1 .. Len(subscribers')
        PROVE  IF k <= loops'[l].next
               THEN \E i \in 1 .. Len(got'[subscribers'[k]]) : got'[subscribers'[k]][i] = loops'[l].event
               ELSE \A i \in 1 .. Len(got'[subscribers'[k]]) : got'[subscribers'[k]][i] # loops'[l].event
    <3>1. Busy(l) /\ l \in 1 .. Len(loops) /\ loops' = loops
      BY <1>0, <2>4 DEF Busy
    <3>2. CASE k \in 1 .. Len(subscribers)
      <4>1. subscribers'[k] = subscribers[k] /\ got' = got /\ loops' = loops
        BY <1>0, <1>2, <3>2
      <4> QED BY <3>1, <3>2, <4>1 DEF BusInv, CallsInv
    <3>3. CASE k = Len(subscribers) + 1
      <4>1. ~(k <= loops[l].next)
        BY <1>2, <3>1, <3>3 DEF BusInv, BusLife
      <4> QED BY <1>0, <1>2, <1>4, <3>1, <3>3, <4>1
    <3> QED BY <1>5, <3>2, <3>3
  <2> QED BY <2>1, <2>2, <2>3, <2>4 DEF CallsInv
<1> QED BY <1>1, <1>6, <1>7 DEF BusFlow

\* An event that was taken, or is passed on, reaches the next handler of the list.
LEMMA CallReaches ==
  ASSUME BusInv, NEW e \in 1 .. MaxEvents, NEW n \in 1 .. Len(subscribers),
         \A h \in Handlers : \A i \in 1 .. Len(got[h]) : got[h][i] <= e,
         \A i \in 1 .. Len(got[subscribers[n]]) : got[subscribers[n]][i] # e,
         got' = [got EXCEPT ![subscribers[n]] = Append(@, e)]
  PROVE  /\ \A h \in Handlers : h # subscribers[n] => got'[h] = got[h]
         /\ subscribers[n] \in Handlers
         /\ Len(got'[subscribers[n]]) = Len(got[subscribers[n]]) + 1
         /\ got'[subscribers[n]][Len(got[subscribers[n]]) + 1] = e
         /\ \A i \in 1 .. Len(got[subscribers[n]]) : got'[subscribers[n]][i] = got[subscribers[n]][i]
         /\ InPublishedOrder'
<1> DEFINE h == subscribers[n]
<1>1. h \in Handlers
  BY ElementOfSeq DEF BusInv, BusTypeOK
<1>2. got[h] \in Seq(1 .. MaxEvents) /\ Len(got[h]) \in Nat /\ got'[h] = Append(got[h], e)
      /\ \A g \in Handlers : g # h => got'[g] = got[g]
  BY <1>1, LenProperties DEF BusInv, BusTypeOK
<1>3. /\ Len(got'[h]) = Len(got[h]) + 1 /\ got'[h][Len(got[h]) + 1] = e
      /\ \A i \in 1 .. Len(got[h]) : got'[h][i] = got[h][i]
      /\ got'[h] \in Seq(1 .. MaxEvents)
  <2> DEFINE s == got[h]
  <2>1. s \in Seq(1 .. MaxEvents)
    BY <1>2
  <2> HIDE DEF h, s
  <2>2. /\ Len(Append(s, e)) = Len(s) + 1 /\ Append(s, e)[Len(s) + 1] = e
        /\ \A i \in 1 .. Len(s) : Append(s, e)[i] = s[i]
        /\ Append(s, e) \in Seq(1 .. MaxEvents)
    BY <2>1, AppendProperties
  <2> QED BY <1>2, <2>2 DEF s
<1>4. InPublishedOrder'
  <2> SUFFICES ASSUME NEW g \in Handlers, NEW i \in DOMAIN got'[g], NEW j \in DOMAIN got'[g], i < j
               PROVE  got'[g][i] < got'[g][j]
    BY DEF InPublishedOrder
  <2>1. CASE g # h
    BY <1>2, <2>1 DEF BusInv, InPublishedOrder
  <2>2. CASE g = h
    <3>1. DOMAIN got'[h] = 1 .. Len(got[h]) + 1 /\ DOMAIN got[h] = 1 .. Len(got[h])
      BY <1>2, <1>3, LenProperties
    <3>2. i \in 1 .. Len(got[h])
      BY <1>2, <2>2, <3>1
    <3>3. got[h][i] \in 1 .. MaxEvents /\ got[h][i] < e
      <4>1. got[h][i] <= e /\ got[h][i] # e
        BY <1>1, <3>2
      <4>2. got[h][i] \in 1 .. MaxEvents
        BY <1>2, <3>2, ElementOfSeq
      <4> QED BY <4>1, <4>2, BusAssumption
    <3>4. CASE j \in 1 .. Len(got[h])
      BY <1>1, <1>3, <2>2, <3>1, <3>2, <3>4 DEF BusInv, InPublishedOrder
    <3>5. CASE j = Len(got[h]) + 1
      BY <1>3, <2>2, <3>2, <3>3, <3>5
    <3> QED BY <1>2, <2>2, <3>1, <3>4, <3>5
  <2> QED BY <2>1, <2>2
<1> QED BY <1>1, <1>2, <1>3, <1>4

\* A new call hides nothing of what went through the list before.
LEMMA AgreeAfterCall ==
  ASSUME BusInv, NEW e \in 1 .. MaxEvents, NEW n \in 1 .. Len(subscribers), \A f \in given : f < e,
         UNCHANGED <<subscribers, given>>,
         \A h \in Handlers : h # subscribers[n] => got'[h] = got[h],
         Len(got'[subscribers[n]]) = Len(got[subscribers[n]]) + 1,
         got'[subscribers[n]][Len(got[subscribers[n]]) + 1] = e,
         \A i \in 1 .. Len(got[subscribers[n]]) : got'[subscribers[n]][i] = got[subscribers[n]][i],
         BusTypeOK'
  PROVE  SubscribersAgree'
<1> SUFFICES ASSUME NEW i \in DOMAIN subscribers, NEW j \in DOMAIN subscribers, NEW f \in given, i < j,
                    f \in ToSet(got'[subscribers[i]]),
                    NEW k \in DOMAIN got'[subscribers[j]], got'[subscribers[j]][k] < f
             PROVE  f \in ToSet(got'[subscribers[j]])
  BY DEF SubscribersAgree
<1>1. DOMAIN subscribers = 1 .. Len(subscribers) /\ \A m \in DOMAIN subscribers : subscribers[m] \in Handlers
  BY LenProperties, ElementOfSeq DEF BusInv, BusTypeOK
<1>2. \A h \in Handlers : /\ DOMAIN got[h] = 1 .. Len(got[h]) /\ Len(got[h]) \in Nat
                          /\ DOMAIN got'[h] = 1 .. Len(got'[h])
  BY LenProperties DEF BusInv, BusTypeOK
<1>3. f < e /\ f \in Nat
  BY DEF BusInv, BusTypeOK
<1>4. \A h \in Handlers : \A m \in DOMAIN got'[h] : got'[h][m] = e \/ (m \in DOMAIN got[h] /\ got'[h][m] = got[h][m])
  <2> SUFFICES ASSUME NEW h \in Handlers, NEW m \in DOMAIN got'[h]
               PROVE  got'[h][m] = e \/ (m \in DOMAIN got[h] /\ got'[h][m] = got[h][m])
    OBVIOUS
  <2>1. CASE h # subscribers[n]
    BY <2>1
  <2>2. CASE h = subscribers[n]
    <3>1. m \in 1 .. Len(got[h]) \/ m = Len(got[h]) + 1
      BY SMTT(30), <1>2, <2>2
    <3> QED BY <1>2, <2>2, <3>1
  <2> QED BY <2>1, <2>2
<1>5. f \in ToSet(got[subscribers[i]])
  <2>1. PICK m \in DOMAIN got'[subscribers[i]] : got'[subscribers[i]][m] = f
    BY DEF ToSet
  <2>2. m \in DOMAIN got[subscribers[i]] /\ got[subscribers[i]][m] = f
    BY <1>1, <1>3, <1>4, <2>1
  <2> QED BY <2>2 DEF ToSet
<1>6. k \in DOMAIN got[subscribers[j]] /\ got[subscribers[j]][k] < f
  BY <1>1, <1>3, <1>4
<1>7. f \in ToSet(got[subscribers[j]])
  BY <1>5, <1>6 DEF BusInv, SubscribersAgree
<1>8. PICK m \in DOMAIN got[subscribers[j]] : got[subscribers[j]][m] = f
  BY <1>7 DEF ToSet
<1>9. m \in DOMAIN got'[subscribers[j]] /\ got'[subscribers[j]][m] = f
  <2>1. CASE subscribers[j] # subscribers[n]
    BY <1>1, <1>8, <2>1
  <2>2. CASE subscribers[j] = subscribers[n]
    <3>1. DOMAIN got'[subscribers[n]] = 1 .. Len(got[subscribers[n]]) + 1
      BY <1>1, <1>2
    <3>2. m \in 1 .. Len(got[subscribers[n]])
      BY <1>1, <1>2, <1>8, <2>2
    <3> QED BY <1>1, <1>2, <1>8, <2>2, <3>1, <3>2
  <2> QED BY <2>1, <2>2
<1> QED BY <1>9 DEF ToSet

\* The event in hand and the one at the head of the queue are past all that was handed.
LEMMA HeadIsNext ==
  ASSUME BusInv, waiting # <<>>
  PROVE  /\ Head(waiting) \in 1 .. published /\ Head(waiting) = waiting[1]
         /\ \A e \in Handed : e < Head(waiting) /\ e \in 1 .. published
         /\ Len(Tail(waiting)) = Len(waiting) - 1
         /\ \A i \in 1 .. Len(Tail(waiting)) : Tail(waiting)[i] = waiting[i + 1] /\ Head(waiting) < Tail(waiting)[i]
         /\ ToSet(waiting) = ToSet(Tail(waiting)) \cup {Head(waiting)}
         /\ Tail(waiting) \in Seq(1 .. MaxEvents)
         /\ \A h \in Handlers : \A i \in 1 .. Len(got[h]) : got[h][i] < Head(waiting)
<1>1. waiting \in Seq(1 .. MaxEvents)
  BY DEF BusInv, BusTypeOK
<1>2. /\ Len(Tail(waiting)) = Len(waiting) - 1 /\ Tail(waiting) \in Seq(1 .. MaxEvents)
      /\ \A i \in 1 .. Len(Tail(waiting)) : Tail(waiting)[i] = waiting[i + 1]
      /\ Head(waiting) = waiting[1]
  BY <1>1, HeadTailProperties
<1>3. Len(waiting) \in Nat /\ Len(waiting) > 0
  BY <1>1, LenProperties, EmptySeq
<1>4. /\ \A i \in 1 .. Len(waiting) : waiting[i] \in 1 .. published
      /\ ToSet(waiting) = {waiting[i] : i \in 1 .. Len(waiting)}
      /\ given \cup cut \cup InHand \subseteq 1 .. published
  BY Counts
<1>5. \A i \in 1 .. Len(Tail(waiting)) : Head(waiting) < Tail(waiting)[i]
  BY <1>2, <1>3 DEF BusInv, InTurn
<1>6. ToSet(waiting) = ToSet(Tail(waiting)) \cup {Head(waiting)}
  <2>1. DOMAIN Tail(waiting) = 1 .. Len(Tail(waiting))
    BY <1>2, LenProperties
  <2>2. ToSet(Tail(waiting)) = {Tail(waiting)[i] : i \in 1 .. Len(Tail(waiting))}
    BY <2>1 DEF ToSet
  <2>3. \A i \in 1 .. Len(waiting) : i = 1 \/ i - 1 \in 1 .. Len(Tail(waiting))
    BY <1>2, <1>3
  <2>4. \A i \in 1 .. Len(waiting) : i # 1 => Tail(waiting)[i - 1] = waiting[i]
    BY <1>2, <1>3
  <2>5. \A i \in 1 .. Len(Tail(waiting)) : i + 1 \in 1 .. Len(waiting)
    BY <1>2, <1>3
  <2>6. ToSet(Tail(waiting)) \cup {Head(waiting)} \subseteq ToSet(waiting)
    <3>1. 1 \in 1 .. Len(waiting)
      BY <1>3
    <3>2. \A i \in 1 .. Len(Tail(waiting)) : Tail(waiting)[i] \in ToSet(waiting)
      BY <1>2, <1>4, <2>5
    <3> QED BY <1>2, <1>4, <2>2, <3>1, <3>2
  <2>7. ASSUME NEW i \in 1 .. Len(waiting) PROVE waiting[i] \in ToSet(Tail(waiting)) \cup {Head(waiting)}
    <3>1. CASE i = 1
      BY <1>2, <3>1
    <3>2. CASE i # 1
      BY <2>2, <2>3, <2>4, <3>2
    <3> QED BY <3>1, <3>2
  <2> QED BY <1>4, <2>6, <2>7
<1>7. \A e \in Handed : e < Head(waiting) /\ e \in 1 .. published
  BY <1>2, <1>3, <1>4 DEF BusInv, InTurn, Handed
<1>8. \A h \in Handlers : \A i \in 1 .. Len(got[h]) : got[h][i] < Head(waiting)
  BY <1>7 DEF BusInv, CallsInv
<1> QED BY <1>2, <1>3, <1>4, <1>5, <1>6, <1>7, <1>8

LEMMA TakeFlow ==
  ASSUME BusInv, BusLife', BusTypeOK', NEW l \in DOMAIN loops, Take(l) PROVE BusFlow'
<1> DEFINE e == Head(waiting)
<1>0. l = Len(loops) /\ l \in 1 .. Len(loops) /\ loops[l].at = "waiting" /\ waiting # <<>>
      /\ Len(loops) \in Nat
  BY LenProperties DEF BusInv, BusLife, Take
<1>1. InHand = {} /\ Handed = given \cup cut
  <2>1. \A j \in 1 .. Len(loops) : ~Busy(j)
    BY <1>0 DEF BusInv, BusLife, Busy
  <2> QED BY <2>1, InHandIs DEF BusInv, BusLife, Handed
<1>2. /\ e \in 1 .. published /\ e = waiting[1]
      /\ \A f \in Handed : f < e /\ f \in 1 .. published
      /\ Len(Tail(waiting)) = Len(waiting) - 1
      /\ \A i \in 1 .. Len(Tail(waiting)) : Tail(waiting)[i] = waiting[i + 1] /\ e < Tail(waiting)[i]
      /\ ToSet(waiting) = ToSet(Tail(waiting)) \cup {e}
      /\ \A h \in Handlers : \A i \in 1 .. Len(got[h]) : got[h][i] < e
  BY <1>0, HeadIsNext
<1>c. /\ published \in Nat /\ Len(waiting) \in Nat
      /\ given \subseteq 1 .. published /\ cut \subseteq 1 .. published
      /\ Cardinality(InHand) \in Nat /\ Cardinality(given) \in Nat
      /\ Cardinality(cut) \in Nat /\ Cardinality(dropped) \in Nat
      /\ \A i \in 1 .. Len(waiting) : waiting[i] \in 1 .. published
  BY Counts
<1>3. /\ UNCHANGED <<published, dropped, logged, degraded, subscribers, cut>> /\ waiting' = Tail(waiting)
      /\ e \in 1 .. MaxEvents
  <2>1. 1 .. published \subseteq 1 .. MaxEvents
    BY BusAssumption DEF BusInv, BusTypeOK
  <2> QED BY <1>2, <2>1 DEF Take
<1>n. e \notin given /\ e \notin Handed
  BY <1>1, <1>2
<1>4. CASE subscribers = <<>>
  <2>1. given' = given \cup {e} /\ got' = got /\ loops' = [loops EXCEPT ![l] = Rest]
    BY <1>4 DEF Take
  <2>2. Rest \in LoopRec /\ Rest.at \notin {"handler", "deaf"}
    BY BusAssumption DEF Rest, Waiting, Ended, LoopRec
  <2>3. InHand' = {}
    BY <1>0, <2>1, <2>2, HandMoves
  <2>4. Handed' = Handed \cup {e}
    BY <1>1, <1>3, <2>1, <2>3 DEF Handed
  <2>5. Cardinality(given') = Cardinality(given) + 1
    <3> HIDE DEF e
    <3> QED BY <1>c, <1>n, <2>1, OneMore
  <2>6. EventsAccounted'
    <3>1. ToSet(waiting') \cup InHand' \cup given' \cup cut' \cup dropped' = 1 .. published'
      <4> HIDE DEF e
      <4> QED BY <1>1, <1>2, <1>3, <2>1, <2>3 DEF BusInv, EventsAccounted
    <3>2. Len(waiting') + Cardinality(InHand') + Cardinality(given') + Cardinality(cut')
            + Cardinality(dropped') = published'
      <4>1. Len(waiting) + Cardinality(InHand) + Cardinality(given) + Cardinality(cut)
              + Cardinality(dropped) = published
        BY DEF BusInv, EventsAccounted
      <4>2. Cardinality(InHand') = Cardinality(InHand)
        BY <1>1, <2>3
      <4>3. Len(waiting') = Len(waiting) - 1
        BY <1>2, <1>3
      <4>4. UNCHANGED <<cut, dropped, published>>
        BY <1>3
      <4> QED BY <1>c, <2>5, <4>1, <4>2, <4>3, <4>4
    <3> QED BY <1>3, <3>1, <3>2 DEF BusInv, EventsAccounted
  <2>7. InTurn'
    <3>1. \A i \in 1 .. Len(waiting') : i + 1 \in 1 .. Len(waiting) /\ waiting'[i] = waiting[i + 1]
      BY <1>2, <1>3, <1>c
    <3>2. \A i \in 1 .. Len(waiting') : \A f \in Handed' : f < waiting'[i]
      BY <1>2, <1>3, <2>4, <3>1 DEF BusInv, InTurn
    <3>3. \A i, j \in 1 .. Len(waiting') : i < j => waiting'[i] < waiting'[j]
      BY <1>c, <3>1 DEF BusInv, InTurn
    <3> QED BY <2>3, <3>2, <3>3 DEF InTurn
  <2>8. DOMAIN subscribers = {} /\ Len(subscribers) = 0
    BY <1>4
  <2>9. InPublishedOrder' /\ SubscribersAgree'
    BY <1>3, <2>1, <2>8 DEF BusInv, InPublishedOrder, SubscribersAgree
  <2>10. CallsInv'
    BY <1>3, <2>1, <2>4, <2>8 DEF BusInv, CallsInv
  <2> QED BY <2>6, <2>7, <2>9, <2>10 DEF BusFlow
<1>5. CASE subscribers # <<>>
  <2> DEFINE x == [at |-> IF running THEN "handler" ELSE "deaf", event |-> e, next |-> 1]
             h == subscribers[1]
  <2>1. given' = given /\ got' = [got EXCEPT ![h] = Append(@, e)] /\ loops' = [loops EXCEPT ![l] = x]
    BY <1>5 DEF Take, Call
  <2>2. x \in LoopRec /\ x.at \in {"handler", "deaf"} /\ x.event = e /\ x.next = 1
    BY <1>3, BusAssumption DEF LoopRec
  <2>3. InHand' = {e}
    <3> HIDE DEF x
    <3> QED BY <1>0, <2>1, <2>2, HandMoves
  <2>4. Handed' = Handed \cup {e}
    BY <1>1, <1>3, <2>1, <2>3 DEF Handed
  <2>5. 1 \in 1 .. Len(subscribers) /\ Len(subscribers) \in Nat
    BY <1>5, EmptySeq, LenProperties DEF BusInv, BusTypeOK
  <2>6. EventsAccounted'
    <3>1. ToSet(waiting') \cup InHand' \cup given' \cup cut' \cup dropped' = 1 .. published'
      <4> HIDE DEF e
      <4> QED BY <1>1, <1>2, <1>3, <2>1, <2>3 DEF BusInv, EventsAccounted
    <3>2. Len(waiting') + Cardinality(InHand') + Cardinality(given') + Cardinality(cut')
            + Cardinality(dropped') = published'
      <4>1. Len(waiting) + Cardinality(InHand) + Cardinality(given) + Cardinality(cut)
              + Cardinality(dropped) = published
        BY DEF BusInv, EventsAccounted
      <4>2. Cardinality(InHand') = 1 /\ Cardinality(InHand) = 0
        <5> HIDE DEF e
        <5> QED BY <1>1, <2>3, FS_EmptySet, FS_Singleton
      <4>3. Len(waiting') = Len(waiting) - 1
        BY <1>2, <1>3
      <4>4. UNCHANGED <<cut, dropped, published, given>>
        BY <1>3, <2>1
      <4> QED BY <1>c, <4>1, <4>2, <4>3, <4>4
    <3> QED BY <1>3, <3>1, <3>2 DEF BusInv, EventsAccounted
  <2>7. InTurn'
    <3>1. \A i \in 1 .. Len(waiting') : i + 1 \in 1 .. Len(waiting) /\ waiting'[i] = waiting[i + 1]
      BY <1>2, <1>3, <1>c
    <3>2. \A i \in 1 .. Len(waiting') : \A f \in Handed' : f < waiting'[i]
      BY <1>2, <1>3, <2>4, <3>1 DEF BusInv, InTurn
    <3>3. \A i, j \in 1 .. Len(waiting') : i < j => waiting'[i] < waiting'[j]
      BY <1>c, <3>1 DEF BusInv, InTurn
    <3>4. \A f \in given' \cup cut' : f < e
      BY <1>1, <1>2, <1>3, <2>1
    <3>5. e \in 1 .. published'
      BY <1>2, <1>3
    <3> HIDE DEF e
    <3> QED BY <2>3, <3>2, <3>3, <3>4, <3>5 DEF InTurn
  <2>8. /\ \A g \in Handlers : \A i \in 1 .. Len(got[g]) : got[g][i] <= e
        /\ \A i \in 1 .. Len(got[h]) : got[h][i] # e /\ h \in Handlers
    <3>1. h \in Handlers
      BY <2>5, ElementOfSeq DEF BusInv, BusTypeOK
    <3>2. \A g \in Handlers : \A i \in 1 .. Len(got[g]) : got[g][i] \in Nat
      <4>1. \A g \in Handlers : \A i \in 1 .. Len(got[g]) : got[g][i] \in 1 .. MaxEvents
        BY ElementOfSeq DEF BusInv, BusTypeOK
      <4> QED BY <4>1
    <3> HIDE DEF e
    <3> QED BY <1>2, <1>3, <3>1, <3>2
  <2>9. /\ \A g \in Handlers : g # h => got'[g] = got[g]
        /\ h \in Handlers
        /\ Len(got'[h]) = Len(got[h]) + 1 /\ got'[h][Len(got[h]) + 1] = e
        /\ \A i \in 1 .. Len(got[h]) : got'[h][i] = got[h][i]
        /\ InPublishedOrder'
    <3> HIDE DEF e
    <3> QED BY ZenonT(30), <1>3, <2>1, <2>5, <2>8, CallReaches
  <2>10. SubscribersAgree'
    <3>1. \A f \in given : f < e
      BY <1>1, <1>2
    <3> HIDE DEF e
    <3> QED BY <1>3, <2>1, <2>5, <2>9, <3>1, AgreeAfterCall
  <2>11. CallsInv'
    <3>0. Len(got[h]) \in Nat
      BY <2>9, LenProperties DEF BusInv, BusTypeOK
    <3>1. \A i, j \in 1 .. Len(subscribers') : subscribers'[i] = subscribers'[j] => i = j
      BY <1>3 DEF BusInv, CallsInv
    <3>2. \A g \in Handlers : (\A i \in 1 .. Len(subscribers') : subscribers'[i] # g) => got'[g] = <<>>
      BY <1>3, <2>5, <2>9 DEF BusInv, CallsInv
    <3>3. ASSUME NEW g \in Handlers, NEW i \in 1 .. Len(got'[g]) PROVE got'[g][i] \in Handed'
      <4>1. CASE g # h
        BY <2>4, <2>9, <4>1 DEF BusInv, CallsInv
      <4>2. CASE g = h
        <5>1. i \in 1 .. Len(got[h]) \/ i = Len(got[h]) + 1
          BY <2>9, <3>0, <4>2
        <5> QED BY <2>4, <2>9, <4>2, <5>1 DEF BusInv, CallsInv
      <4> QED BY <4>1, <4>2
    <3>4. ASSUME NEW m \in 1 .. Len(loops'), Busy(m)', NEW k \in 1 .. Len(subscribers')
          PROVE  IF k <= loops'[m].next
                 THEN \E i \in 1 .. Len(got'[subscribers'[k]]) : got'[subscribers'[k]][i] = loops'[m].event
                 ELSE \A i \in 1 .. Len(got'[subscribers'[k]]) : got'[subscribers'[k]][i] # loops'[m].event
      <4>1. Len(loops') = Len(loops) /\ m = Len(loops)
        <5>1. Len(loops') = Len(loops)
          <6> HIDE DEF x
          <6> QED BY <1>0, <2>1, <2>2, ExceptSeq DEF BusInv, BusLife
        <5> QED BY <3>4, <5>1 DEF BusLife, Busy
      <4>2. loops'[m] = x
        BY <1>0, <2>1, <4>1 DEF BusInv, BusLife
      <4>3. loops'[m].event = e /\ loops'[m].next = 1
        BY <4>2
      <4>4. CASE k = 1
        <5>1. Len(got[h]) + 1 \in 1 .. Len(got'[h])
          BY <2>9, <3>0
        <5> QED BY SMTT(30), <1>3, <2>9, <4>3, <4>4, <5>1
      <4>5. CASE k # 1
        <5>1. subscribers[k] # h /\ subscribers[k] \in Handlers /\ ~(k <= 1)
          BY <1>3, <2>5, <4>5, ElementOfSeq DEF BusInv, BusTypeOK, CallsInv
        <5>2. \A i \in 1 .. Len(got[subscribers[k]]) : got[subscribers[k]][i] # e
          BY <1>2, <1>n, <5>1 DEF BusInv, CallsInv
        <5>3. got'[subscribers[k]] = got[subscribers[k]]
          BY <2>9, <5>1
        <5> QED BY <1>3, <4>3, <5>1, <5>2, <5>3
      <4> QED BY <4>4, <4>5
    <3> QED BY <3>1, <3>2, <3>3, <3>4 DEF CallsInv
  <2> QED BY <2>6, <2>7, <2>9, <2>10, <2>11 DEF BusFlow
<1> QED BY <1>4, <1>5

\* What a loop in a handler knows of its event.
LEMMA EventInHand ==
  ASSUME BusInv, NEW l \in DOMAIN loops, Busy(l)
  PROVE  /\ l = Len(loops) /\ l \in 1 .. Len(loops) /\ InHand = {loops[l].event}
         /\ loops[l] \in LoopRec /\ loops[l].next \in 1 .. Len(subscribers)
         /\ loops[l].event \in 1 .. published /\ loops[l].event \in 1 .. MaxEvents
         /\ \A f \in given \cup cut : f < loops[l].event
         /\ \A i \in 1 .. Len(waiting) : loops[l].event < waiting[i]
         /\ Handed = given \cup cut \cup {loops[l].event}
         /\ \A h \in Handlers : \A i \in 1 .. Len(got[h]) : got[h][i] <= loops[l].event
<1>1. l \in 1 .. Len(loops) /\ loops[l] \in LoopRec
  BY LenProperties DEF BusInv, BusLife
<1>2. l = Len(loops) /\ InHand = {loops[l].event}
  BY <1>1, InHandIs DEF BusInv, BusLife
<1>3. loops[l].next \in 1 .. Len(subscribers)
  BY <1>1 DEF BusInv, BusLife
<1>4. loops[l].event \in 1 .. published
  BY <1>2 DEF BusInv, InTurn
<1>5. 1 .. published \subseteq 1 .. MaxEvents
  BY BusAssumption DEF BusInv, BusTypeOK
<1>6. \A f \in given \cup cut : f < loops[l].event
  BY <1>2 DEF BusInv, InTurn
<1>7. Handed = given \cup cut \cup {loops[l].event}
  BY <1>2 DEF Handed
<1>8. \A i \in 1 .. Len(waiting) : loops[l].event < waiting[i]
  BY <1>7 DEF BusInv, InTurn
<1>9. \A h \in Handlers : \A i \in 1 .. Len(got[h]) : got[h][i] <= loops[l].event
  <2>1. \A f \in Handed : f <= loops[l].event
    <3>1. \A f \in given \cup cut : f \in Nat
      BY BusAssumption DEF BusInv, BusTypeOK
    <3> QED BY <1>4, <1>6, <1>7, <3>1
  <2> QED BY <2>1 DEF BusInv, CallsInv
<1> QED BY <1>1, <1>2, <1>3, <1>4, <1>5, <1>6, <1>7, <1>8, <1>9

LEMMA NextHandlerFlow ==
  ASSUME BusInv, BusLife', BusTypeOK', NEW l \in DOMAIN loops, HandlerReturns(l),
         loops[l].next < Len(subscribers)
  PROVE  BusFlow'
<1> DEFINE e == loops[l].event
           n == loops[l].next
           h == subscribers[n + 1]
           x == [loops[l] EXCEPT !.next = n + 1]
<1>0. Busy(l)
  BY DEF HandlerReturns, Busy
<1>1. /\ l = Len(loops) /\ l \in 1 .. Len(loops) /\ InHand = {e}
      /\ loops[l] \in LoopRec /\ n \in 1 .. Len(subscribers)
      /\ e \in 1 .. published /\ e \in 1 .. MaxEvents
      /\ \A f \in given \cup cut : f < e
      /\ Handed = given \cup cut \cup {e}
      /\ \A g \in Handlers : \A i \in 1 .. Len(got[g]) : got[g][i] <= e
  BY <1>0, EventInHand
<1>2. /\ UNCHANGED <<Kept, callback, subscribers, cut, given>>
      /\ got' = [got EXCEPT ![h] = Append(@, e)] /\ loops' = [loops EXCEPT ![l] = x]
  BY DEF HandlerReturns, Call
<1>3. x \in LoopRec /\ x.at \in {"handler", "deaf"} /\ x.event = e /\ x.next = n + 1
  BY <1>0, <1>1 DEF LoopRec, Busy
<1>4. n + 1 \in 1 .. Len(subscribers) /\ Len(subscribers) \in Nat
  <2>1. Len(subscribers) \in Nat
    BY LenProperties DEF BusInv, BusTypeOK
  <2> HIDE DEF e, h, x
  <2> QED BY <1>1, <2>1
<1>5. InHand' = {e} /\ Handed' = Handed
  <2>1. InHand' = {e}
    <3> HIDE DEF x
    <3> QED BY <1>1, <1>2, <1>3, HandMoves
  <2> QED BY <1>1, <1>2, <2>1 DEF Handed
<1>6. h \in Handlers /\ \A i \in 1 .. Len(got[h]) : got[h][i] # e
  <2>1. h \in Handlers
    BY <1>4, ElementOfSeq DEF BusInv, BusTypeOK
  <2>2. ~(n + 1 <= n)
    BY <1>1
  <2> QED BY <1>0, <1>1, <1>4, <2>1, <2>2 DEF BusInv, CallsInv
<1>7. /\ \A g \in Handlers : g # h => got'[g] = got[g]
      /\ Len(got'[h]) = Len(got[h]) + 1 /\ got'[h][Len(got[h]) + 1] = e
      /\ \A i \in 1 .. Len(got[h]) : got'[h][i] = got[h][i]
      /\ InPublishedOrder'
  <2>1. PICK k \in 1 .. Len(subscribers) : k = n + 1 /\ h = subscribers[k]
    BY <1>4
  <2>2. \A i \in 1 .. Len(got[subscribers[k]]) : got[subscribers[k]][i] # e
    BY <1>6, <2>1
  <2>3. got' = [got EXCEPT ![subscribers[k]] = Append(@, e)]
    BY <1>2, <2>1
  <2>4. e \in 1 .. MaxEvents /\ \A g \in Handlers : \A i \in 1 .. Len(got[g]) : got[g][i] <= e
    BY <1>1
  <2> HIDE DEF e, n, h
  <2>5. /\ \A g \in Handlers : g # subscribers[k] => got'[g] = got[g]
        /\ Len(got'[subscribers[k]]) = Len(got[subscribers[k]]) + 1
        /\ got'[subscribers[k]][Len(got[subscribers[k]]) + 1] = e
        /\ \A i \in 1 .. Len(got[subscribers[k]]) : got'[subscribers[k]][i] = got[subscribers[k]][i]
        /\ InPublishedOrder'
    BY <2>2, <2>3, <2>4, CallReaches
  <2> QED BY <2>1, <2>5
<1>8. SubscribersAgree'
  <2> DEFINE k == n + 1
  <2>1. k \in 1 .. Len(subscribers) /\ h = subscribers[k] /\ \A f \in given : f < e
    BY <1>1, <1>4
  <2> HIDE DEF e, n, k, h
  <2> QED BY SMTT(30), <1>1, <1>2, <1>7, <2>1, AgreeAfterCall
<1>9. EventsAccounted' /\ InTurn'
  <2>1. InHand' = InHand /\ UNCHANGED <<published, waiting, dropped, logged, degraded, given, cut>>
    BY <1>1, <1>2, <1>5 DEF Kept
  <2> HIDE DEF e, n, h, x
  <2> QED BY <1>5, <2>1 DEF BusInv, EventsAccounted, InTurn
<1>10. CallsInv'
  <2>0. Len(got[h]) \in Nat
    BY <1>6, LenProperties DEF BusInv, BusTypeOK
  <2>1. \A i, j \in 1 .. Len(subscribers') : subscribers'[i] = subscribers'[j] => i = j
    BY <1>2 DEF BusInv, CallsInv
  <2>2. \A g \in Handlers : (\A i \in 1 .. Len(subscribers') : subscribers'[i] # g) => got'[g] = <<>>
    BY <1>2, <1>4, <1>7 DEF BusInv, CallsInv
  <2>3. ASSUME NEW g \in Handlers, NEW i \in 1 .. Len(got'[g]) PROVE got'[g][i] \in Handed'
    <3>1. CASE g # h
      BY <1>5, <1>7, <3>1 DEF BusInv, CallsInv
    <3>2. CASE g = h
      <4>1. i \in 1 .. Len(got[h]) \/ i = Len(got[h]) + 1
        BY <1>7, <2>0, <3>2
      <4>2. e \in Handed'
        BY <1>1, <1>5
      <4> QED BY <1>5, <1>6, <1>7, <3>2, <4>1, <4>2 DEF BusInv, CallsInv
    <3> QED BY <3>1, <3>2
  <2>4. ASSUME NEW m \in 1 .. Len(loops'), Busy(m)', NEW k \in 1 .. Len(subscribers')
        PROVE  IF k <= loops'[m].next
               THEN \E i \in 1 .. Len(got'[subscribers'[k]]) : got'[subscribers'[k]][i] = loops'[m].event
               ELSE \A i \in 1 .. Len(got'[subscribers'[k]]) : got'[subscribers'[k]][i] # loops'[m].event
    <3>1. Len(loops') = Len(loops) /\ m = Len(loops)
      <4>1. Len(loops') = Len(loops)
        <5> HIDE DEF x
        <5> QED BY <1>1, <1>2, <1>3, ExceptSeq DEF BusInv, BusLife
      <4> QED BY <2>4, <4>1 DEF BusLife, Busy
    <3>2. loops'[m] = x
      BY <1>1, <1>2, <3>1 DEF BusInv, BusLife
    <3>3. loops'[m].event = e /\ loops'[m].next = n + 1
      BY <1>3, <3>2
    <3>4. CASE k = n + 1
      <4>1. Len(got[h]) + 1 \in 1 .. Len(got'[h])
        BY <1>7, <2>0
      <4>2. k <= loops'[m].next
        BY <1>1, <3>3, <3>4
      <4> QED BY <1>2, <1>7, <3>3, <3>4, <4>1, <4>2
    <3>5. CASE k # n + 1
      <4>1. subscribers[k] # h /\ subscribers[k] \in Handlers /\ k \in 1 .. Len(subscribers)
        BY <1>2, <1>4, <3>5, ElementOfSeq DEF BusInv, BusTypeOK, CallsInv
      <4>2. got'[subscribers[k]] = got[subscribers[k]] /\ subscribers' = subscribers
        BY <1>2, <1>7, <4>1
      <4>3. k <= loops'[m].next <=> k <= n
        BY <1>1, <3>3, <3>5, <4>1
      <4>4. IF k <= n
            THEN \E i \in 1 .. Len(got[subscribers[k]]) : got[subscribers[k]][i] = e
            ELSE \A i \in 1 .. Len(got[subscribers[k]]) : got[subscribers[k]][i] # e
        BY <1>0, <1>1, <4>1 DEF BusInv, CallsInv
      <4> HIDE DEF e, n, h, x
      <4> QED BY <3>3, <4>2, <4>3, <4>4
    <3> QED BY <3>4, <3>5
  <2> QED BY <2>1, <2>2, <2>3, <2>4 DEF CallsInv
<1> QED BY <1>7, <1>8, <1>9, <1>10 DEF BusFlow

\* An event leaves its handler, having gone through the list or cut off.
LEMMA LeaveFlow ==
  ASSUME BusInv, BusLife', NEW l \in DOMAIN loops, Busy(l), NEW x \in LoopRec,
         x.at \notin {"handler", "deaf"}, loops' = [loops EXCEPT ![l] = x],
         UNCHANGED <<Kept, subscribers, got>>,
         \/ given' = given \cup {loops[l].event} /\ UNCHANGED cut /\ loops[l].next = Len(subscribers)
         \/ cut' = cut \cup {loops[l].event} /\ UNCHANGED given
  PROVE  BusFlow'
<1> DEFINE e == loops[l].event
<1>1. /\ l = Len(loops) /\ l \in 1 .. Len(loops) /\ InHand = {e}
      /\ loops[l].next \in 1 .. Len(subscribers)
      /\ e \in 1 .. published /\ e \in 1 .. MaxEvents
      /\ \A f \in given \cup cut : f < e
      /\ \A i \in 1 .. Len(waiting) : e < waiting[i]
      /\ Handed = given \cup cut \cup {e}
  BY EventInHand
<1>2. InHand' = {}
  BY <1>1, HandMoves
<1>3. Handed' = Handed
  BY <1>1, <1>2 DEF Handed
<1>c. /\ published \in Nat /\ Len(waiting) \in Nat
      /\ given \subseteq 1 .. published /\ cut \subseteq 1 .. published
      /\ Cardinality(given) \in Nat
      /\ Cardinality(cut) \in Nat /\ Cardinality(dropped) \in Nat
  BY Counts
<1>4. e \notin given /\ e \notin cut
  BY <1>1
<1>5. EventsAccounted'
  <2>1. Len(waiting) + Cardinality(InHand) + Cardinality(given) + Cardinality(cut)
          + Cardinality(dropped) = published
    BY DEF BusInv, EventsAccounted
  <2>2. Cardinality(InHand) = 1 /\ Cardinality(InHand') = 0
    <3> HIDE DEF e
    <3> QED BY <1>1, <1>2, FS_EmptySet, FS_Singleton
  <2>3. Cardinality(given') + Cardinality(cut') = Cardinality(given) + Cardinality(cut) + 1
    <3>1. Cardinality(given \cup {e}) = Cardinality(given) + 1 /\ Cardinality(cut \cup {e}) = Cardinality(cut) + 1
      <4> HIDE DEF e
      <4> QED BY <1>c, <1>4, OneMore
    <3>2. CASE given' = given \cup {e} /\ UNCHANGED cut
      BY <1>c, <3>1, <3>2
    <3>3. CASE cut' = cut \cup {e} /\ UNCHANGED given
      BY <1>c, <3>1, <3>3
    <3> QED BY <3>2, <3>3
  <2>4. Cardinality(given') \in Nat /\ Cardinality(cut') \in Nat
    <3>1. Cardinality(given \cup {e}) \in Nat /\ Cardinality(cut \cup {e}) \in Nat
      <4> HIDE DEF e
      <4> QED BY <1>c, <1>4, OneMore
    <3> QED BY <1>c, <3>1
  <2>5. Len(waiting') + Cardinality(InHand') + Cardinality(given') + Cardinality(cut')
          + Cardinality(dropped') = published'
    <3>1. /\ Len(waiting') = Len(waiting) /\ Cardinality(dropped') = Cardinality(dropped)
          /\ published' = published
      BY DEF Kept
    <3>2. Cardinality(given) \in Nat /\ Cardinality(cut) \in Nat /\ Cardinality(dropped) \in Nat
          /\ published \in Nat /\ Len(waiting) \in Nat
      BY <1>c
    <3>3. Len(waiting) + Cardinality(given) + Cardinality(cut) + Cardinality(dropped) + 1 = published
      BY <2>1, <2>2, <3>2
    <3>4. Len(waiting) + (Cardinality(given') + Cardinality(cut')) + Cardinality(dropped) = published
      BY <2>3, <3>2, <3>3
    <3> QED BY <2>2, <2>4, <3>1, <3>2, <3>4
  <2>6. ToSet(waiting') \cup InHand' \cup given' \cup cut' \cup dropped' = 1 .. published'
    BY <1>1, <1>2 DEF BusInv, EventsAccounted, Kept
  <2> QED BY <2>5, <2>6 DEF BusInv, EventsAccounted, Kept
<1>6. InPublishedOrder'
  BY DEF BusInv, InPublishedOrder
<1>7. SubscribersAgree'
  <2>1. ASSUME given' = given \cup {e}, loops[l].next = Len(subscribers),
               NEW j \in DOMAIN subscribers
        PROVE  e \in ToSet(got[subscribers[j]])
    <3>1. j \in 1 .. Len(subscribers) /\ subscribers[j] \in Handlers /\ Len(subscribers) \in Nat
      BY LenProperties, ElementOfSeq DEF BusInv, BusTypeOK
    <3>2. j <= loops[l].next
      BY <2>1, <3>1
    <3>3. PICK i \in 1 .. Len(got[subscribers[j]]) : got[subscribers[j]][i] = e
      BY <1>1, <3>1, <3>2 DEF BusInv, CallsInv
    <3>4. i \in DOMAIN got[subscribers[j]]
      BY <3>1, LenProperties DEF BusInv, BusTypeOK
    <3> QED BY <3>3, <3>4 DEF ToSet
  <2> QED BY <2>1 DEF BusInv, SubscribersAgree
<1>8. InTurn'
  BY <1>2, <1>3 DEF BusInv, InTurn, Kept
<1>9. CallsInv'
  <2>1. \A m \in 1 .. Len(loops') : ~Busy(m)'
    <3>1. Len(loops') = Len(loops) /\ loops'[l] = x
      BY <1>1, ExceptSeq DEF BusInv, BusLife
    <3> QED BY <1>1, <3>1 DEF BusLife, Busy
  <2> QED BY <1>3, <2>1 DEF BusInv, CallsInv
<1> QED BY <1>5, <1>6, <1>7, <1>8, <1>9 DEF BusFlow

LEMMA BusFlowKept ==
  ASSUME BusInv, [BusNext]_busvars, BusLife', BusTypeOK' PROVE BusFlow'
<1>0. DOMAIN loops = 1 .. Len(loops) /\ Len(loops) \in Nat /\ loops \in Seq(LoopRec)
  BY LenProperties DEF BusInv, BusLife
<1>1. CASE UNCHANGED loops /\ UNCHANGED <<Kept, subscribers, got, given, cut>>
  <2>1. InHand' = InHand
    BY <1>1 DEF InHand
  <2> QED BY <1>1, <2>1, FlowUntouched DEF Kept, Busy
<1>2. CASE UNCHANGED busvars \/ SetCallback \/ StopBus \/ StopReturns
  BY <1>1, <1>2 DEF busvars, SetCallback, StopBus, StopReturns, Kept, Lists
<1>3. CASE PublishEvent
  BY <1>3, PublishFlow
<1>4. ASSUME NEW h \in Handlers, Subscribe(h) PROVE BusFlow'
  BY <1>4, SubscribeFlow
<1>5. ASSUME NEW l \in DOMAIN loops, TimesOut(l) PROVE BusFlow'
  <2>1. l = Len(loops) /\ l \in 1 .. Len(loops)
    BY <1>0, <1>5 DEF TimesOut, BusInv, BusLife
  <2>2. Ended \in LoopRec /\ Ended.at = "ended"
    BY BusAssumption DEF Ended, LoopRec
  <2>3. /\ loops' = [loops EXCEPT ![l] = Ended] /\ UNCHANGED <<Kept, subscribers, got, given, cut>>
        /\ ~Busy(l)
    BY <1>5 DEF TimesOut, Lists, Busy
  <2>4. InHand' = {} /\ InHand = {}
    <3>1. \A j \in 1 .. Len(loops) : ~Busy(j)
      BY <2>1, <2>3 DEF BusInv, BusLife, Busy
    <3> QED BY <2>1, <2>2, <2>3, <3>1, HandMoves, InHandIs DEF BusInv, BusLife
  <2>5. \A m \in 1 .. Len(loops') : ~Busy(m)'
    <3>1. Len(loops') = Len(loops) /\ loops'[l] = Ended
      BY <1>0, <2>1, <2>2, <2>3, ExceptSeq
    <3> QED BY <2>1, <2>2, <3>1 DEF BusLife, Busy
  <2> QED BY <2>3, <2>4, <2>5, FlowUntouched DEF Kept
<1>6. ASSUME NEW l \in DOMAIN loops, Dispatching(l) PROVE BusFlow'
  <2>1. CASE Take(l)
    BY <2>1, TakeFlow
  <2>2. CASE HandlerReturns(l) /\ loops[l].next < Len(subscribers)
    BY <2>2, NextHandlerFlow
  <2>3. CASE HandlerReturns(l) /\ ~(loops[l].next < Len(subscribers))
    <3>1. Busy(l) /\ Rest \in LoopRec /\ Rest.at \notin {"handler", "deaf"}
      BY <2>3, BusAssumption DEF HandlerReturns, Busy, Rest, Waiting, Ended, LoopRec
    <3>2. loops[l].next = Len(subscribers)
      <4>1. loops[l].next \in 1 .. Len(subscribers)
        BY <3>1, EventInHand
      <4> QED BY <2>3, <4>1
    <3>3. /\ loops' = [loops EXCEPT ![l] = Rest] /\ given' = given \cup {loops[l].event}
          /\ UNCHANGED <<Kept, subscribers, got, cut>>
      BY <2>3 DEF HandlerReturns
    <3> QED BY <3>1, <3>2, <3>3, LeaveFlow
  <2> QED BY <1>5, <1>6, <2>1, <2>2, <2>3 DEF Dispatching
<1>7. CASE StartBus
  <2>1. Waiting \in LoopRec /\ Waiting.at = "waiting"
    BY BusAssumption DEF Waiting, LoopRec
  <2>2. /\ Len(loops') = Len(loops) + 1 /\ loops'[Len(loops) + 1] = Waiting
        /\ \A j \in 1 .. Len(loops) : loops'[j] = loops[j]
    BY <1>0, <1>7, <2>1, AppendProperties DEF StartBus
  <2>3. /\ UNCHANGED <<Kept, subscribers, got, given, cut>>
        /\ \A j \in 1 .. Len(loops) : loops[j].at = "ended"
    BY <1>7 DEF StartBus, Lists, BusInv, BusLife
  <2>4. \A m \in 1 .. Len(loops') : loops'[m].at \notin {"handler", "deaf"}
    <3>1. \A m \in 1 .. Len(loops') : m \in 1 .. Len(loops) \/ m = Len(loops) + 1
      BY <1>0, <2>2
    <3> QED BY <2>1, <2>2, <2>3, <3>1
  <2>5. InHand = {} /\ InHand' = {}
    <3>1. DOMAIN loops' = 1 .. Len(loops')
      BY LenProperties DEF BusLife
    <3> QED BY <1>0, <2>3, <2>4, <3>1 DEF InHand
  <2> QED BY <2>3, <2>4, <2>5, FlowUntouched DEF Kept, Busy
<1>8. CASE CancelReaches
  <2> DEFINE l == stopping
  <2>1. l \in DOMAIN loops /\ l = Len(loops) /\ l \in 1 .. Len(loops)
    BY <1>0, <1>8 DEF CancelReaches, BusInv, BusLife, BusTypeOK
  <2>2. Ended \in LoopRec /\ Ended.at = "ended"
    BY BusAssumption DEF Ended, LoopRec
  <2>3. loops' = [loops EXCEPT ![l] = Ended] /\ UNCHANGED <<Kept, subscribers, got, given>>
    BY <1>8 DEF CancelReaches
  <2>4. CASE loops[l].at = "handler"
    <3>1. Busy(l) /\ cut' = cut \cup {loops[l].event} /\ Ended.at \notin {"handler", "deaf"}
      BY <1>8, <2>2, <2>4 DEF CancelReaches, Busy
    <3> HIDE DEF l
    <3> QED BY <2>1, <2>2, <2>3, <3>1, LeaveFlow
  <2>5. CASE loops[l].at = "waiting"
    <3>1. ~Busy(l) /\ UNCHANGED cut
      BY <1>8, <2>5 DEF CancelReaches, Busy
    <3>2. \A j \in 1 .. Len(loops) : ~Busy(j)
      BY <2>1, <3>1 DEF BusInv, BusLife, Busy
    <3>3. InHand = {}
      BY <3>2, InHandIs DEF BusInv, BusLife
    <3>4. InHand' = {}
      <4> HIDE DEF l
      <4> QED BY <2>1, <2>2, <2>3, HandMoves
    <3>5. \A m \in 1 .. Len(loops') : ~Busy(m)'
      <4>1. Len(loops') = Len(loops) /\ loops'[l] = Ended
        BY <1>0, <2>1, <2>2, <2>3, ExceptSeq
      <4> QED BY <2>1, <2>2, <4>1 DEF BusLife, Busy
    <3> QED BY <2>3, <3>1, <3>3, <3>4, <3>5, FlowUntouched DEF Kept
  <2> QED BY <1>8, <2>4, <2>5 DEF CancelReaches
<1> QED BY <1>2, <1>3, <1>4, <1>6, <1>7, <1>8 DEF BusNext

LEMMA BusInitInv == BusInit => BusInv
<1> SUFFICES ASSUME BusInit PROVE BusInv
  OBVIOUS
<1>1. /\ waiting = <<>> /\ loops = <<>> /\ subscribers = <<>> /\ given = {} /\ cut = {}
      /\ dropped = {} /\ published = 0 /\ logged = {} /\ degraded = {}
      /\ got = [h \in Handlers |-> <<>>]
  BY DEF BusInit
<1>2. Len(waiting) = 0 /\ Len(loops) = 0 /\ Len(subscribers) = 0 /\ DOMAIN loops = {}
      /\ DOMAIN subscribers = {} /\ DOMAIN waiting = {}
  BY <1>1
<1>3. BusTypeOK
  <2>1. <<>> \in Seq(1 .. MaxEvents) /\ <<>> \in Seq(Handlers)
    BY EmptySeq
  <2>2. got \in [Handlers -> Seq(1 .. MaxEvents)]
    BY <1>1, <2>1
  <2>3. /\ published \in 0 .. MaxEvents /\ Len(waiting) <= Capacity
        /\ taskLoop \in 0 .. MaxStarts /\ stopping \in 0 .. MaxStarts
    BY <1>1, <1>2, BusAssumption DEF BusInit
  <2> QED BY <1>1, <2>1, <2>2, <2>3 DEF BusInit, BusTypeOK
<1>4. InHand = {} /\ Handed = {}
  BY <1>1, <1>2 DEF InHand, Handed
<1>5. EventsAccounted
  <2>1. ToSet(waiting) = {}
    BY <1>2 DEF ToSet
  <2>2. Cardinality(InHand) = 0 /\ Cardinality(given) = 0 /\ Cardinality(cut) = 0 /\ Cardinality(dropped) = 0
    BY <1>1, <1>4, FS_EmptySet
  <2> QED BY <1>1, <1>2, <1>4, <2>1, <2>2 DEF EventsAccounted
<1>6. InPublishedOrder /\ SubscribersAgree
  BY <1>1, <1>2 DEF InPublishedOrder, SubscribersAgree
<1>7. BusLife
  BY <1>1, <1>2, EmptySeq, BusAssumption DEF BusInit, BusLife
<1>8. InTurn /\ CallsInv
  BY <1>1, <1>2, <1>4 DEF InTurn, CallsInv
<1> QED BY <1>3, <1>5, <1>6, <1>7, <1>8 DEF BusInv

LEMMA BusInvKept == BusInv /\ [BusNext]_busvars => BusInv'
BY BusLifeKept, BusTypeKept, BusFlowKept DEF BusInv, BusFlow

\* Each event is at one place and each handler sees them in order, each hides none from
\* the others, and a stopped bus has no loop left (event_bus.py), whatever handlers
\* subscribe, raise or are cut off, and over every number of restarts.
THEOREM BusIsSound == BusSpec => []BusSound
<1>1. BusInv => StoppedIsQuiet
  <2> SUFFICES ASSUME BusInv PROVE StoppedIsQuiet
    OBVIOUS
  <2>1. DOMAIN loops = 1 .. Len(loops) /\ Len(loops) \in Nat
    BY LenProperties DEF BusInv, BusLife
  <2> DEFINE S == {l \in DOMAIN loops : loops[l].at # "ended"}
  <2>2. S \subseteq {Len(loops)}
    BY <2>1 DEF BusInv, BusLife
  <2>3. IsFiniteSet({Len(loops)}) /\ Cardinality({Len(loops)}) = 1
    BY FS_Singleton
  <2>4. Cardinality(S) <= 1
    <3> HIDE DEF S
    <3> QED BY <2>2, <2>3, FS_Subset
  <2> QED BY <2>1, <2>4 DEF BusInv, BusLife, StoppedIsQuiet
<1>2. BusInv => BusSound
  BY <1>1 DEF BusInv, BusSound
<1> QED BY <1>2, BusInitInv, BusInvKept, PTL DEF BusSpec

-----------------------------------------------------------------------------
(* Health.                                                                 *)

ReqRec ==
  [at : {"new", "all", "one", "done"}, for : HealthCheckers \cup {"none"},
   results : SUBSET (HealthCheckers \X Statuses)]

\* A request for all has no component, one for a component has one.
ReqInv ==
  /\ req \in [Requests -> ReqRec]
  /\ reply \in [Requests -> Statuses \cup {"none"}]
  /\ \A q \in Requests : /\ req[q].at \in {"new", "all"} => req[q].for = "none"
                         /\ req[q].at = "one" => req[q].for # "none"

HInv == HTypeOK /\ ReqInv /\ OverallIsHonest /\ AnsweredIsRecorded

LEMMA HealthInitInv == HInit => HInv
<1> SUFFICES ASSUME HInit PROVE HInv
  OBVIOUS
<1>1. HTypeOK
  BY DEF HInit, HTypeOK
<1>2. ReqInv
  BY DEF HInit, ReqInv, ReqRec
<1>3. OverallIsHonest /\ AnsweredIsRecorded
  BY DEF HInit, OverallIsHonest, AnsweredIsRecorded
<1> QED BY <1>1, <1>2, <1>3 DEF HInv

\* Recording keeps what was known and adds what was found.
LEMMA RecordedIs ==
  ASSUME last \in [HealthCheckers -> Statuses \cup {"none"}],
         NEW found \in SUBSET (HealthCheckers \X Statuses)
  PROVE  /\ Recorded(found) \in [HealthCheckers -> Statuses \cup {"none"}]
         /\ \A c \in HealthCheckers : last[c] # "none" => Recorded(found)[c] # "none"
         /\ {r[1] : r \in found} = HealthCheckers =>
              \A c \in HealthCheckers : Recorded(found)[c] # "none"
<1> DEFINE Of(c) == CHOOSE r \in found : r[1] = c
<1>1. ASSUME NEW c \in HealthCheckers, \E r \in found : r[1] = c
      PROVE  Of(c) \in found /\ Of(c)[2] \in Statuses
  <2>1. Of(c) \in found
    BY <1>1
  <2> QED BY <2>1
<1>2. \A c \in HealthCheckers :
        Recorded(found)[c] = IF \E r \in found : r[1] = c THEN Of(c)[2] ELSE last[c]
  BY DEF Recorded
<1>3. "none" \notin Statuses
  BY DEF Statuses
<1>4. \A c \in HealthCheckers :
        /\ Recorded(found)[c] \in Statuses \cup {"none"}
        /\ last[c] # "none" => Recorded(found)[c] # "none"
        /\ (\E r \in found : r[1] = c) => Recorded(found)[c] # "none"
  <2> HIDE DEF Of
  <2> QED BY <1>1, <1>2, <1>3
<1>5. Recorded(found) \in [HealthCheckers -> Statuses \cup {"none"}]
  BY <1>4 DEF Recorded
<1>6. {r[1] : r \in found} = HealthCheckers => \A c \in HealthCheckers : \E r \in found : r[1] = c
  OBVIOUS
<1> QED BY <1>4, <1>5, <1>6

LEMMA HealthInvKept == ASSUME HInv, [HNext]_hvars PROVE HInv'
<1> USE DEF HInv
<1>0. "none" \notin HealthCheckers /\ Statuses = {"healthy", "degraded", "down", "unknown"}
  BY HealthAssumption DEF HealthCheckers, Statuses
<1>1. CASE UNCHANGED hvars
  BY <1>1 DEF hvars, HTypeOK, ReqInv, OverallIsHonest, AnsweredIsRecorded
<1>2. ASSUME NEW c \in HealthCheckers, ComponentMoves(c) PROVE HInv'
  BY <1>2 DEF ComponentMoves, HTypeOK, ReqInv, OverallIsHonest, AnsweredIsRecorded
<1>3. ASSUME NEW q \in Requests, NewRequest(q) PROVE HInv'
  <2>1. /\ req' \in [Requests -> ReqRec] /\ \A p \in Requests : p # q => req'[p] = req[p]
        /\ req'[q].at \in {"all", "one"} /\ (req'[q].at = "all" <=> req'[q].for = "none")
    <3>1. CASE req' = [req EXCEPT ![q].at = "all"]
      BY <1>3, <3>1 DEF NewRequest, ReqInv, ReqRec
    <3>2. CASE \E c \in HealthCheckers : req' = [req EXCEPT ![q] = [@ EXCEPT !.at = "one", !.for = c]]
      <4>1. PICK c \in HealthCheckers : req' = [req EXCEPT ![q] = [@ EXCEPT !.at = "one", !.for = c]]
        BY <3>2
      <4> QED BY ZenonT(30), <1>0, <4>1 DEF ReqInv, ReqRec
    <3> QED BY <1>3, <3>1, <3>2 DEF NewRequest
  <2>2. UNCHANGED <<comp, last, reply>> /\ req[q].at = "new"
    BY <1>3 DEF NewRequest
  <2>3. ReqInv'
    BY <2>1, <2>2 DEF ReqInv, ReqRec
  <2> QED BY ZenonT(30), <2>1, <2>2, <2>3 DEF HTypeOK, OverallIsHonest, AnsweredIsRecorded, ReqInv
<1>4. ASSUME NEW q \in Requests, FromRecord(q) PROVE HInv'
  <2>1. PICK c \in HealthCheckers :
          /\ last[c] # "none" /\ reply' = [reply EXCEPT ![q] = last[c]]
          /\ req' = [req EXCEPT ![q] = [@ EXCEPT !.at = "done", !.for = c]]
          /\ UNCHANGED <<comp, last>>
    BY <1>4 DEF FromRecord
  <2>a. /\ req' \in [Requests -> ReqRec] /\ \A p \in Requests : p # q => req'[p] = req[p]
        /\ req'[q].at = "done" /\ req'[q].for = c
    BY <2>1 DEF ReqInv, ReqRec
  <2>2. ReqInv'
    BY <2>1, <2>a DEF ReqInv, HTypeOK
  <2> QED BY ZenonT(30), <1>0, <2>1, <2>a, <2>2 DEF HTypeOK, OverallIsHonest, AnsweredIsRecorded, ReqInv
<1>5. ASSUME NEW q \in Requests, NEW c \in HealthCheckers, CheckEnds(q, c) PROVE HInv'
  <2>1. Status(c) \in Statuses
    BY DEF Status, Statuses
  <2>2. /\ req' \in [Requests -> ReqRec] /\ \A p \in Requests : p # q => req'[p] = req[p]
        /\ req'[q].at = req[q].at /\ req'[q].for = req[q].for
        /\ UNCHANGED <<comp, last, reply>> /\ req[q].at \in {"all", "one"}
    <3>1. req' = [req EXCEPT ![q].results = @ \cup {<<c, Status(c)>>}]
          /\ UNCHANGED <<comp, last, reply>> /\ req[q].at \in {"all", "one"}
      BY <1>5 DEF CheckEnds, Result
    <3>2. req[q].results \cup {<<c, Status(c)>>} \in SUBSET (HealthCheckers \X Statuses)
      BY <2>1 DEF ReqInv, ReqRec
    <3> QED BY <3>1, <3>2 DEF ReqInv, ReqRec
  <2>3. ReqInv'
    BY <2>1, <2>2 DEF ReqInv, ReqRec
  <2> QED BY ZenonT(30), <2>2, <2>3 DEF HTypeOK, OverallIsHonest, AnsweredIsRecorded, ReqInv
<1>6. ASSUME NEW q \in Requests, AnswerAll(q) PROVE HInv'
  <2> DEFINE R == req[q].results
  <2>1. R \in SUBSET (HealthCheckers \X Statuses)
    BY DEF ReqInv, ReqRec
  <2>2. /\ last' = Recorded(R) /\ reply' = [reply EXCEPT ![q] = Overall(R)]
        /\ req' \in [Requests -> ReqRec] /\ \A p \in Requests : p # q => req'[p] = req[p]
        /\ req'[q].at = "done" /\ req'[q].for = req[q].for /\ req'[q].results = R
        /\ {r[1] : r \in R} = HealthCheckers
    BY <1>6 DEF AnswerAll, ReqInv, ReqRec
  <2>3. last' \in [HealthCheckers -> Statuses \cup {"none"}] /\ \A c \in HealthCheckers : last'[c] # "none"
    BY <2>1, <2>2, RecordedIs DEF HTypeOK
  <2>4. /\ Overall(R) \in Statuses
        /\ Overall(R) = "healthy" => Down(R) = {}
        /\ Overall(R) = "down" => Down(R) = R
    BY DEF Overall, Statuses
  <2>5. ReqInv'
    BY <2>1, <2>2, <2>4 DEF ReqInv, ReqRec
  <2>6. HTypeOK' /\ AnsweredIsRecorded'
    BY <2>3, <2>5 DEF HTypeOK, AnsweredIsRecorded, ReqInv, ReqRec
  <2>7. OverallIsHonest'
    <3> SUFFICES ASSUME NEW p \in Requests, req'[p].at = "done", req'[p].for = "none"
                 PROVE  /\ reply'[p] = "healthy" => {r[1] : r \in req'[p].results} = HealthCheckers
                                                    /\ Down(req'[p].results) = {}
                        /\ reply'[p] = "down" => Down(req'[p].results) = req'[p].results
      BY DEF OverallIsHonest
    <3>1. CASE p = q
      <4>1. req'[p].results = R /\ reply'[p] = Overall(R)
        BY <2>2, <3>1 DEF ReqInv
      <4> QED BY <2>2, <2>4, <4>1
    <3>2. CASE p # q
      BY <2>2, <3>2 DEF OverallIsHonest, ReqInv
    <3> QED BY <3>1, <3>2
  <2> QED BY <2>5, <2>6, <2>7
<1>7. ASSUME NEW q \in Requests, AnswerOne(q) PROVE HInv'
  <2>1. PICK r \in req[q].results :
          last' = Recorded({r}) /\ reply' = [reply EXCEPT ![q] = r[2]]
    BY <1>7 DEF AnswerOne
  <2>2. r \in HealthCheckers \X Statuses
    BY DEF ReqInv, ReqRec
  <2>3. /\ req' \in [Requests -> ReqRec] /\ \A p \in Requests : p # q => req'[p] = req[p]
        /\ req'[q].at = "done" /\ req'[q].for = req[q].for
        /\ req[q].for # "none"
    BY <1>7 DEF AnswerOne, ReqInv, ReqRec
  <2>4. last' \in [HealthCheckers -> Statuses \cup {"none"}]
        /\ \A c \in HealthCheckers : last[c] # "none" => last'[c] # "none"
    BY <2>1, <2>2, RecordedIs DEF HTypeOK
  <2>5. ReqInv'
    BY <2>1, <2>2, <2>3 DEF ReqInv, ReqRec
  <2>6. HTypeOK'
    BY <2>4, <2>5 DEF HTypeOK, ReqInv, ReqRec
  <2>7. OverallIsHonest' /\ AnsweredIsRecorded'
    BY <2>1, <2>3, <2>4 DEF OverallIsHonest, AnsweredIsRecorded, ReqInv
  <2> QED BY <2>5, <2>6, <2>7
<1> QED BY <1>1, <1>2, <1>3, <1>4, <1>5, <1>6, <1>7 DEF HNext, Handled

\* An overall answer says what was found of all components, and what was once answered
\* stays on record (monitor.py), however requests for one and for all overlap and
\* whichever checkers hang or change in the meantime.
THEOREM HealthIsSound == HSpec => []HealthSound
<1>1. HInv => HealthSound
  BY DEF HInv, HealthSound
<1> QED BY <1>1, HealthInitInv, HealthInvKept, PTL DEF HSpec

-----------------------------------------------------------------------------
(* Agents.                                                                 *)

ProcRec == [runner : {"none", "running", "ended", "killed"}, code : {0, 1},
            out : {"", "good", "bad", "open"}, model : {"none", "running", "ended", "killed"}]
Reasons == {"", "denied", "spawn", "exit", "reported", "closed", "timeout"}
RecordRec == [success : BOOLEAN, error : Reasons]
TaskRec == [at : {"new", "waiting", "saving", "answered", "lost"}, role : Roles \cup {None},
            record : RecordRec]

\* How far a task and its process are: no process before the dispatch, none that
\* runs once the dispatcher is through, and success only after an answer.
DispatchInv ==
  /\ task \in [Tasks -> TaskRec] /\ proc \in [Tasks -> ProcRec]
  /\ closedPipe \in BOOLEAN /\ results \subseteq Tasks
  /\ \A t \in Tasks :
       /\ task[t].at \in {"new", "waiting"} => ~task[t].record.success
       /\ task[t].at = "waiting" => task[t].role \in Permitted
       /\ task[t].at = "new" => proc[t].runner = "none"
       /\ task[t].at \in {"saving", "answered"} /\ ~closedPipe => proc[t].runner # "running"

EntryOf == [value : Biases \cup {Text}, ttl : BOOLEAN, by : Roles]

ToolsInv ==
  /\ checker \in {"none", "grants", "patterns"}
  /\ toolbox \in [Roles -> SUBSET ToolNames]
  /\ store \in [Keys -> EntryOf \cup {None}]

AssessInv ==
  /\ market \in [vix : VixLevels \cup {None}, drawdown : Drawdowns \cup {0}]
  /\ assessed.level \in {"low", "medium", "high", "critical"}

AgentsInv == DispatchInv /\ SuccessMeansAnswered /\ ToolsInv /\ BiasIsControllers /\ AssessInv

LEMMA AgentsInitInv == AInit => AgentsInv
<1> SUFFICES ASSUME AInit PROVE AgentsInv
  OBVIOUS
<1> USE DEF AInit, DispatchInit, ToolsInit, AssessInit
<1>1. Incomplete \in RecordRec /\ ~Incomplete.success
  BY Zenon DEF Incomplete, RecordRec, Reasons
<1>2. DispatchInv /\ SuccessMeansAnswered
  BY <1>1 DEF DispatchInv, SuccessMeansAnswered, TaskRec, ProcRec, NoProcess
<1>3. ToolsInv /\ BiasIsControllers
  BY AgentsAssumption DEF ToolsInv, BiasIsControllers
<1>4. AssessInv
  BY DEF AssessInv
<1> QED BY <1>2, <1>3, <1>4 DEF AgentsInv

\* One task moves on, and perhaps its process.
LEMMA TaskMoves ==
  ASSUME AgentsInv, NEW t \in Tasks, NEW x \in TaskRec, NEW y \in ProcRec,
         task' = [task EXCEPT ![t] = x], proc' = [proc EXCEPT ![t] = y],
         UNCHANGED closedPipe, results' \subseteq Tasks,
         x.at \in {"new", "waiting"} => ~x.record.success,
         x.at = "waiting" => x.role \in Permitted,
         x.at = "new" => y.runner = "none",
         x.at \in {"saving", "answered"} /\ ~closedPipe => y.runner # "running",
         x.record.success => x.role \in Permitted /\ y.runner = "ended" /\ y.code = 0 /\ y.out # "bad"
  PROVE  DispatchInv' /\ SuccessMeansAnswered'
<1>1. /\ task' \in [Tasks -> TaskRec] /\ proc' \in [Tasks -> ProcRec]
      /\ task'[t] = x /\ proc'[t] = y
      /\ \A u \in Tasks : u # t => task'[u] = task[u] /\ proc'[u] = proc[u]
  BY DEF AgentsInv, DispatchInv
<1>2. ASSUME NEW u \in Tasks
      PROVE  /\ task'[u].at \in {"new", "waiting"} => ~task'[u].record.success
             /\ task'[u].at = "waiting" => task'[u].role \in Permitted
             /\ task'[u].at = "new" => proc'[u].runner = "none"
             /\ task'[u].at \in {"saving", "answered"} /\ ~closedPipe => proc'[u].runner # "running"
             /\ task'[u].record.success =>
                  /\ task'[u].role \in Permitted
                  /\ proc'[u].runner = "ended" /\ proc'[u].code = 0 /\ proc'[u].out # "bad"
  <2>1. CASE u = t
    BY <1>1, <2>1
  <2>2. CASE u # t
    BY <1>1, <2>2 DEF AgentsInv, DispatchInv, SuccessMeansAnswered
  <2> QED BY <2>1, <2>2
<1> QED BY <1>1, <1>2 DEF AgentsInv, DispatchInv, SuccessMeansAnswered

LEMMA RecordsAre ==
  /\ Incomplete \in RecordRec /\ ~Incomplete.success
  /\ Answered \in RecordRec
  /\ \A why \in Reasons : Failed(why) \in RecordRec /\ ~Failed(why).success
<1>1. Incomplete \in RecordRec /\ Answered \in RecordRec
  BY DEF Incomplete, Answered, RecordRec, Reasons
<1>2. \A why \in Reasons : Failed(why) \in RecordRec
  BY DEF Failed, RecordRec
<1>3. ~Incomplete.success /\ \A why \in Reasons : ~Failed(why).success
  BY DEF Incomplete, Failed
<1> QED BY <1>1, <1>2, <1>3

LEMMA InvokeKept ==
  ASSUME AgentsInv, NEW t \in Tasks, NEW r \in Roles, Invoke(t, r)
  PROVE  DispatchInv' /\ SuccessMeansAnswered'
<1>1. task[t] \in TaskRec /\ proc[t] \in ProcRec /\ proc[t].runner = "none"
  BY DEF AgentsInv, DispatchInv, Invoke
<1>2. UNCHANGED <<closedPipe, results>> /\ results' \subseteq Tasks
  BY DEF Invoke, AgentsInv, DispatchInv
<1>3. ASSUME NEW why \in {"denied", "spawn"},
             task' = [task EXCEPT ![t] = [at |-> "saving", role |-> r, record |-> Failed(why)]],
             UNCHANGED proc
      PROVE  DispatchInv' /\ SuccessMeansAnswered'
  <2> DEFINE x == [at |-> "saving", role |-> r, record |-> Failed(why)]
  <2>1. x \in TaskRec /\ x.at = "saving" /\ ~x.record.success
    BY RecordsAre DEF TaskRec, Reasons
  <2>2. proc' = [proc EXCEPT ![t] = proc[t]]
    BY <1>3 DEF AgentsInv, DispatchInv
  <2>3. task' = [task EXCEPT ![t] = x]
    BY <1>3
  <2> HIDE DEF x
  <2> QED BY <1>1, <1>2, <2>1, <2>2, <2>3, TaskMoves
<1>4. ASSUME CanExecute(r),
             task' = [task EXCEPT ![t] = [at |-> "waiting", role |-> r, record |-> Incomplete]],
             proc' = [proc EXCEPT ![t].runner = "running", ![t].model = "running"]
      PROVE  DispatchInv' /\ SuccessMeansAnswered'
  <2> DEFINE x == [at |-> "waiting", role |-> r, record |-> Incomplete]
             y == [proc[t] EXCEPT !.runner = "running", !.model = "running"]
  <2>1. x \in TaskRec /\ x.at = "waiting" /\ ~x.record.success /\ x.role \in Permitted
    BY <1>4, RecordsAre DEF TaskRec, Reasons, CanExecute
  <2>2. y \in ProcRec
    BY <1>1 DEF ProcRec
  <2>3. task' = [task EXCEPT ![t] = x] /\ proc' = [proc EXCEPT ![t] = y]
    BY <1>4 DEF AgentsInv, DispatchInv
  <2> HIDE DEF x, y
  <2> QED BY <1>2, <2>1, <2>2, <2>3, TaskMoves
<1> QED BY <1>3, <1>4 DEF Invoke

\* Steps of the processes alone.
LEMMA ProcessKept ==
  ASSUME AgentsInv, NEW t \in Tasks, ModelEnds(t) \/ ModelTimeout(t) \/ RunnerDies(t)
  PROVE  DispatchInv' /\ SuccessMeansAnswered'
<1>0. task[t] \in TaskRec /\ proc[t] \in ProcRec
  BY DEF AgentsInv, DispatchInv
<1>1. PICK y \in ProcRec :
        /\ proc' = [proc EXCEPT ![t] = y]
        /\ \/ proc[t].runner = "running" /\ y.runner = "ended"
           \/ proc[t].runner # "running" /\ y.runner = proc[t].runner
                /\ y.code = proc[t].code /\ y.out = proc[t].out
  <2>1. ASSUME NEW y \in ProcRec, proc' = [proc EXCEPT ![t] = y],
               \/ proc[t].runner = "running" /\ y.runner = "ended"
               \/ proc[t].runner # "running" /\ y.runner = proc[t].runner
                    /\ y.code = proc[t].code /\ y.out = proc[t].out
        PROVE  \E z \in ProcRec :
                 /\ proc' = [proc EXCEPT ![t] = z]
                 /\ \/ proc[t].runner = "running" /\ z.runner = "ended"
                    \/ proc[t].runner # "running" /\ z.runner = proc[t].runner
                         /\ z.code = proc[t].code /\ z.out = proc[t].out
    BY <2>1
  <2>2. CASE ModelEnds(t) /\ proc[t].runner = "running"
    <3>1. PICK said \in Replies :
            proc' = [proc EXCEPT ![t] = [@ EXCEPT !.model = "ended", !.runner = "ended", !.out = Parsed(said)]]
      BY <2>2 DEF ModelEnds
    <3> DEFINE y == [proc[t] EXCEPT !.model = "ended", !.runner = "ended", !.out = Parsed(said)]
    <3>2. Parsed(said) \in {"", "good", "bad", "open"}
      BY DEF Parsed, Replies
    <3>3. y \in ProcRec /\ y.runner = "ended"
      BY <1>0, <3>2 DEF ProcRec
    <3>4. proc' = [proc EXCEPT ![t] = y]
      BY <3>1
    <3> HIDE DEF y
    <3> QED BY <2>1, <2>2, <3>3, <3>4
  <2>3. CASE ModelEnds(t) /\ proc[t].runner # "running"
    <3> DEFINE y == [proc[t] EXCEPT !.model = "ended"]
    <3>1. y \in ProcRec /\ y.runner = proc[t].runner /\ y.code = proc[t].code /\ y.out = proc[t].out
      BY <1>0 DEF ProcRec
    <3>2. proc' = [proc EXCEPT ![t] = y]
      BY <2>3 DEF ModelEnds
    <3> HIDE DEF y
    <3> QED BY <2>1, <2>3, <3>1, <3>2
  <2>4. CASE ModelTimeout(t)
    <3> DEFINE y == [proc[t] EXCEPT !.model = "killed", !.runner = "ended", !.out = "bad"]
    <3>1. y \in ProcRec /\ y.runner = "ended" /\ proc[t].runner = "running"
      BY <1>0, <2>4 DEF ProcRec, ModelTimeout
    <3>2. proc' = [proc EXCEPT ![t] = y]
      BY <2>4 DEF ModelTimeout, AgentsInv, DispatchInv
    <3> HIDE DEF y
    <3> QED BY <2>1, <3>1, <3>2
  <2>5. CASE RunnerDies(t)
    <3> DEFINE y == [proc[t] EXCEPT !.runner = "ended", !.code = 1]
    <3>1. y \in ProcRec /\ y.runner = "ended" /\ proc[t].runner = "running"
      BY <1>0, <2>5 DEF ProcRec, RunnerDies
    <3>2. proc' = [proc EXCEPT ![t] = y]
      BY <2>5 DEF RunnerDies, AgentsInv, DispatchInv
    <3> HIDE DEF y
    <3> QED BY <2>1, <3>1, <3>2
  <2> QED BY <2>2, <2>3, <2>4, <2>5
<1>2. task' = [task EXCEPT ![t] = task[t]] /\ UNCHANGED closedPipe /\ results' \subseteq Tasks
  BY DEF ModelEnds, ModelTimeout, RunnerDies, AgentsInv, DispatchInv
<1>3. /\ task[t].at \in {"new", "waiting"} => ~task[t].record.success
      /\ task[t].at = "waiting" => task[t].role \in Permitted
      /\ task[t].at = "new" => y.runner = "none"
      /\ task[t].at \in {"saving", "answered"} /\ ~closedPipe => y.runner # "running"
      /\ task[t].record.success => task[t].role \in Permitted /\ y.runner = "ended" /\ y.code = 0 /\ y.out # "bad"
  BY <1>1 DEF AgentsInv, DispatchInv, SuccessMeansAnswered
<1> QED BY <1>0, <1>1, <1>2, <1>3, TaskMoves

\* The dispatcher goes on with a task.
LEMMA ServerKept ==
  ASSUME AgentsInv, NEW t \in Tasks, Server(t)
  PROVE  DispatchInv' /\ SuccessMeansAnswered'
<1>0. task[t] \in TaskRec /\ proc[t] \in ProcRec
  BY DEF AgentsInv, DispatchInv
<1>1. ASSUME NEW rec \in RecordRec, NEW y \in ProcRec, task[t].at = "waiting",
             task' = [task EXCEPT ![t].at = "saving", ![t].record = rec],
             proc' = [proc EXCEPT ![t] = y], UNCHANGED <<closedPipe, results>>,
             ~closedPipe => y.runner # "running",
             rec.success => y.runner = "ended" /\ y.code = 0 /\ y.out # "bad"
      PROVE  DispatchInv' /\ SuccessMeansAnswered'
  <2> DEFINE x == [task[t] EXCEPT !.at = "saving", !.record = rec]
  <2>1. x \in TaskRec /\ x.at = "saving" /\ x.role = task[t].role /\ x.record = rec
    BY <1>0 DEF TaskRec
  <2>2. task' = [task EXCEPT ![t] = x]
    BY <1>1 DEF AgentsInv, DispatchInv
  <2>3. task[t].role \in Permitted /\ results' \subseteq Tasks
    BY <1>1 DEF AgentsInv, DispatchInv
  <2> HIDE DEF x
  <2> QED BY <1>1, <2>1, <2>2, <2>3, TaskMoves
<1>2. CASE Capture(t)
  <2>1. proc' = [proc EXCEPT ![t] = proc[t]] /\ UNCHANGED <<closedPipe, results>> /\ task[t].at = "waiting"
    BY <1>2 DEF Capture, AgentsInv, DispatchInv
  <2>2. CASE closedPipe /\ task' = [task EXCEPT ![t].at = "saving", ![t].record = Failed("closed")]
    BY <1>0, <1>1, <2>1, <2>2, RecordsAre DEF Reasons
  <2>3. CASE /\ ~closedPipe /\ proc[t].runner = "ended"
             /\ task' = [task EXCEPT ![t].at = "saving", ![t].record = Completed(proc[t])]
    <3>1. /\ Completed(proc[t]) \in RecordRec
          /\ Completed(proc[t]).success => proc[t].code = 0 /\ proc[t].out # "bad"
      BY <1>0, RecordsAre DEF Completed, ProcRec, Reasons
    <3> QED BY <1>0, <1>1, <2>1, <2>3, <3>1
  <2> QED BY <1>2, <2>2, <2>3 DEF Capture
<1>3. CASE Timeout(t)
  <2> DEFINE y == [proc[t] EXCEPT !.runner = "killed"]
  <2>1. y \in ProcRec /\ y.runner = "killed"
    BY <1>0 DEF ProcRec
  <2>2. proc' = [proc EXCEPT ![t] = y] /\ task[t].at = "waiting" /\ UNCHANGED <<closedPipe, results>>
        /\ task' = [task EXCEPT ![t].at = "saving", ![t].record = Failed("timeout")]
    BY <1>3 DEF Timeout, Killed
  <2> HIDE DEF y
  <2> QED BY <1>1, <2>1, <2>2, RecordsAre DEF Reasons
<1>4. CASE Persist(t)
  <2> DEFINE x == [task[t] EXCEPT !.at = "answered"]
  <2>1. x \in TaskRec /\ x.at = "answered" /\ x.role = task[t].role /\ x.record = task[t].record
    BY <1>0 DEF TaskRec
  <2>2. /\ task' = [task EXCEPT ![t] = x] /\ proc' = [proc EXCEPT ![t] = proc[t]]
        /\ UNCHANGED closedPipe /\ results' \subseteq Tasks /\ task[t].at = "saving"
    BY <1>4 DEF Persist, AgentsInv, DispatchInv
  <2>3. /\ ~closedPipe => proc[t].runner # "running"
        /\ task[t].record.success => task[t].role \in Permitted /\ proc[t].runner = "ended"
                                     /\ proc[t].code = 0 /\ proc[t].out # "bad"
    BY <2>2 DEF AgentsInv, DispatchInv, SuccessMeansAnswered
  <2> HIDE DEF x
  <2> QED BY <1>0, <2>1, <2>2, <2>3, TaskMoves
<1> QED BY <1>2, <1>3, <1>4 DEF Server

LEMMA CrashKept == ASSUME AgentsInv, ServerCrash PROVE DispatchInv' /\ SuccessMeansAnswered'
<1>1. PICK t \in Tasks : /\ task[t].at \in {"waiting", "saving"}
                         /\ task' = [task EXCEPT ![t].at = "lost"]
  BY DEF ServerCrash
<1> DEFINE x == [task[t] EXCEPT !.at = "lost"]
<1>2. task[t] \in TaskRec /\ proc[t] \in ProcRec
  BY DEF AgentsInv, DispatchInv
<1>3. x \in TaskRec /\ x.at = "lost" /\ x.role = task[t].role /\ x.record = task[t].record
  BY <1>2 DEF TaskRec
<1>4. /\ task' = [task EXCEPT ![t] = x] /\ proc' = [proc EXCEPT ![t] = proc[t]]
      /\ UNCHANGED closedPipe /\ results' \subseteq Tasks
  BY <1>1 DEF ServerCrash, AgentsInv, DispatchInv
<1>5. task[t].record.success => task[t].role \in Permitted /\ proc[t].runner = "ended"
                                /\ proc[t].code = 0 /\ proc[t].out # "bad"
  BY DEF AgentsInv, SuccessMeansAnswered
<1> HIDE DEF x
<1> QED BY <1>2, <1>3, <1>4, <1>5, TaskMoves

\* Which keys expire is a Boolean, and an entry has its own fields and is never None.
LEMMA ExpiringIs == ASSUME NEW k \in {"risk_bias", "sentiment", "events"} PROVE Expiring[k] \in BOOLEAN
<1>1. CASE k = "risk_bias"
  BY <1>1, Zenon DEF Expiring
<1>2. CASE k = "sentiment"
  BY <1>2, Zenon DEF Expiring
<1>3. CASE k = "events"
  BY <1>3, Zenon DEF Expiring
<1> QED BY <1>1, <1>2, <1>3, Zenon

LEMMA EntryIs ==
  ASSUME NEW r \in Roles, NEW v \in Biases \cup {Text}, NEW ttl \in BOOLEAN
  PROVE  /\ Entry(v, ttl, r) \in EntryOf /\ Entry(v, ttl, r) # None
         /\ Entry(v, ttl, r).by = r /\ Entry(v, ttl, r).value = v
<1>1. v \in Nat
  BY AgentsAssumption DEF Text
<1>2. Entry(v, ttl, r) \in [value : Nat, ttl : BOOLEAN, by : Roles]
  BY <1>1 DEF Entry
<1> QED BY <1>2, NoneAssumption DEF Entry, EntryOf

LEMMA ToolsKept == ASSUME AgentsInv, ToolsNext PROVE ToolsInv' /\ BiasIsControllers'
<1>0. /\ checker' = checker /\ checker \in {"none", "grants", "patterns"}
      /\ toolbox \in [Roles -> SUBSET ToolNames] /\ store \in [Keys -> EntryOf \cup {None}]
      /\ "risk_bias" \in Keys /\ Biases \cup {Text} \subseteq Nat
  <2>1. checker' = checker
    BY DEF ToolsNext, Register, Unregister, WriteRedis, WriteRiskBias, WriteSentiment, Expire
  <2>2. "risk_bias" \in Keys /\ Biases \cup {Text} \subseteq Nat
    BY AgentsAssumption DEF Text
  <2> QED BY <2>1, <2>2 DEF AgentsInv, ToolsInv
<1>1. ASSUME UNCHANGED store PROVE BiasIsControllers'
  BY <1>0, <1>1 DEF AgentsInv, BiasIsControllers, RiskBias
<1>2. ASSUME NEW r \in Roles, NEW tool \in ToolNames, Register(r, tool) \/ Unregister(r, tool)
      PROVE  ToolsInv' /\ BiasIsControllers'
  <2>1. UNCHANGED store /\ toolbox' \in [Roles -> SUBSET ToolNames]
    BY <1>0, <1>2 DEF Register, Unregister
  <2> QED BY <1>0, <1>1, <2>1 DEF ToolsInv
<1>3. ASSUME NEW k \in Keys, NEW v \in EntryOf \cup {None}, store' = [store EXCEPT ![k] = v], UNCHANGED toolbox,
             k = "risk_bias" /\ checker = "grants" /\ v # None =>
               v.by = "risk_controller" /\ v.value \in 0 .. 100
      PROVE  ToolsInv' /\ BiasIsControllers'
  <2>1. ToolsInv'
    BY <1>0, <1>3 DEF ToolsInv
  <2>2. CASE k = "risk_bias"
    <3>1. store'["risk_bias"] = v
      BY <1>0, <1>3, <2>2
    <3>2. v.value \in 0 .. 100 => v.value # Text
      BY DEF Text
    <3> QED BY <1>0, <1>3, <2>1, <2>2, <3>1, <3>2 DEF BiasIsControllers, RiskBias
  <2>3. CASE k # "risk_bias"
    <3>1. store'["risk_bias"] = store["risk_bias"]
      BY <1>0, <1>3, <2>3
    <3> QED BY <1>0, <2>1, <3>1 DEF AgentsInv, BiasIsControllers, RiskBias
  <2> QED BY <2>2, <2>3, <2>1
<1>4. \A r \in Roles, v \in Biases \cup {Text}, ttl \in BOOLEAN :
        Entry(v, ttl, r) \in EntryOf /\ Entry(v, ttl, r).by = r /\ Entry(v, ttl, r).value = v
  BY EntryIs
<1>5. /\ \A k \in {"risk_bias", "sentiment", "events"} : Expiring[k] \in BOOLEAN
      /\ \A k \in Keys : Expiring[k] \in BOOLEAN
  BY ExpiringIs, AgentsAssumption
<1>6. ASSUME NEW r \in Roles, NEW v \in Biases \cup {Text}, NEW k \in Keys, WriteRedis(r, k, v)
      PROVE  ToolsInv' /\ BiasIsControllers'
  <2>1. PICK ttl \in {Expiring[k], TRUE} : store' = [store EXCEPT ![k] = Entry(v, ttl, r)]
    BY <1>6 DEF WriteRedis
  <2>2. ttl \in BOOLEAN
    BY <1>5
  <2>3. checker # "grants"
    <3>1. Needs["redis_write"] = "redis:*"
      BY DEF Needs
    <3> QED BY <1>6, <3>1, GrantsAssumption DEF WriteRedis, MayCall
  <2>4. UNCHANGED toolbox /\ Entry(v, ttl, r) \in EntryOf \cup {None}
    BY <1>4, <1>6, <2>2 DEF WriteRedis
  <2> QED BY <1>3, <2>1, <2>3, <2>4
<1>7. ASSUME NEW r \in Roles, NEW v \in Biases \cup {Text}, WriteRiskBias(r, v)
      PROVE  ToolsInv' /\ BiasIsControllers'
  <2>1. checker = "grants" => r = "risk_controller"
    <3>1. Needs["risk_bias"] = "redis:risk_bias"
      BY DEF Needs
    <3> QED BY <1>7, <3>1, GrantsAssumption DEF WriteRiskBias, MayCall
  <2>2. v \in 0 .. 100 /\ store' = [store EXCEPT !["risk_bias"] = Entry(v, FALSE, r)] /\ UNCHANGED toolbox
    BY <1>7 DEF WriteRiskBias, InRange
  <2>3. /\ Entry(v, FALSE, r) \in EntryOf \cup {None}
        /\ Entry(v, FALSE, r).by = r /\ Entry(v, FALSE, r).value = v
    BY <1>4
  <2>4. \A e : e = Entry(v, FALSE, r) => ToolsInv' /\ BiasIsControllers'
    BY <1>0, <1>3, <2>1, <2>2, <2>3
  <2> QED BY <2>4
<1>8. ASSUME NEW r \in Roles, NEW v \in Biases \cup {Text}, WriteSentiment(r, v)
      PROVE  ToolsInv' /\ BiasIsControllers'
  <2>1. store' = [store EXCEPT !["sentiment"] = Entry(v, Expiring["sentiment"], r)] /\ UNCHANGED toolbox
    BY <1>8 DEF WriteSentiment
  <2>2. CASE "sentiment" \in Keys
    BY <1>3, <1>4, <1>5, <2>1, <2>2
  <2>3. CASE "sentiment" \notin Keys
    <3>1. UNCHANGED store
      BY <1>0, <2>1, <2>3
    <3> QED BY <1>0, <1>1, <2>1, <3>1 DEF ToolsInv
  <2> QED BY <2>2, <2>3
<1>9. ASSUME NEW k \in Keys, Expire(k) PROVE ToolsInv' /\ BiasIsControllers'
  BY <1>3, <1>9 DEF Expire
<1> QED BY <1>2, <1>6, <1>7, <1>8, <1>9 DEF ToolsNext

LEMMA AgentsInvKept == ASSUME AgentsInv, [ANext]_vars PROVE AgentsInv'
<1>1. CASE UNCHANGED vars
  BY <1>1 DEF vars, dvars, tvars, rvars, AgentsInv, DispatchInv, SuccessMeansAnswered, ToolsInv,
              BiasIsControllers, RiskBias, AssessInv
<1>2. ASSUME DispatchNext PROVE AgentsInv'
  <2>1. UNCHANGED <<tvars, rvars>>
    BY <1>2 DEF DispatchNext, Invoke, ModelEnds, ModelTimeout, RunnerDies, Server, Capture, Timeout, Persist, ServerCrash
  <2>2. ToolsInv' /\ BiasIsControllers' /\ AssessInv'
    BY <2>1 DEF AgentsInv, ToolsInv, BiasIsControllers, RiskBias, AssessInv, tvars, rvars
  <2>3. DispatchInv' /\ SuccessMeansAnswered'
    BY <1>2, InvokeKept, ProcessKept, ServerKept, CrashKept DEF DispatchNext
  <2> QED BY <2>2, <2>3 DEF AgentsInv
<1>3. ASSUME ToolsNext PROVE AgentsInv'
  <2>1. UNCHANGED <<dvars, rvars>>
    BY <1>3 DEF ToolsNext, Register, Unregister, WriteRedis, WriteRiskBias, WriteSentiment, Expire
  <2>2. DispatchInv' /\ SuccessMeansAnswered' /\ AssessInv'
    BY <2>1 DEF AgentsInv, DispatchInv, SuccessMeansAnswered, AssessInv, dvars, rvars
  <2> QED BY <1>3, <2>2, ToolsKept DEF AgentsInv
<1>4. ASSUME AssessNext PROVE AgentsInv'
  <2>1. UNCHANGED <<dvars, tvars>>
    BY <1>4 DEF AssessNext, MarketMoves, AssessRisk
  <2>2. DispatchInv' /\ SuccessMeansAnswered' /\ ToolsInv' /\ BiasIsControllers'
    BY <2>1 DEF AgentsInv, DispatchInv, SuccessMeansAnswered, ToolsInv, BiasIsControllers, RiskBias, dvars, tvars
  <2>3. AssessInv'
    <3>1. CASE MarketMoves
      BY <3>1 DEF MarketMoves, AgentsInv, AssessInv
    <3>2. CASE AssessRisk
      BY <3>2 DEF AssessRisk, RiskLevel, AgentsInv, AssessInv
    <3> QED BY <1>4, <3>1, <3>2 DEF AssessNext
  <2> QED BY <2>2, <2>3 DEF AgentsInv
<1> QED BY <1>1, <1>2, <1>3, <1>4 DEF ANext

\* A task succeeds only by an answer of its own process and leaves no runner behind, and
\* the bias in Redis is the risk controller's (dispatcher.py, redis_writer.py), for any
\* tasks, roles and grants under which only the risk controller may write it.
THEOREM AgentsAreSound == ASpec => []AgentsSound
<1>1. ASSUME AgentsInv PROVE AgentsSound
  <2>1. ATypeOK
    <3>1. \A k \in Keys : store[k] = None \/ store[k].by \in Roles
      BY <1>1 DEF AgentsInv, ToolsInv, EntryOf
    <3> QED BY <1>1, <3>1 DEF AgentsInv, ATypeOK, DispatchInv, ToolsInv, AssessInv, TaskRec, RecordRec, ProcRec
  <2>2. NoRunnerLeft
    BY <1>1 DEF AgentsInv, DispatchInv, NoRunnerLeft
  <2> QED BY <1>1, <2>1, <2>2 DEF AgentsInv, AgentsSound
<1> QED BY <1>1, AgentsInitInv, AgentsInvKept, PTL DEF ASpec

\* A bias without a time to live goes only by being overwritten (redis_writer.py:50).
THEOREM BiasStays == ASpec => BiasPersists
<1>1. ASSUME AgentsInv, [ANext]_vars, store["risk_bias"] # None, ~store["risk_bias"].ttl
      PROVE  store'["risk_bias"] # None
  <2>0. "risk_bias" \in Keys /\ store \in [Keys -> EntryOf \cup {None}]
    BY <1>1, AgentsAssumption DEF AgentsInv, ToolsInv
  <2>1. \A r \in Roles, v \in Biases \cup {Text}, ttl \in BOOLEAN : Entry(v, ttl, r) # None
    BY EntryIs
  <2>2. ASSUME NEW r \in Roles, NEW v \in Biases \cup {Text}, NEW k \in Keys, WriteRedis(r, k, v)
        PROVE  store'["risk_bias"] # None
    <3>1. PICK ttl \in {Expiring[k], TRUE} : store' = [store EXCEPT ![k] = Entry(v, ttl, r)]
      BY <2>2 DEF WriteRedis
    <3>2. ttl \in BOOLEAN
      BY ExpiringIs, AgentsAssumption
    <3> QED BY <1>1, <2>0, <2>1, <3>1, <3>2
  <2>3. ASSUME NEW r \in Roles, NEW v \in Biases \cup {Text}, WriteRiskBias(r, v) \/ WriteSentiment(r, v)
        PROVE  store'["risk_bias"] # None
    <3>1. Expiring["sentiment"] \in BOOLEAN
      BY ExpiringIs
    <3>2. Entry(v, FALSE, r) # None /\ Entry(v, Expiring["sentiment"], r) # None
      BY <2>1, <3>1
    <3> QED BY <1>1, <2>0, <2>3, <3>2 DEF WriteRiskBias, WriteSentiment
  <2>4. ASSUME NEW k \in Keys, Expire(k) PROVE store'["risk_bias"] # None
    <3>1. k # "risk_bias"
      BY <1>1, <2>4 DEF Expire, Expires
    <3> QED BY <1>1, <2>0, <2>4, <3>1 DEF Expire
  <2>5. CASE UNCHANGED store
    BY <1>1, <2>5
  <2>6. CASE ToolsNext
    BY <2>2, <2>3, <2>4, <2>5, <2>6 DEF ToolsNext, Register, Unregister
  <2>7. CASE DispatchNext \/ AssessNext \/ UNCHANGED vars
    BY <2>5, <2>7 DEF DispatchNext, Invoke, ModelEnds, ModelTimeout, RunnerDies, Server, Capture, Timeout, Persist,
                      ServerCrash, AssessNext, MarketMoves, AssessRisk, vars, tvars
  <2> QED BY <1>1, <2>6, <2>7 DEF ANext
<1> QED BY <1>1, AgentsInitInv, AgentsInvKept, PTL DEF ASpec, BiasPersists

-----------------------------------------------------------------------------
(* The risk assessment.                                                    *)

\* The share left by a drawdown, without counting steps.
LEMMA DrawdownScalingIs ==
  ASSUME NEW dd \in Int
  PROVE  DrawdownScaling(dd) = IF dd < 5 THEN 100 ELSE IF dd < 10 THEN 90
                               ELSE IF dd < 15 THEN 70 ELSE IF dd < 20 THEN 50 ELSE 25
<1> DEFINE passed == {i \in DOMAIN DrawdownSteps : dd >= DrawdownSteps[i][1]}
<1>1. DOMAIN DrawdownSteps = 1 .. 4
  BY DEF DrawdownSteps
<1>2. \A i \in 1 .. 4 : /\ i = 1 => DrawdownSteps[i][1] = 5 /\ DrawdownSteps[i][2] = 90
                        /\ i = 2 => DrawdownSteps[i][1] = 10 /\ DrawdownSteps[i][2] = 70
                        /\ i = 3 => DrawdownSteps[i][1] = 15 /\ DrawdownSteps[i][2] = 50
                        /\ i = 4 => DrawdownSteps[i][1] = 20 /\ DrawdownSteps[i][2] = 25
  BY DEF DrawdownSteps
<1>3. /\ dd < 5 => passed = {}
      /\ dd >= 5 => \E n \in 1 .. 4 : passed = 1 .. n /\ DrawdownSteps[n][1] <= dd
                                      /\ (n < 4 => dd < DrawdownSteps[n + 1][1])
  <2>1. \A i \in 1 .. 4 : i \in passed <=> dd >= DrawdownSteps[i][1]
    BY <1>1
  <2>2. passed \subseteq 1 .. 4
    BY <1>1
  <2>3. \A i \in 1 .. 4 : i = 1 \/ i = 2 \/ i = 3 \/ i = 4
    OBVIOUS
  <2> HIDE DEF passed
  <2>4. CASE dd < 5
    BY <1>2, <2>1, <2>2, <2>3, <2>4
  <2>5. CASE dd >= 5 /\ dd < 10
    <3>1. \A i \in 1 .. 4 : i \in passed <=> i <= 1
      BY <1>2, <2>1, <2>3, <2>5
    <3>2. passed = 1 .. 1
      <4>1. \A i \in passed : i \in 1 .. 4 /\ i <= 1
        BY <2>2, <3>1
      <4>2. \A i \in 1 .. 1 : i \in 1 .. 4 /\ i \in passed
        BY <3>1
      <4> QED BY <4>1, <4>2
    <3> QED BY <1>2, <2>5, <3>2
  <2>6. CASE dd >= 10 /\ dd < 15
    <3>1. \A i \in 1 .. 4 : i \in passed <=> i <= 2
      BY <1>2, <2>1, <2>3, <2>6
    <3>2. passed = 1 .. 2
      <4>1. \A i \in passed : i \in 1 .. 4 /\ i <= 2
        BY <2>2, <3>1
      <4>2. \A i \in 1 .. 2 : i \in 1 .. 4 /\ i \in passed
        BY <3>1
      <4> QED BY <4>1, <4>2
    <3> QED BY <1>2, <2>6, <3>2
  <2>7. CASE dd >= 15 /\ dd < 20
    <3>1. \A i \in 1 .. 4 : i \in passed <=> i <= 3
      BY <1>2, <2>1, <2>3, <2>7
    <3>2. passed = 1 .. 3
      <4>1. \A i \in passed : i \in 1 .. 4 /\ i <= 3
        BY <2>2, <3>1
      <4>2. \A i \in 1 .. 3 : i \in 1 .. 4 /\ i \in passed
        BY <3>1
      <4> QED BY <4>1, <4>2
    <3> QED BY <1>2, <2>7, <3>2
  <2>8. CASE dd >= 20
    <3>1. \A i \in 1 .. 4 : i \in passed <=> i <= 4
      BY <1>2, <2>1, <2>3, <2>8
    <3>2. passed = 1 .. 4
      <4>1. \A i \in passed : i \in 1 .. 4 /\ i <= 4
        BY <2>2, <3>1
      <4>2. \A i \in 1 .. 4 : i \in 1 .. 4 /\ i \in passed
        BY <3>1
      <4> QED BY <4>1, <4>2
    <3> QED BY <1>2, <2>8, <3>2
  <2> QED BY <2>4, <2>5, <2>6, <2>7, <2>8
<1>4. DrawdownScaling(dd) = IF dd <= 0 \/ passed = {} THEN 100 ELSE DrawdownSteps[Cardinality(passed)][2]
  BY DEF DrawdownScaling
<1> HIDE DEF passed
<1>5. CASE dd < 5
  BY <1>3, <1>4, <1>5
<1>6. CASE dd >= 5
  <2>1. PICK n \in 1 .. 4 : passed = 1 .. n /\ DrawdownSteps[n][1] <= dd
                            /\ (n < 4 => dd < DrawdownSteps[n + 1][1])
    BY <1>3, <1>6
  <2>2. Cardinality(passed) = n /\ 1 \in passed
    BY <2>1, FS_Interval
  <2>3. DrawdownScaling(dd) = DrawdownSteps[n][2]
    BY <1>4, <1>6, <2>2
  <2>4. n = 1 \/ n = 2 \/ n = 3 \/ n = 4
    OBVIOUS
  <2> QED BY <1>2, <1>6, <2>1, <2>3, <2>4
<1> QED BY <1>5, <1>6

LEMMA VixScalingIs ==
  ASSUME NEW v \in Nat, v # None
  PROVE  VixScaling(v) = IF v < 15 THEN 100 ELSE IF v < 20 THEN 80
                         ELSE IF v < 30 THEN 50 ELSE IF v < 40 THEN 25 ELSE 10
<1>1. Regime(v) = IF v < 15 THEN "low" ELSE IF v < 20 THEN "normal"
                  ELSE IF v < 30 THEN "elevated" ELSE IF v < 40 THEN "high" ELSE "extreme"
  BY DEF Regime
<1>2. Regime(v) # None
  BY <1>1, NoneAssumption
<1> QED BY <1>1, <1>2 DEF VixScaling, RegimeScaling

LEMMA StressLowers ==
  ASSUME NEW v \in Nat, NEW w \in Nat, NEW c \in Int, NEW d \in Int,
         v # None, w # None, v <= w, c <= d
  PROVE  Combined(w, d) <= Combined(v, c)
<1>1. VixScaling(w) <= VixScaling(v) /\ VixScaling(w) \in Nat /\ VixScaling(v) \in Nat
  BY VixScalingIs
<1>2. DrawdownScaling(d) <= DrawdownScaling(c) /\ DrawdownScaling(d) \in Nat /\ DrawdownScaling(c) \in Nat
  BY DrawdownScalingIs
<1> QED BY <1>1, <1>2 DEF Combined

\* What was assessed last is what the market then was worth.
AssessedInv ==
  /\ market \in [vix : VixLevels \cup {None}, drawdown : Drawdowns \cup {0}]
  /\ assessed.of \in [vix : VixLevels \cup {None}, drawdown : Drawdowns \cup {0}]
  /\ assessed.of.vix # None => assessed.scaling = Combined(assessed.of.vix, assessed.of.drawdown)

\* When neither the VIX nor the drawdown falls from one assessment to the next, the share
\* of the risk budget does not rise (volatility.py:133-154), for every level of either.
THEOREM StressIsMonotone == ASpec => StressNeverRaisesRisk
<1>1. AInit => AssessedInv
  BY DEF AInit, AssessInit, AssessedInv
<1>2. ASSUME AssessedInv, [ANext]_vars PROVE AssessedInv'
  <2>1. CASE UNCHANGED rvars
    BY <1>2, <2>1 DEF rvars, AssessedInv
  <2>2. CASE MarketMoves
    BY <1>2, <2>2 DEF MarketMoves, AssessedInv
  <2>3. CASE AssessRisk
    BY <1>2, <2>3 DEF AssessRisk, AssessedInv
  <2>4. CASE DispatchNext \/ ToolsNext \/ UNCHANGED vars
    BY <2>1, <2>4 DEF DispatchNext, Invoke, ModelEnds, ModelTimeout, RunnerDies, Server, Capture, Timeout, Persist,
                      ServerCrash, ToolsNext, Register, Unregister, WriteRedis, WriteRiskBias, WriteSentiment,
                      Expire, vars
  <2> QED BY <1>2, <2>2, <2>3, <2>4 DEF ANext, AssessNext
<1>3. ASSUME AssessedInv, AssessedInv', assessed.of.vix # None, assessed'.of.vix # None,
             assessed'.of.vix >= assessed.of.vix, assessed'.of.drawdown >= assessed.of.drawdown
      PROVE  assessed'.scaling <= assessed.scaling
  <2>1. /\ assessed.of.vix \in Nat /\ assessed'.of.vix \in Nat
        /\ assessed.of.drawdown \in Int /\ assessed'.of.drawdown \in Int
    <3>1. VixLevels \subseteq Nat /\ Drawdowns \cup {0} \subseteq Int
      BY AgentsAssumption
    <3>2. /\ assessed.of \in [vix : VixLevels \cup {None}, drawdown : Drawdowns \cup {0}]
          /\ assessed'.of \in [vix : VixLevels \cup {None}, drawdown : Drawdowns \cup {0}]
      BY <1>3 DEF AssessedInv
    <3> QED BY <1>3, <3>1, <3>2
  <2> QED BY <1>3, <2>1, StressLowers DEF AssessedInv
<1> QED BY <1>1, <1>2, <1>3, PTL DEF ASpec, StressNeverRaisesRisk

-----------------------------------------------------------------------------
(* Reconciliation: what a comparison finds.                                *)

Held(s, trades) == TradesOf(s, trades) # {}

LEMMA TradesFinite ==
  ASSUME NEW trades \in SUBSET Events, NEW s
  PROVE  /\ IsFiniteSet(TradesOf(s, trades)) /\ Quantity(s, trades) \in Nat
         /\ Quantity(s, trades) = 0 <=> ~Held(s, trades)
<1>1. TradesOf(s, trades) \in SUBSET Events
  BY DEF TradesOf
<1>2. IsFiniteSet(TradesOf(s, trades))
  BY <1>1, ReconciliationAssumption, FS_Subset
<1>3. Cardinality(TradesOf(s, trades)) \in Nat
  BY <1>2, FS_CardinalityType
<1>4. Cardinality(TradesOf(s, trades)) = 0 <=> TradesOf(s, trades) = {}
  BY <1>2, FS_EmptySet
<1> QED BY <1>2, <1>3, <1>4 DEF Quantity, Held

\* With one rowOf for a symbol that rowOf is what the symbol's trades come to.
LEMMA OneRow ==
  ASSUME OneRowPerSymbol, NEW trades \in SUBSET Events, NEW s
  PROVE  /\ LocalRows(s, trades) # {} <=> Held(s, trades)
         /\ \A q \in LocalRows(s, trades) : q = Quantity(s, trades)
<1> DEFINE T == TradesOf(s, trades)
           Row(k) == {e \in T : StrategyOf[e] = k}
<1>1. LocalRows(s, trades) = {Cardinality(Row(k)) : k \in {StrategyOf[e] : e \in T}}
  BY DEF LocalRows
<1>2. \A e, f \in T : StrategyOf[e] = StrategyOf[f]
  BY DEF TradesOf, OneRowPerSymbol
<1>3. ASSUME NEW e \in T PROVE Row(StrategyOf[e]) = T
  <2> HIDE DEF T
  <2> QED BY <1>2
<1>4. Quantity(s, trades) = Cardinality(T)
  BY DEF Quantity
<1>5. Held(s, trades) <=> T # {}
  BY DEF Held
<1>6. LocalRows(s, trades) # {} => \E e \in T : TRUE
  <2> HIDE DEF T, Row
  <2> QED BY <1>1
<1>7. T # {} => LocalRows(s, trades) # {}
  <2> SUFFICES ASSUME NEW e \in T PROVE LocalRows(s, trades) # {}
    OBVIOUS
  <2>1. Cardinality(Row(StrategyOf[e])) \in LocalRows(s, trades)
    <3> HIDE DEF T, Row
    <3> QED BY <1>1
  <2> QED BY <2>1
<1>8. \A q \in LocalRows(s, trades) : q = Cardinality(T)
  <2> SUFFICES ASSUME NEW q \in LocalRows(s, trades) PROVE q = Cardinality(T)
    OBVIOUS
  <2>1. PICK e \in T : q = Cardinality(Row(StrategyOf[e]))
    <3> HIDE DEF T, Row
    <3> QED BY <1>1
  <2> QED BY <1>3, <2>1
<1> HIDE DEF T
<1> QED BY <1>4, <1>5, <1>6, <1>7, <1>8

\* A list of discrepancies is empty exactly when no symbol differs.
LEMMA PositionsCompared ==
  ASSUME OneRowPerSymbol, NEW lpos \in SUBSET Events, NEW bpos \in SUBSET Events,
         NEW found \in ComparePositions(lpos, bpos)
  PROVE  found = {} <=> \A s \in Symbols : Quantity(s, lpos) = Quantity(s, bpos)
<1> DEFINE held(s) == LocalRows(s, lpos) # {}
           there(s) == Quantity(s, bpos) # 0
           both == {s \in Symbols : held(s) /\ there(s)}
           noLocal == {<<"missing_local", s>> : s \in {x \in Symbols : ~held(x) /\ there(x)}}
           noBroker == {<<"missing_broker", s>> : s \in {x \in Symbols : held(x) /\ ~there(x)}}
           Off2(rowOf) == {<<"quantity_mismatch", s>> : s \in {x \in both : rowOf[x] # Quantity(x, bpos)}}
<1>1. \E rowOf : /\ \A s \in both : rowOf[s] \in LocalRows(s, lpos)
               /\ found = noLocal \cup noBroker \cup Off2(rowOf)
  BY DEF ComparePositions
<1>2. PICK rowOf : /\ \A s \in both : rowOf[s] \in LocalRows(s, lpos)
                 /\ found = noLocal \cup noBroker \cup Off2(rowOf)
  BY <1>1
<1>3. \A s : /\ held(s) <=> Quantity(s, lpos) # 0
             /\ \A q \in LocalRows(s, lpos) : q = Quantity(s, lpos)
  BY OneRow, TradesFinite
<1>4. noLocal = {} <=> \A s \in Symbols : held(s) \/ ~there(s)
  <2> HIDE DEF held, there
  <2> QED OBVIOUS
<1>5. noBroker = {} <=> \A s \in Symbols : ~held(s) \/ there(s)
  <2> HIDE DEF held, there
  <2> QED OBVIOUS
<1>6. Off2(rowOf) = {} <=> \A s \in both : rowOf[s] = Quantity(s, bpos)
  <2> HIDE DEF both
  <2> QED OBVIOUS
<1>7. found = {} <=> noLocal = {} /\ noBroker = {} /\ Off2(rowOf) = {}
  <2> HIDE DEF noLocal, noBroker, Off2
  <2> QED BY <1>2
<1>8. \A s \in both : rowOf[s] = Quantity(s, lpos)
  BY <1>2, <1>3
<1> HIDE DEF noLocal, noBroker, Off2
<1>9. ASSUME NEW s \in Symbols
      PROVE  Quantity(s, lpos) = Quantity(s, bpos)
               <=> /\ held(s) \/ ~there(s)
                   /\ ~held(s) \/ there(s)
                   /\ s \in both => rowOf[s] = Quantity(s, bpos)
  <2> HIDE DEF held
  <2> QED BY <1>3, <1>8
<1> HIDE DEF held, there
<1>10. \A s \in both : s \in Symbols
  OBVIOUS
<1> HIDE DEF both
<1> QED BY <1>4, <1>5, <1>6, <1>7, <1>9, <1>10

LEMMA AccountCompared ==
  ASSUME NEW mine, NEW trades
  PROVE  CompareAccount(mine, trades) = {}
           <=> /\ ~(Distance(Cash(mine), Cash(trades)) > CashTolerance)
               /\ ~EquityOff(Equity(mine), Equity(trades))
  BY DEF CompareAccount

LEMMA CashType ==
  ASSUME NEW trades \in SUBSET Events PROVE Cash(trades) \in Int
<1>1. Cardinality(trades) \in Nat
  BY ReconciliationAssumption, FS_Subset, FS_CardinalityType
<1> QED BY <1>1, ReconciliationAssumption DEF Cash

\* The books show no difference that counts.
Clean(mine, theirs) ==
  /\ \A s \in Symbols : Quantity(s, mine) = Quantity(s, theirs)
  /\ Distance(Cash(mine), Cash(theirs)) <= CashTolerance
  /\ ~EquityOff(Equity(mine), Equity(theirs))

LEMMA ReportIsRight ==
  ASSUME OneRowPerSymbol, NEW mine \in SUBSET Events, NEW theirs \in SUBSET Events,
         NEW found \in ComparePositions(mine, theirs)
  PROVE  found \cup CompareAccount(mine, theirs) = {} <=> Clean(mine, theirs)
<1>1. found = {} <=> \A s \in Symbols : Quantity(s, mine) = Quantity(s, theirs)
  BY PositionsCompared
<1>2. Distance(Cash(mine), Cash(theirs)) \in Int
  BY CashType DEF Distance
<1>3. ~(Distance(Cash(mine), Cash(theirs)) > CashTolerance)
        <=> Distance(Cash(mine), Cash(theirs)) <= CashTolerance
  BY <1>2, ReconciliationAssumption
<1>4. found \cup CompareAccount(mine, theirs) = {}
        <=> found = {} /\ CompareAccount(mine, theirs) = {}
  OBVIOUS
<1> QED BY <1>1, <1>3, <1>4, AccountCompared DEF Clean

-----------------------------------------------------------------------------
(* Reconciliation: the invariant.                                          *)

Places == {"off", "sleep", "positions", "cash", "broker", "account", "publish"}
Kinds == {"missing_local", "missing_broker", "quantity_mismatch", "cash_mismatch", "equity_mismatch"}
Report == SUBSET (Kinds \X (Symbols \cup {0}))
RunRec == [pc : Places, cancel : BOOLEAN, lpos : SUBSET Events, lcash : SUBSET Events,
           bpos : SUBSET Events, found : Report, moved : BOOLEAN, after : SUBSET Fills]
SvcRec == [running : BOOLEAN, starting : BOOLEAN, stopping : Fills \cup {"no", "periodic"},
           stopped : BOOLEAN, forgot : BOOLEAN, pending : Fills \cup {"none"},
           awaits : [Fills -> Fills \cup {"none"}]]

BooksTypes ==
  /\ broker \subseteq Events /\ local \subseteq Fills /\ told \subseteq local
  /\ covered \subseteq told /\ failures \in 0 .. MaxFailures
  /\ run \in [RecTasks -> RunRec] /\ svc \in SvcRec

\* As long as the books stand still a task holds what they are.
Reads(t) ==
  /\ t.after \subseteq told
  /\ ~t.moved =>
       /\ t.pc \in {"cash", "broker", "account"} => t.lpos = local
       /\ t.pc \in {"broker", "account"} => t.lcash = local
       /\ t.pc = "account" => t.bpos = broker
       /\ t.pc = "publish" /\ OneRowPerSymbol => (t.found = {} <=> Clean(local, broker))

\* The loop of a service that runs is not cancelled, if its start went well.
Looping ==
  "startup" \notin Irregular =>
    (svc.running /\ ~svc.starting => run["periodic"].pc # "off" /\ ~run["periodic"].cancel)

\* A post-fill task that nobody cancelled is the pending one, and so is the one that
\* the handler of a fill waits for, as long as these handlers do not overlap.
OnePending ==
  "overlap" \notin Irregular =>
    /\ \A e, f \in Fills : svc.awaits[e] # "none" /\ svc.awaits[f] # "none" => e = f
    /\ \A e \in Fills : svc.awaits[e] # "none" => svc.pending \in {svc.awaits[e], "none"}
    /\ ~svc.forgot => \A e \in Fills : run[e].pc # "off" /\ ~run[e].cancel => svc.pending = e

BooksInv ==
  BooksTypes /\ (\A r \in RecTasks : Reads(run[r])) /\ Looping /\ OnePending

LEMMA OffIs ==
  /\ Off \in RunRec /\ Off.pc = "off" /\ ~Off.cancel /\ Off.after = {} /\ ~Off.moved
  /\ [Off EXCEPT !.pc = "sleep"] \in RunRec
  /\ [Off EXCEPT !.pc = "sleep"].pc = "sleep" /\ ~[Off EXCEPT !.pc = "sleep"].cancel
  /\ [Off EXCEPT !.pc = "sleep"].after = {}
  BY DEF Off, RunRec, Places, Report

LEMMA StartedIs ==
  ASSUME BooksTypes
  PROVE  /\ Started \in RunRec /\ Started.pc = "positions" /\ ~Started.cancel
         /\ Started.after = told
  BY DEF Started, Off, RunRec, Places, Report, BooksTypes

LEMMA TasksAre ==
  /\ Fills \subseteq RecTasks /\ {"startup", "periodic", "demand"} \subseteq RecTasks
  /\ \A e \in Fills : e \notin {"none", "no", "startup", "periodic", "demand"}
  /\ Fills \subseteq Events
  BY ReconciliationAssumption DEF RecTasks, Events

LEMMA BooksInitially == RecInit => BooksInv
<1> SUFFICES ASSUME RecInit PROVE BooksInv
  OBVIOUS
<1>1. BooksTypes
  BY OffIs, ReconciliationAssumption DEF RecInit, BooksTypes, SvcRec
<1>2. \A r \in RecTasks : Reads(run[r])
  BY OffIs DEF RecInit, Reads
<1>3. Looping
  BY DEF RecInit, Looping
<1>4. OnePending
  BY OffIs, TasksAre DEF RecInit, OnePending
<1> QED BY <1>1, <1>2, <1>3, <1>4 DEF BooksInv

\* A task that holds nothing of the books yet.
Blank(t) == t.pc \in {"off", "sleep", "positions"} /\ t.after \subseteq told

LEMMA BlankReads ==
  ASSUME NEW t, Blank(t), told \subseteq told'
  PROVE  Reads(t)'
  BY DEF Blank, Reads

LEMMA ReadsKept ==
  ASSUME NEW t, Reads(t), UNCHANGED <<local, broker>>, told \subseteq told'
  PROVE  Reads(t)'
  BY DEF Reads

\* One task goes on, the books and the service stay.
Steps(r, t) ==
  /\ run' = [run EXCEPT ![r] = t] /\ UNCHANGED <<broker, local, told, svc>>
  /\ covered' \subseteq told /\ failures' \in 0 .. MaxFailures

\* It was under way, or it ends; the loop of a service that runs does not.
NoWorse(r, t) ==
  /\ t.pc # "off" /\ ~t.cancel => run[r].pc # "off" /\ ~run[r].cancel
  /\ r = "periodic" /\ svc.running /\ ~svc.starting /\ run[r].pc # "off" /\ ~run[r].cancel
       => t.pc # "off" /\ ~t.cancel

LEMMA OneGoesOn ==
  ASSUME BooksInv, NEW r \in RecTasks, NEW t \in RunRec, Steps(r, t), NoWorse(r, t), Reads(t)'
  PROVE  BooksInv'
<1>1. BooksTypes'
  BY DEF Steps, BooksInv, BooksTypes
<1>2. /\ run \in [RecTasks -> RunRec]
      /\ \A q \in RecTasks : run'[q] = IF q = r THEN t ELSE run[q]
  BY DEF Steps, BooksInv, BooksTypes
<1>3. \A q \in RecTasks : Reads(run[q])'
  <2>1. \A q \in RecTasks : q # r => Reads(run[q]) /\ run'[q] = run[q]
    BY <1>2 DEF BooksInv
  <2>2. \A q \in RecTasks : q # r => Reads(run[q])'
    BY <2>1 DEF Reads, Steps, Clean
  <2>3. Reads(run[r])'
    BY <1>2 DEF Reads
  <2> QED BY <2>2, <2>3
<1>4. Looping'
  BY <1>2, TasksAre DEF NoWorse, Steps, BooksInv, Looping
<1>5. OnePending'
  BY <1>2, TasksAre DEF NoWorse, Steps, BooksInv, OnePending
<1> QED BY <1>1, <1>3, <1>4, <1>5 DEF BooksInv

LEMMA BooksParts ==
  ASSUME BooksInv
  PROVE  /\ BooksTypes /\ Looping /\ OnePending /\ run \in [RecTasks -> RunRec] /\ svc \in SvcRec
         /\ \A r \in RecTasks : run[r] \in RunRec /\ Reads(run[r])
         /\ failures \in Nat /\ MaxFailures \in Nat
  BY ReconciliationAssumption DEF BooksInv, BooksTypes

\* The books move: whoever has read some of them has seen the books move.
LEMMA MovingBooks ==
  ASSUME BooksInv, run' = Moving, local \subseteq local', local' \subseteq Fills,
         broker' \subseteq Events, UNCHANGED <<told, svc, covered, failures>>
  PROVE  BooksInv'
<1>0. BooksTypes /\ \A r \in RecTasks : run[r] \in RunRec /\ Reads(run[r])
  BY BooksParts
<1>1. ASSUME NEW r \in RecTasks
      PROVE  /\ run'[r] \in RunRec /\ run'[r].pc = run[r].pc /\ run'[r].cancel = run[r].cancel
             /\ Reads(run[r])'
  <2>1. PICK t \in RunRec : t = run[r]
    BY <1>0
  <2>2. CASE t.pc \in {"off", "sleep", "positions"}
    <3>1. run'[r] = t
      BY <2>1, <2>2 DEF Moving
    <3> QED BY <1>0, <2>1, <2>2, <3>1 DEF Reads
  <2>3. CASE t.pc \notin {"off", "sleep", "positions"}
    <3> DEFINE u == [t EXCEPT !.moved = TRUE]
    <3>1. run'[r] = u
      BY <2>1, <2>3 DEF Moving
    <3>2. u \in RunRec /\ u.pc = t.pc /\ u.cancel = t.cancel /\ u.moved /\ u.after = t.after
      BY DEF RunRec
    <3> HIDE DEF u
    <3> QED BY <1>0, <2>1, <3>1, <3>2 DEF Reads
  <2> QED BY <2>2, <2>3
<1>2. run' = [r \in RecTasks |-> run'[r]]
  BY DEF Moving
<1>3. run' \in [RecTasks -> RunRec]
  BY <1>1, <1>2
<1>4. BooksTypes'
  BY <1>0, <1>3 DEF BooksTypes
<1>5. Looping'
  BY <1>1, TasksAre DEF BooksInv, Looping
<1>6. OnePending'
  BY <1>1, TasksAre DEF BooksInv, OnePending
<1> QED BY <1>1, <1>4, <1>5, <1>6 DEF BooksInv

LEMMA BooksMoving ==
  ASSUME BooksInv, BooksMove
  PROVE  BooksInv'
<1>1. BooksTypes
  BY BooksParts
<1>2. ASSUME NEW e \in Events, BrokerExecutes(e) PROVE BooksInv'
  BY <1>1, <1>2, MovingBooks DEF BrokerExecutes, BooksTypes
<1>3. ASSUME NEW e \in Events, LocalBooks(e) PROVE BooksInv'
  BY <1>1, <1>3, MovingBooks DEF LocalBooks, BooksTypes
<1> QED BY <1>2, <1>3 DEF BooksMove

-----------------------------------------------------------------------------
(* Reconciliation: the tasks.                                              *)

LEMMA ReadingTask ==
  ASSUME BooksInv, NEW r \in RecTasks, ReadPositions(r) \/ ReadCash(r) \/ ReadBroker(r)
  PROVE  BooksInv'
<1>0. /\ BooksTypes /\ run[r] \in RunRec /\ Reads(run[r])
  BY BooksParts
<1>1. PICK t \in RunRec : t = run[r]
  BY <1>0
<1>2. local \in SUBSET Events /\ broker \in SUBSET Events
  BY <1>0, TasksAre DEF BooksTypes
<1>3. CASE ReadPositions(r)
  <2>0. PICK u \in RunRec : u = [t EXCEPT !.pc = "cash", !.lpos = local, !.moved = FALSE]
    BY <1>2 DEF RunRec, Places
  <2>1. run' = [run EXCEPT ![r] = u] /\ t.pc = "positions"
    BY <1>1, <1>3, <2>0 DEF ReadPositions
  <2>2. /\ u.pc = "cash" /\ u.cancel = t.cancel /\ u.after = t.after
        /\ u.lpos = local
    BY <2>0 DEF RunRec
  <2>3. UNCHANGED <<broker, local, told, svc, covered, failures>>
    BY <1>3 DEF ReadPositions
  <2>4. Reads(u)'
    BY <1>0, <1>1, <2>2, <2>3 DEF Reads
  <2>5. Steps(r, u)
    BY <1>0, <2>1, <2>3 DEF Steps, BooksTypes
  <2>6. NoWorse(r, u)
    BY <1>1, <2>1, <2>2 DEF NoWorse
  <2> QED BY <2>4, <2>5, <2>6, OneGoesOn
<1>4. CASE ReadCash(r)
  <2>0. PICK u \in RunRec : u = [t EXCEPT !.pc = "broker", !.lcash = local]
    BY <1>2 DEF RunRec, Places
  <2>1. run' = [run EXCEPT ![r] = u] /\ t.pc = "cash"
    BY <1>1, <1>4, <2>0 DEF ReadCash
  <2>2. /\ u.pc = "broker" /\ u.cancel = t.cancel /\ u.after = t.after
        /\ u.lpos = t.lpos /\ u.lcash = local /\ u.moved = t.moved
    BY <2>0 DEF RunRec
  <2>3. UNCHANGED <<broker, local, told, svc, covered, failures>>
    BY <1>4 DEF ReadCash
  <2>4. Reads(u)'
    BY <1>0, <1>1, <2>1, <2>2, <2>3 DEF Reads
  <2>5. Steps(r, u)
    BY <1>0, <2>1, <2>3 DEF Steps, BooksTypes
  <2>6. NoWorse(r, u)
    BY <1>1, <2>1, <2>2 DEF NoWorse
  <2> QED BY <2>4, <2>5, <2>6, OneGoesOn
<1>5. CASE ReadBroker(r)
  <2>0. PICK u \in RunRec : u = [t EXCEPT !.pc = "account", !.bpos = broker]
    BY <1>2 DEF RunRec, Places
  <2>1. run' = [run EXCEPT ![r] = u] /\ t.pc = "broker"
    BY <1>1, <1>5, <2>0 DEF ReadBroker
  <2>2. /\ u.pc = "account" /\ u.cancel = t.cancel /\ u.after = t.after
        /\ u.lpos = t.lpos /\ u.lcash = t.lcash /\ u.bpos = broker /\ u.moved = t.moved
    BY <2>0 DEF RunRec
  <2>3. UNCHANGED <<broker, local, told, svc, covered, failures>>
    BY <1>5 DEF ReadBroker
  <2>4. Reads(u)'
    BY <1>0, <1>1, <2>1, <2>2, <2>3 DEF Reads
  <2>5. Steps(r, u)
    BY <1>0, <2>1, <2>3 DEF Steps, BooksTypes
  <2>6. NoWorse(r, u)
    BY <1>1, <2>1, <2>2 DEF NoWorse
  <2> QED BY <2>4, <2>5, <2>6, OneGoesOn
<1> QED BY <1>3, <1>4, <1>5

LEMMA ReportType ==
  ASSUME NEW lpos, NEW bpos, NEW mine, NEW theirs, NEW found \in ComparePositions(lpos, bpos)
  PROVE  found \cup CompareAccount(mine, theirs) \in Report
<1>1. found \in Report
  <2> DEFINE held(s) == LocalRows(s, lpos) # {}
             there(s) == Quantity(s, bpos) # 0
             both == {s \in Symbols : held(s) /\ there(s)}
             noLocal == {<<"missing_local", s>> : s \in {x \in Symbols : ~held(x) /\ there(x)}}
             noBroker == {<<"missing_broker", s>> : s \in {x \in Symbols : held(x) /\ ~there(x)}}
             Off2(rowOf) == {<<"quantity_mismatch", s>> : s \in {x \in both : rowOf[x] # Quantity(x, bpos)}}
  <2>1. PICK rowOf : found = noLocal \cup noBroker \cup Off2(rowOf)
    BY DEF ComparePositions
  <2>2. noLocal \subseteq Kinds \X (Symbols \cup {0})
    <3> HIDE DEF held, there
    <3> QED BY DEF Kinds
  <2>3. noBroker \subseteq Kinds \X (Symbols \cup {0})
    <3> HIDE DEF held, there
    <3> QED BY DEF Kinds
  <2>4. Off2(rowOf) \subseteq Kinds \X (Symbols \cup {0})
    <3>1. both \subseteq Symbols
      OBVIOUS
    <3> HIDE DEF both
    <3> QED BY <3>1 DEF Kinds
  <2> HIDE DEF noLocal, noBroker, Off2
  <2> QED BY <2>1, <2>2, <2>3, <2>4 DEF Report
<1>2. CompareAccount(mine, theirs) \in Report
  BY DEF CompareAccount, Report, Kinds
<1> QED BY <1>1, <1>2 DEF Report

LEMMA ComparingTask ==
  ASSUME BooksInv, NEW r \in RecTasks, CompareBooks(r)
  PROVE  BooksInv'
<1>0. /\ BooksTypes /\ run[r] \in RunRec /\ Reads(run[r])
  BY BooksParts
<1>1. PICK t \in RunRec : t = run[r]
  BY <1>0
<1>2. local \in SUBSET Events /\ broker \in SUBSET Events
  BY <1>0, TasksAre DEF BooksTypes
<1>3. PICK found \in ComparePositions(t.lpos, t.bpos) :
        run' = [run EXCEPT ![r] = [t EXCEPT !.pc = "publish",
                                            !.found = found \cup CompareAccount(t.lcash, broker)]]
  BY <1>1 DEF CompareBooks
<1>4. PICK report \in Report : report = found \cup CompareAccount(t.lcash, broker)
  BY ReportType
<1>50. PICK u \in RunRec : u = [t EXCEPT !.pc = "publish", !.found = report]
  BY DEF RunRec, Places
<1>5. run' = [run EXCEPT ![r] = u] /\ t.pc = "account"
  BY <1>1, <1>3, <1>4, <1>50 DEF CompareBooks
<1>6. /\ u.pc = "publish" /\ u.cancel = t.cancel /\ u.after = t.after
      /\ u.found = report /\ u.moved = t.moved
  BY <1>50 DEF RunRec
<1>7. UNCHANGED <<broker, local, told, svc, covered, failures>>
  BY DEF CompareBooks
<1>8. ~t.moved => t.lpos = local /\ t.lcash = local /\ t.bpos = broker
  BY <1>0, <1>1, <1>5 DEF Reads
<1>9. ~t.moved /\ OneRowPerSymbol => (report = {} <=> Clean(local, broker))
  BY <1>2, <1>4, <1>8, ReportIsRight
<1>10. Reads(u)'
  <2>1. Clean(local, broker)' <=> Clean(local, broker)
    BY <1>7 DEF Clean
  <2> QED BY <1>0, <1>1, <1>6, <1>7, <1>9, <2>1 DEF Reads
<1>11. Steps(r, u)
  BY <1>0, <1>5, <1>7 DEF Steps, BooksTypes
<1>12. NoWorse(r, u)
  BY <1>1, <1>5, <1>6 DEF NoWorse
<1> QED BY <1>10, <1>11, <1>12, OneGoesOn

LEMMA BooksStutter ==
  ASSUME BooksInv, UNCHANGED recvars
  PROVE  BooksInv'
  BY DEF BooksInv, BooksTypes, Reads, Clean, Looping, OnePending, recvars, PendingFill

\* What a task read does not depend on whether it was cancelled.
Alike(a, b) ==
  /\ a.pc = b.pc /\ a.after = b.after /\ a.lpos = b.lpos /\ a.lcash = b.lcash
  /\ a.bpos = b.bpos /\ a.found = b.found /\ a.moved = b.moved

\* The tasks of a step that leaves the books alone.
Tasks2 == \A r \in RecTasks : Alike(run'[r], run[r]) \/ Blank(run[r])'

LEMMA ReadsOfAll ==
  ASSUME BooksInv, UNCHANGED <<local, broker>>, told \subseteq told', Tasks2
  PROVE  \A r \in RecTasks : Reads(run[r])'
<1> SUFFICES ASSUME NEW r \in RecTasks PROVE Reads(run[r])'
  OBVIOUS
<1>1. Reads(run[r])
  BY BooksParts
<1>2. CASE Alike(run'[r], run[r])
  BY <1>1, <1>2 DEF Alike, Reads, Clean
<1>3. CASE Blank(run[r])'
  BY <1>3 DEF Blank, Reads
<1> QED BY <1>2, <1>3 DEF Tasks2

\* A cancelled task keeps everything else.
LEMMA CancelIs ==
  ASSUME BooksInv, NEW r \in RecTasks
  PROVE  /\ Cancel(r) \in [RecTasks -> RunRec]
         /\ \A q \in RecTasks : Alike(Cancel(r)[q], run[q]) /\ (q # r => Cancel(r)[q] = run[q])
         /\ Cancel(r)[r].cancel \/ Cancel(r)[r].pc = "off"
         /\ Cancel(r)[r].pc = run[r].pc
<1>1. run \in [RecTasks -> RunRec] /\ run[r] \in RunRec
  BY BooksParts
<1>2. PICK t \in RunRec : t = run[r]
  BY <1>1
<1>3. PICK c \in BOOLEAN : c = (run[r].pc # "off")
  OBVIOUS
<1>4. PICK u : u = [t EXCEPT !.cancel = c]
  OBVIOUS
<1>5. u \in RunRec /\ Alike(u, t) /\ u.cancel = c /\ u.pc = t.pc
  BY <1>4 DEF RunRec, Alike
<1>6. Cancel(r) = [run EXCEPT ![r] = u]
  BY <1>1, <1>2, <1>3, <1>4 DEF Cancel
<1>7. \A q \in RecTasks : q # r => Cancel(r)[q] = run[q]
  BY <1>1, <1>6
<1>8. Cancel(r)[r] = u
  BY <1>1, <1>6
<1> QED BY <1>1, <1>2, <1>3, <1>5, <1>6, <1>7, <1>8 DEF Alike

\* A task that holds nothing is put at the place of another one.
Puts(r, t) == run' = [run EXCEPT ![r] = t] /\ Blank(t)'

LEMMA PutIs ==
  ASSUME BooksInv, NEW r \in RecTasks, NEW t \in RunRec, Puts(r, t)
  PROVE  /\ run' \in [RecTasks -> RunRec] /\ run'[r] = t
         /\ \A q \in RecTasks : q # r => run'[q] = run[q]
         /\ Tasks2
<1>1. run \in [RecTasks -> RunRec]
  BY BooksParts
<1>2. /\ run' \in [RecTasks -> RunRec] /\ run'[r] = t
      /\ \A q \in RecTasks : q # r => run'[q] = run[q]
  BY <1>1 DEF Puts
<1> QED BY <1>2 DEF Tasks2, Alike, Puts, Blank

LEMMA CancelledTask ==
  ASSUME BooksInv, NEW r \in RecTasks, Cancelled(r)
  PROVE  BooksInv'
<1>1. Steps(r, Off)
  BY BooksParts DEF Cancelled, Steps, BooksTypes
<1>2. NoWorse(r, Off)
  BY OffIs DEF NoWorse, Cancelled
<1>3. Reads(Off)'
  BY OffIs DEF Reads
<1> QED BY <1>1, <1>2, <1>3, OffIs, OneGoesOn

LEMMA ReturnedIs ==
  ASSUME NEW r \in RecTasks
  PROVE  /\ Returned(r) \in RunRec /\ Returned(r).pc \in {"off", "sleep"} /\ ~Returned(r).cancel
         /\ Returned(r).after = {} /\ (Returned(r).pc # "off" <=> r = "periodic")
  BY OffIs DEF Returned

LEMMA PublishingTask ==
  ASSUME BooksInv, NEW r \in RecTasks, ~run[r].cancel, Publish(r)
  PROVE  BooksInv'
<1>0. BooksTypes /\ Reads(run[r]) /\ run[r] \in RunRec
  BY BooksParts
<1>1. covered' \subseteq told
  BY <1>0 DEF Publish, Reads, BooksTypes
<1>2. CASE r # "startup"
  <2>1. Steps(r, Returned(r))
    BY <1>0, <1>1, <1>2 DEF Publish, Steps, BooksTypes
  <2>2. NoWorse(r, Returned(r))
    BY ReturnedIs DEF NoWorse, Publish
  <2>3. Reads(Returned(r))'
    BY ReturnedIs DEF Reads
  <2> QED BY <2>1, <2>2, <2>3, ReturnedIs, OneGoesOn
<1>3. CASE r = "startup"
  <2> DEFINE asleep == [Off EXCEPT !.pc = "sleep"]
  <2>1. /\ run' = [run EXCEPT !["startup"] = Off, !["periodic"] = asleep]
        /\ svc' = [svc EXCEPT !.starting = FALSE] /\ UNCHANGED <<broker, local, told, failures>>
    BY <1>3 DEF Publish
  <2>2. /\ run \in [RecTasks -> RunRec] /\ svc \in SvcRec /\ Looping /\ OnePending
    BY BooksParts
  <2>3. /\ asleep \in RunRec /\ asleep.pc = "sleep" /\ ~asleep.cancel /\ asleep.after = {}
    BY OffIs
  <2> HIDE DEF asleep
  <2>4. /\ run' \in [RecTasks -> RunRec] /\ run'["startup"] = Off /\ run'["periodic"] = asleep
        /\ \A q \in RecTasks : q \notin {"startup", "periodic"} => run'[q] = run[q]
    BY <2>1, <2>2, <2>3, OffIs, TasksAre
  <2>5. /\ svc' \in SvcRec /\ svc'.pending = svc.pending /\ svc'.awaits = svc.awaits
        /\ svc'.forgot = svc.forgot
    BY <2>1, <2>2 DEF SvcRec
  <2>6. Tasks2
    BY <2>3, <2>4, OffIs DEF Tasks2, Alike, Blank
  <2>7. BooksTypes'
    BY <1>0, <1>1, <2>1, <2>4, <2>5 DEF BooksTypes
  <2>8. \A q \in RecTasks : Reads(run[q])'
    BY <2>1, <2>6, ReadsOfAll
  <2>9. Looping'
    BY <2>3, <2>4 DEF Looping
  <2>10. OnePending'
    BY <2>2, <2>4, <2>5, TasksAre DEF OnePending
  <2> QED BY <2>7, <2>8, <2>9, <2>10 DEF BooksInv
<1> QED BY <1>2, <1>3

LEMMA FailingTask ==
  ASSUME BooksInv, NEW r \in RecTasks, ReadFails(r)
  PROVE  BooksInv'
<1>0. BooksTypes /\ svc \in SvcRec /\ run[r] \in RunRec /\ failures \in Nat /\ MaxFailures \in Nat
  BY BooksParts
<1>1. failures' \in 0 .. MaxFailures
  BY <1>0 DEF ReadFails
<1>2. PICK t \in RunRec : t = Returned(r)
  BY ReturnedIs
<1>3. /\ t.pc \in {"off", "sleep"} /\ ~t.cancel /\ t.after = {} /\ (t.pc # "off" <=> r = "periodic")
  BY <1>2, ReturnedIs
<1>4. run' = [run EXCEPT ![r] = t]
  BY <1>2 DEF ReadFails, AfterFailure
<1>5. Puts(r, t)
  BY <1>3, <1>4 DEF Puts, Blank
<1>6. PICK b \in BOOLEAN : b = (svc.starting /\ r # "startup")
  BY <1>0 DEF SvcRec
<1>7. svc' = [svc EXCEPT !.starting = b]
  BY <1>0, <1>6 DEF ReadFails, SvcRec
<1>8. /\ svc' \in SvcRec /\ svc'.pending = svc.pending /\ svc'.awaits = svc.awaits
      /\ svc'.forgot = svc.forgot /\ svc'.running = svc.running /\ svc'.starting = b
  BY <1>0, <1>7 DEF SvcRec
<1>9. UNCHANGED <<broker, local, told, covered>>
  BY DEF ReadFails
<1>10. /\ run' \in [RecTasks -> RunRec] /\ run'[r] = t
       /\ \A q \in RecTasks : q # r => run'[q] = run[q]
       /\ Tasks2
  BY <1>5, PutIs
<1>11. BooksTypes'
  BY <1>0, <1>1, <1>8, <1>9, <1>10 DEF BooksTypes
<1>12. \A q \in RecTasks : Reads(run[q])'
  BY <1>9, <1>10, ReadsOfAll
<1>13. Looping'
  <2>1. "startup" \notin Irregular => b = svc.starting
    BY <1>0, <1>6 DEF ReadFails, SvcRec
  <2>2. Looping
    BY BooksParts
  <2>3. run'["periodic"] = run["periodic"] \/ (run'["periodic"] = t /\ t.pc # "off")
    BY <1>3, <1>10, TasksAre
  <2> QED BY <1>3, <1>8, <2>1, <2>2, <2>3 DEF Looping
<1>14. OnePending'
  <2>1. OnePending
    BY BooksParts
  <2>2. \A e \in Fills : e \in RecTasks /\ e # "periodic"
    BY TasksAre
  <2>3. \A e \in Fills : run'[e] = run[e] \/ run'[e].pc = "off"
    BY <1>3, <1>10, <2>2
  <2> QED BY <1>8, <2>1, <2>3 DEF OnePending
<1> QED BY <1>11, <1>12, <1>13, <1>14 DEF BooksInv

-----------------------------------------------------------------------------
(* Reconciliation: the service.                                            *)

\* What the loop and the fills see of the service; a step may leave it alone.
SameFills == svc'.pending = svc.pending /\ svc'.awaits = svc.awaits /\ svc'.forgot = svc.forgot

\* The tasks of the fills are what they were, cancelled, or ended.
FillsCalm ==
  \A e \in Fills : run'[e].pc # "off" /\ ~run'[e].cancel => run[e].pc # "off" /\ ~run[e].cancel

LEMMA FillsUntouched ==
  ASSUME OnePending, SameFills, FillsCalm
  PROVE  OnePending'
  BY DEF OnePending, SameFills, FillsCalm

\* A step of the service that does not touch the books.
Serves ==
  /\ UNCHANGED <<broker, local, covered, failures>> /\ told \subseteq told' /\ told' \subseteq local
  /\ run' \in [RecTasks -> RunRec] /\ svc' \in SvcRec /\ Tasks2

LEMMA ServiceKeeps ==
  ASSUME BooksInv, Serves, Looping', OnePending'
  PROVE  BooksInv'
<1>1. BooksTypes
  BY BooksParts
<1>2. BooksTypes'
  BY <1>1 DEF BooksTypes, Serves
<1>3. \A r \in RecTasks : Reads(run[r])'
  BY ReadsOfAll DEF Serves
<1> QED BY <1>2, <1>3 DEF BooksInv

LEMMA StartingService ==
  ASSUME BooksInv, Start
  PROVE  BooksInv'
<1>0. BooksTypes /\ svc \in SvcRec /\ OnePending
  BY BooksParts
<1>1. PICK t \in RunRec : t = Started
  BY <1>0, StartedIs
<1>2. t.pc = "positions" /\ ~t.cancel /\ t.after = told
  BY <1>0, <1>1, StartedIs
<1>3. /\ run' = [run EXCEPT !["startup"] = t] /\ UNCHANGED <<broker, local, told, covered, failures>>
  BY <1>1 DEF Start
<1>4. Puts("startup", t) /\ "startup" \in RecTasks
  BY <1>2, <1>3, TasksAre DEF Puts, Blank
<1>5. /\ run' \in [RecTasks -> RunRec] /\ Tasks2
      /\ \A q \in RecTasks : q # "startup" => run'[q] = run[q]
  BY <1>4, PutIs
<1>6. svc' \in SvcRec /\ SameFills /\ svc'.starting
  BY <1>0 DEF Start, SvcRec, SameFills
<1>7. Serves
  BY <1>0, <1>3, <1>5, <1>6 DEF Serves, BooksTypes
<1>8. Looping'
  BY <1>6 DEF Looping
<1>9. FillsCalm
  BY <1>5, TasksAre DEF FillsCalm
<1> QED BY <1>0, <1>6, <1>7, <1>8, <1>9, FillsUntouched, ServiceKeeps

LEMMA StoppingService ==
  ASSUME BooksInv, Stop
  PROVE  BooksInv'
<1>0. BooksTypes /\ svc \in SvcRec /\ OnePending /\ "periodic" \in RecTasks
  BY BooksParts, TasksAre
<1>1. run' = Cancel("periodic") /\ UNCHANGED <<broker, local, told, covered, failures>>
  BY DEF Stop
<1>2. /\ run' \in [RecTasks -> RunRec]
      /\ \A q \in RecTasks : Alike(run'[q], run[q]) /\ (q # "periodic" => run'[q] = run[q])
  BY <1>0, <1>1, CancelIs
<1>3. svc' \in SvcRec /\ SameFills /\ ~svc'.running
  BY <1>0 DEF Stop, SvcRec, SameFills
<1>4. Serves
  BY <1>0, <1>1, <1>2, <1>3 DEF Serves, BooksTypes, Tasks2
<1>5. Looping'
  BY <1>3 DEF Looping
<1>6. FillsCalm
  BY <1>2, TasksAre DEF FillsCalm
<1> QED BY <1>0, <1>3, <1>4, <1>5, <1>6, FillsUntouched, ServiceKeeps

LEMMA StopGoingOn ==
  ASSUME BooksInv, StopGoesOn
  PROVE  BooksInv'
<1>0. /\ BooksTypes /\ svc \in SvcRec /\ OnePending /\ Looping /\ run \in [RecTasks -> RunRec]
  BY BooksParts
<1>1. UNCHANGED <<broker, local, told, covered, failures>>
  BY DEF StopGoesOn
<1>2. CASE run' = run /\ svc' = [svc EXCEPT !.stopping = "no"]
  <2>1. svc' \in SvcRec /\ SameFills /\ svc'.running = svc.running /\ svc'.starting = svc.starting
    BY <1>0, <1>2 DEF SvcRec, SameFills
  <2>2. Serves /\ FillsCalm
    BY <1>0, <1>1, <1>2, <2>1 DEF Serves, BooksTypes, Tasks2, Alike, FillsCalm
  <2>3. Looping'
    BY <1>0, <1>2, <2>1 DEF Looping
  <2> QED BY <1>0, <2>1, <2>2, <2>3, FillsUntouched, ServiceKeeps
<1>3. CASE /\ svc.pending # "none" /\ run' = Cancel(svc.pending)
           /\ svc' = [svc EXCEPT !.stopping = svc.pending]
  <2>1. PICK p \in Fills : p = svc.pending
    BY <1>0, <1>3 DEF SvcRec
  <2>2. p \in RecTasks /\ p # "periodic"
    BY <2>1, TasksAre
  <2>3. /\ run' \in [RecTasks -> RunRec] /\ (run'[p].cancel \/ run'[p].pc = "off")
        /\ \A q \in RecTasks : Alike(run'[q], run[q]) /\ (q # p => run'[q] = run[q])
    BY <1>3, <2>1, <2>2, CancelIs
  <2>4. svc' = [svc EXCEPT !.stopping = p]
    BY <1>3, <2>1
  <2>5. svc' \in SvcRec /\ SameFills /\ svc'.running = svc.running /\ svc'.starting = svc.starting
    BY <1>0, <2>4 DEF SvcRec, SameFills
  <2>6. Serves
    BY <1>0, <1>1, <2>3, <2>5 DEF Serves, BooksTypes, Tasks2
  <2>7. FillsCalm
    BY <2>3, TasksAre DEF FillsCalm
  <2>8. Looping'
    BY <1>0, <2>2, <2>3, <2>5, TasksAre DEF Looping
  <2> QED BY <1>0, <2>5, <2>6, <2>7, <2>8, FillsUntouched, ServiceKeeps
<1>4. CASE /\ run' = run
           /\ svc' = [svc EXCEPT !.stopping = "no", !.pending = "none",
                                 !.forgot = svc.forgot \/ PendingFill]
  <2>1. PICK g \in BOOLEAN : g = (svc.forgot \/ PendingFill)
    BY <1>0 DEF SvcRec, PendingFill
  <2>2. svc' = [svc EXCEPT !.stopping = "no", !.pending = "none", !.forgot = g]
    BY <1>4, <2>1
  <2>3. /\ svc' \in SvcRec /\ svc'.running = svc.running /\ svc'.starting = svc.starting
        /\ svc'.pending = "none" /\ svc'.awaits = svc.awaits /\ svc'.forgot = g
    BY <1>0, <2>2 DEF SvcRec
  <2>4. Serves
    BY <1>0, <1>1, <1>4, <2>3 DEF Serves, BooksTypes, Tasks2, Alike
  <2>5. Looping'
    BY <1>0, <1>4, <2>3 DEF Looping
  <2>6. OnePending'
    <3>1. \A e \in Fills : e # "none"
      BY TasksAre
    <3>2. g = FALSE => ~svc.forgot /\ ~PendingFill
      BY <2>1
    <3>3. "overlap" \notin Irregular /\ g = FALSE =>
            \A e \in Fills : ~(run[e].pc # "off" /\ ~run[e].cancel)
      BY <1>0, <3>1, <3>2 DEF OnePending, PendingFill
    <3> QED BY <1>0, <1>4, <2>1, <2>3, <3>3 DEF OnePending
  <2> QED BY <2>4, <2>5, <2>6, ServiceKeeps
<1> QED BY <1>2, <1>3, <1>4 DEF StopGoesOn

LEMMA WakingLoop ==
  ASSUME BooksInv, Wake
  PROVE  BooksInv'
<1>0. BooksTypes /\ svc \in SvcRec /\ OnePending /\ Looping /\ "periodic" \in RecTasks
  BY BooksParts, TasksAre
<1>1. PICK t \in RunRec : t = IF svc.running THEN Started ELSE Off
  BY <1>0, StartedIs, OffIs
<1>2. /\ t.pc \in {"off", "positions"} /\ ~t.cancel /\ t.after \subseteq told
      /\ svc.running => t.pc # "off"
  BY <1>0, <1>1, StartedIs, OffIs
<1>3. run' = [run EXCEPT !["periodic"] = t] /\ UNCHANGED <<broker, local, told, svc, covered, failures>>
  BY <1>1 DEF Wake
<1>4. Puts("periodic", t)
  BY <1>2, <1>3 DEF Puts, Blank
<1>5. /\ run' \in [RecTasks -> RunRec] /\ Tasks2 /\ run'["periodic"] = t
      /\ \A q \in RecTasks : q # "periodic" => run'[q] = run[q]
  BY <1>0, <1>4, PutIs
<1>6. Serves /\ SameFills
  BY <1>0, <1>3, <1>5 DEF Serves, BooksTypes, SameFills
<1>7. Looping'
  BY <1>2, <1>3, <1>5 DEF Looping
<1>8. FillsCalm
  BY <1>5, TasksAre DEF FillsCalm
<1> QED BY <1>0, <1>6, <1>7, <1>8, FillsUntouched, ServiceKeeps

\* On demand, or when the debounce delay of a fill ends.
LEMMA StartingTask ==
  ASSUME BooksInv, NEW r \in RecTasks, run' = [run EXCEPT ![r] = Started], r # "periodic",
         UNCHANGED <<broker, local, told, svc, covered, failures>>,
         r \in Fills => run[r].pc # "off" /\ ~run[r].cancel
  PROVE  BooksInv'
<1>0. BooksTypes /\ svc \in SvcRec /\ OnePending /\ Looping
  BY BooksParts
<1>1. PICK t \in RunRec : t = Started
  BY <1>0, StartedIs
<1>2. t.pc = "positions" /\ ~t.cancel /\ t.after = told
  BY <1>0, <1>1, StartedIs
<1>3. Puts(r, t)
  BY <1>1, <1>2 DEF Puts, Blank
<1>4. /\ run' \in [RecTasks -> RunRec] /\ Tasks2 /\ run'[r] = t
      /\ \A q \in RecTasks : q # r => run'[q] = run[q]
  BY <1>3, PutIs
<1>5. Serves /\ SameFills
  BY <1>0, <1>4 DEF Serves, BooksTypes, SameFills
<1>6. Looping'
  BY <1>0, <1>4, TasksAre DEF Looping
<1>7. FillsCalm
  BY <1>4, TasksAre DEF FillsCalm
<1> QED BY <1>0, <1>5, <1>6, <1>7, FillsUntouched, ServiceKeeps

LEMMA FillTold ==
  ASSUME BooksInv, NEW e \in Fills, OnFill(e)
  PROVE  BooksInv'
<1>0. BooksTypes /\ svc \in SvcRec /\ OnePending /\ Looping /\ e \in RecTasks
  BY BooksParts, TasksAre
<1>1. /\ UNCHANGED <<broker, local, covered, failures>> /\ told \subseteq told' /\ told' \subseteq local
  BY <1>0 DEF OnFill, BooksTypes
<1>2. "overlap" \notin Irregular => \A f \in Fills : svc.awaits[f] = "none"
  BY DEF OnFill, Entering
<1>3. CASE PendingFill
  <2>1. PICK p \in Fills : p = svc.pending
    BY <1>0, <1>3 DEF SvcRec, PendingFill
  <2>2. p \in RecTasks /\ p # "periodic" /\ p # "none"
    BY <2>1, TasksAre
  <2>3. run' = Cancel(p) /\ svc' = [svc EXCEPT !.awaits[e] = p]
    BY <1>3, <2>1 DEF OnFill
  <2>4. /\ run' \in [RecTasks -> RunRec] /\ (run'[p].cancel \/ run'[p].pc = "off")
        /\ \A q \in RecTasks : Alike(run'[q], run[q]) /\ (q # p => run'[q] = run[q])
    BY <2>2, <2>3, CancelIs
  <2>5. /\ svc' \in SvcRec /\ svc'.running = svc.running /\ svc'.starting = svc.starting
        /\ svc'.pending = svc.pending /\ svc'.forgot = svc.forgot /\ svc'.awaits[e] = p
        /\ \A f \in Fills : f # e => svc'.awaits[f] = svc.awaits[f]
    BY <1>0, <2>3 DEF SvcRec
  <2>6. Serves
    BY <1>1, <2>4, <2>5 DEF Serves, Tasks2
  <2>7. Looping'
    BY <1>0, <2>2, <2>4, <2>5, TasksAre DEF Looping
  <2>8. FillsCalm
    BY <2>4, TasksAre DEF FillsCalm
  <2>9. OnePending'
    BY <1>0, <1>2, <2>1, <2>2, <2>5, <2>8 DEF OnePending, FillsCalm
  <2> QED BY <2>6, <2>7, <2>9, ServiceKeeps
<1>4. CASE ~PendingFill
  <2>1. PICK t \in RunRec : t = [Off EXCEPT !.pc = "sleep"]
    BY OffIs
  <2>2. t.pc = "sleep" /\ ~t.cancel /\ t.after = {}
    BY <2>1, OffIs
  <2>3. run' = [run EXCEPT ![e] = t] /\ svc' = [svc EXCEPT !.pending = e]
    BY <1>4, <2>1 DEF OnFill
  <2>4. Puts(e, t)
    BY <2>2, <2>3 DEF Puts, Blank
  <2>5. /\ run' \in [RecTasks -> RunRec] /\ Tasks2 /\ run'[e] = t
        /\ \A q \in RecTasks : q # e => run'[q] = run[q]
    BY <1>0, <2>4, PutIs
  <2>6. /\ svc' \in SvcRec /\ svc'.running = svc.running /\ svc'.starting = svc.starting
        /\ svc'.pending = e /\ svc'.forgot = svc.forgot /\ svc'.awaits = svc.awaits
    BY <1>0, <2>3 DEF SvcRec
  <2>7. Serves
    BY <1>1, <2>5, <2>6 DEF Serves
  <2>8. Looping'
    BY <1>0, <2>5, <2>6, TasksAre DEF Looping
  <2>9. OnePending'
    <3>1. \A f \in Fills : f \in RecTasks /\ f # "none"
      BY TasksAre
    <3>2. "overlap" \notin Irregular /\ ~svc.forgot =>
            \A f \in Fills : ~(run[f].pc # "off" /\ ~run[f].cancel)
      BY <1>0, <1>4, <3>1 DEF OnePending, PendingFill
    <3> QED BY <1>2, <2>5, <2>6, <3>1, <3>2 DEF OnePending
  <2> QED BY <2>7, <2>8, <2>9, ServiceKeeps
<1> QED BY <1>3, <1>4

LEMMA FillResumed ==
  ASSUME BooksInv, NEW e \in Fills, OnFillResumes(e)
  PROVE  BooksInv'
<1>0. BooksTypes /\ svc \in SvcRec /\ OnePending /\ Looping /\ e \in RecTasks
  BY BooksParts, TasksAre
<1>1. PICK t \in RunRec : t = [Off EXCEPT !.pc = "sleep"]
  BY OffIs
<1>2. t.pc = "sleep" /\ ~t.cancel /\ t.after = {}
  BY <1>1, OffIs
<1>3. /\ run' = [run EXCEPT ![e] = t] /\ svc' = [svc EXCEPT !.pending = e, !.awaits[e] = "none"]
      /\ UNCHANGED <<broker, local, told, covered, failures>>
      /\ svc.awaits[e] # "none" /\ run[svc.awaits[e]].pc = "off"
  BY <1>1 DEF OnFillResumes, Replacement
<1>4. Puts(e, t)
  BY <1>2, <1>3 DEF Puts, Blank
<1>5. /\ run' \in [RecTasks -> RunRec] /\ Tasks2 /\ run'[e] = t
      /\ \A q \in RecTasks : q # e => run'[q] = run[q]
  BY <1>0, <1>4, PutIs
<1>6. /\ svc' \in SvcRec /\ svc'.running = svc.running /\ svc'.starting = svc.starting
      /\ svc'.pending = e /\ svc'.forgot = svc.forgot /\ svc'.awaits[e] = "none"
      /\ \A f \in Fills : f # e => svc'.awaits[f] = svc.awaits[f]
  BY <1>0, <1>3 DEF SvcRec
<1>7. Serves
  BY <1>0, <1>3, <1>5, <1>6 DEF Serves, BooksTypes
<1>8. Looping'
  BY <1>0, <1>5, <1>6, TasksAre DEF Looping
<1>9. OnePending'
  <2>1. \A f \in Fills : f \in RecTasks /\ f # "none"
    BY TasksAre
  <2>2. "overlap" \notin Irregular => \A f \in Fills : f # e => svc.awaits[f] = "none"
    BY <1>0, <1>3 DEF OnePending
  <2>3. "overlap" \notin Irregular /\ ~svc.forgot =>
          \A f \in Fills : ~(run[f].pc # "off" /\ ~run[f].cancel)
    BY <1>0, <1>3, <2>1 DEF OnePending
  <2> QED BY <1>5, <1>6, <2>1, <2>2, <2>3 DEF OnePending
<1> QED BY <1>7, <1>8, <1>9, ServiceKeeps

-----------------------------------------------------------------------------
(* Reconciliation: every step, and what follows.                           *)

LEMMA TaskSteps ==
  ASSUME BooksInv, NEW r \in RecTasks, TaskStep(r)
  PROVE  BooksInv'
<1>1. CASE Cancelled(r)
  BY <1>1, CancelledTask
<1>2. CASE ~run[r].cancel /\ (ReadPositions(r) \/ ReadCash(r) \/ ReadBroker(r))
  BY <1>2, ReadingTask
<1>3. CASE ~run[r].cancel /\ CompareBooks(r)
  BY <1>3, ComparingTask
<1>4. CASE ~run[r].cancel /\ Publish(r)
  BY <1>4, PublishingTask
<1>5. CASE DebounceEnds(r)
  <2>1. r # "periodic" /\ run[r].pc # "off" /\ ~run[r].cancel
    BY <1>5, TasksAre DEF DebounceEnds
  <2> QED BY <1>5, <2>1, StartingTask DEF DebounceEnds
<1> QED BY <1>1, <1>2, <1>3, <1>4, <1>5 DEF TaskStep

LEMMA BooksStep ==
  ASSUME BooksInv, [RecNext]_recvars
  PROVE  BooksInv'
<1>1. CASE BooksMove
  BY <1>1, BooksMoving
<1>2. ASSUME NEW e \in Fills, OnFill(e) PROVE BooksInv'
  BY <1>2, FillTold
<1>3. ASSUME NEW r \in RecTasks, ReadFails(r) PROVE BooksInv'
  BY <1>3, FailingTask
<1>4. CASE Start
  BY <1>4, StartingService
<1>5. CASE Stop
  BY <1>5, StoppingService
<1>6. CASE Loop
  <2>1. CASE Wake
    BY <2>1, WakingLoop
  <2>2. CASE StopGoesOn
    BY <2>2, StopGoingOn
  <2>3. ASSUME NEW e \in Fills, OnFillResumes(e) PROVE BooksInv'
    BY <2>3, FillResumed
  <2>4. ASSUME NEW r \in RecTasks, TaskStep(r) PROVE BooksInv'
    BY <2>4, TaskSteps
  <2> QED BY <1>6, <2>1, <2>2, <2>3, <2>4 DEF Loop
<1>7. CASE OnDemand
  <2>1. "demand" \in RecTasks /\ "demand" \notin Fills
    BY TasksAre
  <2> QED BY <1>7, <2>1, StartingTask DEF OnDemand
<1>8. CASE UNCHANGED recvars
  BY <1>8, BooksStutter
<1>9. CASE Service
  BY <1>9, <1>2, <1>3, <1>4, <1>5, <1>6 DEF Service
<1> QED BY <1>1, <1>7, <1>8, <1>9 DEF RecNext

\* What holds whatever Irregular allows.
BooksSoundUnless ==
  /\ RecTypeOK /\ QuietReportIsRight
  /\ "startup" \notin Irregular => RunningMeansLooping
  /\ "overlap" \notin Irregular => OneFillTask

LEMMA BooksImply ==
  ASSUME BooksInv
  PROVE  BooksSoundUnless
<1>0. BooksTypes /\ run \in [RecTasks -> RunRec] /\ svc \in SvcRec /\ Looping /\ OnePending
  BY BooksParts
<1>1. RecTypeOK
  <2>1. \A r \in RecTasks : run[r].pc \in Places /\ run[r].cancel \in BOOLEAN /\ run[r].moved \in BOOLEAN
    BY <1>0 DEF RunRec
  <2>2. svc.pending \in Fills \cup {"none"}
    BY <1>0 DEF SvcRec
  <2> QED BY <1>0, <2>1, <2>2 DEF RecTypeOK, BooksTypes, Places
<1>2. QuietReportIsRight
  <2> SUFFICES ASSUME OneRowPerSymbol, NEW r \in RecTasks, run[r].pc = "publish", ~run[r].moved
               PROVE  run[r].found = {} <=> Clean(local, broker)
    BY DEF QuietReportIsRight, Clean
  <2>1. Reads(run[r])
    BY BooksParts
  <2> QED BY <2>1 DEF Reads
<1>3. "startup" \notin Irregular => RunningMeansLooping
  BY <1>0 DEF Looping, RunningMeansLooping
<1>4. "overlap" \notin Irregular => OneFillTask
  <2> DEFINE live == {r \in Fills : run[r].pc # "off" /\ ~run[r].cancel}
  <2> SUFFICES ASSUME "overlap" \notin Irregular, ~svc.forgot PROVE Cardinality(live) <= 1
    BY DEF OneFillTask
  <2>1. live \subseteq {svc.pending}
    BY <1>0 DEF OnePending
  <2>2. Cardinality({svc.pending}) = 1 /\ IsFiniteSet({svc.pending})
    BY FS_Singleton
  <2> HIDE DEF live
  <2>3. Cardinality(live) <= Cardinality({svc.pending})
    BY <2>1, <2>2, FS_Subset
  <2> QED BY <2>2, <2>3
<1> QED BY <1>1, <1>2, <1>3, <1>4 DEF BooksSoundUnless

\* The reconciliation service, whatever happens: a report made while the books stood
\* still is clean exactly when they match; if the reconciliation of start() does not
\* raise, a service that runs loops; and if the handlers of two fills do not overlap, a
\* fill replaces the task of the fill before (service.py:57-243, comparator.py:22-152).
THEOREM BooksAreSoundUnless == RecSpec => []BooksSoundUnless
<1>1. RecInit => BooksInv
  BY BooksInitially
<1>2. BooksInv /\ [RecNext]_recvars => BooksInv'
  BY BooksStep
<1>3. BooksInv => BooksSoundUnless
  BY BooksImply
<1> QED BY <1>1, <1>2, <1>3, PTL DEF RecSpec

\* All of it holds of a service to which neither happens: reports made while the books
\* stood still are right, the loop lives, one fill task at most (service.py:57-243).
THEOREM BooksAreSound ==
  ASSUME Irregular = {}
  PROVE  RecSpec => []BooksSound
<1>1. BooksSoundUnless => BooksSound
  BY DEF BooksSoundUnless, BooksSound
<1> QED BY <1>1, BooksAreSoundUnless, PTL

-----------------------------------------------------------------------------
(* WriteBuffer: what a restart restores, line by line.  A fold over a      *)
(* sequence is a recursion over the sets of its indices; it has a solution *)
(* on every sequence, and the solution on a prefix does not depend on what *)
(* follows.                                                                *)

Lines == Entries \cup {"torn", "unreadable"}
BufferKeys == {KeyOf[e] : e \in Entries}
Buffers == [entries : Seq(Entries), keys : SUBSET BufferKeys, bytes : Nat]

\* The recursion that Restored is.
RestoredUnfold(g, lines) ==
  [s \in SUBSET DOMAIN lines |->
     IF s = {} THEN EmptyBuffer ELSE RestoredStep(g[s \ {Max(s)}], lines[Max(s)])]

RestoredRecursion(lines) == CHOOSE g : g = RestoredUnfold(g, lines)

LEMMA RestoredIs == \A lines : Restored(lines) = RestoredRecursion(lines)[DOMAIN lines]
  BY DEF Restored, RestoredRecursion, RestoredUnfold, FoldLeft, MapThenFoldSet

LEMMA WriteIs ==
  ASSUME NEW e \in Entries
  PROVE  e \notin {"torn", "unreadable"} /\ KeyOf[e] \in BufferKeys /\ SizeOf[e] \in Nat
  BY WriteBufferAssumption DEF BufferKeys

LEMMA Append1Is ==
  ASSUME NEW b \in Buffers, NEW e \in Entries
  PROVE  /\ Append1(b, e) \in Buffers
         /\ Append1(b, e).entries = Append(b.entries, e)
         /\ Append1(b, e).keys = b.keys \cup {KeyOf[e]}
         /\ Append1(b, e).bytes = b.bytes + SizeOf[e]
<1>1. b.entries \in Seq(Entries) /\ b.keys \in SUBSET BufferKeys /\ b.bytes \in Nat
  BY DEF Buffers
<1>2. PICK s \in Seq(Entries), ks \in SUBSET BufferKeys, n \in Nat :
        s = Append(b.entries, e) /\ ks = b.keys \cup {KeyOf[e]} /\ n = b.bytes + SizeOf[e]
  <2>1. Append(b.entries, e) \in Seq(Entries)
    BY <1>1, AppendProperties
  <2>2. b.keys \cup {KeyOf[e]} \in SUBSET BufferKeys /\ b.bytes + SizeOf[e] \in Nat
    BY <1>1, WriteIs
  <2> QED BY <2>1, <2>2
<1>3. Append1(b, e) = [entries |-> s, keys |-> ks, bytes |-> n]
  BY <1>2 DEF Append1
<1> QED BY <1>2, <1>3 DEF Buffers

LEMMA RestoredStepIs ==
  ASSUME NEW b \in Buffers, NEW line \in Lines
  PROVE  /\ RestoredStep(b, line) \in Buffers
         /\ line \in {"torn", "unreadable"} => RestoredStep(b, line) = b
         /\ line \in Entries /\ KeyOf[line] \notin b.keys => RestoredStep(b, line) = Append1(b, line)
         /\ line \in Entries /\ KeyOf[line] \in b.keys => RestoredStep(b, line) = b
<1>1. line \in Entries => line \notin {"torn", "unreadable"} /\ Append1(b, line) \in Buffers
  BY WriteIs, Append1Is
<1> QED BY <1>1 DEF RestoredStep, Lines, Has

LEMMA EmptyIs ==
  /\ EmptyBuffer \in Buffers /\ EmptyBuffer.entries = <<>> /\ EmptyBuffer.keys = {}
  /\ EmptyBuffer.bytes = 0
  BY DEF EmptyBuffer, Buffers

LEMMA RestoredExists ==
  ASSUME NEW lines \in Seq(Lines)
  PROVE  RestoredRecursion(lines) = RestoredUnfold(RestoredRecursion(lines), lines)
<1> DEFINE f == [p \in Buffers \X Lines |-> RestoredStep(p[1], p[2])]
<1>0. DOMAIN lines = 1 .. Len(lines) /\ Len(lines) \in Nat /\ \A i \in 1 .. Len(lines) : lines[i] \in Lines
  BY LenProperties, ElementOfSeq
<1>1. f \in [Buffers \X Lines -> Buffers]
  BY RestoredStepIs
<1>2. \A b \in Buffers, line \in Lines : f[b, line] = RestoredStep(b, line)
  OBVIOUS
<1> HIDE DEF f
<1>3. PICK g \in [SUBSET (1 .. Len(lines)) -> Buffers] :
        \A s \in SUBSET (1 .. Len(lines)) : FoldStep(f, EmptyBuffer, lines, g, s)
  BY <1>1, EmptyIs, FoldExists
<1>4. ASSUME NEW s \in SUBSET (1 .. Len(lines))
      PROVE  g[s] = IF s = {} THEN EmptyBuffer ELSE RestoredStep(g[s \ {Max(s)}], lines[Max(s)])
  <2>1. FoldStep(f, EmptyBuffer, lines, g, s)
    BY <1>3
  <2>2. CASE s = {}
    BY <2>1, <2>2 DEF FoldStep
  <2>3. CASE s # {}
    <3>1. Max(s) \in 1 .. Len(lines)
      BY <1>0, <2>3, PrefixMax
    <3>2. lines[Max(s)] \in Lines /\ g[s \ {Max(s)}] \in Buffers
      BY <1>0, <3>1
    <3> QED BY <1>2, <2>1, <2>3, <3>2 DEF FoldStep
  <2> QED BY <2>2, <2>3
<1>5. g = [s \in SUBSET (1 .. Len(lines)) |-> g[s]]
  OBVIOUS
<1>6. g = RestoredUnfold(g, lines)
  BY <1>0, <1>4, <1>5 DEF RestoredUnfold
<1> QED BY <1>6 DEF RestoredRecursion

LEMMA RestoredOfNone == Restored(<<>>) = EmptyBuffer
<1>1. <<>> \in Seq(Lines) /\ DOMAIN <<>> = {}
  OBVIOUS
<1>2. RestoredRecursion(<<>>) = RestoredUnfold(RestoredRecursion(<<>>), <<>>)
  BY <1>1, RestoredExists
<1>3. RestoredRecursion(<<>>)[{}] = EmptyBuffer
  BY <1>1, <1>2 DEF RestoredUnfold
<1> QED BY <1>1, <1>3, RestoredIs

\* The recursion on a prefix of the indices.
LEMMA RestoredPrefix ==
  ASSUME NEW lines \in Seq(Lines)
  PROVE  /\ RestoredRecursion(lines)[1 .. 0] = EmptyBuffer
         /\ \A k \in Nat : k + 1 <= Len(lines) =>
              RestoredRecursion(lines)[1 .. k + 1]
              = RestoredStep(RestoredRecursion(lines)[1 .. k], lines[k + 1])
<1> DEFINE g == RestoredRecursion(lines)
<1>0. DOMAIN lines = 1 .. Len(lines) /\ Len(lines) \in Nat
  BY LenProperties
<1>1. g = RestoredUnfold(g, lines)
  BY RestoredExists
<1> HIDE DEF g
<1>2. \A s \in SUBSET (1 .. Len(lines)) :
        g[s] = IF s = {} THEN EmptyBuffer ELSE RestoredStep(g[s \ {Max(s)}], lines[Max(s)])
  BY <1>0, <1>1 DEF RestoredUnfold
<1>3. 1 .. 0 = {} /\ {} \in SUBSET (1 .. Len(lines))
  OBVIOUS
<1>4. ASSUME NEW k \in Nat, k + 1 <= Len(lines)
      PROVE  g[1 .. k + 1] = RestoredStep(g[1 .. k], lines[k + 1])
  <2>1. 1 .. k + 1 \in SUBSET (1 .. Len(lines))
    BY <1>0, <1>4
  <2>2. Max(1 .. k + 1) = k + 1 /\ (1 .. k + 1) \ {k + 1} = 1 .. k /\ 1 .. k + 1 # {}
    BY WholeMax
  <2> QED BY <1>2, <2>1, <2>2
<1> QED BY <1>2, <1>3, <1>4 DEF g

\* One more line is one more step.
LEMMA RestoredAppend ==
  ASSUME NEW lines \in Seq(Lines), NEW line \in Lines
  PROVE  Restored(Append(lines, line)) = RestoredStep(Restored(lines), line)
<1> DEFINE more == Append(lines, line)
           n == Len(lines)
           g == RestoredRecursion(lines)
           h == RestoredRecursion(more)
<1>0. n \in Nat /\ DOMAIN lines = 1 .. n
  BY LenProperties
<1>1. /\ more \in Seq(Lines) /\ Len(more) = n + 1 /\ more[n + 1] = line
      /\ \A i \in 1 .. n : more[i] = lines[i]
  BY AppendProperties
<1>2. DOMAIN more = 1 .. n + 1
  BY <1>1, LenProperties
<1>3. /\ g[1 .. 0] = EmptyBuffer
      /\ \A k \in Nat : k + 1 <= n => g[1 .. k + 1] = RestoredStep(g[1 .. k], lines[k + 1])
  BY RestoredPrefix
<1>4. /\ h[1 .. 0] = EmptyBuffer
      /\ \A k \in Nat : k + 1 <= n + 1 => h[1 .. k + 1] = RestoredStep(h[1 .. k], more[k + 1])
  <2> HIDE DEF more
  <2>1. /\ h[1 .. 0] = EmptyBuffer
        /\ \A k \in Nat : k + 1 <= Len(more) => h[1 .. k + 1] = RestoredStep(h[1 .. k], more[k + 1])
    BY <1>1, RestoredPrefix
  <2> QED BY <1>1, <2>1
<1> HIDE DEF g, h, more, n
<1>5. g[1 .. n] = h[1 .. n]
  <2> DEFINE C == {k \in 0 .. n : g[1 .. k] # h[1 .. k]}
  <2>1. SUFFICES ASSUME C # {} PROVE FALSE
    BY <1>0
  <2>2. C \in SUBSET Nat
    BY <1>0
  <2>3. PICK k \in C : \A m \in C : k <= m
    <3> HIDE DEF C
    <3> QED BY <2>1, <2>2, LeastOf
  <2>4. k \in 0 .. n /\ k # 0
    BY <1>0, <1>3, <1>4
  <2>5. PICK m \in Nat : k = m + 1 /\ m \in 0 .. n /\ m + 1 <= n
    <3>1. k - 1 \in Nat /\ k = (k - 1) + 1 /\ k - 1 \in 0 .. n /\ (k - 1) + 1 <= n
      BY <1>0, <2>4
    <3> QED BY <3>1
  <2>6. g[1 .. m] = h[1 .. m]
    BY <2>3, <2>5
  <2>7. more[m + 1] = lines[m + 1]
    BY <1>0, <1>1, <2>5
  <2>8. g[1 .. m + 1] = h[1 .. m + 1]
    BY <1>0, <1>3, <1>4, <2>5, <2>6, <2>7
  <2> QED BY <2>3, <2>5, <2>8
<1>6. h[1 .. n + 1] = RestoredStep(g[1 .. n], line)
  BY <1>0, <1>1, <1>4, <1>5
<1>7. Restored(lines) = g[1 .. n] /\ Restored(more) = h[1 .. n + 1]
  BY <1>0, <1>2, RestoredIs DEF g, h
<1> QED BY <1>6, <1>7 DEF more

LEMMA FrontOf ==
  ASSUME NEW S, NEW s \in Seq(S), NEW x \in S
  PROVE  Front(Append(s, x)) = s /\ Last(Append(s, x)) = x
<1> DEFINE t == Append(s, x)
<1>1. /\ t \in Seq(S) /\ Len(t) = Len(s) + 1 /\ t[Len(s) + 1] = x
      /\ \A i \in 1 .. Len(s) : t[i] = s[i]
  BY AppendProperties
<1>2. Len(s) \in Nat
  BY LenProperties
<1> HIDE DEF t
<1>3. Front(t) = SubSeq(t, 1, Len(s))
  BY <1>1, <1>2 DEF Front
<1>4. s = [i \in 1 .. Len(s) |-> s[i]]
  BY LenProperties
<1>5. SubSeq(t, 1, Len(s)) = [i \in 1 .. Len(s) |-> t[i]]
  BY <1>1, <1>2
<1>6. Last(t) = x
  BY <1>1 DEF Last
<1> QED BY <1>1, <1>3, <1>4, <1>5, <1>6 DEF t

\* What one more write leaves of what a restart would restore.
LEMMA RestoredAppended ==
  ASSUME NEW lines \in Seq(Lines), NEW e \in Entries, Restored(lines) \in Buffers
  PROVE  /\ Appended(lines, e) \in Seq(Lines)
         /\ Torn(lines) => Restored(Appended(lines, e)) = Restored(lines)
         /\ ~Torn(lines) => Restored(Appended(lines, e)) = RestoredStep(Restored(lines), e)
<1>0. e \in Lines /\ "torn" \in Lines /\ "unreadable" \in Lines
  BY DEF Lines
<1>1. CASE Torn(lines)
  <2>1. lines # <<>> /\ Last(lines) = "torn"
    BY <1>1 DEF Torn
  <2>2. PICK front \in Seq(Lines), x \in Lines : lines = Append(front, x)
    BY <2>1, SequenceEmptyOrAppend
  <2>3. Front(lines) = front /\ x = "torn"
    BY <2>1, <2>2, FrontOf
  <2>4. Appended(lines, e) = Append(front, "unreadable")
    BY <1>1, <2>3 DEF Appended
  <2>5. Append(front, "unreadable") \in Seq(Lines)
    BY <1>0, AppendProperties
  <2>6. /\ Restored(lines) = RestoredStep(Restored(front), "torn")
        /\ Restored(Append(front, "unreadable")) = RestoredStep(Restored(front), "unreadable")
    BY <1>0, <2>2, <2>3, RestoredAppend
  <2>7. \A b : RestoredStep(b, "torn") = b /\ RestoredStep(b, "unreadable") = b
    BY DEF RestoredStep
  <2> QED BY <1>1, <2>4, <2>5, <2>6, <2>7
<1>2. CASE ~Torn(lines)
  <2>1. Appended(lines, e) = Append(lines, e)
    BY <1>0, <1>2, AppendIsConcat DEF Appended, LineFor
  <2>2. Append(lines, e) \in Seq(Lines)
    BY <1>0, AppendProperties
  <2> QED BY <1>0, <1>2, <2>1, <2>2, RestoredAppend
<1> QED BY <1>1, <1>2

\* The bytes of a sequence of entries.
Sizes(s) == [i \in DOMAIN s |-> SizeOf[s[i]]]

LEMMA BytesAreSum == \A s : BytesOf(s) = Sum(Sizes(s), DOMAIN s)
<1> TAKE s
<1> DEFINE D == DOMAIN s
           SizesUnfold(g) == [d \in SUBSET D |->
                         IF d = {} THEN 0
                         ELSE LET x == CHOOSE y \in d : TRUE IN SizeOf[s[x]] + g[d \ {x}]]
<1>1. BytesOf(s) = (CHOOSE g : g = SizesUnfold(g))[D]
  BY DEF BytesOf, MapThenSumSet, MapThenFoldSet
<1>2. \A g : SizesUnfold(g) = Unfold(Sizes(s), g, D)
  BY DEF Unfold, Sizes, Pick
<1>3. (CHOOSE g : g = SizesUnfold(g)) = Recursion(Sizes(s), D)
  <2> HIDE DEF SizesUnfold
  <2> QED BY Zenon, <1>2 DEF Recursion
<1> QED BY <1>1, <1>3, SumIsRecursion

LEMMA BytesOfNone == BytesOf(<<>>) = 0
<1>1. DOMAIN <<>> = {}
  OBVIOUS
<1> QED BY <1>1, BytesAreSum, SumEmpty

LEMMA BytesAppend ==
  ASSUME NEW s \in Seq(Entries), NEW e \in Entries
  PROVE  BytesOf(Append(s, e)) = BytesOf(s) + SizeOf[e] /\ BytesOf(s) \in Nat
<1> DEFINE t == Append(s, e)
           n == Len(s)
           D == 1 .. n
<1>1. n \in Nat /\ DOMAIN s = D /\ \A i \in D : s[i] \in Entries
  BY LenProperties, ElementOfSeq
<1>2. t \in Seq(Entries) /\ Len(t) = n + 1 /\ t[n + 1] = e /\ \A i \in D : t[i] = s[i]
  BY AppendProperties
<1>3. DOMAIN t = 1 .. n + 1
  BY <1>2, LenProperties
<1> HIDE DEF t, n
<1>4. IsFiniteSet(1 .. n + 1) /\ IsFiniteSet(D)
  BY <1>1, FS_Interval
<1>5. /\ \A i \in D : Sizes(s)[i] = SizeOf[s[i]] /\ Sizes(s)[i] \in Nat
      /\ \A i \in 1 .. n + 1 : Sizes(t)[i] = SizeOf[t[i]]
  BY <1>1, <1>3, WriteIs DEF Sizes
<1>6. n + 1 \in 1 .. n + 1 /\ (1 .. n + 1) \ {n + 1} = D /\ \A i \in D : i \in 1 .. n + 1
  BY <1>1
<1>7. \A i \in D : Sizes(t)[i] = Sizes(s)[i]
  BY <1>2, <1>5, <1>6
<1>8. Sizes(t)[n + 1] = SizeOf[e] /\ SizeOf[e] \in Nat
  BY <1>2, <1>5, <1>6, WriteIs
<1>9. \A i \in 1 .. n + 1 : Sizes(t)[i] \in Int
  <2>1. \A i \in 1 .. n + 1 : i \in D \/ i = n + 1
    BY <1>1
  <2> QED BY <1>5, <1>7, <1>8, <2>1
<1>10. PICK S : S = 1 .. n + 1
  OBVIOUS
<1>11. Sum(Sizes(t), S) = Sizes(t)[n + 1] + Sum(Sizes(t), S \ {n + 1})
  BY <1>4, <1>6, <1>9, <1>10, SumRemove
<1>12. Sum(Sizes(t), D) = Sum(Sizes(s), D)
  <2> HIDE DEF D
  <2> QED BY <1>4, <1>7, SumAgree
<1>13. Sum(Sizes(s), D) \in Nat
  <2> HIDE DEF D
  <2> QED BY <1>4, <1>5, SumNat
<1>14. BytesOf(t) = Sum(Sizes(t), S) /\ BytesOf(s) = Sum(Sizes(s), D)
  BY <1>1, <1>3, <1>10, BytesAreSum
<1> HIDE DEF D
<1>15. BytesOf(t) = SizeOf[e] + BytesOf(s)
  BY <1>6, <1>8, <1>10, <1>11, <1>12, <1>14
<1> QED BY <1>8, <1>13, <1>14, <1>15 DEF t

-----------------------------------------------------------------------------
(* WriteBuffer: the invariant.  Beside the buffer stands what a restart    *)
(* would make of the log.                                                  *)

\* The three fields of a buffer agree.
FieldsAgree(b) ==
  /\ b.keys = {KeyOf[b.entries[i]] : i \in DOMAIN b.entries}
  /\ IsFiniteSet(b.keys) /\ Cardinality(b.keys) = Len(b.entries)
  /\ b.bytes = BytesOf(b.entries)

Fits(b) == Len(b.entries) <= MaxEntries /\ b.bytes < MaxBytes

NoMore(r, b) == /\ Len(r.entries) <= Len(b.entries) /\ r.bytes <= b.bytes
                /\ r.keys \subseteq b.keys

BufferInv ==
  /\ buffer \in Buffers /\ wal \in Seq(Lines) /\ Restored(wal) \in Buffers
  /\ offers \in 0 .. MaxOffers /\ crashes \in 0 .. MaxCrashes
  /\ FieldsAgree(buffer) /\ FieldsAgree(Restored(wal))
  /\ "clear" \notin trouble => Fits(buffer) /\ NoMore(Restored(wal), buffer)
  /\ "append" \notin trouble => /\ buffer.keys \subseteq Restored(wal).keys
                                /\ accepted \subseteq buffer.keys
  /\ trouble = {} => buffer.entries = history /\ Restored(wal).entries = history

LEMMA EmptyAgrees == FieldsAgree(EmptyBuffer) /\ Fits(EmptyBuffer) /\ NoMore(EmptyBuffer, EmptyBuffer)
<1>1. DOMAIN <<>> = {} /\ Len(<<>>) = 0
  OBVIOUS
<1>2. FieldsAgree(EmptyBuffer)
  BY <1>1, EmptyIs, BytesOfNone, FS_EmptySet DEF FieldsAgree
<1> QED BY <1>1, <1>2, EmptyIs, WriteBufferAssumption DEF Fits, NoMore

\* A new entry keeps the fields in agreement.
LEMMA Append1Agrees ==
  ASSUME NEW b \in Buffers, NEW e \in Entries, FieldsAgree(b), KeyOf[e] \notin b.keys
  PROVE  FieldsAgree(Append1(b, e)) /\ Len(Append1(b, e).entries) = Len(b.entries) + 1
<1> DEFINE c == Append1(b, e)
           n == Len(b.entries)
<1>1. /\ c \in Buffers /\ c.entries = Append(b.entries, e) /\ c.keys = b.keys \cup {KeyOf[e]}
      /\ c.bytes = b.bytes + SizeOf[e]
  BY Append1Is
<1>2. b.entries \in Seq(Entries)
  BY DEF Buffers
<1>3. n \in Nat /\ DOMAIN b.entries = 1 .. n
  BY <1>2, LenProperties
<1>4. /\ c.entries \in Seq(Entries) /\ Len(c.entries) = n + 1 /\ c.entries[n + 1] = e
      /\ \A i \in 1 .. n : c.entries[i] = b.entries[i]
  BY <1>1, <1>2, AppendProperties
<1>5. DOMAIN c.entries = 1 .. n + 1
  BY <1>4, LenProperties
<1>6. c.bytes = BytesOf(c.entries)
  BY <1>1, <1>2, BytesAppend DEF FieldsAgree
<1> HIDE DEF c, n
<1>7. c.keys = {KeyOf[c.entries[i]] : i \in 1 .. n + 1}
  <2>1. b.keys = {KeyOf[b.entries[i]] : i \in 1 .. n}
    BY <1>3 DEF FieldsAgree
  <2>2. n + 1 \in 1 .. n + 1 /\ \A i \in 1 .. n + 1 : i = n + 1 \/ i \in 1 .. n
    BY <1>3
  <2>3. \A i \in 1 .. n : i \in 1 .. n + 1
    BY <1>3
  <2> QED BY <1>1, <1>4, <2>1, <2>2, <2>3
<1>8. IsFiniteSet(c.keys) /\ Cardinality(c.keys) = n + 1
  <2>1. PICK ks, x : ks = b.keys /\ x = KeyOf[e]
    OBVIOUS
  <2>2. IsFiniteSet(ks) /\ x \notin ks /\ Cardinality(ks) = n
    BY <2>1 DEF FieldsAgree, n
  <2>3. IsFiniteSet(ks \cup {x}) /\ Cardinality(ks \cup {x}) = n + 1
    BY <2>2, FS_AddElement
  <2> QED BY <1>1, <2>1, <2>3
<1> QED BY <1>4, <1>5, <1>6, <1>7, <1>8 DEF FieldsAgree, c, n

LEMMA BufferFromInit == WInit => BufferInv
<1> SUFFICES ASSUME WInit PROVE BufferInv
  OBVIOUS
<1>1. /\ buffer = EmptyBuffer /\ wal = <<>> /\ accepted = {} /\ history = <<>>
      /\ trouble = {} /\ offers = 0 /\ crashes = 0
  BY DEF WInit
<1>2. Restored(wal) = EmptyBuffer /\ wal \in Seq(Lines)
  BY <1>1, RestoredOfNone
<1>3. offers \in 0 .. MaxOffers /\ crashes \in 0 .. MaxCrashes
  BY <1>1, WriteBufferAssumption
<1> QED BY <1>1, <1>2, <1>3, EmptyIs, EmptyAgrees DEF BufferInv

\* An entry that is taken: what the log holds grows by at most as much.
LEMMA TakenKeeps ==
  ASSUME BufferInv, NEW e \in Entries, ~Has(buffer, e), Room(buffer, e),
         buffer' = Append1(buffer, e), accepted' = accepted \cup {KeyOf[e]},
         history' = Append(history, e), offers' \in 0 .. MaxOffers, crashes' = crashes,
         \/ /\ wal' = Appended(wal, e)
            /\ trouble' = trouble \cup (IF Torn(wal) THEN {"append"} ELSE {})
         \/ wal' = wal /\ trouble' = trouble \cup {"append"}
  PROVE  BufferInv'
<1>1. PICK r : r = Restored(wal)
  OBVIOUS
<1>2. PICK z : z = Restored(wal')
  OBVIOUS
<1>3. KeyOf[e] \notin buffer.keys
  BY DEF Has
<1>4. /\ buffer \in Buffers /\ wal \in Seq(Lines) /\ r \in Buffers
      /\ FieldsAgree(buffer) /\ FieldsAgree(r)
      /\ "clear" \notin trouble => Fits(buffer) /\ NoMore(r, buffer)
      /\ "append" \notin trouble => buffer.keys \subseteq r.keys /\ accepted \subseteq buffer.keys
      /\ trouble = {} => buffer.entries = history /\ r.entries = history
  BY <1>1 DEF BufferInv
<1>5. /\ buffer' \in Buffers /\ buffer'.entries = Append(buffer.entries, e)
      /\ buffer'.keys = buffer.keys \cup {KeyOf[e]} /\ buffer'.bytes = buffer.bytes + SizeOf[e]
  BY <1>4, Append1Is
<1>6. FieldsAgree(buffer') /\ Len(buffer'.entries) = Len(buffer.entries) + 1
  BY <1>3, <1>4, Append1Agrees
<1>7. /\ wal' \in Seq(Lines)
      /\ \/ z = r /\ trouble' = trouble \cup {"append"}
         \/ z = RestoredStep(r, e) /\ trouble' = trouble
  <2>1. /\ Appended(wal, e) \in Seq(Lines)
        /\ Torn(wal) => Restored(Appended(wal, e)) = r
        /\ ~Torn(wal) => Restored(Appended(wal, e)) = RestoredStep(r, e)
    BY <1>1, <1>4, RestoredAppended
  <2>2. CASE wal' = wal /\ trouble' = trouble \cup {"append"}
    BY <1>1, <1>2, <1>4, <2>2
  <2>3. CASE wal' = Appended(wal, e) /\ trouble' = trouble \cup (IF Torn(wal) THEN {"append"} ELSE {})
    BY <1>2, <2>1, <2>3
  <2> QED BY <2>2, <2>3
<1>8. /\ RestoredStep(r, e) \in Buffers
      /\ KeyOf[e] \notin r.keys => RestoredStep(r, e) = Append1(r, e)
      /\ KeyOf[e] \in r.keys => RestoredStep(r, e) = r
  <2>1. e \in Lines
    BY DEF Lines
  <2> QED BY <1>4, <2>1, RestoredStepIs
<1>9. KeyOf[e] \notin r.keys =>
        /\ Append1(r, e).entries = Append(r.entries, e)
        /\ Append1(r, e).keys = r.keys \cup {KeyOf[e]}
        /\ Append1(r, e).bytes = r.bytes + SizeOf[e]
        /\ FieldsAgree(Append1(r, e)) /\ Len(Append1(r, e).entries) = Len(r.entries) + 1
  BY <1>4, Append1Is, Append1Agrees
<1>10. z \in Buffers /\ FieldsAgree(z)
  BY <1>4, <1>7, <1>8, <1>9
<1>11. /\ buffer.bytes \in Nat /\ r.bytes \in Nat /\ SizeOf[e] \in Nat
       /\ Len(buffer.entries) \in Nat /\ Len(r.entries) \in Nat
       /\ MaxEntries \in Nat /\ MaxBytes \in Nat
  BY <1>4, WriteIs, LenProperties, WriteBufferAssumption DEF Buffers
<1>12. Fits(buffer')
  BY <1>5, <1>6, <1>11 DEF Room, Fits
<1>13. ASSUME "clear" \notin trouble'
       PROVE  NoMore(z, buffer')
  <2>1. NoMore(r, buffer)
    BY <1>4, <1>7, <1>13
  <2>2. CASE z = r
    BY <1>5, <1>6, <1>11, <2>1, <2>2 DEF NoMore
  <2>3. CASE z = RestoredStep(r, e)
    <3>1. z = Append1(r, e) /\ KeyOf[e] \notin r.keys
      BY <1>3, <1>8, <2>1, <2>3 DEF NoMore
    <3> QED BY SMTT(30), <1>5, <1>6, <1>9, <1>11, <2>1, <3>1 DEF NoMore
  <2> QED BY <1>7, <2>2, <2>3
<1>14. ASSUME "append" \notin trouble'
       PROVE  buffer'.keys \subseteq z.keys /\ accepted' \subseteq buffer'.keys
  <2>1. z = RestoredStep(r, e) /\ "append" \notin trouble
    BY <1>7, <1>14
  <2>2. KeyOf[e] \in z.keys /\ r.keys \subseteq z.keys
    BY <1>8, <1>9, <2>1
  <2> QED BY <1>4, <1>5, <2>1, <2>2
<1>15. ASSUME trouble' = {}
       PROVE  buffer'.entries = history' /\ z.entries = history'
  <2>1. z = RestoredStep(r, e) /\ trouble = {}
    BY <1>7, <1>15
  <2>2. KeyOf[e] \notin r.keys
    BY <1>3, <1>4, <2>1 DEF NoMore
  <2> QED BY <1>4, <1>5, <1>8, <1>9, <2>1, <2>2
<1> QED BY <1>2, <1>5, <1>6, <1>7, <1>10, <1>12, <1>13, <1>14, <1>15 DEF BufferInv

LEMMA BufferAdds ==
  ASSUME BufferInv, NEW e \in Entries, Add(e)
  PROVE  BufferInv'
<1>1. offers' \in 0 .. MaxOffers /\ crashes' = crashes
  BY WriteBufferAssumption DEF Add, BufferInv
<1>2. CASE Has(buffer, e) /\ accepted' = accepted \cup {KeyOf[e]}
           /\ UNCHANGED <<buffer, wal, history, trouble>>
  <2>1. KeyOf[e] \in buffer.keys
    BY <1>2 DEF Has
  <2> QED BY <1>1, <1>2, <2>1 DEF BufferInv
<1>3. CASE UNCHANGED <<buffer, wal, accepted, history, trouble>>
  BY <1>1, <1>3 DEF BufferInv
<1>4. CASE /\ ~Has(buffer, e) /\ Room(buffer, e)
           /\ buffer' = Append1(buffer, e)
           /\ accepted' = accepted \cup {KeyOf[e]}
           /\ history' = Append(history, e)
           /\ \/ /\ wal' = Appended(wal, e)
                 /\ trouble' = trouble \cup (IF Torn(wal) THEN {"append"} ELSE {})
              \/ wal' = wal /\ trouble' = trouble \cup {"append"}
  BY <1>1, <1>4, TakenKeeps
<1> QED BY <1>2, <1>3, <1>4 DEF Add

LEMMA BufferFlushes ==
  ASSUME BufferInv, Flush
  PROVE  BufferInv'
<1>1. /\ buffer' = EmptyBuffer /\ accepted' = {} /\ history' = <<>>
      /\ offers' = offers /\ crashes' = crashes
      /\ \/ wal' = <<>> /\ trouble' = trouble
         \/ wal' = wal /\ trouble' = trouble \cup {"clear"}
  BY DEF Flush, Cleared, ClearedLog
<1>2. CASE wal' = <<>>
  <2>1. Restored(wal') = EmptyBuffer /\ wal' \in Seq(Lines)
    BY <1>2, RestoredOfNone
  <2>2. offers' \in 0 .. MaxOffers /\ crashes' \in 0 .. MaxCrashes
    BY <1>1 DEF BufferInv
  <2>3. /\ FieldsAgree(EmptyBuffer) /\ Fits(EmptyBuffer) /\ NoMore(EmptyBuffer, EmptyBuffer)
        /\ EmptyBuffer \in Buffers /\ EmptyBuffer.entries = <<>> /\ EmptyBuffer.keys = {}
    BY EmptyIs, EmptyAgrees
  <2>4. PICK z : z = Restored(wal') /\ z = EmptyBuffer
    BY <2>1
  <2> QED BY <1>1, <2>1, <2>2, <2>3, <2>4 DEF BufferInv
<1>3. CASE wal' = wal /\ trouble' = trouble \cup {"clear"}
  <2>1. /\ FieldsAgree(EmptyBuffer) /\ EmptyBuffer \in Buffers /\ EmptyBuffer.keys = {}
    BY EmptyIs, EmptyAgrees
  <2>2. "clear" \in trouble' /\ trouble' # {}
    BY <1>3
  <2>3. Restored(wal)' = Restored(wal)
    BY <1>3
  <2> QED BY <1>1, <1>3, <2>1, <2>2, <2>3 DEF BufferInv
<1> QED BY <1>1, <1>2, <1>3

LEMMA BufferRestarts ==
  ASSUME BufferInv, Restart
  PROVE  BufferInv'
<1>1. PICK lines : /\ lines \in {wal, IF Torn(wal) THEN wal ELSE Append(wal, "torn")}
                   /\ wal' = lines /\ buffer' = Restored(lines)
                   /\ crashes < MaxCrashes /\ crashes' = crashes + 1
                   /\ UNCHANGED <<accepted, flushed, history, trouble, offers>>
  BY DEF Restart
<1>2. PICK r : r = Restored(wal)
  OBVIOUS
<1>3. /\ wal \in Seq(Lines) /\ r \in Buffers /\ FieldsAgree(r)
      /\ "clear" \notin trouble => Fits(buffer) /\ NoMore(r, buffer)
      /\ "append" \notin trouble => buffer.keys \subseteq r.keys /\ accepted \subseteq buffer.keys
      /\ trouble = {} => buffer.entries = history /\ r.entries = history
      /\ buffer \in Buffers
  BY <1>2 DEF BufferInv
<1>4. wal' \in Seq(Lines) /\ Restored(lines) = r
  <2>1. "torn" \in Lines
    BY DEF Lines
  <2>2. Append(wal, "torn") \in Seq(Lines) /\ Restored(Append(wal, "torn")) = r
    BY <1>2, <1>3, <2>1, AppendProperties, RestoredAppend, RestoredStepIs
  <2> QED BY <1>1, <1>2, <1>3, <2>2
<1>5. buffer' = r /\ Restored(wal') = r
  BY <1>1, <1>4
<1>6. crashes' \in 0 .. MaxCrashes /\ offers' \in 0 .. MaxOffers
  BY <1>1, WriteBufferAssumption DEF BufferInv
<1>7. /\ Len(r.entries) \in Nat /\ Len(buffer.entries) \in Nat
      /\ r.bytes \in Nat /\ buffer.bytes \in Nat /\ MaxEntries \in Nat /\ MaxBytes \in Nat
  BY <1>3, LenProperties, WriteBufferAssumption DEF Buffers
<1>8. "clear" \notin trouble => Fits(r)
  BY <1>3, <1>7 DEF Fits, NoMore
<1>9. NoMore(r, r)
  BY <1>7 DEF NoMore
<1>10. "append" \notin trouble => accepted \subseteq r.keys
  BY <1>3
<1>11. trouble' = trouble /\ accepted' = accepted /\ history' = history
  BY <1>1
<1> QED BY <1>3, <1>4, <1>5, <1>6, <1>8, <1>9, <1>10, <1>11 DEF BufferInv

LEMMA BufferInvGivesSound == BufferInv => BufferSound
<1> SUFFICES ASSUME BufferInv PROVE BufferSound
  OBVIOUS
<1>1. WTypeOK
  BY DEF BufferInv, WTypeOK, Buffers, Lines
<1>2. BookkeepingAgrees /\ WithinLimits
  BY DEF BufferInv, FieldsAgree, Fits, BookkeepingAgrees, WithinLimits
<1>3. AcceptedIsKept /\ OrderIsKept
  BY DEF BufferInv, AcceptedIsKept, OrderIsKept
<1> QED BY <1>1, <1>2, <1>3 DEF BufferSound

\* The buffer and its log: what was accepted is kept, in order, once and within the limits,
\* for every set of entries, sizes and limits and any number of crashes.
THEOREM BufferIsSound == WSpec => []BufferSound
<1>1. WInit => BufferInv
  BY BufferFromInit
<1>2. BufferInv /\ [WNext]_wvars => BufferInv'
  <2> SUFFICES ASSUME BufferInv, [WNext]_wvars PROVE BufferInv'
    OBVIOUS
  <2>1. CASE UNCHANGED wvars
    BY <2>1 DEF BufferInv, wvars
  <2> QED BY <2>1, BufferAdds, BufferFlushes, BufferRestarts DEF WNext
<1> QED BY <1>1, <1>2, BufferInvGivesSound, PTL DEF WSpec

-----------------------------------------------------------------------------
(* GreeksApi: limits and shocks.  Limits are kept only when they rise, and *)
(* a shock is judged by the limits of the moment of its answer; between    *)
(* the two requests the exposure it took is the one fact to be carried.    *)

LimitsKept ==
  /\ limits \in [Accounts -> LimitSets \cup {NoValue}]
  /\ book \in [Accounts -> Books]
  /\ \A a \in Accounts : limits[a] # NoValue => ValidSet(limits[a])

Exposures == [delta : Int, gamma : Int, convexity : Int]

\* Convexity and gamma are one sum, counted in different units.
ExposureIs(now) == now \in Exposures /\ now.convexity = now.gamma

\* The PnL of a result fits the delta before and after the move.
Fitting(x, now) == x.pnl = (100 * now.delta + x.after) * x.pct * x.sign

ShockRecs ==
  [at : {"new", "loaded", "answered"}, account : Accounts \cup {NoValue},
   now : Exposures \cup {NoValue}, list : ShockLists \cup {<<>>},
   results : SUBSET [pct : Int, sign : {1, -1}, after : Int, pnl : Int, level : {"hard", "none"}],
   under : {Default} \cup LimitSets \cup {NoValue}]

ShockIs(x) ==
  /\ x.at \in {"loaded", "answered"} => ExposureIs(x.now)
  /\ x.at # "answered" => x.results = {}
  /\ x.at = "loaded" => x.account \in Accounts /\ x.list \in ShockLists
  /\ x.at = "answered" => ValidSet(x.under) /\ \A y \in x.results : Fitting(y, x.now)

ShocksInv == shock \in [Shocks -> ShockRecs] /\ \A r \in Shocks : ShockIs(shock[r])

LEMMA DefaultRises == ValidSet(Default)
  BY DEF ValidSet, Default, Ordered, Dims

LEMMA LimitsOfRise ==
  ASSUME LimitsKept, NEW a \in Accounts
  PROVE  ValidSet(LimitsOf(a)) /\ LimitsOf(a) \in {Default} \cup LimitSets
<1>1. CASE limits[a] = NoValue
  BY <1>1, DefaultRises DEF LimitsOf
<1>2. CASE limits[a] # NoValue
  BY <1>2 DEF LimitsOf, LimitsKept
<1> QED BY <1>1, <1>2

\* The sums of an exposure, as sums over its legs.
Deltas(legs) == [g \in legs |-> g.delta * g.quantity * g.price]
Gammas(legs) == [g \in legs |-> g.gamma * g.quantity * g.price * g.price]

LEMMA DeltaIsSum ==
  \A legs : MapThenSumSet(LAMBDA g : g.delta * g.quantity * g.price, legs) = Sum(Deltas(legs), legs)
<1> TAKE legs
<1> DEFINE Unfolded(h) == [d \in SUBSET legs |->
                         IF d = {} THEN 0
                         ELSE LET x == CHOOSE y \in d : TRUE
                              IN x.delta * x.quantity * x.price + h[d \ {x}]]
<1>1. MapThenSumSet(LAMBDA g : g.delta * g.quantity * g.price, legs)
      = (CHOOSE h : h = Unfolded(h))[legs]
  BY DEF MapThenSumSet, MapThenFoldSet
<1>2. \A h : Unfolded(h) = Unfold(Deltas(legs), h, legs)
  BY DEF Unfold, Deltas, Pick
<1>3. (CHOOSE h : h = Unfolded(h)) = Recursion(Deltas(legs), legs)
  <2> HIDE DEF Unfolded
  <2> QED BY Zenon, <1>2 DEF Recursion
<1> QED BY <1>1, <1>3, SumIsRecursion

LEMMA GammaIsSum ==
  \A legs : MapThenSumSet(Convexity, legs) = Sum(Gammas(legs), legs)
<1> TAKE legs
<1> DEFINE Unfolded(h) == [d \in SUBSET legs |->
                         IF d = {} THEN 0
                         ELSE LET x == CHOOSE y \in d : TRUE
                              IN x.gamma * x.quantity * x.price * x.price + h[d \ {x}]]
<1>1. MapThenSumSet(Convexity, legs) = (CHOOSE h : h = Unfolded(h))[legs]
  BY DEF MapThenSumSet, MapThenFoldSet, Convexity
<1>2. \A h : Unfolded(h) = Unfold(Gammas(legs), h, legs)
  BY DEF Unfold, Gammas, Pick
<1>3. (CHOOSE h : h = Unfolded(h)) = Recursion(Gammas(legs), legs)
  <2> HIDE DEF Unfolded
  <2> QED BY Zenon, <1>2 DEF Recursion
<1> QED BY <1>1, <1>3, SumIsRecursion

LEMMA ExposureOfBook ==
  ASSUME NEW legs \in Books
  PROVE  ExposureIs(Exposure(legs))
<1>1. /\ IsFiniteSet(legs)
      /\ \A g \in legs : g.delta \in Int /\ g.gamma \in Int /\ g.quantity \in Int /\ g.price \in Int
  BY ApiAssumption
<1>2. \A g \in legs : Deltas(legs)[g] \in Int /\ Gammas(legs)[g] \in Int
  BY <1>1 DEF Deltas, Gammas
<1>3. Sum(Deltas(legs), legs) \in Int /\ Sum(Gammas(legs), legs) \in Int
  BY <1>1, <1>2, SumType
<1>4. Exposure(legs)
      = [delta |-> MapThenSumSet(LAMBDA g : g.delta * g.quantity * g.price, legs),
         gamma |-> MapThenSumSet(Convexity, legs), convexity |-> MapThenSumSet(Convexity, legs)]
  BY DEF Exposure, MapThenSumSet, MapThenFoldSet, Convexity
<1>5. Exposure(legs) = [delta |-> Sum(Deltas(legs), legs), gamma |-> Sum(Gammas(legs), legs),
                        convexity |-> Sum(Gammas(legs), legs)]
  BY <1>4, DeltaIsSum, GammaIsSum
<1> QED BY <1>3, <1>5 DEF ExposureIs, Exposures

\* Each scenario is one quadratic.
LEMMA ScenarioFits ==
  ASSUME NEW now, ExposureIs(now), NEW p \in Int, NEW s \in {1, -1}, NEW set
  PROVE  /\ Fitting(Scenario(now, p, s, set), now)
         /\ Scenario(now, p, s, set) \in [pct : Int, sign : {1, -1}, after : Int, pnl : Int,
                                          level : {"hard", "none"}]
<1>0. PICK d \in Int, g \in Int : d = now.delta /\ g = now.gamma /\ g = now.convexity
  BY DEF ExposureIs, Exposures
<1> DEFINE x == Scenario(now, p, s, set)
           level == IF (IF 100 * now.delta + now.gamma * p * s < 0
                        THEN 0 - (100 * now.delta + now.gamma * p * s)
                        ELSE 100 * now.delta + now.gamma * p * s) > 100 * set["dollar_delta"].hard
                    THEN "hard" ELSE "none"
<1>1. x = [pct |-> p, sign |-> s, after |-> 100 * now.delta + now.gamma * p * s,
           pnl |-> 200 * now.delta * p * s + now.convexity * p * p, level |-> level]
  BY DEF Scenario
<1>2. level \in {"hard", "none"}
  OBVIOUS
<1> HIDE DEF level
<1>3. x = [pct |-> p, sign |-> s, after |-> 100 * d + g * p * s,
           pnl |-> 200 * d * p * s + g * p * p, level |-> level]
  BY <1>0, <1>1
<1>4. 100 * d + g * p * s \in Int /\ 200 * d * p * s + g * p * p \in Int
  OBVIOUS
<1>5. 200 * d * p * s + g * p * p = (100 * d + (100 * d + g * p * s)) * p * s
  <2>1. CASE s = 1
    <3>1. PICK dp \in Int, gp \in Int : dp = d * p /\ gp = g * p
      OBVIOUS
    <3>2. gp * p = g * p * p /\ (100 * d + (100 * d + gp)) * p = 200 * dp + gp * p
      BY <3>1
    <3> QED BY <2>1, <3>1, <3>2
  <2>2. CASE s = -1
    <3>1. PICK dp \in Int, gp \in Int : dp = d * p /\ gp = g * p
      OBVIOUS
    <3>2. gp * p = g * p * p /\ (100 * d + (100 * d - gp)) * p = 200 * dp - gp * p
      BY <3>1
    <3>3. (100 * d + (100 * d + g * p * s)) * p * s = 0 - (100 * d + (100 * d - gp)) * p
      BY <2>2, <3>1
    <3>4. 200 * d * p * s = 0 - 200 * dp
      BY <2>2, <3>1
    <3> QED BY <3>1, <3>2, <3>3, <3>4
  <2> QED BY <2>1, <2>2
<1> HIDE DEF x
<1>6. Fitting(x, now)
  BY <1>0, <1>3, <1>5 DEF Fitting
<1>7. x \in [pct : Int, sign : {1, -1}, after : Int, pnl : Int, level : {"hard", "none"}]
  BY <1>2, <1>3, <1>4
<1> QED BY <1>6, <1>7 DEF x

LEMMA PercentagesAre ==
  ASSUME NEW list \in ShockLists PROVE Percentages(list) \in SUBSET Int
  BY ApiAssumption DEF Percentages

LEMMA LimitsFromInit == ApiInit => LimitsKept /\ ShocksInv
<1> SUFFICES ASSUME ApiInit PROVE LimitsKept /\ ShocksInv
  OBVIOUS
<1>1. LimitsKept
  BY DEF ApiInit, LimitsKept
<1>2. shock = [r \in Shocks |-> [at |-> "new", account |-> NoValue, now |-> NoValue,
                                 list |-> <<>>, results |-> {}, under |-> NoValue]]
  BY DEF ApiInit
<1>3. shock \in [Shocks -> ShockRecs]
  BY <1>2 DEF ShockRecs
<1>4. \A r \in Shocks : ShockIs(shock[r])
  BY <1>2 DEF ShockIs
<1> QED BY <1>1, <1>3, <1>4 DEF ShocksInv

LEMMA LimitsArePut ==
  ASSUME LimitsKept, NEW a \in Accounts, NEW set \in LimitSets, NEW strategy \in BOOLEAN,
         PutLimits(a, set, strategy)
  PROVE  LimitsKept'
<1>1. CASE strategy \/ ~ValidSet(set)
  <2>1. limits' = limits /\ book' = book
    BY <1>1 DEF PutLimits, SetLimits
  <2> QED BY <2>1 DEF LimitsKept, ValidSet
<1>2. CASE ~strategy /\ ValidSet(set)
  <2>1. limits' = [limits EXCEPT ![a] = set] /\ book' = book
    BY <1>2 DEF PutLimits, SetLimits
  <2>2. limits' \in [Accounts -> LimitSets \cup {NoValue}]
    BY <2>1 DEF LimitsKept
  <2>3. \A b \in Accounts : limits'[b] = IF b = a THEN set ELSE limits[b]
    BY <2>1 DEF LimitsKept
  <2> QED BY <1>2, <2>1, <2>2, <2>3 DEF LimitsKept, ValidSet
<1> QED BY <1>1, <1>2

LEMMA ShockIsLoaded ==
  ASSUME LimitsKept, ShocksInv, NEW r \in Shocks, NEW a \in Accounts, NEW list \in ShockLists,
         ShockLoads(r, a, list)
  PROVE  ShocksInv'
<1> DEFINE x == [at |-> "loaded", account |-> a, now |-> Exposure(book[a]),
                 list |-> list, results |-> {}, under |-> NoValue]
<1>1. shock' = [shock EXCEPT ![r] = x]
  BY DEF ShockLoads
<1>2. ExposureIs(Exposure(book[a]))
  BY ExposureOfBook DEF LimitsKept
<1>3. x \in ShockRecs
  BY <1>2 DEF ShockRecs, ExposureIs
<1>4. ShockIs(x)
  BY <1>2 DEF ShockIs
<1> HIDE DEF x
<1>5. shock' \in [Shocks -> ShockRecs]
  BY <1>1, <1>3 DEF ShocksInv
<1>6. \A q \in Shocks : ShockIs(shock'[q])
  <2> TAKE q \in Shocks
  <2>1. shock'[q] = IF q = r THEN x ELSE shock[q]
    BY <1>1 DEF ShocksInv
  <2> QED BY <1>4, <2>1 DEF ShocksInv
<1> QED BY <1>5, <1>6 DEF ShocksInv, ShockIs, Fitting, ExposureIs, ValidSet

LEMMA ShockIsAnswered ==
  ASSUME LimitsKept, ShocksInv, NEW r \in Shocks, ShockAnswers(r)
  PROVE  ShocksInv'
<1> DEFINE old == shock[r]
           set == LimitsOf(old.account)
           found == ScenarioShocks(old.now, Percentages(old.list), set)
           x == [old EXCEPT !.at = "answered", !.under = set, !.results = found]
<1>1. shock' = [shock EXCEPT ![r] = x]
  BY DEF ShockAnswers
<1>2. /\ old \in ShockRecs /\ old.account \in Accounts /\ old.list \in ShockLists
      /\ ExposureIs(old.now)
  BY DEF ShockAnswers, ShocksInv, ShockIs
<1>3. ValidSet(set) /\ set \in {Default} \cup LimitSets
  BY <1>2, LimitsOfRise
<1>4. Percentages(old.list) \in SUBSET Int
  BY <1>2, PercentagesAre
<1>5. \A y \in found :
        /\ Fitting(y, old.now)
        /\ y \in [pct : Int, sign : {1, -1}, after : Int, pnl : Int, level : {"hard", "none"}]
  <2> HIDE DEF set, old
  <2> TAKE y \in found
  <2>1. PICK p \in Percentages(old.list), s \in {1, -1} : y = Scenario(old.now, p, s, set)
    BY DEF ScenarioShocks
  <2>2. p \in Int
    BY <1>4
  <2> QED BY <1>2, <2>1, <2>2, ScenarioFits
<1> HIDE DEF set, found
<1>6. x \in ShockRecs
  BY <1>2, <1>3, <1>5 DEF ShockRecs
<1>7. x.at = "answered" /\ x.under = set /\ x.results = found /\ x.now = old.now
  BY <1>2 DEF ShockRecs
<1> HIDE DEF x
<1>8. ShockIs(x)
  BY <1>2, <1>3, <1>5, <1>7 DEF ShockIs
<1>9. shock' \in [Shocks -> ShockRecs]
  BY <1>1, <1>6 DEF ShocksInv
<1>10. \A q \in Shocks : ShockIs(shock'[q])
  <2> TAKE q \in Shocks
  <2>1. shock'[q] = IF q = r THEN x ELSE shock[q]
    BY <1>1 DEF ShocksInv
  <2> QED BY <1>8, <2>1 DEF ShocksInv
<1> QED BY <1>9, <1>10 DEF ShocksInv, ShockIs, Fitting, ExposureIs, ValidSet

LEMMA LimitsStep ==
  ASSUME LimitsKept, ShocksInv, LimitsNext
  PROVE  LimitsKept' /\ ShocksInv'
<1>1. CASE \E a \in Accounts, set \in LimitSets, strategy \in BOOLEAN : PutLimits(a, set, strategy)
  <2>1. LimitsKept'
    BY <1>1, LimitsArePut
  <2>2. shock' = shock
    BY <1>1 DEF PutLimits
  <2> QED BY <2>1, <2>2 DEF ShocksInv, ShockIs, Fitting, ExposureIs, ValidSet
<1>2. CASE \E a \in Accounts : BookMoves(a)
  <2>1. limits' = limits /\ shock' = shock /\ book' \in [Accounts -> Books]
    BY <1>2 DEF BookMoves
  <2> QED BY <2>1 DEF LimitsKept, ShocksInv, ShockIs, Fitting, ExposureIs, ValidSet
<1>3. CASE \E r \in Shocks, a \in Accounts, list \in ShockLists : ShockLoads(r, a, list)
  <2>1. ShocksInv'
    BY <1>3, ShockIsLoaded
  <2>2. limits' = limits /\ book' = book
    BY <1>3 DEF ShockLoads
  <2> QED BY <2>1, <2>2 DEF LimitsKept, ValidSet
<1>4. CASE \E r \in Shocks : ShockAnswers(r)
  <2>1. ShocksInv'
    BY <1>4, ShockIsAnswered
  <2>2. limits' = limits /\ book' = book
    BY <1>4 DEF ShockAnswers
  <2> QED BY <2>1, <2>2 DEF LimitsKept, ValidSet
<1> QED BY <1>1, <1>2, <1>3, <1>4 DEF LimitsNext

-----------------------------------------------------------------------------
(* GreeksApi: acknowledgements.  A call that has written is in the list of *)
(* its alert, and the list only grows at its end.                          *)

AckRecs == [at : {"new", "written", "answered"}, alert : AlertIds \cup {NoValue},
            by : AckCalls \cup {NoValue}]

\* What the rest of the list is to a call that wrote, and to one that was answered.
AckIs(c, x) ==
  /\ x.at # "new" => x.alert \in AlertIds
  /\ x.at = "written" => \E i \in DOMAIN acked[x.alert] : acked[x.alert][i] = c
  /\ x.at = "answered" =>
       \E i, j \in DOMAIN acked[x.alert] :
         i <= j /\ acked[x.alert][i] = c /\ acked[x.alert][j] = x.by

AcksInv ==
  /\ acked \in [AlertIds -> Seq(AckCalls)]
  /\ ackcall \in [AckCalls -> AckRecs]
  /\ \A c \in AckCalls : AckIs(c, ackcall[c])

LEMMA AcksFromInit == ApiInit => AcksInv
<1> SUFFICES ASSUME ApiInit PROVE AcksInv
  OBVIOUS
<1>1. /\ acked = [i \in AlertIds |-> <<>>]
      /\ ackcall = [c \in AckCalls |-> [at |-> "new", alert |-> NoValue, by |-> NoValue]]
  BY DEF ApiInit
<1>2. ackcall \in [AckCalls -> AckRecs]
  BY <1>1 DEF AckRecs
<1>3. \A c \in AckCalls : AckIs(c, ackcall[c])
  BY <1>1 DEF AckIs
<1> QED BY <1>1, <1>2, <1>3 DEF AcksInv

LEMMA AckIsWritten ==
  ASSUME AcksInv, NEW c \in AckCalls, NEW i \in AlertIds, AckWrites(c, i)
  PROVE  AcksInv'
<1> DEFINE x == [at |-> "written", alert |-> i, by |-> NoValue]
<1>1. acked' = [acked EXCEPT ![i] = Append(acked[i], c)] /\ ackcall' = [ackcall EXCEPT ![c] = x]
  BY DEF AckWrites
<1>2. x \in AckRecs /\ x.at = "written" /\ x.alert = i
  BY DEF AckRecs
<1> HIDE DEF x
<1>3. acked[i] \in Seq(AckCalls)
  BY DEF AcksInv
<1>4. /\ Append(acked[i], c) \in Seq(AckCalls)
      /\ DOMAIN Append(acked[i], c) = 1 .. Len(acked[i]) + 1 /\ DOMAIN acked[i] = 1 .. Len(acked[i])
      /\ Append(acked[i], c)[Len(acked[i]) + 1] = c
      /\ \A k \in DOMAIN acked[i] : Append(acked[i], c)[k] = acked[i][k]
  BY <1>3, AppendProperties, LenProperties
<1>5. Len(acked[i]) + 1 \in DOMAIN Append(acked[i], c) /\ DOMAIN acked[i] \in SUBSET DOMAIN Append(acked[i], c)
  BY <1>3, <1>4, LenProperties
<1>6. acked' \in [AlertIds -> Seq(AckCalls)] /\ ackcall' \in [AckCalls -> AckRecs]
  BY <1>1, <1>2, <1>4 DEF AcksInv
<1>7. \A h \in AlertIds : /\ DOMAIN acked[h] \in SUBSET DOMAIN acked'[h]
                          /\ \A k \in DOMAIN acked[h] : acked'[h][k] = acked[h][k]
  <2> TAKE h \in AlertIds
  <2>1. CASE h = i
    BY <1>1, <1>4, <1>5, <2>1 DEF AcksInv
  <2>2. CASE h # i
    BY <1>1, <2>2 DEF AcksInv
  <2> QED BY <2>1, <2>2
<1>8. acked'[i] = Append(acked[i], c)
  BY <1>1 DEF AcksInv
<1>9. \A b \in AckCalls : AckIs(b, ackcall[b])'
  <2> TAKE b \in AckCalls
  <2>1. CASE b = c
    <3>1. ackcall'[b] = x
      BY <1>1, <2>1 DEF AcksInv
    <3>2. \E k \in DOMAIN acked'[i] : acked'[i][k] = c
      BY <1>4, <1>5, <1>8
    <3> QED BY <1>2, <2>1, <3>1, <3>2 DEF AckIs
  <2>2. CASE b # c
    <3>1. ackcall'[b] = ackcall[b]
      BY <1>1, <2>2 DEF AcksInv
    <3>2. AckIs(b, ackcall[b])
      BY DEF AcksInv
    <3> QED BY <1>7, <3>1, <3>2 DEF AckIs
  <2> QED BY <2>1, <2>2
<1> QED BY <1>6, <1>9 DEF AcksInv

LEMMA AckIsAnswered ==
  ASSUME AcksInv, NEW c \in AckCalls, AckAnswers(c)
  PROVE  AcksInv'
<1> DEFINE old == ackcall[c]
           calls == acked[old.alert]
           x == [old EXCEPT !.at = "answered", !.by = Last(calls)]
<1>1. acked' = acked /\ ackcall' = [ackcall EXCEPT ![c] = x]
  BY DEF AckAnswers
<1>2. old \in AckRecs /\ old.at = "written" /\ AckIs(c, old)
  BY DEF AcksInv, AckAnswers
<1>3. calls \in Seq(AckCalls) /\ old.alert \in AlertIds
  BY <1>2 DEF AcksInv, AckIs
<1>4. PICK i \in DOMAIN calls : calls[i] = c
  BY <1>2 DEF AckIs
<1>5. DOMAIN calls = 1 .. Len(calls) /\ Len(calls) \in Nat
  BY <1>3, LenProperties
<1>6. i <= Len(calls) /\ Len(calls) \in DOMAIN calls /\ Last(calls) = calls[Len(calls)]
  BY <1>4, <1>5 DEF Last
<1>7. Last(calls) \in AckCalls
  BY <1>3, <1>5, <1>6, ElementOfSeq
<1>8. x \in AckRecs
  BY <1>2, <1>7 DEF AckRecs
<1>9. x.at = "answered" /\ x.alert = old.alert /\ x.by = Last(calls)
  BY <1>2 DEF AckRecs
<1> HIDE DEF x
<1>10. AckIs(c, x)
  BY <1>3, <1>4, <1>6, <1>9 DEF AckIs
<1>11. ackcall' \in [AckCalls -> AckRecs]
  BY <1>1, <1>8 DEF AcksInv
<1>12. \A b \in AckCalls : AckIs(b, ackcall'[b])
  <2> TAKE b \in AckCalls
  <2>1. ackcall'[b] = IF b = c THEN x ELSE ackcall[b]
    BY <1>1 DEF AcksInv
  <2> QED BY <1>10, <2>1 DEF AcksInv
<1> QED BY <1>1, <1>11, <1>12 DEF AcksInv, AckIs

LEMMA AcksStep == ASSUME AcksInv, AcksNext PROVE AcksInv'
  BY AckIsWritten, AckIsAnswered DEF AcksNext

-----------------------------------------------------------------------------
(* GreeksApi: the history.  The arithmetic of the seconds, minutes, hours  *)
(* and days cuts a time down to a multiple of the interval; snapshots are  *)
(* saved in the order of time, so that a time names one of them.           *)

RowRecs == [ts : Times, value : {1, 2}]
OnePerTime(within) == \A r, s \in within : r.ts = s.ts => r = s

RowsKept ==
  /\ rows \in Seq(RowRecs)
  /\ \A i, j \in DOMAIN rows : i < j => rows[i].ts < rows[j].ts

HistoryIs ==
  /\ IsFiniteSet(lastHistory.within) /\ lastHistory.within \in SUBSET RowRecs
  /\ OnePerTime(lastHistory.within)
  /\ lastHistory.window \in {"1h", "4h", "1d", "7d"}
  /\ lastHistory.points = PointsOf(lastHistory.within, Interval(lastHistory.window))

LEMMA IntervalIs ==
  ASSUME NEW window \in {"1h", "4h", "1d", "7d"}
  PROVE  Interval(window) \in {0, 60, 300, 3600}
  BY DEF Interval

LEMMA BucketIs ==
  ASSUME NEW t \in Nat, NEW w \in {60, 300, 3600}
  PROVE  Bucket(t, w) = (t \div w) * w
<1>1. CASE w = 60
  BY <1>1 DEF Bucket
<1>2. CASE w = 300
  BY <1>2 DEF Bucket
<1>3. CASE w = 3600
  BY <1>3 DEF Bucket
<1> QED BY <1>1, <1>2, <1>3

LEMMA BucketHolds ==
  ASSUME NEW t \in Nat, NEW u \in Nat, NEW w \in {60, 300, 3600}
  PROVE  t >= Bucket(u, w) /\ t < Bucket(u, w) + w <=> Bucket(t, w) = Bucket(u, w)
<1>1. Bucket(t, w) = (t \div w) * w /\ Bucket(u, w) = (u \div w) * w
  BY BucketIs
<1>2. CASE w = 60
  BY <1>1, <1>2
<1>3. CASE w = 300
  BY <1>1, <1>3
<1>4. CASE w = 3600
  BY <1>1, <1>4
<1> QED BY <1>2, <1>3, <1>4

\* The snapshots in the interval of a point.
Interior(within, width, p) ==
  {r \in within : IF width = 0 THEN r.ts = p.ts ELSE r.ts >= p.ts /\ r.ts < p.ts + width}

Splits(within, width, points) ==
  /\ UNION {Interior(within, width, p) : p \in points} = within
  /\ \A p \in points : p = Point(p.ts, Interior(within, width, p)) /\ p.count > 0
  /\ \A x, y \in points : x # y => Interior(within, width, x) \cap Interior(within, width, y) = {}

LEMMA RawSplits ==
  ASSUME NEW within \in SUBSET RowRecs, OnePerTime(within)
  PROVE  Splits(within, 0, PointsOf(within, 0))
<1> DEFINE points == PointsOf(within, 0)
           in(p) == Interior(within, 0, p)
           one(r) == {r}
<1>1. points = {Point(r.ts, one(r)) : r \in within}
  BY DEF PointsOf
<1>2. \A r \in within : /\ in(Point(r.ts, one(r))) = one(r)
                        /\ Point(r.ts, one(r)).ts = r.ts /\ Point(r.ts, one(r)).count > 0
  <2> TAKE r \in within
  <2>1. Point(r.ts, {r}).ts = r.ts /\ Point(r.ts, {r}).count = Cardinality({r})
    BY DEF Point
  <2>2. Cardinality({r}) = 1
    BY FS_Singleton
  <2>3. in(Point(r.ts, {r})) = {s \in within : s.ts = r.ts}
    BY <2>1 DEF Interior
  <2>4. {s \in within : s.ts = r.ts} = {r}
    BY DEF OnePerTime
  <2> QED BY <2>1, <2>2, <2>3, <2>4
<1>3. /\ \A r \in within : r \in one(r) /\ one(r) \in SUBSET within
      /\ \A r, s \in within : \A q \in one(r) : q \in one(s) => r = s
  OBVIOUS
<1> HIDE DEF points, in, one
<1>4. UNION {in(p) : p \in points} = within
  BY <1>1, <1>2, <1>3
<1>5. \A p \in points : p = Point(p.ts, in(p)) /\ p.count > 0
  BY <1>1, <1>2
<1>6. \A x, y \in points : x # y => in(x) \cap in(y) = {}
  <2> SUFFICES ASSUME NEW x \in points, NEW y \in points, NEW r \in in(x), r \in in(y)
               PROVE  x = y
    OBVIOUS
  <2> QED BY <1>1, <1>2, <1>3
<1> QED BY <1>4, <1>5, <1>6 DEF Splits, points, in

LEMMA BucketsSplit ==
  ASSUME NEW within \in SUBSET RowRecs, IsFiniteSet(within), NEW width \in {60, 300, 3600}
  PROVE  Splits(within, width, PointsOf(within, width))
<1> DEFINE points == PointsOf(within, width)
           in(p) == Interior(within, width, p)
           cell(b) == {r \in within : Bucket(r.ts, width) = b}
           buckets == {Bucket(r.ts, width) : r \in within}
<1>1. points = {Point(b, cell(b)) : b \in buckets}
  BY DEF PointsOf
<1>2. \A r \in within : r.ts \in Nat
  <2> TAKE r \in within
  <2>1. r \in RowRecs
    OBVIOUS
  <2>2. r.ts \in Times
    BY <2>1 DEF RowRecs
  <2>3. \A x \in Times : x \in Nat
    BY ApiAssumption
  <2> QED BY <2>2, <2>3
<1>3. \A b \in buckets : /\ Point(b, cell(b)).ts = b /\ in(Point(b, cell(b))) = cell(b)
                         /\ Point(b, cell(b)).count > 0
  <2> TAKE b \in buckets
  <2>1. Point(b, cell(b)).ts = b /\ Point(b, cell(b)).count = Cardinality(cell(b))
    BY DEF Point
  <2>2. PICK u \in within : b = Bucket(u.ts, width)
    OBVIOUS
  <2>3. Cardinality(cell(b)) > 0
    <3>1. cell(b) \in SUBSET within /\ u \in cell(b)
      BY <2>2
    <3>2. IsFiniteSet(cell(b)) /\ cell(b) # {}
      BY <3>1, FS_Subset
    <3> HIDE DEF cell
    <3> QED BY <3>2, FS_CardinalityType, FS_EmptySet
  <2>4. in(Point(b, cell(b))) = cell(b)
    <3>1. in(Point(b, cell(b))) = {r \in within : r.ts >= b /\ r.ts < b + width}
      BY <2>1 DEF Interior
    <3>2. \A r \in within : r.ts >= b /\ r.ts < b + width <=> Bucket(r.ts, width) = b
      <4> TAKE r \in within
      <4>1. r.ts \in Nat /\ u.ts \in Nat
        BY <1>2
      <4> QED BY <2>2, <4>1, BucketHolds
    <3> QED BY <3>1, <3>2
  <2> QED BY <2>1, <2>3, <2>4
<1>4. \A r \in within : Bucket(r.ts, width) \in buckets /\ r \in cell(Bucket(r.ts, width))
  OBVIOUS
<1>5. \A b, c \in buckets : \A r \in cell(b) : r \in cell(c) => b = c
  OBVIOUS
<1>6. \A b \in buckets : cell(b) \in SUBSET within
  OBVIOUS
<1> HIDE DEF points, in, cell, buckets
<1>7. UNION {in(p) : p \in points} = within
  BY <1>1, <1>3, <1>4, <1>6
<1>8. \A p \in points : p = Point(p.ts, in(p)) /\ p.count > 0
  BY <1>1, <1>3
<1>9. \A x, y \in points : x # y => in(x) \cap in(y) = {}
  <2> SUFFICES ASSUME NEW x \in points, NEW y \in points, NEW r \in in(x), r \in in(y)
               PROVE  x = y
    OBVIOUS
  <2> QED BY <1>1, <1>3, <1>5
<1> QED BY <1>7, <1>8, <1>9 DEF Splits, points, in

LEMMA HistoryGivesSplits == HistoryIs => HistorySplitsRows
<1> SUFFICES ASSUME HistoryIs PROVE HistorySplitsRows
  OBVIOUS
<1> DEFINE within == lastHistory.within
           width == Interval(lastHistory.window)
<1>1. Splits(within, width, lastHistory.points)
  <2>1. /\ within \in SUBSET RowRecs /\ IsFiniteSet(within) /\ OnePerTime(within)
        /\ lastHistory.points = PointsOf(within, width)
    BY DEF HistoryIs
  <2>2. width \in {0, 60, 300, 3600}
    BY IntervalIs DEF HistoryIs
  <2> HIDE DEF within, width
  <2>3. CASE width = 0
    BY <2>1, <2>3, RawSplits
  <2>4. CASE width \in {60, 300, 3600}
    BY <2>1, <2>4, BucketsSplit
  <2> QED BY <2>2, <2>3, <2>4
<1> QED BY <1>1 DEF Splits, Interior, HistorySplitsRows

LEMMA HistoryFromInit == ApiInit => RowsKept /\ HistoryIs
<1> SUFFICES ASSUME ApiInit PROVE RowsKept /\ HistoryIs
  OBVIOUS
<1>1. rows = <<>> /\ lastHistory = [now |-> 0, window |-> "1h", within |-> {}, points |-> {}]
  BY DEF ApiInit
<1>2. RowsKept
  BY <1>1 DEF RowsKept
<1>3. PointsOf({}, Interval("1h")) = {}
  BY DEF PointsOf, Interval
<1> QED BY <1>1, <1>2, <1>3, FS_EmptySet DEF HistoryIs, OnePerTime

LEMMA RowIsSaved ==
  ASSUME RowsKept, NEW t \in Times, NEW v \in {1, 2}, Save(t, v)
  PROVE  RowsKept'
<1> DEFINE x == [ts |-> t, value |-> v]
<1>1. rows' = Append(rows, x) /\ \A i \in DOMAIN rows : rows[i].ts < t
  BY DEF Save
<1>2. x \in RowRecs /\ x.ts = t
  BY DEF RowRecs
<1> HIDE DEF x
<1>3. rows \in Seq(RowRecs)
  BY DEF RowsKept
<1>4. /\ rows' \in Seq(RowRecs) /\ DOMAIN rows' = 1 .. Len(rows) + 1
      /\ DOMAIN rows = 1 .. Len(rows) /\ Len(rows) \in Nat
      /\ rows'[Len(rows) + 1] = x /\ \A k \in 1 .. Len(rows) : rows'[k] = rows[k]
  BY <1>1, <1>2, <1>3, AppendProperties, LenProperties
<1>5. \A i, j \in DOMAIN rows' : i < j => rows'[i].ts < rows'[j].ts
  <2> SUFFICES ASSUME NEW i \in DOMAIN rows', NEW j \in DOMAIN rows', i < j
               PROVE  rows'[i].ts < rows'[j].ts
    OBVIOUS
  <2>1. i \in 1 .. Len(rows) /\ rows'[i] = rows[i]
    BY <1>4
  <2>2. CASE j = Len(rows) + 1
    BY <1>1, <1>2, <1>4, <2>1, <2>2
  <2>3. CASE j # Len(rows) + 1
    <3>1. j \in 1 .. Len(rows) /\ rows'[j] = rows[j]
      BY <1>4, <2>3
    <3> QED BY <1>4, <2>1, <3>1 DEF RowsKept
  <2> QED BY <2>2, <2>3
<1> QED BY <1>4, <1>5 DEF RowsKept

LEMMA RowsAre ==
  ASSUME RowsKept
  PROVE  IsFiniteSet(ToSet(rows)) /\ ToSet(rows) \in SUBSET RowRecs /\ OnePerTime(ToSet(rows))
<1>1. /\ rows \in Seq(RowRecs) /\ DOMAIN rows = 1 .. Len(rows) /\ Len(rows) \in Nat
      /\ \A i \in DOMAIN rows : rows[i] \in RowRecs
  BY LenProperties, ElementOfSeq DEF RowsKept
<1>2. ToSet(rows) = {rows[i] : i \in DOMAIN rows}
  BY DEF ToSet
<1>3. \A i \in DOMAIN rows : rows[i].ts \in Nat
  BY <1>1, ApiAssumption DEF RowRecs
<1>4. IsFiniteSet(ToSet(rows))
  <2>1. IsFiniteSet(1 .. Len(rows))
    BY <1>1, FS_Interval
  <2>2. PICK S : S = 1 .. Len(rows)
    OBVIOUS
  <2> DEFINE f == [i \in S |-> rows[i]]
  <2>3. {f[i] : i \in S} = ToSet(rows)
    BY <1>1, <1>2, <2>2
  <2>4. f \in Surjection(S, ToSet(rows))
    BY <2>3 DEF Surjection
  <2> HIDE DEF f
  <2> QED BY <2>1, <2>2, <2>4, FS_Surjection
<1>5. OnePerTime(ToSet(rows))
  <2> SUFFICES ASSUME NEW i \in DOMAIN rows, NEW j \in DOMAIN rows, rows[i].ts = rows[j].ts
               PROVE  rows[i] = rows[j]
    BY <1>2 DEF OnePerTime
  <2>1. ~(i < j) /\ ~(j < i)
    BY <1>3 DEF RowsKept
  <2> QED BY <1>1, <2>1
<1> QED BY <1>1, <1>2, <1>4, <1>5

LEMMA HistoryIsAnswered ==
  ASSUME RowsKept, NEW w \in HistoryWindows, NEW t \in Times, GetHistory(w, t)
  PROVE  HistoryIs'
<1> DEFINE within == {r \in ToSet(rows) : r.ts >= t - 3600 * Hours(w) /\ r.ts <= t}
<1>1. lastHistory' = [now |-> t, window |-> w, within |-> within,
                      points |-> PointsOf(within, Interval(w))]
  BY DEF GetHistory
<1>2. within \in SUBSET ToSet(rows)
  OBVIOUS
<1> HIDE DEF within
<1>3. IsFiniteSet(within) /\ within \in SUBSET RowRecs /\ OnePerTime(within)
  BY <1>2, RowsAre, FS_Subset DEF OnePerTime
<1>4. w \in {"1h", "4h", "1d", "7d"}
  BY ApiAssumption
<1>5. /\ lastHistory'.window = w /\ lastHistory'.within = within
      /\ lastHistory'.points = PointsOf(within, Interval(w))
  BY <1>1
<1> QED BY <1>3, <1>4, <1>5 DEF HistoryIs, OnePerTime

LEMMA HistoryStep ==
  ASSUME RowsKept, HistoryIs, HistoryNext
  PROVE  RowsKept' /\ HistoryIs'
<1>1. CASE \E t \in Times, v \in {1, 2} : Save(t, v)
  <2>1. RowsKept'
    BY <1>1, RowIsSaved
  <2>2. lastHistory' = lastHistory
    BY <1>1 DEF Save
  <2> QED BY <2>1, <2>2 DEF HistoryIs
<1>2. CASE \E w \in HistoryWindows, t \in Times : GetHistory(w, t)
  <2>1. HistoryIs'
    BY <1>2, HistoryIsAnswered
  <2>2. rows' = rows
    BY <1>2 DEF GetHistory
  <2> QED BY <2>1, <2>2 DEF RowsKept
<1> QED BY <1>1, <1>2 DEF HistoryNext

-----------------------------------------------------------------------------
(* Idempotency: the row of the key is the trace of a caller that is done,  *)
(* and a caller that is done stays as it is.                               *)

CallerRecs == [at : {"new", "executing", "done", "failed"}, answer : Callers \cup {NoResponse},
               asked : 0 .. MaxHours, done : 0 .. MaxHours]

\* A caller that stored its own response.
Stored(c) == c \in Callers /\ caller[c].at = "done" /\ caller[c].answer = c

RowIs == row = NoRow \/ (Stored(row.response) /\ row.expires = caller[row.response].done + TTL)

\* A caller that is done has a stored answer: its own, or one that lived when it asked.
AnswerIs(c) ==
  caller[c].at = "done" =>
    /\ Stored(caller[c].answer)
    /\ caller[c].answer # c =>
         /\ caller[caller[c].answer].done <= caller[c].asked
         /\ caller[c].asked < caller[caller[c].answer].done + TTL

KeyInv ==
  /\ IdemTypeOK /\ RowIs
  /\ \A c \in Callers : caller[c].done <= hour /\ AnswerIs(c)

LEMMA KeyFromInit == IdemInit => KeyInv
  BY IdempotencyAssumption DEF IdemInit, KeyInv, IdemTypeOK, RowIs, AnswerIs, NoRow

LEMMA KeyInvGivesRecent == KeyInv => IdemTypeOK /\ ReplayIsRecent
  BY DEF KeyInv, ReplayIsRecent, AnswerIs, Stored

\* One caller that was not done moves, and no row it does not fit is left.
LEMMA CallerMoves ==
  ASSUME KeyInv, NEW c \in Callers, caller[c].at # "done",
         NEW x \in CallerRecs, caller' = [caller EXCEPT ![c] = x], hour' = hour,
         row' \in [response : Callers \cup {NoResponse}, expires : 0 .. MaxHours + TTL],
         x.done <= hour,
         \/ row' = row
         \/ row'.response = c /\ row'.expires = x.done + TTL /\ x.at = "done" /\ x.answer = c,
         x.at = "done" =>
           \/ x.answer = c
           \/ LET f == x.answer
              IN /\ Stored(f) /\ f # c
                 /\ caller[f].done <= x.asked /\ x.asked < caller[f].done + TTL
  PROVE  KeyInv'
<1>1. caller \in [Callers -> CallerRecs] /\ hour \in 0 .. MaxHours
  BY DEF KeyInv, IdemTypeOK, CallerRecs
<1>2. caller' \in [Callers -> CallerRecs] /\ caller'[c] = x
      /\ \A b \in Callers : b # c => caller'[b] = caller[b]
  BY <1>1
<1>3. IdemTypeOK'
  BY <1>1, <1>2 DEF IdemTypeOK, CallerRecs
<1>4. \A b : Stored(b) => b # c /\ Stored(b)' /\ caller'[b] = caller[b]
  BY <1>2 DEF Stored
<1>5. RowIs'
  <2>1. CASE row' = row
    BY <1>4, <2>1 DEF KeyInv, RowIs, NoRow
  <2>2. CASE /\ row'.response = c /\ row'.expires = x.done + TTL
             /\ x.at = "done" /\ x.answer = c
    BY <1>2, <2>2 DEF RowIs, Stored
  <2> QED BY <2>1, <2>2
<1>6. \A b \in Callers : caller'[b].done <= hour'
  BY <1>2 DEF KeyInv
<1>7. ASSUME NEW b \in Callers
      PROVE  AnswerIs(b)'
  <2> SUFFICES ASSUME caller'[b].at = "done"
               PROVE  /\ Stored(caller[b].answer)'
                      /\ caller'[b].answer # b =>
                           /\ caller'[caller'[b].answer].done <= caller'[b].asked
                           /\ caller'[b].asked < caller'[caller'[b].answer].done + TTL
    BY DEF AnswerIs
  <2>1. CASE b = c
    <3>0. caller'[b] = x /\ x.at = "done"
      BY <1>2, <2>1
    <3>1. CASE x.answer = c
      BY <1>2, <2>1, <3>0, <3>1 DEF Stored
    <3>2. CASE x.answer # c
      <4>1. PICK f : f = x.answer
        OBVIOUS
      <4>2. Stored(f) /\ caller[f].done <= x.asked /\ x.asked < caller[f].done + TTL
        BY <3>0, <3>2, <4>1
      <4>3. Stored(f)' /\ caller'[f] = caller[f]
        BY <1>4, <4>2
      <4>4. Stored(caller[b].answer)'
        BY <3>0, <4>1, <4>3
      <4> QED BY <3>0, <4>1, <4>2, <4>3, <4>4
    <3> QED BY <3>1, <3>2
  <2>2. CASE b # c
    <3>1. caller'[b] = caller[b]
      BY <1>2, <2>2
    <3>2. AnswerIs(b)
      BY DEF KeyInv
    <3>3. PICK f : f = caller[b].answer
      OBVIOUS
    <3>4. /\ Stored(f)
          /\ f # b => caller[f].done <= caller[b].asked /\ caller[b].asked < caller[f].done + TTL
      BY <3>1, <3>2, <3>3 DEF AnswerIs
    <3>5. Stored(f)' /\ caller'[f] = caller[f]
      BY <1>4, <3>4
    <3>6. Stored(caller[b].answer)'
      BY <3>1, <3>3, <3>5
    <3> QED BY <3>1, <3>3, <3>4, <3>5, <3>6
  <2> QED BY <2>1, <2>2
<1> QED BY <1>3, <1>5, <1>6, <1>7 DEF KeyInv

LEMMA KeyStep ==
  ASSUME KeyInv, IdemNext
  PROVE  KeyInv'
<1>0. /\ caller \in [Callers -> CallerRecs] /\ hour \in 0 .. MaxHours /\ MaxHours \in Nat
      /\ row \in [response : Callers \cup {NoResponse}, expires : 0 .. MaxHours + TTL]
      /\ TTL \in Nat \ {0} /\ NoResponse \notin Callers
  BY IdempotencyAssumption DEF KeyInv, IdemTypeOK, CallerRecs
<1>1. ASSUME NEW c \in Callers, GetCached(c)
      PROVE  KeyInv'
  <2> DEFINE at == IF Live(row) THEN "done" ELSE "executing"
             answer == IF Live(row) THEN row.response ELSE NoResponse
             x == [at |-> at, answer |-> answer, asked |-> hour, done |-> hour]
  <2>1. caller[c].at # "done" /\ hour' = hour /\ row' = row
    BY <1>1 DEF GetCached
  <2>2. caller' = [caller EXCEPT ![c] = x]
    BY <1>1 DEF GetCached
  <2>3. at \in {"new", "executing", "done", "failed"} /\ answer \in Callers \cup {NoResponse}
    BY <1>0
  <2>4. x.at = "done" =>
          /\ x.answer = row.response /\ Stored(x.answer) /\ x.answer # c
          /\ caller[x.answer].done <= x.asked /\ x.asked < caller[x.answer].done + TTL
    <3> SUFFICES ASSUME at = "done"
                 PROVE  /\ answer = row.response /\ Stored(answer) /\ answer # c
                        /\ caller[answer].done <= hour /\ hour < caller[answer].done + TTL
      OBVIOUS
    <3>1. Live(row) /\ answer = row.response
      OBVIOUS
    <3>2. row # NoRow /\ row.expires > hour
      BY <3>1 DEF Live, NoRow
    <3>3. Stored(row.response) /\ row.expires = caller[row.response].done + TTL
      BY <3>2 DEF KeyInv, RowIs
    <3>4. row.response # c /\ row.response \in Callers
      BY <2>1, <3>3 DEF Stored
    <3> QED BY <3>1, <3>2, <3>3, <3>4 DEF KeyInv
  <2> HIDE DEF at, answer
  <2>5. x \in CallerRecs /\ x.done <= hour
    BY <1>0, <2>3 DEF CallerRecs
  <2> HIDE DEF x
  <2> QED BY <1>0, <2>1, <2>2, <2>4, <2>5, CallerMoves
<1>2. ASSUME NEW c \in Callers, StoreKey(c)
      PROVE  KeyInv'
  <2> DEFINE x == [caller[c] EXCEPT !.at = "done", !.answer = c, !.done = hour]
  <2>1. /\ caller[c].at # "done" /\ hour' = hour /\ caller' = [caller EXCEPT ![c] = x]
        /\ row' = IF row = NoRow THEN [response |-> c, expires |-> hour + TTL] ELSE row
    BY <1>2 DEF StoreKey
  <2>2. caller[c] \in CallerRecs
    BY <1>0
  <2>3. /\ x \in CallerRecs /\ x.at = "done" /\ x.answer = c /\ x.done = hour
    BY <1>0, <2>2 DEF CallerRecs
  <2> HIDE DEF x
  <2>4. hour + TTL \in 0 .. MaxHours + TTL /\ x.done <= hour
    BY <1>0, <2>3
  <2>5. row' \in [response : Callers \cup {NoResponse}, expires : 0 .. MaxHours + TTL]
    BY <1>0, <2>1, <2>4
  <2>6. \/ row' = row
        \/ row'.response = c /\ row'.expires = x.done + TTL /\ x.at = "done" /\ x.answer = c
    BY <2>1, <2>3
  <2> QED BY <2>1, <2>3, <2>4, <2>5, <2>6, CallerMoves
<1>3. ASSUME NEW c \in Callers, Fails(c)
      PROVE  KeyInv'
  <2> DEFINE x == [caller[c] EXCEPT !.at = "failed"]
  <2>1. /\ caller[c].at # "done" /\ hour' = hour /\ caller' = [caller EXCEPT ![c] = x] /\ row' = row
    BY <1>3 DEF Fails
  <2>2. caller[c] \in CallerRecs
    BY <1>0
  <2>3. /\ x \in CallerRecs /\ x.at = "failed" /\ x.done = caller[c].done
    BY <2>2 DEF CallerRecs
  <2> HIDE DEF x
  <2>4. x.done <= hour
    BY <2>3 DEF KeyInv
  <2> QED BY <1>0, <2>1, <2>3, <2>4, CallerMoves
<1>4. CASE CleanupExpired
  <2>1. row' = NoRow /\ caller' = caller /\ hour' = hour
    BY <1>4 DEF CleanupExpired
  <2>2. NoRow \in [response : Callers \cup {NoResponse}, expires : 0 .. MaxHours + TTL]
    BY <1>0 DEF NoRow
  <2> QED BY <2>1, <2>2 DEF KeyInv, IdemTypeOK, RowIs, AnswerIs, Stored, NoRow
<1>5. CASE HourPasses
  <2>1. hour' = hour + 1 /\ hour < MaxHours /\ row' = row /\ caller' = caller
    BY <1>5 DEF HourPasses
  <2>2. hour' \in 0 .. MaxHours /\ \A c \in Callers : caller[c].done <= hour'
    <3>1. \A c \in Callers : caller[c].done \in 0 .. MaxHours
      BY DEF KeyInv, IdemTypeOK
    <3> QED BY <1>0, <2>1, <3>1 DEF KeyInv
  <2> QED BY <2>1, <2>2 DEF KeyInv, IdemTypeOK, RowIs, AnswerIs, Stored, NoRow
<1> QED BY <1>1, <1>2, <1>3, <1>4, <1>5 DEF IdemNext

-----------------------------------------------------------------------------
(* Answers: the two together.                                              *)

ApiInv == LimitsKept /\ ShocksInv /\ AcksInv /\ RowsKept /\ HistoryIs

LEMMA ApiFromInit == ApiInit => ApiInv
  BY LimitsFromInit, AcksFromInit, HistoryFromInit DEF ApiInv

LEMMA LimitsKeepRest ==
  ASSUME ApiInv, LimitsNext
  PROVE  (AcksInv /\ RowsKept /\ HistoryIs)'
<1>1. UNCHANGED <<ackvars, rows, lastHistory>>
  BY DEF LimitsNext, PutLimits, BookMoves, ShockLoads, ShockAnswers
<1>2. acked' = acked /\ ackcall' = ackcall /\ rows' = rows /\ lastHistory' = lastHistory
  BY <1>1 DEF ackvars
<1> QED BY <1>2 DEF ApiInv, AcksInv, AckIs, RowsKept, HistoryIs

LEMMA AcksKeepRest ==
  ASSUME ApiInv, AcksNext
  PROVE  (LimitsKept /\ ShocksInv /\ RowsKept /\ HistoryIs)'
<1>1. UNCHANGED <<limitvars, rows, lastHistory>>
  BY DEF AcksNext, AckWrites, AckAnswers
<1>2. limits' = limits /\ book' = book /\ shock' = shock /\ rows' = rows /\ lastHistory' = lastHistory
  BY <1>1 DEF limitvars
<1> QED BY <1>2 DEF ApiInv, LimitsKept, ValidSet, ShocksInv, ShockIs, Fitting, ExposureIs,
                    RowsKept, HistoryIs

LEMMA HistoryKeepsRest ==
  ASSUME ApiInv, HistoryNext
  PROVE  (LimitsKept /\ ShocksInv /\ AcksInv)'
<1>1. UNCHANGED <<limitvars, ackvars>>
  BY DEF HistoryNext, Save, GetHistory
<1>2. limits' = limits /\ book' = book /\ shock' = shock /\ acked' = acked /\ ackcall' = ackcall
  BY <1>1 DEF limitvars, ackvars
<1> QED BY <1>2 DEF ApiInv, LimitsKept, ValidSet, ShocksInv, ShockIs, Fitting, ExposureIs,
                    AcksInv, AckIs

LEMMA ApiStutters ==
  ASSUME ApiInv, UNCHANGED apivars
  PROVE  ApiInv'
<1>1. /\ limits' = limits /\ book' = book /\ shock' = shock /\ acked' = acked
      /\ ackcall' = ackcall /\ rows' = rows /\ lastHistory' = lastHistory
  BY DEF apivars, limitvars, ackvars
<1> QED BY <1>1 DEF ApiInv, LimitsKept, ValidSet, ShocksInv, ShockIs, Fitting, ExposureIs,
                    AcksInv, AckIs, RowsKept, HistoryIs

LEMMA KeyStutters ==
  ASSUME KeyInv, UNCHANGED idemvars
  PROVE  KeyInv'
<1>1. hour' = hour /\ row' = row /\ caller' = caller
  BY DEF idemvars
<1> QED BY <1>1 DEF KeyInv, IdemTypeOK, RowIs, AnswerIs, Stored, NoRow

LEMMA ApiStep ==
  ASSUME ApiInv, LimitsNext \/ AcksNext \/ HistoryNext
  PROVE  ApiInv'
<1>1. CASE LimitsNext
  BY <1>1, LimitsStep, LimitsKeepRest DEF ApiInv
<1>2. CASE AcksNext
  BY <1>2, AcksStep, AcksKeepRest DEF ApiInv
<1>3. CASE HistoryNext
  BY <1>3, HistoryStep, HistoryKeepsRest DEF ApiInv
<1> QED BY <1>1, <1>2, <1>3

LEMMA ApiInvGivesSound ==
  ApiInv => ApiTypeOK /\ LimitsRise /\ PnlMatchesDelta /\ AckAnswersOwnOrLater /\ HistorySplitsRows
<1> SUFFICES ASSUME ApiInv
             PROVE  ApiTypeOK /\ LimitsRise /\ PnlMatchesDelta /\ AckAnswersOwnOrLater /\ HistorySplitsRows
  OBVIOUS
<1>1. ApiTypeOK
  <2>1. \A r \in Shocks : shock[r].at \in {"new", "loaded", "answered"}
    <3>1. \A r \in Shocks : shock[r] \in ShockRecs
      BY DEF ApiInv, ShocksInv
    <3> QED BY <3>1 DEF ShockRecs
  <2>2. \A c \in AckCalls : ackcall[c].at \in {"new", "written", "answered"}
    BY DEF ApiInv, AcksInv, AckRecs
  <2>3. \A i \in DOMAIN rows : rows[i].ts \in Times
    <3>1. \A i \in DOMAIN rows : rows[i] \in RowRecs
      BY LenProperties, ElementOfSeq DEF ApiInv, RowsKept
    <3> QED BY <3>1 DEF RowRecs
  <2> QED BY <2>1, <2>2, <2>3 DEF ApiTypeOK, ApiInv, LimitsKept, AcksInv
<1>2. LimitsRise
  <2>1. \A a \in Accounts, d \in Dims : Ordered(LimitsOf(a)[d])
    BY LimitsOfRise DEF ApiInv, ValidSet
  <2>2. \A r \in Shocks : shock[r].at = "answered" => \A d \in Dims : Ordered(shock[r].under[d])
    BY DEF ApiInv, ShocksInv, ShockIs, ValidSet
  <2> QED BY <2>1, <2>2 DEF LimitsRise
<1>3. PnlMatchesDelta
  BY DEF ApiInv, ShocksInv, ShockIs, Fitting, PnlMatchesDelta
<1>4. AckAnswersOwnOrLater
  BY DEF ApiInv, AcksInv, AckIs, AckAnswersOwnOrLater
<1>5. HistorySplitsRows
  BY HistoryGivesSplits DEF ApiInv
<1> QED BY <1>1, <1>2, <1>3, <1>4, <1>5

\* What the endpoints answer from their state agrees with it, whatever the accounts, the
\* books, the limits put, the calls and the snapshots are, and what an idempotency key
\* replays was executed, and no longer ago than the time to live.
THEOREM AnswersAreSound == AnswersSpec => []AnswersSound
<1>1. AnswersInit => ApiInv /\ KeyInv
  BY ApiFromInit, KeyFromInit DEF AnswersInit
<1>2. ApiInv /\ KeyInv /\ [AnswersNext]_<<apivars, idemvars>> => (ApiInv /\ KeyInv)'
  BY ApiStep, KeyStep, ApiStutters, KeyStutters DEF AnswersNext
<1>3. ApiInv /\ KeyInv => AnswersSound
  BY ApiInvGivesSound, KeyInvGivesRecent DEF AnswersSound
<1> QED BY <1>1, <1>2, <1>3, PTL DEF AnswersSpec

\* The response stored first under a key stays until the key expires and is deleted: of
\* callers that race, one decides for all that ask while it lives.
THEOREM FirstStoredStays == AnswersSpec => FirstResponseStays
<1>1. [AnswersNext]_<<apivars, idemvars>>
      => [row # NoRow /\ row' # row => row' = NoRow /\ row.expires <= hour]_idemvars
  <2> SUFFICES ASSUME [AnswersNext]_<<apivars, idemvars>>, ~(UNCHANGED idemvars),
                      row # NoRow, row' # row
               PROVE  row' = NoRow /\ row.expires <= hour
    BY DEF idemvars
  <2>1. IdemNext
    BY DEF AnswersNext, idemvars
  <2> QED BY <2>1 DEF IdemNext, GetCached, StoreKey, Fails, CleanupExpired, HourPasses
<1> QED BY <1>1, PTL DEF AnswersSpec, FirstResponseStays
=============================================================================
