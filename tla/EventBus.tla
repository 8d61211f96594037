------------------------------ MODULE EventBus ------------------------------
(***************************************************************************)
(* The bus on which the degradation services publish (degradation/         *)
(* event_bus.py), in the detail Degradation leaves out: the dispatch task, *)
(* its start and stop, and the subscribers, each of which may suspend or   *)
(* raise.  The application starts and stops the bus in turn                *)
(* (degradation/setup.py).                                                 *)
(***************************************************************************)
EXTENDS Integers, Sequences, SequencesExt, FiniteSets

CONSTANTS
  MaxEvents,    \* bound: events published, numbered in that order
  Critical,     \* numbers of events with a reason code of MUST_DELIVER_EVENTS
  Handlers,     \* coroutines that subscribe, each once
  Capacity,     \* config.event_bus_queue_size
  Fallback,     \* a path for the fallback log is configured
  MaxStarts     \* bound: starts of the bus

ASSUME BusAssumption ==
  /\ MaxEvents \in Nat /\ MaxStarts \in Nat /\ Capacity \in Nat /\ Capacity > 0
  /\ Critical \subseteq 1 .. MaxEvents /\ Fallback \in BOOLEAN

VARIABLES
  published,    \* number of events published so far
  waiting,      \* _queue
  dropped,      \* events that found it full
  logged,       \* events in the fallback log
  degraded,     \* critical events the emergency callback was called with
  callback,     \* an emergency callback is set
  subscribers,  \* _subscribers
  got,          \* handler -> the events it was called with
  given,        \* events that went through the list of subscribers
  cut,          \* events whose way through the list was cut off by a stop
  running,      \* _running
  taskLoop,     \* number of the loop _dispatch_task holds, 0 for None
  loops,        \* number -> [at, event, next], for each loop started
  stopping      \* number of the loop a call of stop awaits, 0 when there is none

busvars == <<published, waiting, dropped, logged, degraded, callback, subscribers, got, given,
             cut, running, taskLoop, loops, stopping>>

Kept == <<published, waiting, dropped, logged, degraded>>
Lists == <<callback, subscribers, got, given, cut>>
Life == <<running, taskLoop, stopping>>

-----------------------------------------------------------------------------
(* Publishing and subscribing.                                             *)

\* Faulty: only critical events go to the fallback log.
LogCritical(e) == logged' = IF Fallback /\ e \in Critical THEN logged \cup {e} ELSE logged

\* _write_fallback_log, when the file can be written.
WriteFallbackLog(e) == logged' = IF Fallback THEN logged \cup {e} ELSE logged

\* _local_emergency_degrade: nothing without a callback.
LocalEmergencyDegrade(e) == degraded' = IF callback THEN degraded \cup {e} ELSE degraded

\* publish: put_nowait; an event that finds the queue full is dropped.
PublishEvent ==
  LET e == published + 1
  IN /\ published < MaxEvents
     /\ published' = e
     /\ \/ /\ Len(waiting) < Capacity
           /\ waiting' = Append(waiting, e)
           /\ UNCHANGED <<dropped, logged, degraded>>
        \/ /\ Len(waiting) = Capacity
           /\ dropped' = dropped \cup {e}
           /\ WriteFallbackLog(e)
           /\ IF e \in Critical THEN LocalEmergencyDegrade(e) ELSE UNCHANGED degraded
           /\ UNCHANGED waiting
     /\ UNCHANGED <<Lists, Life, loops>>

SetCallback ==
  /\ callback' = TRUE
  /\ UNCHANGED <<Kept, subscribers, got, given, cut, Life, loops>>

Subscribe(h) ==
  /\ h \notin ToSet(subscribers)
  /\ subscribers' = Append(subscribers, h)
  /\ UNCHANGED <<Kept, callback, got, given, cut, Life, loops>>

-----------------------------------------------------------------------------
(* The dispatch loop.  A loop waits, is in a handler, or has ended; it is  *)
(* deaf in a handler when it has lost its cancellation.  The next field is *)
(* the place of the handler it is in.                                      *)

Waiting == [at |-> "waiting", event |-> 0, next |-> 0]
Ended == [at |-> "ended", event |-> 0, next |-> 0]

Call(h, e) == got' = [got EXCEPT ![h] = Append(@, e)]

\* After an event the loop looks at _running.
Rest == IF running THEN Waiting ELSE Ended

\* wait_for(queue.get()) returns, and the first subscriber is called.  Before Python
\* 3.12 wait_for may return the event to a task that is being cancelled, which then is
\* not.
Take(l) ==
  /\ loops[l].at = "waiting" /\ waiting # <<>>
  /\ waiting' = Tail(waiting)
  /\ IF subscribers = <<>>
       THEN /\ loops' = [loops EXCEPT ![l] = Rest]
            /\ given' = given \cup {Head(waiting)}
            /\ UNCHANGED got
       ELSE /\ loops' = [loops EXCEPT ![l] = [at |-> IF running THEN "handler" ELSE "deaf",
                                            event |-> Head(waiting), next |-> 1]]
            /\ Call(subscribers[1], Head(waiting))
            /\ UNCHANGED given
  /\ UNCHANGED <<published, dropped, logged, degraded, callback, subscribers, cut, Life>>

\* The wait times out, ten times a second.
TimesOut(l) ==
  /\ loops[l].at = "waiting" /\ ~running
  /\ loops' = [loops EXCEPT ![l] = Ended]
  /\ UNCHANGED <<Kept, Lists, Life>>

\* Faulty: the exception of a handler ends the round.
HandlerReturnsOrEnds(l) ==
  LET n == loops[l].next  e == loops[l].event
  IN /\ loops[l].at \in {"handler", "deaf"}
     /\ \/ /\ n < Len(subscribers)
           /\ loops' = [loops EXCEPT ![l] = [@ EXCEPT !.next = n + 1]]
           /\ Call(subscribers[n + 1], e)
           /\ UNCHANGED given
        \/ /\ loops' = [loops EXCEPT ![l] = Rest]
           /\ given' = given \cup {e}
           /\ UNCHANGED got
     /\ UNCHANGED <<Kept, callback, subscribers, cut, Life>>

\* Faulty: the exception of a handler ends the loop.
HandlerReturnsOrKills(l) ==
  /\ loops[l].at \in {"handler", "deaf"}
  /\ \/ loops' = [loops EXCEPT ![l] = Rest]
     \/ loops' = [loops EXCEPT ![l] = Ended]
  /\ given' = given \cup {loops[l].event}
  /\ UNCHANGED <<Kept, callback, subscribers, got, cut, Life>>

\* The handler returns or raises, which is logged; the next one is called.
HandlerReturns(l) ==
  LET n == loops[l].next  e == loops[l].event
  IN /\ loops[l].at \in {"handler", "deaf"}
     /\ IF n < Len(subscribers)
          THEN /\ loops' = [loops EXCEPT ![l] = [@ EXCEPT !.next = n + 1]]
               /\ Call(subscribers[n + 1], e)
               /\ UNCHANGED given
          ELSE /\ loops' = [loops EXCEPT ![l] = Rest]
               /\ given' = given \cup {e}
               /\ UNCHANGED got
     /\ UNCHANGED <<Kept, callback, subscribers, cut, Life>>

Dispatching(l) == Take(l) \/ TimesOut(l) \/ HandlerReturns(l)

-----------------------------------------------------------------------------
(* Start and stop.                                                         *)

\* start: nothing when the bus runs.
StartBus ==
  /\ ~running /\ stopping = 0 /\ Len(loops) < MaxStarts
  /\ running' = TRUE
  /\ loops' = Append(loops, Waiting)
  /\ taskLoop' = Len(loops) + 1
  /\ UNCHANGED <<Kept, Lists, stopping>>

\* Faulty: stop does not wait for the loop it cancels.
StopAtOnce ==
  /\ running /\ stopping = 0
  /\ running' = FALSE /\ taskLoop' = 0
  /\ UNCHANGED <<Kept, Lists, loops, stopping>>

\* stop: the loop is cancelled, and awaited.
StopBus ==
  /\ running /\ stopping = 0
  /\ running' = FALSE
  /\ stopping' = taskLoop
  /\ UNCHANGED <<Kept, Lists, loops, taskLoop>>

\* The cancellation reaches the loop where it is suspended.
CancelReaches ==
  /\ stopping # 0 /\ loops[stopping].at \in {"waiting", "handler"}
  /\ cut' = (IF loops[stopping].at = "handler" THEN cut \cup {loops[stopping].event} ELSE cut)
  /\ loops' = [loops EXCEPT ![stopping] = Ended]
  /\ UNCHANGED <<Kept, callback, subscribers, got, given, Life>>

StopReturns ==
  /\ stopping # 0 /\ loops[stopping].at = "ended"
  /\ stopping' = 0 /\ taskLoop' = 0
  /\ UNCHANGED <<Kept, Lists, running, loops>>

BusInit ==
  /\ published = 0 /\ waiting = <<>> /\ dropped = {} /\ logged = {} /\ degraded = {}
  /\ callback = FALSE /\ subscribers = <<>> /\ got = [h \in Handlers |-> <<>>]
  /\ given = {} /\ cut = {} /\ running = FALSE /\ taskLoop = 0 /\ loops = <<>> /\ stopping = 0

BusNext ==
  \/ PublishEvent \/ SetCallback
  \/ \E h \in Handlers : Subscribe(h)
  \/ \E l \in DOMAIN loops : Dispatching(l)
  \/ StartBus \/ StopBus \/ CancelReaches \/ StopReturns

-----------------------------------------------------------------------------
(* Properties.                                                             *)

\* Types of the variables.
BusTypeOK ==
  /\ published \in 0 .. MaxEvents /\ waiting \in Seq(1 .. MaxEvents) /\ Len(waiting) <= Capacity
  /\ dropped \cup logged \cup degraded \cup given \cup cut \subseteq 1 .. MaxEvents
  /\ subscribers \in Seq(Handlers) /\ got \in [Handlers -> Seq(1 .. MaxEvents)]
  /\ {callback, running} \subseteq BOOLEAN
  /\ {taskLoop, stopping} \subseteq 0 .. MaxStarts

InHand == {loops[l].event : l \in {k \in DOMAIN loops : loops[k].at \in {"handler", "deaf"}}}

\* Each event is at one place: waiting, in a handler, through with all subscribers, cut
\* off by a stop, or dropped; and each dropped one is in the fallback log when there is
\* one (event_bus.py:95).  A restart loses none that waits.
EventsAccounted ==
  /\ ToSet(waiting) \cup InHand \cup given \cup cut \cup dropped = 1 .. published
  /\ Len(waiting) + Cardinality(InHand) + Cardinality(given) + Cardinality(cut)
       + Cardinality(dropped) = published
  /\ Fallback => logged = dropped
  /\ degraded \subseteq dropped \cap Critical

\* Every subscriber is called with events in the order they were published, and with
\* none twice, over restarts as well (event_bus.py:175).
InPublishedOrder ==
  \A h \in Handlers : \A i, j \in DOMAIN got[h] : i < j => got[h][i] < got[h][j]

\* A subscriber that raises hides no event from those after it: what went through the
\* list and reached an earlier subscriber reached the later ones too, unless they
\* subscribed after it (event_bus.py:194).
SubscribersAgree ==
  \A i, j \in DOMAIN subscribers : \A e \in given :
    i < j /\ e \in ToSet(got[subscribers[i]]) /\ (\E k \in DOMAIN got[subscribers[j]] : got[subscribers[j]][k] < e)
      => e \in ToSet(got[subscribers[j]])

\* When stop has returned no handler is called any more until the next start, and no
\* loop is left that nobody can stop (event_bus.py:154).
StoppedIsQuiet ==
  /\ ~running /\ stopping = 0 => \A l \in DOMAIN loops : loops[l].at = "ended"
  /\ Cardinality({l \in DOMAIN loops : loops[l].at # "ended"}) <= 1

\* While the bus is not stopped an event that waits is given to the subscribers, if no
\* handler hangs (the while loop of _dispatch_loop).
WaitingIsDispatched ==
  \A e \in 1 .. MaxEvents : e \in ToSet(waiting) ~> (e \in given \cup cut \/ ~running)

\* Every event is accounted for, in order, with subscribers that raise and stops
\* that interrupt a dispatch (event_bus.py).
BusSound ==
  BusTypeOK /\ EventsAccounted /\ InPublishedOrder /\ SubscribersAgree /\ StoppedIsQuiet
=============================================================================
