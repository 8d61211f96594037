------------------------------ MODULE FutuClient ------------------------------
(***************************************************************************)
(* SharedFutuClient, through which the threads that fetch Greeks share one *)
(* connection to OpenD.  The class keeps one instance under a lock; each   *)
(* instance makes its client under a lock of its own, but calls it outside,*)
(* and a thread that met a connection error drops the client in a second   *)
(* use of that lock.                                                       *)
(*                                                                         *)
(* Time passes in seconds.  Only the time left to sleep and the time since *)
(* an instance's last error are kept, the latter up to the largest backoff.*)
(***************************************************************************)
EXTENDS Integers, FiniteSets

CONSTANTS
  Threads,        \* each fetches once
  MaxRetries, MaxBackoff,
  MaxResets       \* bound: providers made while the program runs

ASSUME FutuAssumption ==
  /\ MaxRetries \in Nat \ {0} /\ MaxBackoff \in Nat \ {0} /\ MaxResets \in Nat

\* Instances of SharedFutuClient, in the order they are made.
Instances == 1..(MaxResets + 1)

VARIABLES
  current,   \* _instance, or 0
  made,      \* instances made so far
  inst,      \* instance -> its client ("none", "failed", "open"), the backoff of
             \* its _error_count, seconds since _last_error_time
  thread,    \* thread -> where it is, its instance, call, attempt, sleep, and what it got
  resets,
  upsets     \* "dropped": a handler closed a connection that another thread called;
             \* "late": a second passed between an error and its handler;
             \* "held": a thread kept an instance that was replaced

futuvars == <<current, made, inst, thread, resets, upsets>>

\* min(30, 2**_error_count) after one more error.  The count is used for nothing
\* else: what is kept of it is this time, 0 for a count of 0.
NextBackoff(b) ==
  LET n == IF b = 0 THEN 2 ELSE 2 * b IN
  IF n < MaxBackoff THEN n ELSE MaxBackoff

\* Faulty: the error count is not looked at.
BacksOffNever(i) == FALSE

BacksOff(i) == inst[i].since < inst[i].backoff

Fresh == [client |-> "none", backoff |-> 0, since |-> 0]

Holders(i) == {t \in Threads : thread[t].at \notin {"new", "done"} /\ thread[t].mine = i}

\* Those who lose an open connection when the client of an instance is closed.
Losers(i) ==
  IF inst[i].client = "open" THEN {t \in Holders(i) : thread[t].at = "calling"} ELSE {}

Cut(losers, threads) ==
  [t \in Threads |-> IF t \in losers THEN [threads[t] EXCEPT !.cut = TRUE] ELSE threads[t]]

\* get_instance; the check is repeated under the lock.
Obtain(t) ==
  /\ thread[t].at = "new"
  /\ \/ current # 0 /\ UNCHANGED <<current, made>>
     \/ /\ current = 0 /\ made + 1 \in Instances
        /\ current' = made + 1 /\ made' = made + 1
  /\ thread' = [thread EXCEPT ![t] = [@ EXCEPT !.at = "asking", !.mine = current']]
  /\ UNCHANGED <<inst, resets, upsets>>

\* _get_client, under the instance's lock.
Ask(t) ==
  LET i == thread[t].mine IN
  /\ thread[t].at = "asking"
  /\ \/ /\ BacksOff(i)
        /\ thread' = [thread EXCEPT ![t].at = "failed"] /\ UNCHANGED inst
     \/ /\ ~BacksOff(i) /\ inst[i].client = "open"
        /\ thread' = [thread EXCEPT ![t].at = "calling"] /\ UNCHANGED inst
     \/ /\ ~BacksOff(i) /\ inst[i].client # "open"    \* connect succeeds
        /\ inst' = [inst EXCEPT ![i] = [Fresh EXCEPT !.client = "open"]]
        /\ thread' = [thread EXCEPT ![t].at = "calling"]
     \/ /\ ~BacksOff(i) /\ inst[i].client # "open"    \* or not
        /\ inst' = [inst EXCEPT ![i] = [client |-> "failed", backoff |-> NextBackoff(@.backoff),
                                        since |-> 0]]
        /\ thread' = [thread EXCEPT ![t].at = "failed"]
  /\ UNCHANGED <<current, made, resets, upsets>>

\* A call is over: the prices' is followed by the Greeks', which ends the fetch.
Over(th, result) ==
  IF th.call = "prices"
  THEN [th EXCEPT !.at = "asking", !.call = "greeks", !.attempt = 0, !.cut = FALSE]
  ELSE [th EXCEPT !.at = "done", !.got = result]

\* Faulty: every error is tried again, for ever.
NextAttemptAlways(th) == [th EXCEPT !.at = "asleep", !.sleep = 1]

\* After a connection error the thread sleeps, longer each time, unless this was
\* its last attempt.
NextAttempt(th) ==
  IF th.attempt + 1 < MaxRetries
  THEN [th EXCEPT !.at = "asleep", !.attempt = @ + 1, !.sleep = th.attempt + 1]
  ELSE Over(th, "empty")

\* The handler of a connection error: whatever client the instance has by now is
\* closed and forgotten.
Drop(t) ==
  LET i == thread[t].mine IN
  /\ thread[t].at = "failed"
  /\ inst' = [inst EXCEPT ![i].client = "none"]
  /\ thread' = Cut(Losers(i), [thread EXCEPT ![t] = NextAttempt(@)])
  /\ upsets' = upsets \cup (IF Losers(i) = {} THEN {} ELSE {"dropped"})
  /\ UNCHANGED <<current, made, resets>>

Awake(t) ==
  /\ thread[t].at = "asleep" /\ thread[t].sleep = 0
  /\ thread' = [thread EXCEPT ![t].at = "asking"]
  /\ UNCHANGED <<current, made, inst, resets, upsets>>

\* The call itself: data, or nothing if OpenD refuses or the call raises, which no
\* error but FutuConnectionError is tried again for; without its connection the
\* call raises.
CallReturns(t) ==
  /\ thread[t].at = "calling"
  /\ \E result \in IF thread[t].cut THEN {"empty"} ELSE {"data", "empty"} :
       thread' = [thread EXCEPT ![t] = Over(@, result)]
  /\ UNCHANGED <<current, made, inst, resets, upsets>>

\* Faulty: the instance is replaced, and its client left open.
ClosedNot(i) == inst

Closed(i) == [inst EXCEPT ![i].client = "none"]

\* configure, which every FutuGreeksProvider calls, and shutdown.
Configure ==
  /\ current # 0 /\ resets < MaxResets /\ resets' = resets + 1
  /\ inst' = Closed(current)
  /\ thread' = Cut(Losers(current), thread)
  /\ upsets' = upsets \cup (IF Holders(current) = {} THEN {} ELSE {"held"})
  /\ current' = 0
  /\ UNCHANGED made

Second ==
  /\ inst' = [i \in Instances |-> [inst[i] EXCEPT !.since =
                IF inst[i].backoff > 0 /\ @ < MaxBackoff THEN @ + 1 ELSE @]]
  /\ thread' = [t \in Threads |-> [thread[t] EXCEPT !.sleep = IF @ > 0 THEN @ - 1 ELSE 0]]
  /\ <<inst, thread>>' # <<inst, thread>>
  /\ upsets' = upsets \cup (IF \E t \in Threads : thread[t].at = "failed" THEN {"late"} ELSE {})
  /\ UNCHANGED <<current, made, resets>>

FutuInit ==
  /\ current = 0 /\ made = 0 /\ resets = 0 /\ upsets = {}
  /\ inst = [i \in Instances |-> Fresh]
  /\ thread = [t \in Threads |-> [at |-> "new", mine |-> 0, call |-> "prices", attempt |-> 0,
                                  sleep |-> 0, cut |-> FALSE, got |-> "none"]]

Fetching(t) == Obtain(t) \/ Ask(t) \/ Drop(t) \/ Awake(t) \/ CallReturns(t)

FutuNext == Configure \/ Second \/ \E t \in Threads : Fetching(t)

\* Time passes, threads run, and OpenD answers.
FutuFairness == WF_futuvars(Second) /\ \A t \in Threads : WF_futuvars(Fetching(t))

FutuSpec == FutuInit /\ [][FutuNext]_futuvars /\ FutuFairness

-----------------------------------------------------------------------------
(* Properties.                                                             *)

\* Every variable of the module has its type.
FutuTypeOK ==
  /\ current \in Instances \cup {0} /\ made \in Instances \cup {0}
  /\ \A i \in Instances : /\ inst[i].client \in {"none", "failed", "open"}
                          /\ inst[i].backoff \in 0..MaxBackoff /\ inst[i].since \in 0..MaxBackoff
  /\ \A t \in Threads : thread[t].attempt \in 0..(MaxRetries - 1)

\* The handler of a connection error closes whatever client the instance has by
\* then.  It takes an open connection from another thread only if a second or more
\* went by since the error: until then the backoff keeps every thread from making
\* one (futu_client.py:409-424, 445-452).
DropsOnlyWhenLate == "dropped" \in upsets => "late" \in upsets

\* An instance that was replaced has no open connection, unless a thread was still
\* fetching through it: that thread connects it again, and nobody closes it
\* (futu_client.py:385-391, 443-444, 517-526).
ReplacedIsClosed ==
  "held" \notin upsets =>
    \A i \in Instances : inst[i].client = "open" => i = current

\* Every fetch ends, with data or without, however often the connection fails
\* (futu_client.py:441-465).
FetchEnds == \A t \in Threads : thread[t].at = "asking" ~> thread[t].at = "done"

\* Threads that share one client through failures and replacements neither lose an
\* open connection early nor leave one behind (futu_client.py:385-465).
FutuSound == FutuTypeOK /\ DropsOnlyWhenLate /\ ReplacedIsClosed
=============================================================================
