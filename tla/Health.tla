------------------------------- MODULE Health -------------------------------
(***************************************************************************)
(* HealthMonitor: the requests of the health endpoints run the checkers    *)
(* side by side, wait for all of them, and remember each component's last  *)
(* status.  A checker that asks Redis waits at most five seconds; one that *)
(* reads the market data's last update answers at once.                    *)
(***************************************************************************)
EXTENDS Integers, FiniteSets

CONSTANTS
  Requests,    \* health requests, each handled once
  Pinging,     \* checkers that ask their component and wait (Redis)
  Reading      \* checkers that look at an age (market data)

ASSUME HealthAssumption == Pinging \cap Reading = {} /\ "none" \notin Pinging \cup Reading

HealthCheckers == Pinging \cup Reading
Statuses == {"healthy", "degraded", "down", "unknown"}

VARIABLES
  comp,      \* component -> "up", "hanging", "refusing"; or "fresh", "stale", "silent"
  req,       \* request -> its kind and the results that have arrived
  last,      \* component -> last recorded status, or "none"
  reply      \* request -> overall status answered, or "none"

hvars == <<comp, req, last, reply>>

\* Faulty: the ping has no timeout.
MayTimeOutNever(c) == FALSE

MayTimeOut(c) == comp[c] = "hanging"

\* Faulty: the component's own word is passed on.
StatusRaw(c) == comp[c]

Status(c) ==
  CASE comp[c] \in {"up", "fresh"} -> "healthy"
    [] comp[c] = "stale" -> "degraded"
    [] comp[c] = "silent" -> "unknown"
    [] OTHER -> "down"

ComponentMoves(c) ==
  /\ \E s \in IF c \in Pinging THEN {"up", "hanging", "refusing"}
              ELSE {"fresh", "stale", "silent"} : comp' = [comp EXCEPT ![c] = s]
  /\ UNCHANGED <<req, last, reply>>

NewRequest(q) ==
  /\ req[q].at = "new"
  /\ \/ req' = [req EXCEPT ![q].at = "all"]
     \/ \E c \in HealthCheckers :    \* get_component
          /\ last[c] = "none"
          /\ req' = [req EXCEPT ![q] = [@ EXCEPT !.at = "one", !.for = c]]
  /\ UNCHANGED <<comp, last, reply>>

\* get_component of a component with a recorded status answers that status,
\* however old it is.
FromRecord(q) ==
  /\ req[q].at = "new"
  /\ \E c \in HealthCheckers :
       /\ last[c] # "none"
       /\ reply' = [reply EXCEPT ![q] = last[c]]
       /\ req' = [req EXCEPT ![q] = [@ EXCEPT !.at = "done", !.for = c]]
  /\ UNCHANGED <<comp, last>>

Result(q, c, status) ==
  [req EXCEPT ![q].results = @ \cup {<<c, status>>}]

\* A checker answers; a hanging ping answers only when its time is over.
CheckEnds(q, c) ==
  /\ req[q].at \in {"all", "one"}
  /\ \A r \in req[q].results : r[1] # c
  /\ comp[c] # "hanging" \/ MayTimeOut(c)
  /\ req' = Result(q, c, Status(c))
  /\ UNCHANGED <<comp, last, reply>>

Down(results) == {r \in results : r[2] = "down"}

\* Faulty: some component that is up makes the system healthy.
OverallAny(results) ==
  IF Down(results) = results THEN "down" ELSE "healthy"

\* _compute_overall_status: only DOWN counts.
Overall(results) ==
  CASE results = {} -> "unknown"
    [] results # {} /\ Down(results) = {} -> "healthy"
    [] results # {} /\ Down(results) = results -> "down"
    [] OTHER -> "degraded"

\* Faulty: the results are not remembered.
RecordedNot(results) == last

Recorded(results) ==
  [c \in HealthCheckers |-> IF \E r \in results : r[1] = c
                       THEN (CHOOSE r \in results : r[1] = c)[2] ELSE last[c]]

\* check_all: gather has returned; everything is recorded at once.
AnswerAll(q) ==
  /\ req[q].at = "all"
  /\ {r[1] : r \in req[q].results} = HealthCheckers
  /\ last' = Recorded(req[q].results)
  /\ reply' = [reply EXCEPT ![q] = Overall(req[q].results)]
  /\ req' = [req EXCEPT ![q].at = "done"]
  /\ UNCHANGED comp

AnswerOne(q) ==
  /\ req[q].at = "one"
  /\ \E r \in req[q].results :
       /\ r[1] = req[q].for
       /\ last' = Recorded({r})
       /\ reply' = [reply EXCEPT ![q] = r[2]]
  /\ req' = [req EXCEPT ![q].at = "done"]
  /\ UNCHANGED comp

HInit ==
  /\ comp = [c \in HealthCheckers |-> IF c \in Pinging THEN "up" ELSE "fresh"]
  /\ req = [q \in Requests |-> [at |-> "new", for |-> "none", results |-> {}]]
  /\ last = [c \in HealthCheckers |-> "none"]
  /\ reply = [q \in Requests |-> "none"]

Handled(q) == AnswerAll(q) \/ AnswerOne(q)

HNext ==
  \/ \E c \in HealthCheckers : ComponentMoves(c)
  \/ \E q \in Requests : \/ NewRequest(q) \/ FromRecord(q) \/ Handled(q)
                         \/ \E c \in HealthCheckers : CheckEnds(q, c)

\* Checkers end, at the latest by their timeout, and requests resume.
HFairness ==
  \A q \in Requests :
    /\ WF_hvars(Handled(q))
    /\ \A c \in HealthCheckers : WF_hvars(CheckEnds(q, c))

HSpec == HInit /\ [][HNext]_hvars /\ HFairness

-----------------------------------------------------------------------------
(* Properties.                                                             *)

\* Every variable of the module has its type.
HTypeOK ==
  /\ \A q \in Requests : /\ req[q].at \in {"new", "all", "one", "done"}
                         /\ reply[q] \in Statuses \cup {"none"}
  /\ last \in [HealthCheckers -> Statuses \cup {"none"}]

\* An overall HEALTHY was answered only if every component was checked and none
\* was found down, and DOWN only if all were (monitor.py:87-106).
OverallIsHonest ==
  \A q \in Requests :
    req[q].at = "done" /\ req[q].for = "none" =>
      /\ reply[q] = "healthy" => {r[1] : r \in req[q].results} = HealthCheckers
                                 /\ Down(req[q].results) = {}
      /\ reply[q] = "down" => Down(req[q].results) = req[q].results

\* Once a request for everything was answered, each component has a status on
\* record, and get_component no longer asks it (monitor.py:52-54, 75-76).
AnsweredIsRecorded ==
  (\E q \in Requests : req[q].at = "done" /\ req[q].for = "none")
    => \A c \in HealthCheckers : last[c] # "none"

\* A health request is answered although a component hangs for ever
\* (checkers.py:38, 47-54; gather waits for every checker).
HealthAnswers == \A q \in Requests : req[q].at \in {"all", "one"} ~> req[q].at = "done"

\* A health answer says of the whole what was found of its parts, although some
\* component may hang (health/monitor.py, checkers.py).
HealthSound == HTypeOK /\ OverallIsHonest /\ AnsweredIsRecorded
=============================================================================
