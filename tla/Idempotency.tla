----------------------------- MODULE Idempotency -----------------------------
(***************************************************************************)
(* The keys that make a request idempotent (options/idempotency.py) as its *)
(* documentation has them used: a caller asks for the cached response,     *)
(* executes the operation when there is none, and stores its response.     *)
(* Keys expire, and a cleanup job deletes the expired ones.                *)
(***************************************************************************)
EXTENDS Integers, FiniteSets

CONSTANTS
  Callers,    \* requests that bear the same key
  NoResponse,
  TTL,        \* ttl_hours
  MaxHours    \* bound of the clock

ASSUME IdempotencyAssumption == TTL \in Nat \ {0} /\ MaxHours \in Nat /\ NoResponse \notin Callers

VARIABLES
  hour,      \* NOW(), in hours
  row,       \* the row of the key: the caller whose response it holds and expires_at
  caller     \* caller -> where it is, what it was answered with, when it asked and
             \* when it was done

idemvars == <<hour, row, caller>>

NoRow == [response |-> NoResponse, expires |-> 0]

Live(r) == r.response # NoResponse /\ r.expires > hour

\* Faulty: an expired row answers as well.
GetStale(c) ==
  /\ caller[c].at = "new"
  /\ caller' = [caller EXCEPT ![c] =
       IF row # NoRow THEN [at |-> "done", answer |-> row.response, asked |-> hour, done |-> hour]
                      ELSE [at |-> "executing", answer |-> NoResponse, asked |-> hour, done |-> hour]]
  /\ UNCHANGED <<hour, row>>

\* get_cached_response: the row of the key, when it has not expired.
GetCached(c) ==
  /\ caller[c].at = "new"
  /\ caller' = [caller EXCEPT ![c] =
       IF Live(row) THEN [at |-> "done", answer |-> row.response, asked |-> hour, done |-> hour]
                    ELSE [at |-> "executing", answer |-> NoResponse, asked |-> hour, done |-> hour]]
  /\ UNCHANGED <<hour, row>>

\* Faulty: the row of the key is overwritten.
StoreAnyway(c) ==
  /\ caller[c].at = "executing"
  /\ row' = [response |-> c, expires |-> hour + TTL]
  /\ caller' = [caller EXCEPT ![c] = [@ EXCEPT !.at = "done", !.answer = c, !.done = hour]]
  /\ UNCHANGED <<hour>>

\* store_key: ON CONFLICT (key) DO NOTHING, be the row expired or not.
StoreKey(c) ==
  /\ caller[c].at = "executing"
  /\ row' = IF row = NoRow THEN [response |-> c, expires |-> hour + TTL] ELSE row
  /\ caller' = [caller EXCEPT ![c] = [@ EXCEPT !.at = "done", !.answer = c, !.done = hour]]
  /\ UNCHANGED <<hour>>

\* The operation fails or the process ends before the response is stored.
Fails(c) ==
  /\ caller[c].at = "executing"
  /\ caller' = [caller EXCEPT ![c] = [@ EXCEPT !.at = "failed"]]
  /\ UNCHANGED <<hour, row>>

CleanupExpired ==
  /\ row # NoRow /\ row.expires <= hour
  /\ row' = NoRow
  /\ UNCHANGED <<hour, caller>>

HourPasses == hour < MaxHours /\ hour' = hour + 1 /\ UNCHANGED <<row, caller>>

IdemInit ==
  /\ hour = 0 /\ row = NoRow
  /\ caller = [c \in Callers |-> [at |-> "new", answer |-> NoResponse, asked |-> 0, done |-> 0]]

IdemNext ==
  \/ \E c \in Callers : GetCached(c) \/ StoreKey(c) \/ Fails(c)
  \/ CleanupExpired
  \/ HourPasses

-----------------------------------------------------------------------------
(* Properties.                                                             *)

\* Types of the variables.
IdemTypeOK ==
  /\ hour \in 0 .. MaxHours
  /\ row \in [response : Callers \cup {NoResponse}, expires : 0 .. MaxHours + TTL]
  /\ caller \in [Callers -> [at : {"new", "executing", "done", "failed"},
                             answer : Callers \cup {NoResponse}, asked : 0 .. MaxHours,
                             done : 0 .. MaxHours]]

\* Of callers that race the first to store decides for all that ask while the key lives:
\* the stored response changes only by the deletion of an expired one (idempotency.py:54).
FirstResponseStays ==
  [][row # NoRow /\ row' # row => row' = NoRow /\ row.expires <= hour]_idemvars

\* What is replayed was executed: the caller whose response is answered has executed the
\* operation and stored its response, no longer ago than the time to live, and was
\* answered with it itself (idempotency.py:83).
ReplayIsRecent ==
  \A c \in Callers : caller[c].at = "done" /\ caller[c].answer # c =>
    LET first == caller[caller[c].answer]
    IN /\ first.at = "done" /\ first.answer = caller[c].answer
       /\ first.done <= caller[c].asked /\ caller[c].asked < first.done + TTL
=============================================================================
