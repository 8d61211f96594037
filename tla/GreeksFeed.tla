------------------------------ MODULE GreeksFeed ------------------------------
(***************************************************************************)
(* What is made of the Greeks once they are computed: the websockets of an *)
(* account, to which the monitor and its alerts are broadcast, and the     *)
(* implied volatilities kept in Redis for the days without a feed.         *)
(*                                                                         *)
(* The lock of the websocket manager is never held across a suspension, so *)
(* that nobody waits for it.  A broadcast suspends at each send_json.      *)
(***************************************************************************)
EXTENDS Integers, FiniteSets, TLC

CONSTANTS
  Sockets,      \* clients of one account, each connecting once
  Broadcasts,   \* greeks updates and alerts
  VolOptions,   \* options of one underlying
  Queries,      \* calls of get_or_default
  OptionTTL, UnderlyingTTL,   \* hours
  MaxAge        \* bound: hours after which a value is just old

ASSUME FeedAssumption ==
  /\ {OptionTTL, UnderlyingTTL, MaxAge} \subseteq Nat /\ OptionTTL <= UnderlyingTTL
  /\ UnderlyingTTL < MaxAge /\ "underlying" \notin VolOptions

VARIABLES
  sock,       \* socket -> "new", "open", "left" (its client is gone), "ended" (its endpoint is)
  listed,     \* _connections of the account
  cast,       \* broadcast -> where it is, its snapshot, what is left of it, what failed
  got,        \* socket -> broadcasts it received
  redis,      \* key -> age of the value and hours until it expires, or NoValueKept
  writing,    \* ages that are still to be written for the underlying
  query       \* query -> where it is, its option, the age it was answered with

sockvars == <<sock, listed, cast, got>>
volvars == <<redis, writing, query>>
feedvars == <<sockvars, volvars>>

(***************************************************************************)
(* GreeksWebSocketManager.                                                 *)
(***************************************************************************)
Listen(s) ==
  /\ sock[s] = "new"
  /\ sock' = [sock EXCEPT ![s] = "open"] /\ listed' = listed \cup {s}
  /\ UNCHANGED <<cast, got, volvars>>

Leave(s) ==
  /\ sock[s] = "open"
  /\ sock' = [sock EXCEPT ![s] = "left"]
  /\ UNCHANGED <<listed, cast, got, volvars>>

\* The endpoint: receive_text raises WebSocketDisconnect; the send of a pong may
\* raise something else, which nobody catches.
EndpointEnds(s) ==
  /\ sock[s] = "left"
  /\ sock' = [sock EXCEPT ![s] = "ended"]
  /\ listed' = listed \ {s} \/ UNCHANGED listed
  /\ UNCHANGED <<cast, got, volvars>>

\* broadcast_greeks_update, broadcast_alert: nothing without connections, else a
\* snapshot of them.
Broadcast(b) ==
  /\ cast[b].at = "new"
  /\ cast' = [cast EXCEPT ![b] = [@ EXCEPT !.at = IF listed = {} THEN "done" ELSE "sending",
                                            !.to = listed, !.left = listed]]
  /\ UNCHANGED <<sock, listed, got, volvars>>

\* Faulty: the first failure ends the broadcast.
AfterErrorEnds(b, s) == {}

AfterError(b, s) == cast[b].left \ {s}

Send(b, s) ==
  /\ cast[b].at = "sending" /\ s \in cast[b].left
  /\ \/ /\ sock[s] # "ended"
        /\ got' = [got EXCEPT ![s] = @ \cup {b}]
        /\ cast' = [cast EXCEPT ![b].left = @ \ {s}]
     \/ /\ sock[s] # "open"
        /\ cast' = [cast EXCEPT ![b] = [@ EXCEPT !.left = AfterError(b, s),
                                                  !.failed = cast[b].failed \cup {s}]]
        /\ UNCHANGED got
  /\ UNCHANGED <<sock, listed, volvars>>

\* Faulty: a failed socket stays where it is.
DroppedNot(b) == listed

\* Faulty: the whole snapshot is removed.
DroppedSnapshot(b) == IF cast[b].failed = {} THEN listed ELSE listed \ cast[b].to

Dropped(b) == listed \ cast[b].failed

\* After the last send the failed connections are removed.
BroadcastEnds(b) ==
  /\ cast[b].at = "sending" /\ cast[b].left = {}
  /\ cast' = [cast EXCEPT ![b].at = "done"]
  /\ listed' = Dropped(b)
  /\ UNCHANGED <<sock, got, volvars>>

(***************************************************************************)
(* IVCacheManager.                                                         *)
(***************************************************************************)
NoValueKept == [age |-> 0, ttl |-> 0]

Kept(key) == redis[key].ttl > 0

\* set: a volatility as old as its as_of_ts, first the option's.  Redis may fail.
SetVol(o, age) ==
  /\ redis' = [redis EXCEPT ![o] = [age |-> age, ttl |-> OptionTTL]]
  /\ writing' = writing \cup {age} \/ UNCHANGED writing
  /\ UNCHANGED <<query, sockvars>>

\* _update_underlying_iv, or its failure.
SetUnderlying(age) ==
  /\ age \in writing /\ writing' = writing \ {age}
  /\ \/ redis' = [redis EXCEPT !["underlying"] = [age |-> age, ttl |-> UnderlyingTTL]]
     \/ UNCHANGED redis
  /\ UNCHANGED <<query, sockvars>>

\* Faulty: what Redis has not expired is fresh.
UsableKept(key, limit) == Kept(key)

\* is_stale looks at the time of the value, not of its writing.
Usable(key, limit) == Kept(key) /\ redis[key].age <= limit

\* get_or_default: the option's own, the underlying's, the default.  An error of
\* Redis counts as no value.
AskOption(q, o) ==
  /\ query[q].at = "new"
  /\ \/ /\ Usable(o, OptionTTL)
        /\ query' = [query EXCEPT ![q] = [at |-> "own", age |-> redis[o].age]]
     \/ query' = [query EXCEPT ![q].at = "second"]
  /\ UNCHANGED <<redis, writing, sockvars>>

AskUnderlying(q) ==
  /\ query[q].at = "second"
  /\ \/ /\ Usable("underlying", UnderlyingTTL)
        /\ query' = [query EXCEPT ![q] = [at |-> "underlying", age |-> redis["underlying"].age]]
     \/ query' = [query EXCEPT ![q].at = "default"]
  /\ UNCHANGED <<redis, writing, sockvars>>

Older(n) == IF n < MaxAge THEN n + 1 ELSE n

Hour ==
  /\ redis' = [k \in DOMAIN redis |->
                 IF redis[k].ttl <= 1 THEN NoValueKept
                 ELSE [age |-> Older(redis[k].age), ttl |-> redis[k].ttl - 1]]
  /\ writing' = {Older(n) : n \in writing}
  /\ UNCHANGED <<query, sockvars>>

FeedInit ==
  /\ sock = [s \in Sockets |-> "new"] /\ listed = {}
  /\ cast = [b \in Broadcasts |-> [at |-> "new", to |-> {}, left |-> {}, failed |-> {}]]
  /\ got = [s \in Sockets |-> {}]
  /\ redis = [k \in VolOptions \cup {"underlying"} |-> NoValueKept]
  /\ writing = {} /\ query = [q \in Queries |-> [at |-> "new", age |-> 0]]

SocketsNext ==
  \/ \E s \in Sockets : \/ Listen(s) \/ Leave(s) \/ EndpointEnds(s)
                        \/ \E b \in Broadcasts : Send(b, s)
  \/ \E b \in Broadcasts : Broadcast(b) \/ BroadcastEnds(b)

VolNext ==
  \/ Hour
  \/ \E o \in VolOptions : \/ \E age \in 0..MaxAge : SetVol(o, age)
                           \/ \E q \in Queries : AskOption(q, o)
  \/ \E age \in writing : SetUnderlying(age)
  \/ \E q \in Queries : AskUnderlying(q)

FeedNext == SocketsNext \/ VolNext

FeedSpec == FeedInit /\ [][FeedNext]_feedvars

-----------------------------------------------------------------------------
(* Properties.                                                             *)

\* Every variable of the module has its type.
FeedTypeOK ==
  /\ listed \subseteq Sockets
  /\ \A b \in Broadcasts : cast[b].at \in {"new", "sending", "done"} /\ cast[b].left \subseteq cast[b].to
  /\ \A k \in DOMAIN redis : redis[k].age \in 0..MaxAge /\ redis[k].ttl \in 0..UnderlyingTTL

\* A broadcast that is over has reached every client that was connected when it
\* began and still is, whoever else failed meanwhile (websocket.py:102-115).
EveryClientReached ==
  \A b \in Broadcasts, s \in Sockets :
    cast[b].at = "done" /\ s \in cast[b].to /\ sock[s] = "open" => b \in got[s]

\* A connection whose endpoint has ended is off the list once a broadcast that
\* found it ended is over, although nobody called disconnect for it
\* (websocket.py:107-115; api/greeks.py:379-386).
FailedIsDropped ==
  \A b \in Broadcasts : cast[b].at = "done" => listed \cap cast[b].failed = {}

\* A connected client is on the list: the failure of a send, another's leaving, and
\* broadcasts side by side never take it off (websocket.py:44-75).
OpenIsListed == \A s \in Sockets : sock[s] = "open" => s \in listed

\* No volatility older than its own limit is used, although Redis keeps a value for
\* as long again from its writing, however old it was then
\* (iv_cache.py:49-52, 137-142, 183-185, 213-219).
VolIsFresh ==
  \A q \in Queries :
    /\ query[q].at = "own" => query[q].age <= OptionTTL
    /\ query[q].at = "underlying" => query[q].age <= UnderlyingTTL

\* Broadcasts reach whoever is connected although clients come, go and fail
\* meanwhile, and no volatility older than its time to live is used
\* (websocket.py:44-115; the cache of implied volatilities).
FeedSound ==
  FeedTypeOK /\ EveryClientReached /\ FailedIsDropped /\ OpenIsListed /\ VolIsFresh
=============================================================================
