----------------------------- MODULE StrategyRuns -----------------------------
(***************************************************************************)
(* The endpoints that start and stop a strategy, for one name: what one    *)
(* name does never touches another.                                        *)
(*                                                                         *)
(* A handler suspends where the strategy's own code does, in on_start and  *)
(* on_stop; nothing else it awaits suspends, as the only inner broker that *)
(* the endpoint accepts is the PaperBroker.  A start makes a dictionary    *)
(* of its own, which a stop goes on changing after it has been replaced:   *)
(* `run` keeps the dictionary of each start, `entry` is the one registered. *)
(***************************************************************************)
EXTENDS Integers, FiniteSets

CONSTANTS
  Starts, StopCalls, \* requests, each made once
  Nowhere            \* no dictionary

ASSUME RunsAssumption == Starts \cap StopCalls = {} /\ Nowhere \notin Starts \cup StopCalls

Modes == {"paper", "live", "backtest"}
RunStatus == {"none", "running", "stopping", "error"}

VARIABLES
  config,    \* of the name: enabled modes, whether live trading needs confirmation
  entry,     \* _running_strategies[name]: the start that made it, or Nowhere
  run,       \* start -> status and mode of its dictionary
  live,      \* start -> its LiveBroker: connected, confirmed
  call,      \* request -> how far it is, the dictionary it changes, its answer
  mishaps    \* "overlap", "raised"

runvars == <<config, entry, run, live, call, mishaps>>

Working(c) == call[c].at \in {"on_start", "on_stop"}

\* Something else is suspended while a request begins to work.
Overlaps == IF \E c \in Starts \cup StopCalls : Working(c) THEN {"overlap"} ELSE {}

Answer(c, code) == call' = [call EXCEPT ![c] = [@ EXCEPT !.at = "done", !.answer = code]]

\* Faulty: a start does not look at what runs.
RunsAlreadyNever == FALSE

RunsAlready == entry # Nowhere /\ run[entry].status = "running"

Enabled(mode) == mode = "backtest" \/ mode \in config.enabled

\* Faulty: the request's flag is not looked at.
LacksConfirmationNever(mode, confirm) == FALSE

LacksConfirmation(mode, confirm) == mode = "live" /\ config.required /\ ~confirm

\* start_strategy up to on_start.  The refusals also stand for a class that cannot
\* be loaded, a live mode without an account and a broker that is not supported.
Start(c, mode, confirm) ==
  /\ call[c].at = "new"
  /\ \/ /\ RunsAlready \/ ~Enabled(mode) \/ LacksConfirmation(mode, confirm)
        /\ Answer(c, 400)
        /\ UNCHANGED <<entry, run, live, mishaps>>
     \/ /\ ~RunsAlready /\ Enabled(mode)     \* the strategy's constructor raises
        /\ Answer(c, 500)
        /\ entry' = c /\ run' = [run EXCEPT ![c].status = "error"]
        /\ mishaps' = mishaps \cup {"raised"}
        /\ UNCHANGED live
     \/ /\ ~RunsAlready /\ Enabled(mode) /\ ~LacksConfirmation(mode, confirm)
        /\ run' = [run EXCEPT ![c].mode = mode]
        /\ live' = IF mode = "live"
                   THEN [live EXCEPT ![c] = [connected |-> TRUE, confirmed |-> confirm]] ELSE live
        /\ call' = [call EXCEPT ![c].at = "on_start"]
        /\ mishaps' = mishaps \cup Overlaps
        /\ UNCHANGED entry
  /\ UNCHANGED config

\* on_start returns: the dictionary is registered, over any that is there.
Started(c) ==
  /\ call[c].at = "on_start"
  /\ Answer(c, 200)
  /\ entry' = c /\ run' = [run EXCEPT ![c].status = "running"]
  /\ UNCHANGED <<config, live, mishaps>>

\* It raises.  The broker stays as it is.
StartFails(c) ==
  /\ call[c].at = "on_start"
  /\ Answer(c, 500)
  /\ entry' = c /\ run' = [run EXCEPT ![c].status = "error"]
  /\ mishaps' = mishaps \cup {"raised"}
  /\ UNCHANGED <<config, live>>

Stop(c) ==
  /\ call[c].at = "new"
  /\ \/ /\ entry = Nowhere /\ Answer(c, 404) /\ UNCHANGED <<run, mishaps>>
     \/ /\ entry # Nowhere /\ ~RunsAlready /\ Answer(c, 400) /\ UNCHANGED <<run, mishaps>>
     \/ /\ RunsAlready
        /\ run' = [run EXCEPT ![entry].status = "stopping"]
        /\ call' = [call EXCEPT ![c] = [@ EXCEPT !.at = "on_stop", !.state = entry]]
        /\ mishaps' = mishaps \cup Overlaps
  /\ UNCHANGED <<config, entry, live>>

\* Faulty: only the confirmation is revoked.
DisconnectedNot(s) == [live EXCEPT ![s].confirmed = FALSE]

Disconnected(s) == [live EXCEPT ![s] = [connected |-> FALSE, confirmed |-> FALSE]]

\* on_stop returns.  What is deleted is the name's entry of now, and without one
\* the deletion raises.
Stopped(c) ==
  LET s == call[c].state IN
  /\ call[c].at = "on_stop"
  /\ live' = Disconnected(s)
  /\ \/ entry # Nowhere /\ entry' = Nowhere /\ Answer(c, 200) /\ UNCHANGED <<run, mishaps>>
     \/ /\ entry = Nowhere /\ Answer(c, 500)
        /\ run' = [run EXCEPT ![s].status = "error"] /\ mishaps' = mishaps \cup {"raised"}
        /\ UNCHANGED entry
  /\ UNCHANGED config

\* on_stop raises: the broker is not reached.
StopFails(c) ==
  /\ call[c].at = "on_stop"
  /\ run' = [run EXCEPT ![call[c].state].status = "error"]
  /\ Answer(c, 500)
  /\ mishaps' = mishaps \cup {"raised"}
  /\ UNCHANGED <<config, entry, live>>

RunsInit ==
  /\ config \in [enabled : SUBSET {"paper", "live"}, required : BOOLEAN]
  /\ entry = Nowhere
  /\ run = [c \in Starts |-> [status |-> "none", mode |-> "backtest"]]
  /\ live = [c \in Starts |-> [connected |-> FALSE, confirmed |-> FALSE]]
  /\ call = [c \in Starts \cup StopCalls |-> [at |-> "new", state |-> Nowhere, answer |-> 0]]
  /\ mishaps = {}

RunsNext ==
  \/ \E c \in Starts : \/ \E mode \in Modes, confirm \in BOOLEAN : Start(c, mode, confirm)
                       \/ Started(c) \/ StartFails(c)
  \/ \E c \in StopCalls : Stop(c) \/ Stopped(c) \/ StopFails(c)

RunsSpec == RunsInit /\ [][RunsNext]_runvars

-----------------------------------------------------------------------------
(* Properties.                                                             *)

\* Every variable of the module has its type.
RunsTypeOK ==
  /\ entry \in Starts \cup {Nowhere}
  /\ run \in [Starts -> [status : RunStatus, mode : Modes]]
  /\ live \in [Starts -> [connected : BOOLEAN, confirmed : BOOLEAN]]
  /\ \A c \in StopCalls : Working(c) => call[c].state \in Starts

\* A strategy that status reports as running in live mode has a connected broker,
\* confirmed where the configuration asks for it, whatever starts and stops
\* overlap (api/strategies.py:191, 234-249, 318-324, 396-407).
RunningLiveIsReady ==
  entry # Nowhere /\ run[entry].status = "running" /\ run[entry].mode = "live" =>
    live[entry].connected /\ (config.required => live[entry].confirmed)

\* As long as no request begins while another is suspended, and nothing raises, a
\* connected broker is the registered strategy's own, or that of the request in
\* progress: no stop leaves one behind.  A start that passed the check before
\* another's registration replaces it, a stop deletes what a later start has
\* registered, and an exception in on_start or on_stop skips the disconnection
\* (api/strategies.py:277-279, 318, 345-350, 404-410, 419-421).
NoBrokerLeft ==
  mishaps = {} =>
    \A c \in Starts : live[c].connected => entry = c \/ call[c].at = "on_start"

\* Under the same condition one broker at most is connected, and while one start
\* is in on_start nothing runs (api/strategies.py:277-283).
OneRunAtATime ==
  mishaps = {} =>
    /\ Cardinality({c \in Starts : live[c].connected}) <= 1
    /\ (\E c \in Starts : call[c].at = "on_start") => ~RunsAlready

\* A stop that answers 200 has disconnected the strategy it was asked to stop,
\* even if another is registered by then (api/strategies.py:404-407).
StoppedIsDisconnected ==
  \A c \in StopCalls : call[c].answer = 200 => ~live[call[c].state].connected

\* Starts and stops that interleave leave the registry and the brokers consistent:
\* what runs live is connected and confirmed, what a stop answered for is
\* disconnected, and without mishaps nothing connected is left over or doubled.
RunsSound ==
  /\ RunsTypeOK /\ RunningLiveIsReady /\ StoppedIsDisconnected
  /\ NoBrokerLeft /\ OneRunAtATime
=============================================================================
