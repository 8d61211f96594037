--------------------------- MODULE MCConnections ----------------------------
(***************************************************************************)
(* Small instances of what connects the program with the outside: brokers, *)
(* strategies that are started and stopped, the feed of Greeks, and who    *)
(* receives them.  They share no state: a behaviour of this instance       *)
(* exercises one area, chosen by its initial state.  The brokers have one  *)
(* area with two orders on a connection that holds, one with one order on  *)
(* a connection that may not, and one with paper orders.                   *)
(***************************************************************************)
EXTENDS Brokers, StrategyRuns, FutuClient, GreeksFeed, TLC

VARIABLE area

MCLots == ("o1" :> 2) @@ ("o2" :> 1)

MCInit ==
  /\ area \in {"orders", "outages", "paper", "starts", "opend", "sockets", "vols"}
  /\ BInit /\ RunsInit /\ FutuInit /\ FeedInit
  /\ area \notin {"orders", "outages"} => vendor = "futu"
  /\ area # "starts" => config = [enabled |-> {}, required |-> TRUE]

\* What may happen to orders while the connection holds.
OnOrders ==
  \/ Connect \/ Confirm \/ HandlePush \/ PumpFill
  \/ \E o \in BOrders : \/ Submit(o) \/ Take(o) \/ PlaceFails(o) \/ TakeAndFail(o)
                        \/ RegisterOrder(o) \/ CancelOrder(o) \/ Execute(o) \/ Ends(o)

OnBrokers ==
  \/ area = "orders" /\ OnOrders
  \/ area = "outages" /\ BrokersNext /\ ord'["o2"].at = "new"
  \/ area = "paper" /\ PaperNext /\ UNCHANGED Vendors

MCNext ==
  /\ UNCHANGED area
  /\ \/ OnBrokers /\ UNCHANGED <<runvars, futuvars, feedvars>>
     \/ area = "starts" /\ RunsNext /\ UNCHANGED <<bvars, futuvars, feedvars>>
     \/ area = "opend" /\ FutuNext /\ UNCHANGED <<bvars, runvars, feedvars>>
     \/ area = "sockets" /\ SocketsNext /\ UNCHANGED <<bvars, runvars, futuvars>>
     \/ area = "vols" /\ VolNext /\ UNCHANGED <<bvars, runvars, futuvars>>

MCvars == <<bvars, runvars, futuvars, feedvars, area>>

\* The event loop runs its tasks: the pump, _reconnect, and the paper fills.  Time
\* passes for the threads of the Greeks' feed, and OpenD answers them.
MCFairness ==
  /\ WF_bvars(area = "orders" /\ PumpFill)
  /\ WF_bvars(area = "outages" /\ PumpFill /\ ord'["o2"].at = "new")
  /\ WF_bvars(area = "outages" /\ Reconnect /\ ord'["o2"].at = "new")
  /\ \A o \in BOrders : WF_bvars(area = "paper" /\ PaperWakes(o) /\ UNCHANGED Vendors)
  /\ WF_futuvars(area = "opend" /\ Second)
  /\ \A t \in Threads : WF_futuvars(area = "opend" /\ Fetching(t))

MCSpec == MCInit /\ [][MCNext]_MCvars /\ MCFairness

\* What the outside owes the program arrives while connections fail: queued fills are
\* given on, TigerBroker connects again or gives up, paper orders fill, fetches end,
\* each in the areas whose fairness it needs
\* (tiger_broker.py:248-335, paper_broker.py:96-147, futu_client.py:441-465).
ConnectionsProceed ==
  /\ area \in {"orders", "outages"} => QueuedIsGiven
  /\ area = "outages" => ConnectsAgain
  /\ area = "paper" => PaperFills
  /\ area = "opend" => FetchEnds
=============================================================================
