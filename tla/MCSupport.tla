----------------------------- MODULE MCSupport -----------------------------
(***************************************************************************)
(* Small instances of the parts beside the trading path.  They share no    *)
(* state: a behaviour of this instance exercises one of them, the area     *)
(* chosen by its initial state, and leaves the others alone.               *)
(***************************************************************************)
EXTENDS Agents, Reconciliation, WriteBuffer, Health, EventBus, Answers, TLC

VARIABLE area

MCDrawdowns == {-1, 0, 7, 15, 20}

MCGrants == ("analyst" :> {"redis:sentiment:*"}
             @@ "risk_controller" :> {"redis:risk_bias"})

\* The service was started and stopped again, and stop waits for the task of a fill.
StopWaits ==
  /\ broker = {"f1"} /\ local = {"f1"} /\ told = {"f1"} /\ covered = {} /\ failures = 0
  /\ run = [r \in RecTasks |-> IF r = "f1" THEN [Off EXCEPT !.pc = "sleep", !.cancel = TRUE] ELSE Off]
  /\ svc = [running |-> FALSE, starting |-> FALSE, stopping |-> "f1", stopped |-> TRUE,
            forgot |-> FALSE, pending |-> "f1", awaits |-> [e \in Fills |-> "none"]]

MCInit ==
  /\ area \in {"agents", "redis", "assess", "books", "demand", "stop", "buffer", "health",
             "bus", "limits", "acks", "history", "keys"}
  /\ IF area = "stop" THEN StopWaits ELSE RecInit
  /\ AInit /\ WInit /\ HInit /\ BusInit /\ ApiInit /\ IdemInit
  /\ area # "limits" => book = [a \in Accounts |-> {}]
  /\ area # "agents" => ~closedPipe
  /\ area # "redis" => checker = "none"

MCSymbolOf == [e \in {"f1", "f2", "late", "hand"} |-> IF e = "f2" THEN "B" ELSE "A"]
MCStrategyOf == [e \in DOMAIN MCSymbolOf |-> "s"]

MCKeyOf == [e \in Entries |-> IF e = "a2" THEN "a1" ELSE e]
MCSizeOf == [e \in Entries |-> IF e = "c" THEN 3 ELSE 1]

\* A long call, and the same beside a short straddle and some puts.
Leg(quantity, delta, gamma, price) ==
  [quantity |-> quantity, delta |-> delta, gamma |-> gamma, price |-> price]
MCBooks == {{}, {Leg(1, 5, 2, 10)}, {Leg(1, 5, 2, 10), Leg(-2, 1, 3, 10), Leg(3, -6, 1, 4)}}

\* Limits that are sound, and limits wrong in one dimension or the other.
Rising(w, c, h) == [warn |-> w, crit |-> c, hard |-> h]
MCLimitSets ==
  {[dollar_delta |-> Rising(10, 20, 30), gamma_dollar |-> Rising(1, 2, 3)],
   [dollar_delta |-> Rising(10, 20, 20), gamma_dollar |-> Rising(1, 2, 3)],
   [dollar_delta |-> Rising(10, 20, 30), gamma_dollar |-> Rising(0, 2, 3)]}
MCShockLists == {<<>>, <<Bad>>, <<3, Bad>>, <<-1, 2>>}

Serving == <<vars, recvars, wvars, hvars>>
Answering == <<busvars, apivars, idemvars>>

ServingNext ==
  \/ /\ \/ area = "agents" /\ DispatchNext
        \/ area = "redis" /\ ToolsNext
        \/ area = "assess" /\ AssessNext
     /\ UNCHANGED <<recvars, wvars, hvars>>
  \/ /\ \/ /\ area = "books"           \* the books move by two fills alone
           /\ Service /\ (svc.stopped => ~svc'.starting /\ told' = told)
        \/ area = "books" /\ BooksMove /\ broker' \subseteq Fills \ {"late"}
        \/ /\ area = "stop"            \* fills while and after a stop, and a second start
           /\ Service \/ (BooksMove /\ broker' \subseteq Fills)
           /\ failures' = 0
        \/ /\ area = "demand"
           /\ OnDemand \/ (BooksMove /\ "late" \notin broker') \/ TaskStep("demand") \/ ReadFails("demand")
     /\ UNCHANGED <<vars, wvars, hvars>>
  \/ area = "buffer" /\ WNext /\ UNCHANGED <<vars, recvars, hvars>>
  \/ area = "health" /\ HNext /\ UNCHANGED <<vars, recvars, wvars>>

AnsweringNext ==
  \/ area = "bus" /\ BusNext /\ UNCHANGED <<apivars, idemvars>>
  \/ /\ \/ area = "limits" /\ LimitsNext
        \/ area = "acks" /\ AcksNext
        \/ area = "history" /\ lastHistory.points = {} /\ HistoryNext  \* one answer will do
     /\ UNCHANGED <<busvars, idemvars>>
  \/ area = "keys" /\ IdemNext /\ UNCHANGED <<busvars, apivars>>

MCNext ==
  /\ UNCHANGED area
  /\ \/ ServingNext /\ UNCHANGED Answering
     \/ AnsweringNext /\ UNCHANGED Serving

MCvars == <<Serving, Answering, area>>
\* The fairness of each component, in its area: of steps that change its variables,
\* which no other component's steps do.
MCFairness ==
  /\ \A t \in Tasks : WF_vars(area = "agents" /\ Server(t))
  /\ WF_recvars(area = "books" /\ Wake)
  /\ WF_recvars(area = "books" /\ StopGoesOn)
  /\ \A e \in Fills \ {"late"} : WF_recvars(area = "books" /\ OnFillResumes(e))
  /\ \A r \in RecTasks \ {"late", "demand"} : WF_recvars(area = "books" /\ TaskStep(r))
  /\ \A q \in Requests :
       /\ WF_hvars(area = "health" /\ Handled(q))
       /\ \A c \in HealthCheckers : WF_hvars(area = "health" /\ CheckEnds(q, c))
  /\ \A l \in 1 .. MaxStarts : WF_busvars(area = "bus" /\ l \in DOMAIN loops /\ Dispatching(l))

MCSpec == MCInit /\ [][MCNext]_MCvars /\ MCFairness

\* What was asked of the parts beside the trading path is answered, and what they
\* settled stays settled: tasks, fills, health requests and waiting events come to
\* their end, each in the area whose fairness it needs; a bias persists, stress never
\* raises the risk, and the first response stored under a key stays (dispatcher.py:243,
\* redis_writer.py:50, volatility.py:133-154, service.py:211-243, event_bus.py:175,
\* idempotency.py:54).
SupportProceeds ==
  /\ area = "agents" => EveryTaskAnswered
  /\ area = "books" => FillIsReconciled
  /\ area = "health" => HealthAnswers
  /\ area = "bus" => WaitingIsDispatched
  /\ BiasPersists /\ StressNeverRaisesRisk /\ FirstResponseStays
=============================================================================
