------------------------------ MODULE MCTrading ------------------------------
(***************************************************************************)
(* Small instances of what surrounds an order: the signals with their risk *)
(* checks, and the audit log.  The two share no variable: a behaviour of   *)
(* this instance exercises one area, chosen by its initial state, and      *)
(* leaves the other alone.                                                 *)
(***************************************************************************)
EXTENDS SignalPath, AuditChain

VARIABLE area

MCInit == area \in {"signals", "audit"} /\ SignalInit /\ AuditInit

MCNext ==
  /\ UNCHANGED area
  /\ \/ area = "signals" /\ SignalNext /\ UNCHANGED auditvars
     \/ area = "audit" /\ AuditNext /\ UNCHANGED signalvars

MCvars == <<signalvars, auditvars, area>>

\* The fairness of SignalPath and of AuditChain, in their areas: of steps that change
\* the variables of the one, which the other's steps do not.
MCFairness ==
  /\ WF_signalvars(area = "signals" /\ Step)
  /\ WF_signalvars(area = "signals" /\ OnMarketData)
  /\ WF_signalvars(area = "signals" /\ \E t \in Strategies : NoSignal(t))
  /\ \A e \in Events :
       WF_auditvars(area = "audit" /\ (Write(e) \/ (svc[e] \in aborted /\ Raise(e))))
  /\ \A s \in Services :
       /\ WF_auditvars(area = "audit" /\ Take(s))
       /\ WF_auditvars(area = "audit" /\ Rollback(s))

MCSpec == MCInit /\ [][MCNext]_MCvars /\ MCFairness

\* What is under way comes to an end: events settle and are only ever appended,
\* evaluations of a signal end, each in the area whose fairness it needs
\* (audit/service.py, audit/repository.py; orders/manager.py).
TradingProceeds ==
  /\ AppendOnly
  /\ area = "audit" => Settles
  /\ area = "signals" => DispatchEnds
=============================================================================
