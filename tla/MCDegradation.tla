---------------------------- MODULE MCDegradation ----------------------------
(***************************************************************************)
(* Small instances of the two guards beside the risk manager: graceful     *)
(* degradation, and the Greeks monitor with its gate.  They share no       *)
(* variable: a behaviour of this instance exercises one area, chosen by    *)
(* its initial state, and leaves the other alone.                          *)
(***************************************************************************)
EXTENDS Degradation, Greeks, TLC

CONSTANTS p, q, st

VARIABLE area

\* One position of a strategy and one of none.
MCStrategyOf == (p :> st) @@ (q :> Unset)
MCValues == (p :> {-33}) @@ (q :> {3, -15})
MCImpacts == {-3}
MCWindows == <<2, 1, 1>>

MCInit == area \in {"degradation", "greeks"} /\ Init /\ GreeksInit

\* The instance of the Greeks is finite and may rest; degradation never stops.
MCNext ==
  /\ UNCHANGED area
  /\ \/ area = "degradation" /\ Next /\ UNCHANGED greeksvars
     \/ area = "greeks" /\ GreeksNext /\ UNCHANGED vars
     \/ area = "greeks" /\ UNCHANGED <<vars, greeksvars>>

MCSpec == MCInit /\ [][MCNext]_<<vars, greeksvars, area>>
=============================================================================
