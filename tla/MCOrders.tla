------------------------------ MODULE MCOrders -------------------------------
(***************************************************************************)
(* Small instances of the orders with their position, and of the alerts    *)
(* with the checks of expiring options.  The two share no variable: a      *)
(* behaviour of this instance exercises one area, chosen by its initial    *)
(* state, and leaves the other alone.                                      *)
(***************************************************************************)
EXTENDS Orders, Expiration, TLC

CONSTANT p

VARIABLE area

\* Alerts of two severities under one key, of the worker, and of the options.
MCKey(by) == [by |-> by, position |-> Absent, threshold |-> 0]
MCFailedKey == MCKey("failed")
MCKeys == {MCKey("fill"), MCFailedKey} \union {WorkerKey(pos) : pos \in OptionPositions}
            \union {OptionKey(pos, t) : pos \in OptionPositions, t \in Thresholds}
MCEvents == {[key |-> MCKey("fill"), sev |-> 1], [key |-> MCKey("fill"), sev |-> 2]}

MCInit ==
  /\ area \in {"orders", "alerts"}
  /\ Init /\ ExpirationInit
  /\ area # "alerts" => ~locking

MCNext ==
  /\ UNCHANGED area
  /\ \/ area = "orders" /\ Next /\ UNCHANGED allVars
     \/ area = "alerts" /\ ExpirationNext /\ UNCHANGED vars

MCSpec == MCInit /\ [][MCNext]_<<vars, allVars, area>>

\* The workers of the hub are alike: a permutation of them changes no answer.
Alike == Permutations(Workers)
=============================================================================
