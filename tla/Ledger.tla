------------------------------- MODULE Ledger -------------------------------
(***************************************************************************)
(* What the ledger of a position promises: it counts every fill the broker *)
(* makes at most once, with the quantity and the sign it was made with,    *)
(* and counts nothing else.                                                *)
(***************************************************************************)
EXTENDS Integers

CONSTANT Fills   \* the broker's fill ids

VARIABLES
  amount,    \* signed quantity of each fill, 0 while it has not been made
  applied,   \* the fills the position has been updated for
  held       \* quantity of the position, negative when short

vars == <<amount, applied, held>>

Init ==
  /\ amount = [f \in Fills |-> 0]
  /\ applied = {}
  /\ held = 0

Fill(f) ==
  /\ amount[f] = 0
  /\ amount'[f] \in Int
  /\ amount' = [amount EXCEPT ![f] = amount'[f]]
  /\ UNCHANGED <<applied, held>>

Apply(f) ==
  /\ amount[f] # 0
  /\ f \notin applied
  /\ applied' = applied \cup {f}
  /\ held' = held + amount[f]
  /\ UNCHANGED amount

Next == \E f \in Fills : Fill(f) \/ Apply(f)

Spec == Init /\ [][Next]_vars
=============================================================================
