------------------------- MODULE PositionLifecycle -------------------------
(***************************************************************************)
(* What closing a position promises to whoever looks at positions.status:  *)
(* the status tells how much of the position the broker has executed.      *)
(* ClosePosition implements it in the environment without anomalies.       *)
(***************************************************************************)
EXTENDS Integers

CONSTANTS Positions, Quantity

VARIABLES
  status,     \* positions.status
  executed    \* quantity the broker has executed to close the position

vars == <<status, executed>>

Init ==
  /\ status = [p \in Positions |-> "open"]
  /\ executed = [p \in Positions |-> 0]

Move(p, from, to) ==
  /\ status[p] = from
  /\ status' = [status EXCEPT ![p] = to]
  /\ UNCHANGED executed

\* An accepted request starts the close.
Begin(p) == Move(p, "open", "closing")

\* The broker executes one unit; it never executes more than is held.
Execute(p) ==
  /\ status[p] = "closing"
  /\ executed[p] < Quantity
  /\ executed' = [executed EXCEPT ![p] = @ + 1]
  /\ UNCHANGED status

Complete(p) == executed[p] = Quantity /\ Move(p, "closing", "closed")

\* Nothing executed: the position is as it was.
Rollback(p) == executed[p] = 0 /\ Move(p, "closing", "open")

Interrupt(p) == executed[p] > 0 /\ Move(p, "closing", "close_retryable")

Retry(p) == executed[p] < Quantity /\ Move(p, "close_retryable", "closing")

GiveUp(p) == executed[p] < Quantity /\ Move(p, "closing", "close_failed")

Next == \E p \in Positions :
  \/ Begin(p) \/ Execute(p) \/ Complete(p) \/ Rollback(p)
  \/ Interrupt(p) \/ Retry(p) \/ GiveUp(p)

Spec == Init /\ [][Next]_vars
=============================================================================
