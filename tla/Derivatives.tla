----------------------------- MODULE Derivatives -----------------------------
(***************************************************************************)
(* Futures rolls and option assignment: the manager that every request     *)
(* builds from derivatives.yaml, the list of contracts due for a roll, the *)
(* plans, and the estimate of what an expiring option does to shares and   *)
(* cash.  A symbol is its underlying, its month codes and its year.        *)
(***************************************************************************)
EXTENDS Integers, Sequences, FiniteSets

CONSTANTS
  Futures,       \* futures contracts
  RootOf,        \* contract -> underlying
  ExpiryOf,      \* contract -> day of expiry
  MonthOf,       \* contract -> month, 1..12
  FileDays, FileStrategy,   \* futures_roll.underlyings: underlying -> days_before, strategy
  DefaultDays, DefaultStrategy,   \* futures_roll.default
  LastDay,       \* bound
  Strikes, Prices, Contracts, Multiplier   \* of the options whose assignment is estimated

Underlyings == {RootOf[c] : c \in Futures}

ASSUME DerivativesAssumption ==
  /\ DOMAIN FileDays = Underlyings /\ DOMAIN FileStrategy = Underlyings
  /\ MonthOf \in [Futures -> 1..12] /\ Strikes \cup Prices \cup Contracts \subseteq Nat
  /\ {LastDay, Multiplier, DefaultDays} \subseteq Nat

VARIABLES
  today,
  due,      \* the last list of contracts to roll
  plans,    \* plans made so far
  asked     \* the option whose assignment was estimated last

dvars == <<today, due, plans, asked>>

\* get_futures_roll_manager walks the keys of futures_roll, of which "underlyings"
\* is one and no underlying is: it configures an underlying of that name, and
\* get_config of every other answers the default.
ConfigOf(u) == [strategy |-> DefaultStrategy, days |-> DefaultDays]

InWindow(c, days) == ExpiryOf[c] >= today /\ ExpiryOf[c] <= today + days

\* get_positions_to_roll: by default with default_days_before.
Lookup(days) ==
  /\ due' = {c \in Futures : InWindow(c, days)}
  /\ UNCHANGED <<today, plans, asked>>

\* Faulty: December is followed by nothing.
NextMonthPlain(m) == m + 1

NextMonth(m) == (m % 12) + 1

\* generate_roll_plan.  _get_next_contract_symbol leaves the year alone.
PlanFor(c) ==
  [sold |-> c, strategy |-> ConfigOf(RootOf[c]).strategy,
   bought |-> IF ConfigOf(RootOf[c]).strategy = "calendar_spread"
              THEN NextMonth(MonthOf[c]) ELSE 0]

RollRequest(c) ==
  /\ plans' = plans \cup {PlanFor(c)}
  /\ UNCHANGED <<today, due, asked>>

(***************************************************************************)
(* AssignmentHandler.                                                      *)
(***************************************************************************)
Kinds == {"call", "put"}

InTheMoney(kind, strike, price) ==
  IF kind = "call" THEN price > strike ELSE price < strike

\* Faulty: the writer of an option trades like its holder.
DirectionSame(kind, quantity) == IF kind = "call" THEN "BUY" ELSE "SELL"

Direction(kind, quantity) ==
  IF (kind = "call") <=> (quantity >= 0) THEN "BUY" ELSE "SELL"

Estimate(kind, strike, price, quantity) ==
  LET n == IF quantity < 0 THEN -quantity ELSE quantity
      shares == IF InTheMoney(kind, strike, price) THEN n * Multiplier ELSE 0
      direction == Direction(kind, quantity)
  IN [shares |-> shares, direction |-> direction,
      cash |-> (IF direction = "BUY" THEN -1 ELSE 1) * strike * shares]

EstimateRequest(kind, strike, price, quantity) ==
  /\ asked' = [kind |-> kind, strike |-> strike, price |-> price, quantity |-> quantity]
  /\ UNCHANGED <<today, due, plans>>

NoOption == [kind |-> "call", strike |-> 0, price |-> 0, quantity |-> 0]

NextDay ==
  /\ today < LastDay /\ today' = today + 1
  /\ UNCHANGED <<due, plans, asked>>

DInit == today = 0 /\ due = {} /\ plans = {} /\ asked = NoOption

DNext ==
  \/ NextDay \/ Lookup(DefaultDays)
  \/ \E days \in 0..LastDay : Lookup(days)
  \/ \E c \in Futures : RollRequest(c)
  \/ \E kind \in Kinds, strike \in Strikes, price \in Prices, n \in Contracts :
       EstimateRequest(kind, strike, price, n) \/ EstimateRequest(kind, strike, price, -n)

DSpec == DInit /\ [][DNext]_dvars

-----------------------------------------------------------------------------
(* Properties.                                                             *)

\* A calendar spread buys the month after the one it sells, and nothing but a
\* calendar spread buys (futures_roll.py:279-286, 335-344).
SpreadsRollOneMonth ==
  \A p \in plans :
    IF p.strategy = "calendar_spread"
    THEN p.bought \in 1..12 /\ (p.bought - MonthOf[p.sold]) \in {1, -11}
    ELSE p.bought = 0

\* As config/derivatives.yaml:18-42 has it: each underlying is rolled with the
\* strategy of its entry in the file.
PlansFollowFile == \A p \in plans : p.strategy = FileStrategy[RootOf[p.sold]]

\* What an option does to its holder it does to its writer the other way round,
\* and of a call and a put of one strike at most one is assigned
\* (assignment_handler.py:130-133, 177-197).
AssignmentBalances ==
  LET here == Estimate(asked.kind, asked.strike, asked.price, asked.quantity)
      there == Estimate(asked.kind, asked.strike, asked.price, -asked.quantity)
      other == Estimate(CHOOSE k \in Kinds : k # asked.kind, asked.strike, asked.price, asked.quantity)
  IN /\ here.cash + there.cash = 0 /\ here.shares = there.shares
     /\ asked.quantity # 0 => here.direction # there.direction
     /\ here.shares = 0 \/ other.shares = 0

\* A roll names the month after the one it leaves, over the end of a year as well,
\* and an assignment takes from one side what it gives the other
\* (futures_roll.py:279-344, assignment_handler.py:130-197).
DerivativesSound == SpreadsRollOneMonth /\ AssignmentBalances
=============================================================================
