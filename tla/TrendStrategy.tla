---------------------------- MODULE TrendStrategy ----------------------------
(***************************************************************************)
(* TrendBreakoutStrategy with weights from information coefficients.  Of   *)
(* prices, volumes and scores only what decides the control is kept:       *)
(* whether a bar's indicators exist, whether its price is zero, and on     *)
(* which side of the thresholds its composite score lies.  The histories   *)
(* of the IC weights hold, instead of numbers, the bars they come from.    *)
(* Positions follow the signals with a delay.                              *)
(***************************************************************************)
EXTENDS Integers, Sequences, FiniteSets, SequencesExt

CONSTANTS
  TSymbols,       \* self.symbols
  Lookback,       \* DEFAULT_LOOKBACK
  ICLookback, ICPeriods,   \* lookback_window, ic_history_periods
  Slack,          \* what max_history has beyond the two
  Interval,       \* update_interval
  MinPeriods, WindowSize,  \* of the score normalizer
  Sizes,          \* quantities of an entry
  TBars, MaxStarts         \* bounds: bars per symbol, calls of on_start

ASSUME TrendAssumption ==
  /\ {Lookback, Slack, TBars, MaxStarts} \subseteq Nat
  /\ {ICLookback, ICPeriods, Interval} \subseteq Nat \ {0}
  /\ MinPeriods \in Nat /\ WindowSize \in Nat /\ Sizes \subseteq Nat \ {0}

VARIABLES
  now,        \* bar of each symbol
  held,       \* bars in the price, volume and high buffers
  scored,     \* _factor_score_history: the bar of each score
  returns,    \* _return_history: the two bars of each return
  lastBar,    \* _last_price: its bar and whether it is zero, or NoBar
  icBars,     \* _ic_bar_count
  lastUpdate, \* _last_ic_update_bar, or -1 before the first
  initialized,   \* _ic_weights_initialized
  weights,    \* pairs of score and return the weights come from; none: configured weights
  norm,       \* length of the normalizer's history, of all symbols together
  owned,      \* the account's position
  flying,     \* signals that are not filled yet
  snags,      \* what happened: "late", "zero", "full"
  starts

tvars == <<now, held, scored, returns, lastBar, icBars, lastUpdate, initialized,
           weights, norm, owned, flying, snags, starts>>

NoBar == [bar |-> 0, zero |-> FALSE]
SmallerOf(a, b) == IF a < b THEN a ELSE b

MaxHistory == ICLookback + ICPeriods + Slack

Trim(s) == IF Len(s) > MaxHistory THEN Tail(s) ELSE s

\* What _maybe_update_ic_weights pairs of a symbol's histories.
MinLen(sc, rt) == SmallerOf(Len(sc), Len(rt) + 1)

\* The sliding windows of the full pipeline take the last of n pairs.
Windows(n) == (n - ICLookback - ICPeriods + 2)..n

\* Faulty: scores and returns are both counted from their ends.
PairsFromEnd(sc, rt) ==
  LET n == MinLen(sc, rt) - 1 IN
  {<<sc[Len(sc) - n + i], rt[Len(rt) - n + i]>> : i \in Windows(n)}

Pairs(sc, rt) == {<<sc[i], rt[i]>> : i \in Windows(MinLen(sc, rt) - 1)}

Enough(sc, rt) == MinLen(sc, rt) >= ICLookback + ICPeriods

\* The weights a recomputation takes, averaged over the symbols that have the data.
Recomputed(sc, rt) == UNION {Pairs(sc[s], rt[s]) : s \in {t \in TSymbols : Enough(sc[t], rt[t])}}

\* Faulty: the interval counts from the beginning of the next.
DueLate == icBars' - lastUpdate > Interval

Due == icBars' - lastUpdate >= Interval

\* _update_ic_weight_history, then _maybe_update_ic_weights.
ICWeights(s, zero) ==
  /\ returns' = [returns EXCEPT ![s] =
       Trim(IF lastBar[s] = NoBar \/ lastBar[s].zero THEN @
            ELSE Append(@, <<lastBar[s].bar, now'[s]>>))]
  /\ scored' = [scored EXCEPT ![s] = Trim(Append(@, now'[s]))]
  /\ lastBar' = [lastBar EXCEPT ![s] = [bar |-> now'[s], zero |-> zero]]
  /\ icBars' = icBars + 1
  /\ \/ /\ lastUpdate # -1 /\ ~Due /\ initialized
        /\ UNCHANGED <<lastUpdate, weights, initialized>>
     \/ /\ lastUpdate = -1 \/ Due \/ ~initialized
        /\ lastUpdate' = icBars'
        /\ IF \E t \in TSymbols : Enough(scored'[t], returns'[t])
           THEN weights' = Recomputed(scored', returns') /\ initialized' = TRUE
           ELSE UNCHANGED <<weights, initialized>>

\* Faulty: an entry does not look at the position.
FlatAny(s) == TRUE

Flat(s) == owned[s] = 0

ExitQuantity(s) == owned[s]

Side(s) == {f \in flying : f.symbol = s}

\* The signal of a bar: an entry above one threshold, an exit below the other.
Signals(s) ==
  \/ /\ Flat(s) /\ \E q \in Sizes :
          flying' = flying \cup {[symbol |-> s, action |-> "buy", quantity |-> q, bar |-> now'[s]]}
  \/ /\ owned[s] > 0
     /\ flying' = flying \cup {[symbol |-> s, action |-> "sell",
                                quantity |-> ExitQuantity(s), bar |-> now'[s]]}
  \/ UNCHANGED flying    \* in between

\* on_market_data.
OnMarketData(s) ==
  /\ now[s] < TBars
  /\ now' = [now EXCEPT ![s] = @ + 1]
  /\ held' = [held EXCEPT ![s] = SmallerOf(@ + 1, Lookback + 1)]
  /\ \/ /\ held'[s] < Lookback + 1      \* not enough bars
        /\ UNCHANGED <<scored, returns, lastBar, icBars, lastUpdate, initialized,
                       weights, norm, flying, snags>>
     \/ /\ held'[s] = Lookback + 1      \* an indicator has no value
        /\ UNCHANGED <<scored, returns, lastBar, icBars, lastUpdate, initialized,
                       weights, norm, flying, snags>>
     \/ /\ held'[s] = Lookback + 1
        /\ norm' = SmallerOf(norm + 1, WindowSize)
        /\ \E zero \in BOOLEAN :
             /\ ICWeights(s, zero)
             /\ snags' = snags \cup (IF zero THEN {"zero"} ELSE {})
                  \cup (IF Len(scored[s]) = MaxHistory THEN {"full"} ELSE {})
                  \cup (IF Side(s) # {} THEN {"late"} ELSE {})
        /\ Signals(s)
  /\ UNCHANGED <<owned, starts>>

\* A signal is filled; a sale of more than is held would leave a short position.
SignalFilled(f) ==
  /\ f \in flying
  /\ flying' = flying \ {f}
  /\ owned' = [owned EXCEPT ![f.symbol] =
                 IF f.action = "buy" THEN @ + f.quantity ELSE @ - f.quantity]
  /\ UNCHANGED <<now, held, scored, returns, lastBar, icBars, lastUpdate, initialized,
                 weights, norm, snags, starts>>

\* Faulty: the flag outlives the histories.
StillInitialized == initialized

StartsInitialized == FALSE

\* on_start.  The normalizer is not reset.
OnStart ==
  /\ starts < MaxStarts /\ starts' = starts + 1
  /\ held' = [s \in TSymbols |-> 0]
  /\ scored' = [s \in TSymbols |-> <<>>] /\ returns' = [s \in TSymbols |-> <<>>]
  /\ lastBar' = [s \in TSymbols |-> NoBar]
  /\ icBars' = 0 /\ lastUpdate' = -1
  /\ initialized' = StartsInitialized
  /\ weights' = {}
  /\ UNCHANGED <<now, norm, owned, flying, snags>>

TInit ==
  /\ now = [s \in TSymbols |-> 0] /\ held = [s \in TSymbols |-> 0]
  /\ scored = [s \in TSymbols |-> <<>>] /\ returns = [s \in TSymbols |-> <<>>]
  /\ lastBar = [s \in TSymbols |-> NoBar]
  /\ icBars = 0 /\ lastUpdate = -1 /\ initialized = FALSE /\ weights = {}
  /\ norm = 0 /\ owned = [s \in TSymbols |-> 0] /\ flying = {} /\ snags = {} /\ starts = 0

TNext ==
  \/ \E s \in TSymbols : OnMarketData(s)
  \/ \E f \in flying : SignalFilled(f)
  \/ OnStart

TSpec == TInit /\ [][TNext]_tvars

-----------------------------------------------------------------------------
(* Properties.                                                             *)

\* Every variable of the module has its type.
TrendTypeOK ==
  /\ \A s \in TSymbols : /\ now[s] \in 0..TBars /\ held[s] \in 0..(Lookback + 1)
                         /\ scored[s] \in Seq(1..TBars)
                         /\ Len(scored[s]) <= MaxHistory /\ Len(returns[s]) <= MaxHistory
  /\ icBars \in Nat /\ lastUpdate \in Int /\ norm \in 0..WindowSize

\* While fills arrive before the next scored bar, the account never holds more
\* than one entry, and sells exactly what it holds.  A bar that finds a signal
\* still unfilled enters or exits a second time (trend_breakout.py:271-289, 318).
OneEntryAtATime ==
  "late" \notin snags =>
    \A s \in TSymbols :
      /\ owned[s] \in Sizes \cup {0}
      /\ \A f \in Side(s) : IF f.action = "buy" THEN owned[s] = 0 ELSE f.quantity = owned[s]

Aligned(pairs) == \A p \in pairs : p[2][1] = p[1]

\* Weights come from pairs of a score and the return that follows its bar, as
\* long as no price is zero and the histories are not full: the score of a bar
\* is one longer than its return, so that it is trimmed a bar earlier, and from
\* then on every score meets the return that led to it
\* (trend_breakout.py:465-487, 526-534).
WeightsLookForward == snags \cap {"zero", "full"} = {} => Aligned(weights)

\* As ic_weight_calculator.py:3 and :27 say it: IC is the correlation of a factor
\* with the return that follows.  Zero prices, which skip a return, are left aside.
ICIsForward == "zero" \notin snags => Aligned(weights)

\* Computed weights rest on data collected since the last on_start, enough of
\* them for every window of the IC history (trend_breakout.py:504, 528, 699-717).
WeightsHaveData ==
  initialized => \E s \in TSymbols : Enough(scored[s], returns[s])

\* Once a symbol has the data the weights are computed, and from then on they
\* are never older than the update interval (trend_breakout.py:508-515, 480-487).
WeightsAreFresh ==
  /\ snags \cap {"zero"} = {} =>
       \A s \in TSymbols : Len(scored[s]) >= ICLookback + ICPeriods => initialized
  /\ initialized => icBars - lastUpdate < Interval

\* The trend strategy has one entry at most under way for a symbol, and weighs its
\* factors by pairs that lie in its past, over enough data and not too long ago
\* (trend_breakout.py).
TrendSound ==
  /\ TrendTypeOK /\ OneEntryAtATime
  /\ WeightsLookForward /\ WeightsHaveData /\ WeightsAreFresh
=============================================================================
