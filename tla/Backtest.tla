------------------------------ MODULE Backtest -------------------------------
(***************************************************************************)
(* BacktestEngine.run over one symbol: the bars of the warm-up and of the  *)
(* backtest, a strategy that may answer any bar with a signal, fills at    *)
(* the next bar's open, the portfolio, the engine's own account of open    *)
(* entries, traces, attribution, the metrics, and the trades the API       *)
(* reports.  A bar takes two steps, its open and its close.                *)
(*                                                                         *)
(* Money is an integer number of units.  The rounding of Decimal is left   *)
(* out: where a division leaves a remainder, the properties about amounts  *)
(* say nothing; in a small run none does.                                  *)
(***************************************************************************)
EXTENDS Integers, Sequences, FiniteSets, SequencesExt

CONSTANTS
  Opens, Closes,   \* prices of a bar
  Quantities,      \* of a signal
  FactorNames,         \* names of factors
  Weighted,        \* the factors of weight 1; the others weigh nothing
  FactorSets,      \* factors the signal of an entry may carry
  Warmup, Bars,    \* bars of the warm-up that the strategy requires and gets; of the backtest
  Capital, Commission,   \* initial_capital, commission_per_share
  SlippageParts,   \* slippage is 1/SlippageParts of the price
  Nothing

ASSUME PricesAssumption == Opens \union Closes \subseteq Nat \ {0} /\ Quantities \subseteq Nat \ {0}
ASSUME ConfigAssumption ==
  /\ {Warmup, Capital, Commission} \subseteq Nat /\ {Bars, SlippageParts} \subseteq Nat \ {0}
  /\ FactorSets \subseteq (SUBSET FactorNames) \ {{}} /\ Weighted \subseteq FactorNames
  /\ IsFiniteSet(FactorNames)
  /\ Nothing \notin [quantity : Nat, average : Nat, commission : Nat, factors : SUBSET FactorNames]
  /\ Nothing \notin [side : {"buy", "sell"}, quantity : Nat, factors : SUBSET FactorNames,
                     price : Nat, commission : Nat, signal : Nat, bar : Nat]

VARIABLES
  bar, phase,   \* the bar at hand, counted from 1; what of it comes next, or "done"
  pending,      \* pending_signal
  cash, qty, avg,   \* BacktestPortfolio
  entry,        \* pending_entry_positions of the symbol
  trades, curve,    \* trades; equity_curve
  traces, completed,   \* bars of the signals in pending_traces; trades in completed_traces
  summary,      \* attribution per factor
  realised,     \* history: profit of the closed parts
  uneven,       \* history: what a division with a remainder has gone into
  last          \* the last close

portfolio == <<cash, qty, avg>>
records == <<trades, traces, completed, entry, summary, realised>>
backtestvars == <<bar, phase, pending, portfolio, curve, records, last, uneven>>

SumOf(f, S) == MapThenSumSet(LAMBDA x : f[x], S)

BacktestInit ==
  /\ bar = 1 /\ phase = "open" /\ pending = Nothing /\ cash = Capital /\ qty = 0 /\ avg = 0
  /\ entry = Nothing /\ trades = <<>> /\ curve = <<>> /\ traces = {} /\ completed = <<>>
  /\ summary = [f \in FactorNames |-> 0] /\ realised = 0 /\ last = 0
  /\ uneven = {}

-----------------------------------------------------------------------------
(* A trade and what it does to the portfolio.                              *)

\* SimulatedFillEngine.execute: buys pay the slippage, sells receive less.
FillPrice(action, open) ==
  IF action = "buy" THEN open + open \div SlippageParts ELSE open - open \div SlippageParts

TradeOf(open) ==
  [side |-> pending.action, quantity |-> pending.quantity, factors |-> pending.factors,
   price |-> FillPrice(pending.action, open), commission |-> Commission * pending.quantity,
   signal |-> pending.bar, bar |-> bar]

\* Faulty: short sales.
CanSellAny(quantity) == TRUE

CanBuy(price, quantity) == cash >= price * quantity + Commission * quantity
CanSell(quantity) == qty >= quantity

\* Volume-weighted average cost.
Average(held, cost, trade) ==
  (held * cost + trade.price * trade.quantity) \div (held + trade.quantity)

\* apply_trade.
Bought(trade) ==
  /\ cash' = cash - (trade.price * trade.quantity + trade.commission)
  /\ qty' = qty + trade.quantity /\ avg' = Average(qty, avg, trade)
Sold(trade) ==
  /\ cash' = cash + (trade.price * trade.quantity - trade.commission)
  /\ qty' = qty - trade.quantity /\ UNCHANGED avg

-----------------------------------------------------------------------------
(* The engine's account of entries, and the attribution of what they earn. *)

NoEntry == [quantity |-> 0, average |-> 0, commission |-> 0, factors |-> {}]

\* Faulty: scale-ins keep the first price.
EnterAtFirstPrice(trade) ==
  LET old == IF entry = Nothing THEN [NoEntry EXCEPT !.average = trade.price] ELSE entry IN
  [old EXCEPT !.quantity = @ + trade.quantity, !.commission = @ + trade.commission,
              !.factors = @ \union trade.factors]

\* A buy is added to the entries that are open.
Enter(trade) ==
  LET old == IF entry = Nothing THEN NoEntry ELSE entry IN
  [quantity |-> old.quantity + trade.quantity, average |-> Average(old.quantity, old.average, trade),
   commission |-> old.commission + trade.commission, factors |-> old.factors \union trade.factors]

\* Faulty: a partial exit takes the whole commission along.
EntryCommissionWhole(trade) == entry.commission

\* The share of the entries' commission that a sale takes along.
EntryCommission(trade) == (entry.commission * trade.quantity) \div entry.quantity

Exit(trade) ==
  LET left == entry.quantity - trade.quantity IN
  IF left <= 0 THEN Nothing
  ELSE [entry EXCEPT !.quantity = left, !.commission = @ - EntryCommission(trade)]

\* Faulty: the commission of the entry is forgotten.
ProfitOfExit(trade) == (trade.price - entry.average) * trade.quantity - trade.commission

Profit(trade) ==
  (trade.price - entry.average) * trade.quantity - trade.commission - EntryCommission(trade)

\* Faulty: no fallback to equal shares.
SharingWeighted(factors) == factors \intersect Weighted

\* The factors that share a profit equally: those with weight, all if none has.
Sharing(factors) == IF factors \intersect Weighted = {} THEN factors ELSE factors \intersect Weighted

\* calculate_trade_attribution, added to the summary.
Attributed(factors, pnl) ==
  [f \in FactorNames |->
     summary[f] + IF f \in Sharing(factors) THEN pnl \div Cardinality(Sharing(factors)) ELSE 0]

-----------------------------------------------------------------------------
(* The open of a bar: a pending signal is filled, or refused and dropped.  *)

\* What is divided into parts, when that leaves a remainder.
Remainder(what, amount, parts) == IF amount % parts = 0 THEN {} ELSE {what}

InBacktest == bar > Warmup

\* Faulty: the trace is looked up by the bar of the fill.
CompleteByFill(trade) ==
  IF trade.bar \in traces THEN traces' = traces \ {trade.bar} /\ completed' = Append(completed, trade)
                          ELSE UNCHANGED <<traces, completed>>

\* The trace of the signal gets its fill.
Complete(trade) ==
  IF trade.signal \in traces THEN traces' = traces \ {trade.signal} /\ completed' = Append(completed, trade)
                             ELSE UNCHANGED <<traces, completed>>

Filled(trade) ==
  /\ phase = "open" /\ InBacktest /\ phase' = "close"
  /\ trades' = Append(trades, trade) /\ Complete(trade) /\ pending' = Nothing
  /\ UNCHANGED <<bar, curve, last>>

FillBuy(open) ==
  /\ pending # Nothing /\ pending.action = "buy" /\ CanBuy(open, pending.quantity)
  /\ LET trade == TradeOf(open) IN
     /\ Filled(trade) /\ Bought(trade) /\ entry' = Enter(trade)
     /\ uneven' = uneven \cup Remainder("average", qty * avg + trade.price * trade.quantity, qty + trade.quantity)
  /\ UNCHANGED <<summary, realised>>

\* A sale finds an entry whenever it finds shares: see PositionsAgree.
FillSell(open) ==
  /\ pending # Nothing /\ pending.action = "sell" /\ CanSell(pending.quantity)
  /\ LET trade == TradeOf(open) IN
     /\ Filled(trade) /\ Sold(trade)
     /\ IF entry = Nothing THEN UNCHANGED <<entry, summary, realised, uneven>>
        ELSE /\ entry' = Exit(trade)
             /\ summary' = Attributed(entry.factors, Profit(trade))
             /\ realised' = realised + Profit(trade)
             /\ uneven' = uneven \cup
                  Remainder("share", Profit(trade), Cardinality(Sharing(entry.factors)))

\* Faulty: a refused signal is tried again at the next bar.
RefusedStays == pending

Refused == Nothing

Refuse(open) ==
  /\ phase = "open" /\ InBacktest /\ pending # Nothing
  /\ IF pending.action = "buy" THEN ~CanBuy(open, pending.quantity) ELSE ~CanSell(pending.quantity)
  /\ phase' = "close" /\ pending' = Refused
  /\ UNCHANGED <<bar, portfolio, curve, records, last, uneven>>

\* Nothing is pending, or the warm-up keeps it.
NoFill ==
  /\ phase = "open" /\ (pending = Nothing \/ ~InBacktest)
  /\ phase' = "close"
  /\ UNCHANGED <<bar, pending, portfolio, curve, records, last, uneven>>

-----------------------------------------------------------------------------
(* The close of a bar: the strategy, then the equity.                      *)

Equity(price) == cash + qty * price

EndBar(close) ==
  /\ last' = close
  /\ curve' = IF InBacktest THEN Append(curve, Equity(close)) ELSE curve
  /\ IF bar = Warmup + Bars THEN phase' = "summing" /\ UNCHANGED bar
                            ELSE phase' = "open" /\ bar' = bar + 1
  /\ UNCHANGED <<portfolio, trades, completed, entry, summary, realised, uneven>>

Quiet(close) ==
  /\ phase = "close" /\ EndBar(close)
  /\ UNCHANGED <<pending, traces>>

\* The first signal of the strategy takes the place of one that is still pending.
Decide(close, action, quantity, factors) ==
  /\ phase = "close" /\ EndBar(close)
  /\ pending' = [action |-> action, quantity |-> quantity, factors |-> factors, bar |-> bar]
  /\ traces' = traces \union {bar}

\* Faulty: what is left is valued net of its commission.
UnrealisedNet(close) == (close - entry.average) * entry.quantity - entry.commission

Unrealised(close) == (close - entry.average) * entry.quantity

\* Entries that are still open are attributed at the last close.
Summarise ==
  /\ phase = "summing" /\ phase' = "done"
  /\ summary' = IF entry = Nothing THEN summary ELSE Attributed(entry.factors, Unrealised(last))
  /\ uneven' = IF entry = Nothing THEN uneven
               ELSE uneven \cup Remainder("share", Unrealised(last), Cardinality(Sharing(entry.factors)))
  /\ UNCHANGED <<bar, pending, portfolio, trades, curve, traces, completed, entry, realised, last>>

BacktestNext ==
  \/ \E open \in Opens : FillBuy(open) \/ FillSell(open) \/ Refuse(open)
  \/ NoFill
  \/ \E close \in Closes : Quiet(close)
  \/ \E close \in Closes, quantity \in Quantities :
       \/ \E factors \in FactorSets : Decide(close, "buy", quantity, factors)
       \/ Decide(close, "sell", quantity, {})
  \/ Summarise

BacktestSpec == BacktestInit /\ [][BacktestNext]_backtestvars

-----------------------------------------------------------------------------
(* Metrics and the API's reading of the trades: functions of the results.  *)

\* Faulty: the trough is not related to its own peak.
DrawdownScanLast(acc, equity) ==
  IF equity > acc.peak THEN [acc EXCEPT !.peak = equity]
  ELSE [peak |-> equity,
        drop |-> IF (acc.peak - equity) * acc.of > acc.drop * acc.peak THEN acc.peak - equity ELSE acc.drop,
        of |-> IF (acc.peak - equity) * acc.of > acc.drop * acc.peak THEN acc.peak ELSE acc.of]

\* _compute_max_drawdown, one equity: the largest drop is the fraction drop/of.
DrawdownScan(acc, equity) ==
  IF equity > acc.peak THEN [acc EXCEPT !.peak = equity]
  ELSE IF acc.peak > 0 /\ (acc.peak - equity) * acc.of > acc.drop * acc.peak
    THEN [acc EXCEPT !.drop = acc.peak - equity, !.of = acc.peak]
  ELSE acc

MaxDrawdown(equities) == FoldLeft(DrawdownScan, [peak |-> equities[1], drop |-> 0, of |-> 1], equities)

\* Faulty: the entry survives its exit.
PairKeep(acc, trade) ==
  IF trade.side = "buy" THEN [acc EXCEPT !.entry = trade]
  ELSE [acc EXCEPT !.earned = @ + (trade.price - acc.entry.price) * trade.quantity
                                - trade.commission - acc.entry.commission,
                   !.exits = @ + 1]

\* _build_trade_responses, one trade: a buy waits for the next sale, which takes it;
\* earned is what the paired responses report.
Pair(acc, trade) ==
  IF trade.side = "buy" THEN [acc EXCEPT !.entry = trade]
  ELSE IF acc.entry = Nothing THEN [acc EXCEPT !.unpaired = @ + 1]
  ELSE [acc EXCEPT !.entry = Nothing, !.exits = @ + 1,
                   !.earned = @ + (trade.price - acc.entry.price) * trade.quantity
                                - trade.commission - acc.entry.commission]

Responses == FoldLeft(Pair, [entry |-> Nothing, earned |-> 0, exits |-> 0, unpaired |-> 0], trades)

\* Each sale closes the one buy before it.
RoundTrips ==
  \A i \in DOMAIN trades :
    IF i % 2 = 1 THEN trades[i].side = "buy"
    ELSE trades[i].side = "sell" /\ trades[i].quantity = trades[i - 1].quantity

-----------------------------------------------------------------------------
(* Properties.                                                             *)

\* Every variable has its type; positions are long only.
BacktestTypeOK ==
  /\ bar \in 1 .. Warmup + Bars /\ phase \in {"open", "close", "summing", "done"}
  /\ pending = Nothing \/ /\ pending.quantity \in Quantities /\ pending.bar \in 1 .. bar
                          /\ pending.action \in {"buy", "sell"} /\ pending.factors \subseteq FactorNames
  /\ cash \in Int /\ qty \in Nat /\ avg \in Nat /\ realised \in Int
  /\ summary \in [FactorNames -> Int] /\ traces \subseteq 1 .. Warmup + Bars
  /\ uneven \subseteq {"average", "share"}

\* No look-ahead and no second try: a trade takes place at the open of the bar
\* after its signal, or at the first bar of the backtest when the signal is from the
\* warm-up, and each signal has one fill at most.
FilledAtNextOpen ==
  \A i \in DOMAIN trades :
    /\ trades[i].bar = (IF trades[i].signal > Warmup THEN trades[i].signal ELSE Warmup) + 1
    /\ \A j \in DOMAIN trades : trades[j].signal = trades[i].signal => j = i

\* The engine's account of its open entries and the portfolio, kept apart and
\* updated by different code, agree through scale-ins and partial exits.
PositionsAgree ==
  IF entry = Nothing THEN qty = 0
  ELSE entry.quantity = qty /\ entry.average = avg /\ entry.commission = Commission * qty

\* The profits that are attributed account for the whole change of the equity: what is
\* realised, what the open shares have gained, and what their entry has cost, as long as
\* the average costs leave no remainder.
ProfitReconciles ==
  "average" \notin uneven =>
    Equity(last) - Capital = realised + (last - avg) * qty - Commission * qty

\* Attribution invents and loses nothing, whatever the weights: over the factors it adds
\* up to the realised profit, and at the end to that and the gain of the open shares, as
\* long as the shares leave no remainder.
AttributionAddsUp ==
  "share" \notin uneven =>
    SumOf(summary, FactorNames) = realised + IF phase = "done" THEN (last - avg) * qty ELSE 0

\* Each trade completes the trace of its own signal, and a pending signal has a trace.
TracesMatch ==
  /\ completed = trades
  /\ pending # Nothing => pending.bar \in traces

\* The one pass over the equity curve finds the largest drop from any earlier equity,
\* unless the equity was negative: a peak that is not positive has no drop.
DrawdownIsLargest ==
  curve # <<>> /\ (\A i \in DOMAIN curve : curve[i] >= 0) =>
    LET found == MaxDrawdown(curve)
        drop(i, j) == (curve[i] - curve[j]) * found.of - found.drop * curve[i]
    IN /\ \A i, j \in DOMAIN curve : i <= j => drop(i, j) <= 0
       /\ \E i, j \in DOMAIN curve : i <= j /\ drop(i, j) = 0

\* As long as every exit closes one whole entry, the paired trades of the API report
\* the realised profit, and an open entry exactly while shares are held.
RoundTripsReported ==
  RoundTrips =>
    /\ Responses.earned = realised /\ Responses.unpaired = 0
    /\ (Responses.entry # Nothing) <=> (qty > 0)

\* A backtest looks at no bar before its time and its books balance: orders are
\* filled at the next open, and positions, profit, attribution, traces, drawdown
\* and round trips all tell the same story (backtest/engine.py and its reports).
BacktestSound ==
  /\ BacktestTypeOK /\ FilledAtNextOpen /\ PositionsAgree
  /\ ProfitReconciles /\ AttributionAddsUp
  /\ TracesMatch /\ DrawdownIsLargest /\ RoundTripsReported
=============================================================================
