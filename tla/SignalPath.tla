----------------------------- MODULE SignalPath -----------------------------
(***************************************************************************)
(* From a quote to a verdict on a signal: the MarketDataService pumps      *)
(* quotes through Redis into a bounded stream, the StrategyEngine tells    *)
(* the strategies of each, and the RiskManager evaluates their signals one *)
(* by one.  The operators' controls, the kill switch of the RiskManager    *)
(* and the TradingStateManager of the API, move at any time: every await   *)
(* of an evaluation lets them in.                                          *)
(*                                                                         *)
(* The portfolio, Redis and the Greeks monitor are the environment: what   *)
(* an evaluation is told by them is chosen when it asks.                   *)
(***************************************************************************)
EXTENDS Integers, Sequences, FiniteSets

CONSTANTS
  Symbols,
  Strategies,     \* loaded strategies; each is subscribed to all symbols
  StreamSize,     \* config.queue_max_size
  MaxQuotes,      \* bound: quotes the source generates
  Quantities,     \* quantities signals ask for
  MaxQuantity,    \* config.max_quantity_per_order
  MaxPositions,   \* config.max_positions
  LossLimit,      \* config.daily_loss_limit
  Drawdown,       \* config.max_drawdown_pct
  GreeksLimit,    \* hard limit of the one Greek that is modelled
  Equities,       \* what get_account may answer
  NoValue

ASSUME StreamSizeAssumption == StreamSize \in Nat \ {0}
ASSUME LimitsAssumption ==
  {MaxQuotes, MaxQuantity, MaxPositions, LossLimit, Drawdown, GreeksLimit} \subseteq Nat
ASSUME EquitiesAssumption == Equities \subseteq Nat \ {0}
ASSUME QuantitiesAssumption == Quantities \subseteq Nat \ {0}
ASSUME NoValueAssumption == NoValue \notin Symbols \union Strategies

VARIABLES
  produced,    \* quotes the source has generated
  pump,        \* the quote _pump_quotes is handling, and how far it is
  streaming,   \* MarketDataService._running
  snapshot,    \* Redis: the number of each symbol's cached quote
  stream,      \* MarketDataService._stream
  engineOn,    \* StrategyEngine._running
  quotes,      \* StrategyEngine._quote_cache
  missed,      \* symbols whose latest snapshot was kept from the engine by a stop
  data,        \* the quote on_market_data is dispatching
  todo,        \* strategies it has not yet told
  eval,        \* the evaluation in progress
  killed, paused, pnl, peak,   \* RiskManager
  state, canResume,            \* TradingStateManager
  late,        \* approvals since the kill switch was last thrown, while it is on
  unlocked,    \* since the last halt, resuming was enabled or trading was paused
  highest      \* the highest equity the drawdown check has been told

market == <<produced, pump, streaming, snapshot, stream>>
engine == <<engineOn, quotes, missed, data, todo>>
controls == <<paused, pnl>>
trading == <<state, canResume, unlocked>>
signalvars == <<market, engine, eval, killed, peak, late, highest, controls, trading>>

Signal == [strategy : Strategies, action : {"buy", "sell"}, quantity : Quantities]

Quote == [symbol : Symbols, number : 1 .. MaxQuotes]

NoEval == [at |-> "idle", signal |-> NoValue, greek |-> 0]

Evaluating(sig, place) == [at |-> place, signal |-> sig, greek |-> 0]

SignalInit ==
  /\ produced = 0 /\ pump = [at |-> "wait", quote |-> NoValue] /\ streaming = FALSE
  /\ snapshot = [y \in Symbols |-> 0] /\ stream = <<>>
  /\ engineOn = FALSE /\ quotes = [y \in Symbols |-> 0] /\ missed = {}
  /\ data = NoValue /\ todo = {}
  /\ eval = NoEval
  /\ killed = FALSE /\ paused = {} /\ pnl = 0 /\ peak = 0
  /\ state = "running" /\ canResume = TRUE
  /\ late = 0 /\ unlocked = TRUE /\ highest = 0

-----------------------------------------------------------------------------
(* Market data.                                                            *)

StartStream ==
  /\ ~streaming
  /\ streaming' = TRUE
  /\ UNCHANGED <<produced, pump, snapshot, stream, engine, eval, killed, peak, late, highest,
                 controls, trading>>

\* stop() cancels the pump: a quote that is cached and not yet queued is gone.
StopStream ==
  /\ streaming
  /\ streaming' = FALSE
  /\ pump' = [at |-> "wait", quote |-> NoValue]
  /\ missed' = IF pump.at = "cached" THEN missed \union {pump.quote.symbol} ELSE missed
  /\ UNCHANGED <<produced, snapshot, stream, engineOn, quotes, data, todo, eval, killed, peak,
                 late, highest, controls, trading>>

Generate(y) ==
  /\ streaming /\ pump.at = "wait" /\ produced < MaxQuotes
  /\ produced' = produced + 1
  /\ pump' = [at |-> "process", quote |-> [symbol |-> y, number |-> produced + 1]]
  /\ UNCHANGED <<streaming, snapshot, stream, engine, eval, killed, peak, late, highest,
                 controls, trading>>

\* QuoteProcessor.process, once the simulated delay is over.
CacheQuote ==
  /\ pump.at = "process"
  /\ snapshot' = [snapshot EXCEPT ![pump.quote.symbol] = pump.quote.number]
  /\ pump' = [pump EXCEPT !.at = "cached"]
  /\ UNCHANGED <<produced, streaming, stream, engine, eval, killed, peak, late, highest,
                 controls, trading>>

\* Faulty: a full stream refuses the new quote.
WithQuoteDropNewest(s, q) == IF Len(s) < StreamSize THEN Append(s, q) ELSE s

\* Faulty: no bound.
WithQuoteUnbounded(s, q) == Append(s, q)

\* Faulty: the newest quote is handled first.
WithQuoteInFront(s, q) == <<q>> \o (IF Len(s) = StreamSize THEN Tail(s) ELSE s)

\* A full stream drops its oldest quote.
WithQuote(s, q) ==
  Append(IF Len(s) = StreamSize THEN Tail(s) ELSE s, q)

\* Symbols whose latest quote is in s and not in t: another symbol's have pushed
\* it out.
Latest(s) == {y \in Symbols : \E i \in DOMAIN s : s[i] = [symbol |-> y, number |-> snapshot[y]]}
Dropped(s, t) == Latest(s) \ Latest(t)

\* Once, or twice under the duplicate fault: put does not suspend after a drop.
Enqueue ==
  /\ pump.at = "cached"
  /\ \/ stream' = WithQuote(stream, pump.quote)
     \/ stream' = WithQuote(WithQuote(stream, pump.quote), pump.quote)
  /\ missed' = (missed \ {pump.quote.symbol}) \union Dropped(stream, stream')
  /\ pump' = [at |-> "wait", quote |-> NoValue]
  /\ UNCHANGED <<produced, streaming, snapshot, engineOn, quotes, data, todo, eval, killed,
                 peak, late, highest, controls, trading>>

-----------------------------------------------------------------------------
(* The strategy engine.                                                    *)

SwitchEngine ==
  /\ engineOn' = ~engineOn
  /\ UNCHANGED <<market, quotes, missed, data, todo, eval, killed, peak, late, highest,
                 controls, trading>>

\* on_market_data, until it awaits the first strategy; a stopped engine returns.
OnMarketData ==
  LET q == Head(stream) IN
  /\ stream # <<>> /\ data = NoValue
  /\ stream' = Tail(stream)
  /\ IF engineOn
       THEN /\ quotes' = [quotes EXCEPT ![q.symbol] = q.number]
            /\ data' = q /\ todo' = Strategies
            /\ missed' = IF q.number = snapshot[q.symbol] THEN missed \ {q.symbol} ELSE missed
       ELSE missed' = missed \union {q.symbol} /\ UNCHANGED <<quotes, data, todo>>
  /\ UNCHANGED <<produced, pump, streaming, snapshot, engineOn, eval, killed, peak, late,
                 highest, controls, trading>>

\* A strategy raises, or has no signal.
NoSignal(t) ==
  /\ eval.at = "idle" /\ t \in todo
  /\ todo' = todo \ {t}
  /\ data' = IF todo' = {} THEN NoValue ELSE data
  /\ UNCHANGED <<market, engineOn, quotes, missed, eval, killed, peak, late, highest,
                 controls, trading>>

-----------------------------------------------------------------------------
(* RiskManager.evaluate: one action from each await to the next.  `market`, *)
(* the engine's side of a dispatch and the API are untouched by all but the *)
(* end of it.                                                              *)

Others == <<market, engineOn, quotes, missed, paused, pnl, trading>>

Go(place) == eval' = [eval EXCEPT !.at = place] /\ UNCHANGED <<data, todo>>

\* Faulty: the last verdict does not end the dispatch.
DoneForgetting == eval' = NoEval /\ UNCHANGED <<data, todo>>

\* The engine drops the verdict and turns to the next strategy.
Done == eval' = NoEval /\ data' = (IF todo = {} THEN NoValue ELSE data) /\ UNCHANGED todo

RejectSignal == Done /\ UNCHANGED late

Approve == Done /\ late' = IF killed THEN late + 1 ELSE late

KillSwitch == killed' = TRUE /\ late' = 0

Continue(place) == Go(place) /\ UNCHANGED <<killed, peak, late, highest>>

Refuse == RejectSignal /\ UNCHANGED <<killed, peak, highest>>

\* Faulty: the kill switch is not looked at.
PassesUnlessPaused(sig) == sig.strategy \notin paused

\* Kill switch, pause and symbol lists, before the first await.
Passes(sig) == ~killed /\ sig.strategy \notin paused

\* Strategy t answers with a signal, whose evaluation begins.
Evaluate(sig) ==
  /\ eval.at = "idle" /\ sig.strategy \in todo
  /\ todo' = todo \ {sig.strategy}
  /\ \E allowed \in BOOLEAN :
       IF Passes(sig) /\ allowed
         THEN /\ eval' = Evaluating(sig, IF sig.action = "buy" THEN "bias" ELSE "account")
              /\ UNCHANGED data
         ELSE eval' = NoEval /\ data' = IF todo' = {} THEN NoValue ELSE data
  /\ UNCHANGED <<killed, peak, late, highest, Others>>

\* Redis gives the bias in halves, or fails and leaves it at one.
PositionLimits ==
  /\ eval.at = "bias"
  /\ \E bias \in {0, 1, 2} :
       IF eval.signal.quantity <= (MaxQuantity * bias) \div 2 THEN Continue("value") ELSE Refuse
  /\ UNCHANGED Others

\* The position's share of the equity; get_account may answer with no account.
PositionShare ==
  /\ eval.at = "value"
  /\ Continue("account") \/ Refuse
  /\ UNCHANGED Others

AskAccount ==
  /\ eval.at = "account"
  /\ Continue("portfolio") \/ Refuse
  /\ UNCHANGED Others

\* get_positions and, for a buy, get_position: the number of positions counts
\* when there is none yet.  Exposure and buying power, and then, without another
\* await, the daily loss.
Portfolio ==
  /\ eval.at = "portfolio"
  /\ \E held \in 0 .. MaxPositions, existing, affordable \in BOOLEAN :
       IF \/ eval.signal.action = "buy" /\ ~existing /\ held >= MaxPositions
          \/ ~affordable
         THEN Refuse
       ELSE IF pnl < -LossLimit
         THEN KillSwitch /\ Done /\ UNCHANGED <<peak, highest>>
         ELSE Continue("drawdown")
  /\ UNCHANGED Others

\* Faulty: the peak follows the equity down.
PeakAfterLast(equity) == equity

PeakAfter(equity) == IF equity > peak THEN equity ELSE peak

\* The second half of _check_loss_limits.
CheckDrawdown ==
  /\ eval.at = "drawdown"
  /\ \E equity \in Equities :
       /\ peak' = PeakAfter(equity)
       /\ highest' = IF equity > highest THEN equity ELSE highest
       /\ IF (peak' - equity) * 100 > Drawdown * peak'
            THEN KillSwitch /\ Done
            ELSE Go("greeks") /\ UNCHANGED <<killed, late>>
  /\ UNCHANGED Others

\* GreeksGate.check_order until it awaits the impact of the order: greeks that
\* are missing or stale block (fail-closed).
GreeksNow ==
  /\ eval.at = "greeks"
  /\ \/ Refuse
     \/ \E greek \in -GreeksLimit .. GreeksLimit :
          /\ eval' = [eval EXCEPT !.at = "impact", !.greek = greek]
          /\ UNCHANGED <<data, todo, killed, peak, late, highest>>
  /\ UNCHANGED Others

GreeksImpact ==
  LET projected == IF eval.signal.action = "buy" THEN eval.greek + eval.signal.quantity
                                                 ELSE eval.greek - eval.signal.quantity
  IN
  /\ eval.at = "impact"
  /\ IF projected > GreeksLimit \/ -projected > GreeksLimit
       THEN Refuse
       ELSE Approve /\ UNCHANGED <<killed, peak, highest>>
  /\ UNCHANGED Others

\* A read of the portfolio raises; the engine logs it and goes on.
EvaluationRaises ==
  /\ eval.at \in {"value", "account", "portfolio", "drawdown", "impact"}
  /\ Refuse
  /\ UNCHANGED Others

-----------------------------------------------------------------------------
(* The operators.                                                          *)

ActivateKillSwitch ==
  /\ KillSwitch
  /\ UNCHANGED <<market, engine, eval, peak, highest, controls, trading>>

DeactivateKillSwitch ==
  /\ killed' = FALSE /\ late' = 0
  /\ UNCHANGED <<market, engine, eval, peak, highest, controls, trading>>

PauseOrResume(t) ==
  /\ paused' = IF t \in paused THEN paused \ {t} ELSE paused \union {t}
  /\ UNCHANGED <<market, engine, eval, killed, peak, late, highest, pnl, trading>>

\* update_daily_pnl, bounded at the first loss beyond the limit.
UpdatePnl(change) ==
  /\ pnl + change \in -(LossLimit + 1) .. 0
  /\ pnl' = pnl + change
  /\ UNCHANGED <<market, engine, eval, killed, peak, late, highest, paused, trading>>

ResetDailyStats ==
  /\ pnl' = 0
  /\ UNCHANGED <<market, engine, eval, killed, peak, late, highest, paused, trading>>

\* halt() and the kill-switch endpoint, which does not reach the RiskManager.
Halt ==
  /\ state' = "halted" /\ canResume' = FALSE /\ unlocked' = FALSE
  /\ UNCHANGED <<market, engine, eval, killed, peak, late, highest, controls>>

Pause ==
  /\ state' = "paused" /\ canResume' = TRUE /\ unlocked' = TRUE
  /\ UNCHANGED <<market, engine, eval, killed, peak, late, highest, controls>>

EnableResume ==
  /\ state = "halted"
  /\ canResume' = TRUE /\ unlocked' = TRUE
  /\ UNCHANGED <<market, engine, eval, killed, peak, late, highest, controls, state>>

\* Faulty: a halted system resumes.
ResumeAnyway ==
  /\ state' = "running" /\ canResume' = TRUE
  /\ UNCHANGED <<market, engine, eval, killed, peak, late, highest, controls, unlocked>>

Resume ==
  /\ canResume
  /\ state' = "running" /\ canResume' = TRUE
  /\ UNCHANGED <<market, engine, eval, killed, peak, late, highest, controls, unlocked>>

-----------------------------------------------------------------------------

Step ==
  \/ PositionLimits \/ PositionShare \/ AskAccount \/ Portfolio \/ CheckDrawdown
  \/ GreeksNow \/ GreeksImpact \/ EvaluationRaises

Operator ==
  \/ ActivateKillSwitch \/ DeactivateKillSwitch \/ ResetDailyStats
  \/ \E t \in Strategies : PauseOrResume(t)
  \/ \E change \in {-1, 1} : UpdatePnl(change)
  \/ Halt \/ Pause \/ EnableResume \/ Resume

SignalNext ==
  \/ StartStream \/ StopStream \/ CacheQuote \/ Enqueue
  \/ \E y \in Symbols : Generate(y)
  \/ SwitchEngine \/ OnMarketData
  \/ \E t \in Strategies : NoSignal(t)
  \/ \E sig \in Signal : Evaluate(sig)
  \/ Step
  \/ Operator

\* The event loop runs what has been started: dispatches and evaluations.
SignalFairness ==
  /\ WF_signalvars(Step)
  /\ WF_signalvars(OnMarketData)
  /\ WF_signalvars(\E t \in Strategies : NoSignal(t))

SignalSpec == SignalInit /\ [][SignalNext]_signalvars /\ SignalFairness

-----------------------------------------------------------------------------

SignalTypeOK ==
  /\ produced \in 0 .. MaxQuotes /\ streaming \in BOOLEAN
  /\ pump \in [at : {"wait"}, quote : {NoValue}] \union [at : {"process", "cached"}, quote : Quote]
  /\ snapshot \in [Symbols -> 0 .. MaxQuotes] /\ quotes \in [Symbols -> 0 .. MaxQuotes]
  /\ stream \in Seq(Quote) /\ Len(stream) <= StreamSize
  /\ engineOn \in BOOLEAN /\ missed \subseteq Symbols
  /\ data \in Quote \union {NoValue} /\ todo \subseteq Strategies
  /\ eval \in {NoEval} \union
       [at : {"bias", "value", "account", "portfolio", "drawdown", "greeks", "impact"},
        signal : Signal, greek : -GreeksLimit .. GreeksLimit]
  /\ killed \in BOOLEAN /\ paused \subseteq Strategies /\ pnl \in Int
  /\ peak \in Nat /\ highest \in Nat /\ late \in Nat
  /\ state \in {"running", "paused", "halted"} /\ canResume \in BOOLEAN /\ unlocked \in BOOLEAN

\* What the engine works with is what Redis holds, once the stream has nothing
\* of the symbol: an overflow costs a symbol's older quotes, never its latest,
\* unless the quotes of other symbols push it out or one of the two was stopped.
EngineFollowsRedis ==
  \A y \in Symbols :
    \/ y \in missed
    \/ pump.at = "cached" /\ pump.quote.symbol = y
    \/ \E i \in DOMAIN stream : stream[i].symbol = y
    \/ quotes[y] = snapshot[y]

\* Once the kill switch is thrown, by an operator or by a loss, one evaluation
\* may still end in an approval, the one that had passed its check before.
KillSwitchHolds == late <= 1

\* Drawdowns are measured from the highest equity any evaluation was told,
\* whatever days, kills and pauses lie between.
PeakIsHighest == peak = highest

\* After a halt nothing resumes trading until resuming is enabled, or the system
\* is paused, which the manager allows while halted.
HaltHolds == state = "running" => unlocked

\* Events of a symbol reach the strategies in the order they were generated.
QuotesGoForward == [][\A y \in Symbols : quotes'[y] >= quotes[y]]_quotes

\* A dispatch ends: every strategy is told and every signal gets its verdict.
DispatchEnds == data # NoValue ~> data = NoValue

\* What README, API and RiskManager's users expect of a halt: no signal is
\* approved that was not yet under evaluation.
HaltStopsSignals == [][state = "halted" /\ eval.at = "idle" => eval'.at = "idle"]_signalvars

\* The controls of the signal path hold against signals already on their way: the
\* kill switch, the peak of the drawdown check, and the halt that only
\* enable_resume or pause ends (risk/manager.py, risk/state.py).
SignalSound == SignalTypeOK /\ KillSwitchHolds /\ PeakIsHighest /\ HaltHolds
=============================================================================
