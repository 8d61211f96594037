---------------------------- MODULE TradingProofs -----------------------------
(***************************************************************************)
(* Proofs about what surrounds an order: SignalPath, for any symbols,      *)
(* strategies, limits and size of the stream; and AuditChain, for every    *)
(* number of events, sessions and workers: nothing an event is said to be  *)
(* gets lost, and what sessions that take turns write is one chain.        *)
(***************************************************************************)
EXTENDS SignalPath, AuditChain, FiniteSetTheorems, SequenceTheorems, TLAPS

-----------------------------------------------------------------------------
(* SignalPath.                                                             *)

Places == {"bias", "value", "account", "portfolio", "drawdown", "greeks", "impact"}
EvalRec == [at : Places, signal : Signal, greek : -GreeksLimit .. GreeksLimit]

-----------------------------------------------------------------------------
(* The type, in parts that different actions disturb.                      *)

MarketType ==
  /\ produced \in 0 .. MaxQuotes /\ streaming \in BOOLEAN
  /\ pump \in [at : {"wait"}, quote : {NoValue}] \union [at : {"process", "cached"}, quote : Quote]
  /\ snapshot \in [Symbols -> 0 .. MaxQuotes]
  /\ stream \in Seq(Quote) /\ Len(stream) <= StreamSize

EngineType ==
  /\ quotes \in [Symbols -> 0 .. MaxQuotes] /\ engineOn \in BOOLEAN /\ missed \subseteq Symbols
  /\ data \in Quote \union {NoValue} /\ todo \subseteq Strategies

EvalType == eval \in {NoEval} \union EvalRec

ControlsType ==
  /\ killed \in BOOLEAN /\ paused \subseteq Strategies /\ pnl \in Int
  /\ peak \in Nat /\ highest \in Nat /\ late \in Nat
  /\ state \in {"running", "paused", "halted"} /\ canResume \in BOOLEAN /\ unlocked \in BOOLEAN

LEMMA TypeInParts == SignalTypeOK <=> MarketType /\ EngineType /\ EvalType /\ ControlsType
  BY DEF SignalTypeOK, MarketType, EngineType, EvalType, ControlsType, EvalRec, Places

LEMMA TypeInPartsNext == MarketType' /\ EngineType' /\ EvalType' /\ ControlsType' => SignalTypeOK'
  BY DEF SignalTypeOK, MarketType, EngineType, EvalType, ControlsType, EvalRec, Places

\* At its limit the stream gives its oldest quote away: what is left of it, and in
\* which order.
LEMMA WithQuoteElements ==
  ASSUME NEW s \in Seq(Quote), Len(s) <= StreamSize, NEW q \in Quote
  PROVE  /\ WithQuote(s, q) \in Seq(Quote)
         /\ Len(WithQuote(s, q)) \in 1 .. StreamSize
         /\ WithQuote(s, q)[Len(WithQuote(s, q))] = q
         /\ \E k \in {0, 1} :
              /\ Len(WithQuote(s, q)) = Len(s) - k + 1
              /\ \A i \in 1 .. Len(WithQuote(s, q)) - 1 : WithQuote(s, q)[i] = s[i + k]
<1> USE StreamSizeAssumption
<1>1. CASE Len(s) = StreamSize
  <2>0. s # <<>> /\ Len(s) \in Nat /\ Len(s) >= 1 BY <1>1, LenProperties, EmptySeq
  <2>1. Tail(s) \in Seq(Quote) /\ Len(Tail(s)) = Len(s) - 1
    BY <2>0, HeadTailProperties
  <2>2. \A i \in 1 .. Len(Tail(s)) : Tail(s)[i] = s[i + 1]
    BY <2>0, HeadTailProperties
  <2>3. WithQuote(s, q) = Append(Tail(s), q) BY <1>1 DEF WithQuote
  <2> DEFINE t == Tail(s)
  <2> HIDE DEF t
  <2>4. t \in Seq(Quote) /\ Len(t) = Len(s) - 1 /\ \A i \in 1 .. Len(t) : t[i] = s[i + 1]
    BY <2>1, <2>2 DEF t
  <2>5. WithQuote(s, q) = Append(t, q) BY <2>3 DEF t
  <2>6. /\ Append(t, q) \in Seq(Quote) /\ Len(Append(t, q)) = Len(t) + 1
        /\ \A i \in 1 .. Len(t) : Append(t, q)[i] = t[i]
        /\ Append(t, q)[Len(t) + 1] = q
    BY <2>4, AppendProperties
  <2> QED BY <1>1, <2>0, <2>4, <2>5, <2>6
<1>2. CASE Len(s) # StreamSize
  <2>1. WithQuote(s, q) = Append(s, q) BY <1>2 DEF WithQuote
  <2>2. /\ Append(s, q) \in Seq(Quote) /\ Len(Append(s, q)) = Len(s) + 1
        /\ \A i \in 1 .. Len(s) : Append(s, q)[i] = s[i]
        /\ Append(s, q)[Len(s) + 1] = q
    BY AppendProperties
  <2>3. Len(s) \in Nat BY LenProperties
  <2> QED BY <1>2, <2>1, <2>2, <2>3
<1> QED BY <1>1, <1>2
-----------------------------------------------------------------------------
(* The type is kept.                                                       *)

LEMMA TypeInitially == SignalInit => SignalTypeOK
<1> SUFFICES ASSUME SignalInit PROVE SignalTypeOK
  OBVIOUS
<1> USE LimitsAssumption, StreamSizeAssumption DEF SignalInit
<1>1. MarketType
  <2>1. <<>> \in Seq(Quote) /\ Len(<<>>) = 0 BY EmptySeq
  <2>2. pump \in [at : {"wait"}, quote : {NoValue}] OBVIOUS
  <2>3. snapshot \in [Symbols -> 0 .. MaxQuotes] BY 0 \in 0 .. MaxQuotes
  <2>4. 0 \in 0 .. MaxQuotes /\ 0 <= StreamSize OBVIOUS
  <2>5. stream = <<>> /\ produced = 0 /\ streaming = FALSE OBVIOUS
  <2> HIDE DEF SignalInit
  <2> QED BY <2>1, <2>2, <2>3, <2>4, <2>5 DEF MarketType
<1>2. EngineType
  <2>1. quotes \in [Symbols -> 0 .. MaxQuotes] BY 0 \in 0 .. MaxQuotes
  <2> QED BY <2>1 DEF EngineType
<1>3. EvalType
  BY DEF EvalType
<1>4. ControlsType
  <2>1. killed \in BOOLEAN /\ canResume \in BOOLEAN /\ unlocked \in BOOLEAN /\ paused \subseteq Strategies
    OBVIOUS
  <2>2. state \in {"running", "paused", "halted"} OBVIOUS
  <2>3. pnl \in Int /\ peak \in Nat /\ highest \in Nat /\ late \in Nat OBVIOUS
  <2> QED BY <2>1, <2>2, <2>3 DEF ControlsType
<1> QED BY <1>1, <1>2, <1>3, <1>4, TypeInParts

\* An evaluation that has begun has a signal and a place between two awaits.
LEMMA BusyIsTyped ==
  ASSUME EvalType, eval.at # "idle"
  PROVE  eval \in EvalRec
  BY DEF EvalType, NoEval

LEMMA QuoteOfPump ==
  ASSUME MarketType, pump.at # "wait"
  PROVE  pump \in [at : {"process", "cached"}, quote : Quote] /\ pump.quote \in Quote
         /\ pump.quote.symbol \in Symbols /\ pump.quote.number \in 1 .. MaxQuotes
<1>1. pump \in [at : {"process", "cached"}, quote : Quote] BY DEF MarketType
<1> QED BY <1>1 DEF Quote

LEMMA MarketKeepsType ==
  ASSUME SignalTypeOK,
         \/ StartStream \/ StopStream \/ CacheQuote \/ Enqueue
         \/ \E y \in Symbols : Generate(y)
  PROVE  SignalTypeOK'
<1>0. MarketType /\ EngineType /\ EvalType /\ ControlsType
  BY TypeInParts
<1>1. UNCHANGED <<eval, controls, trading, killed, peak, late, highest>>
  BY DEF StartStream, StopStream, CacheQuote, Enqueue, Generate
<1>2. EvalType' /\ ControlsType'
  BY <1>0, <1>1 DEF EvalType, ControlsType, controls, trading, EvalRec, Signal
<1>3. EngineType'
  <2>1. UNCHANGED <<engineOn, quotes, data, todo>>
    BY DEF StartStream, StopStream, CacheQuote, Enqueue, Generate, engine
  <2>2. missed' \subseteq Symbols
    <3>1. CASE StopStream
      <4>1. CASE pump.at = "cached"
        BY <1>0, <3>1, <4>1, QuoteOfPump DEF StopStream, EngineType
      <4>2. CASE pump.at # "cached"
        BY <1>0, <3>1, <4>2 DEF StopStream, EngineType
      <4> QED BY <4>1, <4>2
    <3>2. CASE Enqueue
      BY <1>0, <3>2 DEF Enqueue, EngineType, Dropped, Latest
    <3>3. CASE missed' = missed
      BY <1>0, <3>3 DEF EngineType
    <3> QED BY <3>1, <3>2, <3>3 DEF StartStream, CacheQuote, Generate, engine
  <2> QED BY <1>0, <2>1, <2>2 DEF EngineType
<1>4. MarketType'
  <2>1. CASE StartStream
    BY <1>0, <2>1 DEF StartStream, MarketType
  <2>2. CASE StopStream
    <3>1. pump' \in [at : {"wait"}, quote : {NoValue}] BY <2>2 DEF StopStream
    <3> QED BY <1>0, <2>2, <3>1 DEF StopStream, MarketType
  <2>3. CASE CacheQuote
    <3>0. pump.at = "process" BY <2>3 DEF CacheQuote
    <3>1. /\ pump \in [at : {"process", "cached"}, quote : Quote]
          /\ pump.quote.symbol \in Symbols /\ pump.quote.number \in 1 .. MaxQuotes
      BY <1>0, <3>0, QuoteOfPump
    <3>2. pump' \in [at : {"process", "cached"}, quote : Quote]
      BY <2>3, <3>1 DEF CacheQuote
    <3>3. snapshot' \in [Symbols -> 0 .. MaxQuotes]
      BY <1>0, <2>3, <3>1, LimitsAssumption DEF CacheQuote, MarketType
    <3> QED BY <1>0, <2>3, <3>2, <3>3 DEF CacheQuote, MarketType
  <2>4. CASE Enqueue
    <3>0. pump.at = "cached" BY <2>4 DEF Enqueue
    <3>1. pump.quote \in Quote BY <1>0, <3>0, QuoteOfPump
    <3>2. pump' \in [at : {"wait"}, quote : {NoValue}] BY <2>4 DEF Enqueue
    <3> DEFINE once == WithQuote(stream, pump.quote)
    <3>3. once \in Seq(Quote) /\ Len(once) \in 1 .. StreamSize
      BY <1>0, <3>1, WithQuoteElements DEF MarketType
    <3> HIDE DEF once
    <3>7. Len(once) <= StreamSize BY <3>3, StreamSizeAssumption
    <3>4. WithQuote(once, pump.quote) \in Seq(Quote)
          /\ Len(WithQuote(once, pump.quote)) \in 1 .. StreamSize
      BY <3>1, <3>3, <3>7, WithQuoteElements
    <3>5. stream' = once \/ stream' = WithQuote(once, pump.quote)
      BY <2>4 DEF Enqueue, once
    <3>6. stream' \in Seq(Quote) /\ Len(stream') <= StreamSize
      BY <3>3, <3>4, <3>5, StreamSizeAssumption
    <3> QED BY <1>0, <2>4, <3>2, <3>6 DEF Enqueue, MarketType
  <2>5. ASSUME NEW y \in Symbols, Generate(y) PROVE MarketType'
    <3>1. produced + 1 \in 1 .. MaxQuotes
      BY <1>0, <2>5, LimitsAssumption DEF Generate, MarketType
    <3>2. pump' \in [at : {"process", "cached"}, quote : Quote]
      BY <2>5, <3>1 DEF Generate, Quote
    <3> QED BY <1>0, <2>5, <3>1, <3>2 DEF Generate, MarketType
  <2> QED BY <2>1, <2>2, <2>3, <2>4, <2>5
<1> QED BY <1>2, <1>3, <1>4, TypeInPartsNext

LEMMA EngineKeepsType ==
  ASSUME SignalTypeOK,
         \/ SwitchEngine \/ OnMarketData
         \/ \E t \in Strategies : NoSignal(t)
         \/ \E sig \in Signal : Evaluate(sig)
  PROVE  SignalTypeOK'
<1>0. MarketType /\ EngineType /\ EvalType /\ ControlsType
  BY TypeInParts
<1>1. CASE SwitchEngine
  <2>1. MarketType' BY <1>0, <1>1 DEF SwitchEngine, MarketType, market, Quote
  <2>2. EngineType' BY <1>0, <1>1 DEF SwitchEngine, EngineType, Quote
  <2>3. EvalType' /\ ControlsType'
    BY <1>0, <1>1 DEF SwitchEngine, EvalType, ControlsType, controls, trading
  <2> QED BY <2>1, <2>2, <2>3, TypeInPartsNext
<1>2. CASE OnMarketData
  <2>1. stream \in Seq(Quote) /\ stream # <<>> BY <1>0, <1>2 DEF OnMarketData, MarketType
  <2>2. /\ Head(stream) \in Quote /\ Tail(stream) \in Seq(Quote)
        /\ Len(Tail(stream)) = Len(stream) - 1 /\ Len(stream) \in Nat
    BY <2>1, HeadTailProperties, LenProperties
  <2>3. Head(stream).symbol \in Symbols /\ Head(stream).number \in 0 .. MaxQuotes
    BY <2>2, LimitsAssumption DEF Quote
  <2>4. MarketType'
    BY <1>0, <1>2, <2>2, StreamSizeAssumption DEF OnMarketData, MarketType
  <2>5. EngineType'
    BY <1>0, <1>2, <2>2, <2>3 DEF OnMarketData, EngineType
  <2>6. EvalType' /\ ControlsType'
    BY <1>0, <1>2 DEF OnMarketData, EvalType, ControlsType, controls, trading
  <2> QED BY <2>4, <2>5, <2>6, TypeInPartsNext
<1>3. ASSUME NEW t \in Strategies, NoSignal(t) PROVE SignalTypeOK'
  <2>1. MarketType' BY <1>0, <1>3 DEF NoSignal, MarketType, market
  <2>2. EngineType' BY <1>0, <1>3 DEF NoSignal, EngineType
  <2>3. EvalType' /\ ControlsType'
    BY <1>0, <1>3 DEF NoSignal, EvalType, ControlsType, controls, trading
  <2> QED BY <2>1, <2>2, <2>3, TypeInPartsNext
<1>4. ASSUME NEW sig \in Signal, Evaluate(sig) PROVE SignalTypeOK'
  <2>1. MarketType' BY <1>0, <1>4 DEF Evaluate, Others, MarketType, market
  <2>2. EngineType' BY <1>0, <1>4 DEF Evaluate, Others, EngineType
  <2>3. EvalType'
    <3>1. ASSUME NEW place \in {"bias", "account"} PROVE Evaluating(sig, place) \in EvalRec
      BY LimitsAssumption DEF Evaluating, EvalRec, Places
    <3> QED BY <1>4, <3>1 DEF Evaluate, EvalType
  <2>4. ControlsType' BY <1>0, <1>4 DEF Evaluate, Others, ControlsType, trading
  <2> QED BY <2>1, <2>2, <2>3, <2>4, TypeInPartsNext
<1> QED BY <1>1, <1>2, <1>3, <1>4
LEMMA StepKeepsType ==
  ASSUME SignalTypeOK, Step
  PROVE  SignalTypeOK'
<1>0. MarketType /\ EngineType /\ EvalType /\ ControlsType
  BY TypeInParts
<1> USE DEF Step, PositionLimits, PositionShare, AskAccount, Portfolio, CheckDrawdown, GreeksNow,
            GreeksImpact, EvaluationRaises
<1>1. UNCHANGED Others
  OBVIOUS
<1>2. MarketType'
  BY <1>0, <1>1 DEF MarketType, Others, market
<1>3. UNCHANGED todo /\ data' \in {data, NoValue}
  BY DEF Continue, Refuse, RejectSignal, Approve, Done, Go
<1>4. EngineType'
  BY <1>0, <1>1, <1>3 DEF EngineType, Others
<1>5. eval \in EvalRec
  <2>1. eval.at # "idle" OBVIOUS
  <2> QED BY <1>0, <2>1, BusyIsTyped
<1>6. EvalType'
  <2>1. CASE eval' = NoEval
    BY <2>1 DEF EvalType
  <2>2. ASSUME NEW place \in Places, eval' = [eval EXCEPT !.at = place]
        PROVE  EvalType'
    BY <1>5, <2>2 DEF EvalType, EvalRec
  <2>3. ASSUME NEW greek \in -GreeksLimit .. GreeksLimit,
               eval' = [eval EXCEPT !.at = "impact", !.greek = greek]
        PROVE  EvalType'
    <3>1. ASSUME NEW x \in EvalRec
          PROVE  [x EXCEPT !.at = "impact", !.greek = greek] \in EvalRec
      BY DEF EvalRec, Places
    <3> QED BY <1>5, <2>3, <3>1 DEF EvalType
  <2> QED
    BY <2>1, <2>2, <2>3 DEF Continue, Refuse, RejectSignal, Approve, Done, Go, Places
<1>7. ControlsType'
  <2>1. killed' \in BOOLEAN /\ UNCHANGED <<paused, pnl, trading>>
    BY <1>0, <1>1
    DEF Continue, Refuse, RejectSignal, Approve, KillSwitch, Go, Done, Others, ControlsType
  <2>2. late' = late \/ late' = 0 \/ late' = late + 1
    BY DEF Continue, Refuse, RejectSignal, Approve, KillSwitch, Go, Done
  <2>3. peak' \in Nat /\ highest' \in Nat
    <3>1. CASE UNCHANGED <<peak, highest>>
      BY <1>0, <3>1 DEF ControlsType
    <3>2. CASE CheckDrawdown
      BY <1>0, <3>2, EquitiesAssumption DEF ControlsType, PeakAfter
    <3> QED
      BY <3>1, <3>2 DEF Continue, Refuse
  <2>4. late \in Nat
    BY <1>0 DEF ControlsType
  <2> HIDE DEF Step, PositionLimits, PositionShare, AskAccount, Portfolio, CheckDrawdown, GreeksNow,
               GreeksImpact, EvaluationRaises
  <2>5. late' \in Nat
    BY ONLY <2>2, <2>4
  <2> QED BY <1>0, <1>1, <2>1, <2>3, <2>5 DEF ControlsType, Others, trading
<1> QED BY <1>2, <1>4, <1>6, <1>7, TypeInPartsNext

LEMMA OperatorKeepsType ==
  ASSUME SignalTypeOK, Operator
  PROVE  SignalTypeOK'
<1>0. MarketType /\ EngineType /\ EvalType /\ ControlsType
  BY TypeInParts
<1> USE DEF Operator, ActivateKillSwitch, DeactivateKillSwitch, ResetDailyStats, PauseOrResume,
            UpdatePnl, Halt, Pause, EnableResume, Resume, KillSwitch
<1>1. UNCHANGED <<market, engine, eval, peak, highest>>
  OBVIOUS
<1>2. MarketType' BY <1>0, <1>1 DEF MarketType, market
<1>3. EngineType' BY <1>0, <1>1 DEF EngineType, engine
<1>4. EvalType' BY <1>0, <1>1 DEF EvalType
<1>5. ControlsType'
  <2>1. killed' \in BOOLEAN /\ canResume' \in BOOLEAN /\ unlocked' \in BOOLEAN
    BY <1>0 DEF ControlsType, controls, trading
  <2>2. paused' \subseteq Strategies /\ state' \in {"running", "paused", "halted"}
    BY <1>0 DEF ControlsType, controls, trading
  <2>3. pnl' \in Int /\ late' \in Nat
    BY <1>0 DEF ControlsType, controls, trading
  <2> QED BY <1>0, <1>1, <2>1, <2>2, <2>3 DEF ControlsType
<1> QED BY <1>2, <1>3, <1>4, <1>5, TypeInPartsNext

\* Every variable keeps its type; above all, the stream never exceeds its size.
THEOREM SignalTypeCorrect == SignalSpec => []SignalTypeOK
<1>1. ASSUME SignalTypeOK, [SignalNext]_signalvars PROVE SignalTypeOK'
  <2>1. CASE UNCHANGED signalvars
    BY <1>1, <2>1 DEF SignalTypeOK, signalvars, market, engine, controls, trading
  <2>2. CASE SignalNext
    BY <1>1, <2>2, MarketKeepsType, EngineKeepsType, StepKeepsType, OperatorKeepsType DEF SignalNext
  <2> QED BY <1>1, <2>1, <2>2
<1> QED BY TypeInitially, <1>1, PTL DEF SignalSpec
-----------------------------------------------------------------------------
(* The controls.                                                           *)

\* An approval under the kill switch ends the one evaluation that had passed its
\* check: nothing is under evaluation once it is given.
OneLateApproval == late = 0 \/ (killed /\ late = 1 /\ eval.at = "idle")

\* What would let trading resume has been allowed since the last halt.
ResumeIsUnlocked == (canResume => unlocked) /\ (state = "running" => unlocked)

ControlInv == OneLateApproval /\ PeakIsHighest /\ ResumeIsUnlocked

LEMMA ControlInitially == SignalInit => ControlInv
  BY DEF SignalInit, ControlInv, OneLateApproval, PeakIsHighest, ResumeIsUnlocked

LEMMA MarketKeepsControl ==
  ASSUME ControlInv,
         \/ StartStream \/ StopStream \/ CacheQuote \/ Enqueue \/ \E y \in Symbols : Generate(y)
         \/ SwitchEngine \/ OnMarketData \/ \E t \in Strategies : NoSignal(t)
  PROVE  ControlInv'
<1>1. UNCHANGED <<late, killed, eval, peak, highest, state, canResume, unlocked>>
  BY DEF StartStream, StopStream, CacheQuote, Enqueue, Generate, SwitchEngine, OnMarketData,
         NoSignal, trading
<1> QED BY <1>1 DEF ControlInv, OneLateApproval, PeakIsHighest, ResumeIsUnlocked

LEMMA EvaluateKeepsControl ==
  ASSUME ControlInv, NEW sig \in Signal, Evaluate(sig)
  PROVE  ControlInv'
<1>1. UNCHANGED <<late, killed, peak, highest, state, canResume, unlocked>>
  BY DEF Evaluate, Others, trading
<1>2. ~killed \/ eval' = NoEval
  BY DEF Evaluate, Passes
<1>3. OneLateApproval'
  BY <1>1, <1>2 DEF ControlInv, OneLateApproval, NoEval
<1> QED BY <1>1, <1>3 DEF ControlInv, PeakIsHighest, ResumeIsUnlocked

LEMMA StepKeepsControl ==
  ASSUME ControlInv, Step
  PROVE  ControlInv'
<1>1. UNCHANGED <<state, canResume, unlocked>> /\ eval.at # "idle"
  BY DEF Step, PositionLimits, PositionShare, AskAccount, Portfolio, CheckDrawdown, GreeksNow,
         GreeksImpact, EvaluationRaises, Others, trading
<1>2. late = 0 BY <1>1 DEF ControlInv, OneLateApproval
<1>3. CASE CheckDrawdown
  <2>1. PeakIsHighest'
    BY <1>3 DEF CheckDrawdown, PeakAfter, ControlInv, PeakIsHighest
  <2>2. late' = 0
    BY <1>2, <1>3 DEF CheckDrawdown, KillSwitch
  <2> QED BY <1>1, <2>1, <2>2 DEF ControlInv, OneLateApproval, ResumeIsUnlocked
<1>4. CASE GreeksImpact
  <2>1. UNCHANGED <<peak, highest, killed>>
    BY <1>4 DEF GreeksImpact, Refuse, Approve
  <2>2. late' = 0 \/ (killed /\ late' = 1 /\ eval' = NoEval)
    BY <1>2, <1>4 DEF GreeksImpact, Refuse, RejectSignal, Approve, Done
  <2> QED
    BY <1>1, <2>1, <2>2 DEF ControlInv, OneLateApproval, PeakIsHighest, ResumeIsUnlocked, NoEval
<1>5. CASE PositionLimits \/ PositionShare \/ AskAccount \/ Portfolio \/ GreeksNow
           \/ EvaluationRaises
  <2>1. UNCHANGED <<peak, highest>> /\ late' = 0
    BY <1>2, <1>5 DEF PositionLimits, PositionShare, AskAccount, Portfolio, GreeksNow,
                      EvaluationRaises, Continue, Refuse, RejectSignal, KillSwitch
  <2> QED BY <1>1, <2>1 DEF ControlInv, OneLateApproval, PeakIsHighest, ResumeIsUnlocked
<1> QED BY <1>3, <1>4, <1>5 DEF Step

LEMMA OperatorKeepsControl ==
  ASSUME ControlInv, Operator
  PROVE  ControlInv'
<1>1. UNCHANGED <<peak, highest, eval>> /\ (late' = 0 \/ UNCHANGED <<late, killed>>)
  BY DEF Operator, ActivateKillSwitch, DeactivateKillSwitch, ResetDailyStats, PauseOrResume,
         UpdatePnl, Halt, Pause, EnableResume, Resume, KillSwitch
<1>2. ResumeIsUnlocked'
  BY DEF Operator, ActivateKillSwitch, DeactivateKillSwitch, ResetDailyStats, PauseOrResume,
         UpdatePnl, Halt, Pause, EnableResume, Resume, KillSwitch, trading, ControlInv,
         ResumeIsUnlocked
<1> QED BY <1>1, <1>2 DEF ControlInv, OneLateApproval, PeakIsHighest

LEMMA ControlHolds == SignalSpec => []ControlInv
<1>1. ASSUME ControlInv, [SignalNext]_signalvars PROVE ControlInv'
  <2>1. CASE UNCHANGED signalvars
    BY <1>1, <2>1 DEF ControlInv, OneLateApproval, PeakIsHighest, ResumeIsUnlocked, signalvars,
                      trading
  <2>2. CASE SignalNext
    BY <1>1, <2>2, MarketKeepsControl, EvaluateKeepsControl, StepKeepsControl,
       OperatorKeepsControl DEF SignalNext
  <2> QED BY <1>1, <2>1, <2>2
<1> QED BY ControlInitially, <1>1, PTL DEF SignalSpec

\* Thrown by an operator, by the daily loss or by a drawdown, the kill switch lets
\* at most one evaluation still end in an approval, however the operators' calls
\* fall between its awaits.
THEOREM KillSwitchIsPrompt == SignalSpec => []KillSwitchHolds
<1>1. ControlInv => KillSwitchHolds
  BY DEF ControlInv, OneLateApproval, KillSwitchHolds
<1> QED BY ControlHolds, <1>1, PTL

\* The peak of the drawdown check is the highest equity it was ever told.
THEOREM PeakNeverForgets == SignalSpec => []PeakIsHighest
<1>1. ControlInv => PeakIsHighest
  BY DEF ControlInv
<1> QED BY ControlHolds, <1>1, PTL

\* A halted system trades again only after enable_resume or pause.
THEOREM HaltIsKept == SignalSpec => []HaltHolds
<1>1. ControlInv => HaltHolds
  BY DEF ControlInv, ResumeIsUnlocked, HaltHolds
<1> QED BY ControlHolds, <1>1, PTL
-----------------------------------------------------------------------------
(* The flow of quotes.  Numbers only grow on their way: what the engine has  *)
(* is no newer than what the stream holds, in its order, and that no newer   *)
(* than the snapshot in Redis, and that no newer than the source.            *)

Flowing(s) ==
  /\ \A i \in 1 .. Len(s) :
       quotes[s[i].symbol] <= s[i].number /\ s[i].number <= snapshot[s[i].symbol]
  /\ \A i, j \in 1 .. Len(s) :
       i < j /\ s[i].symbol = s[j].symbol => s[i].number <= s[j].number

SnapshotsInOrder ==
  /\ \A y \in Symbols : quotes[y] <= snapshot[y] /\ snapshot[y] <= produced
  /\ pump.at = "process" => pump.quote.number = produced
  /\ pump.at = "cached" => pump.quote.number = snapshot[pump.quote.symbol]

\* A symbol whose latest quote is on its way: about to be queued, or queued.
Underway(y) ==
  \/ pump.at = "cached" /\ pump.quote.symbol = y
  \/ y \in Latest(stream)

LatestArrives ==
  \A y \in Symbols : y \in missed \/ Underway(y) \/ quotes[y] = snapshot[y]

FlowTypes == MarketType /\ quotes \in [Symbols -> 0 .. MaxQuotes]

FlowInv == SnapshotsInOrder /\ Flowing(stream) /\ LatestArrives

LEMMA QuoteFields ==
  ASSUME NEW q \in Quote
  PROVE  q.symbol \in Symbols /\ q.number \in 1 .. MaxQuotes /\ q.number \in Int
  BY LimitsAssumption DEF Quote

LEMMA QuoteIs ==
  ASSUME NEW q \in Quote
  PROVE  q = [symbol |-> q.symbol, number |-> q.number]
  BY DEF Quote

LEMMA StreamElements ==
  ASSUME NEW s \in Seq(Quote), NEW i \in 1 .. Len(s)
  PROVE  s[i] \in Quote /\ s[i].symbol \in Symbols /\ s[i].number \in Int
<1>1. s[i] \in Quote BY ElementOfSeq
<1> QED BY <1>1, QuoteFields

LEMMA InLatest ==
  ASSUME NEW s \in Seq(Quote), NEW y \in Symbols
  PROVE  y \in Latest(s) <=>
           \E i \in 1 .. Len(s) : s[i].symbol = y /\ s[i].number = snapshot[y]
<1>1. DOMAIN s = 1 .. Len(s) BY LenProperties
<1>2. ASSUME NEW i \in 1 .. Len(s)
      PROVE  s[i] = [symbol |-> y, number |-> snapshot[y]] <=>
               s[i].symbol = y /\ s[i].number = snapshot[y]
  <2>1. s[i] = [symbol |-> s[i].symbol, number |-> s[i].number]
    BY StreamElements, QuoteIs
  <2> QED BY <2>1
<1> QED BY <1>1, <1>2 DEF Latest

\* The newest quote goes to the end of the stream, and whatever the stream drops
\* for it leaves the others in their order.
LEMMA WithQuoteFlows ==
  ASSUME FlowTypes, SnapshotsInOrder,
         NEW s \in Seq(Quote), Len(s) <= StreamSize, Flowing(s),
         NEW q \in Quote, q.number = snapshot[q.symbol]
  PROVE  Flowing(WithQuote(s, q))
<1> DEFINE t == WithQuote(s, q)
<1>0. /\ t \in Seq(Quote) /\ Len(t) \in 1 .. StreamSize /\ t[Len(t)] = q
      /\ \E k \in {0, 1} :
           Len(t) = Len(s) - k + 1 /\ \A i \in 1 .. Len(t) - 1 : t[i] = s[i + k]
  BY WithQuoteElements
<1> HIDE DEF t
<1>1. PICK k \in {0, 1} :
        Len(t) = Len(s) - k + 1 /\ \A i \in 1 .. Len(t) - 1 : t[i] = s[i + k]
  BY <1>0
<1>2. Len(s) \in Nat /\ Len(t) \in Nat /\ StreamSize \in Nat
  BY LenProperties, <1>0, StreamSizeAssumption
<1>3. ASSUME NEW i \in 1 .. Len(t) - 1
      PROVE  i + k \in 1 .. Len(s) /\ t[i] = s[i + k]
  BY <1>1, <1>2
<1>4. q.symbol \in Symbols /\ q.number \in Int /\ quotes[q.symbol] <= q.number
  BY QuoteFields DEF SnapshotsInOrder
<1>5. ASSUME NEW i \in 1 .. Len(t)
      PROVE  quotes[t[i].symbol] <= t[i].number /\ t[i].number <= snapshot[t[i].symbol]
  <2>1. CASE i = Len(t)
    BY <1>0, <1>4, <2>1
  <2>2. CASE i \in 1 .. Len(t) - 1
    BY <1>3, <2>2 DEF Flowing
  <2> QED BY <1>2, <2>1, <2>2
<1>6. ASSUME NEW i \in 1 .. Len(t), NEW j \in 1 .. Len(t), i < j, t[i].symbol = t[j].symbol
      PROVE  t[i].number <= t[j].number
  <2>0. i \in 1 .. Len(t) - 1
    BY <1>2, <1>6
  <2>1. CASE j = Len(t)
    <3>1. t[i].number <= snapshot[t[i].symbol]
      BY <1>5
    <3> QED BY <1>0, <1>6, <2>1, <3>1
  <2>2. CASE j \in 1 .. Len(t) - 1
    <3>1. t[i] = s[i + k] /\ t[j] = s[j + k] /\ i + k \in 1 .. Len(s) /\ j + k \in 1 .. Len(s)
      BY <1>3, <2>0, <2>2
    <3>2. i + k < j + k
      BY <1>1, <1>2, <1>6
    <3> QED BY <1>6, <3>1, <3>2 DEF Flowing
  <2> QED BY <1>2, <2>1, <2>2
<1>7. Flowing(t)
  BY <1>5, <1>6 DEF Flowing
<1> QED BY <1>7 DEF t

LEMMA FlowInitially == SignalInit => FlowInv
<1> SUFFICES ASSUME SignalInit PROVE FlowInv
  OBVIOUS
<1>1. SnapshotsInOrder /\ LatestArrives
  BY DEF SignalInit, SnapshotsInOrder, LatestArrives
<1>2. stream = <<>> BY DEF SignalInit
<1>3. Len(stream) = 0 BY <1>2, EmptySeq
<1>4. Flowing(stream) BY <1>3 DEF Flowing
<1> QED BY <1>1, <1>4 DEF FlowInv
LEMMA UntouchedKeepsFlow ==
  ASSUME FlowInv, UNCHANGED <<produced, pump, snapshot, stream, quotes, missed>>
  PROVE  FlowInv'
  BY DEF FlowInv, SnapshotsInOrder, Flowing, LatestArrives, Underway, Latest

LEMMA StopKeepsFlow ==
  ASSUME FlowTypes, FlowInv, StopStream
  PROVE  FlowInv'
<1>1. UNCHANGED <<produced, snapshot, stream, quotes>> /\ pump'.at = "wait"
  BY DEF StopStream
<1>2. SnapshotsInOrder' /\ Flowing(stream)'
  BY <1>1 DEF FlowInv, SnapshotsInOrder, Flowing
<1>3. LatestArrives'
  <2>1. \A y \in Symbols : y \in Latest(stream)' <=> y \in Latest(stream)
    BY <1>1 DEF Latest
  <2>2. ASSUME NEW y \in Symbols
        PROVE  y \in missed' \/ y \in Latest(stream)' \/ quotes'[y] = snapshot'[y]
    BY <1>1, <2>1 DEF StopStream, FlowInv, LatestArrives, Underway
  <2> QED BY <2>2 DEF LatestArrives, Underway
<1> QED BY <1>2, <1>3 DEF FlowInv

LEMMA GenerateKeepsFlow ==
  ASSUME FlowTypes, FlowInv, NEW y \in Symbols, Generate(y)
  PROVE  FlowInv'
<1>1. /\ UNCHANGED <<snapshot, stream, quotes, missed>>
      /\ produced' = produced + 1 /\ pump.at = "wait"
      /\ pump'.at = "process" /\ pump'.quote.number = produced'
  BY DEF Generate, engine
<1>2. produced \in Int /\ \A z \in Symbols : snapshot[z] \in Int
  BY LimitsAssumption DEF FlowTypes, MarketType
<1>3. SnapshotsInOrder'
  BY <1>1, <1>2 DEF FlowInv, SnapshotsInOrder
<1>4. Flowing(stream)' BY <1>1 DEF FlowInv, Flowing
<1>5. LatestArrives'
  BY <1>1 DEF FlowInv, LatestArrives, Underway, Latest
<1> QED BY <1>3, <1>4, <1>5 DEF FlowInv

LEMMA CacheKeepsFlow ==
  ASSUME FlowTypes, FlowInv, CacheQuote
  PROVE  FlowInv'
<1> DEFINE q == pump.quote
<1>0. /\ pump.at = "process" /\ pump'.at = "cached" /\ pump'.quote = q
      /\ UNCHANGED <<produced, stream, quotes, missed>>
      /\ snapshot' = [snapshot EXCEPT ![q.symbol] = q.number]
      /\ q \in Quote
  <2>1. /\ pump \in [at : {"process", "cached"}, quote : Quote] /\ pump.at = "process"
        /\ pump' = [pump EXCEPT !.at = "cached"]
    BY DEF FlowTypes, MarketType, CacheQuote
  <2>2. ASSUME NEW p \in [at : {"process", "cached"}, quote : Quote]
        PROVE  /\ [p EXCEPT !.at = "cached"].at = "cached"
               /\ [p EXCEPT !.at = "cached"].quote = p.quote /\ p.quote \in Quote
    OBVIOUS
  <2>3. pump'.at = "cached" /\ pump'.quote = q /\ q \in Quote
    BY <2>1, <2>2
  <2> QED BY <2>1, <2>3 DEF CacheQuote, engine
<1>1. /\ q.symbol \in Symbols /\ q.number \in Int
      /\ produced \in Int /\ \A z \in Symbols : snapshot[z] \in Int /\ quotes[z] \in Int
  BY <1>0, QuoteFields, LimitsAssumption DEF FlowTypes, MarketType
<1>2. q.number = produced BY <1>0 DEF FlowInv, SnapshotsInOrder
<1>3. \A z \in Symbols : snapshot'[z] = IF z = q.symbol THEN q.number ELSE snapshot[z]
  BY <1>0, <1>1 DEF FlowTypes, MarketType
<1> HIDE DEF q
<1>4. \A z \in Symbols : snapshot[z] <= snapshot'[z] /\ snapshot'[z] \in Int
  BY <1>1, <1>2, <1>3 DEF FlowInv, SnapshotsInOrder
<1>5. SnapshotsInOrder'
  <2>1. \A z \in Symbols : quotes'[z] <= snapshot'[z] /\ snapshot'[z] <= produced'
    BY <1>0, <1>1, <1>2, <1>3, <1>4 DEF FlowInv, SnapshotsInOrder
  <2> QED BY <1>0, <1>1, <1>3, <2>1 DEF SnapshotsInOrder
<1>6. Flowing(stream)'
  <2>1. stream \in Seq(Quote) BY DEF FlowTypes, MarketType
  <2>2. ASSUME NEW i \in 1 .. Len(stream)
        PROVE  /\ quotes[stream[i].symbol] <= stream[i].number
               /\ stream[i].number <= snapshot'[stream[i].symbol]
    <3>1. stream[i].symbol \in Symbols /\ stream[i].number \in Int
      BY <2>1, StreamElements
    <3>2. quotes[stream[i].symbol] <= stream[i].number /\ stream[i].number <= snapshot[stream[i].symbol]
      BY DEF FlowInv, Flowing
    <3> QED BY <1>1, <1>4, <3>1, <3>2
  <2> QED BY <1>0, <2>2 DEF FlowInv, Flowing
<1>7. LatestArrives'
  <2>1. ASSUME NEW y \in Symbols, y # q.symbol
        PROVE  y \in missed' \/ y \in Latest(stream)' \/ quotes'[y] = snapshot'[y]
    BY <1>0, <1>3, <2>1 DEF FlowInv, LatestArrives, Underway, Latest
  <2> QED BY <1>0, <2>1 DEF LatestArrives, Underway
<1> QED BY <1>5, <1>6, <1>7 DEF FlowInv

LEMMA EnqueueKeepsFlow ==
  ASSUME FlowTypes, FlowInv, Enqueue
  PROVE  FlowInv'
<1> DEFINE q == pump.quote
<1>0. /\ pump.at = "cached" /\ pump'.at = "wait"
      /\ UNCHANGED <<produced, snapshot, quotes>>
      /\ missed' = (missed \ {q.symbol}) \union (Latest(stream) \ Latest(stream'))
  BY DEF Enqueue, Dropped
<1>1. q \in Quote /\ q.number = snapshot[q.symbol] /\ q.symbol \in Symbols
  <2>1. q \in Quote BY <1>0 DEF FlowTypes, MarketType
  <2> QED BY <1>0, <2>1, QuoteFields DEF FlowInv, SnapshotsInOrder
<1>2. stream \in Seq(Quote) /\ Len(stream) <= StreamSize
  BY DEF FlowTypes, MarketType
<1>3. stream' = WithQuote(stream, q) \/ stream' = WithQuote(WithQuote(stream, q), q)
  BY DEF Enqueue
<1> HIDE DEF q
<1>4. ASSUME NEW s \in Seq(Quote), Len(s) <= StreamSize, Flowing(s)
      PROVE  /\ WithQuote(s, q) \in Seq(Quote) /\ Len(WithQuote(s, q)) <= StreamSize
             /\ Len(WithQuote(s, q)) \in 1 .. Len(WithQuote(s, q))
             /\ Flowing(WithQuote(s, q)) /\ WithQuote(s, q)[Len(WithQuote(s, q))] = q
  <2>1. Flowing(WithQuote(s, q)) BY <1>1, <1>4, WithQuoteFlows DEF FlowInv
  <2>2. Len(WithQuote(s, q)) \in 1 .. StreamSize /\ WithQuote(s, q) \in Seq(Quote)
        /\ WithQuote(s, q)[Len(WithQuote(s, q))] = q
    BY <1>1, <1>4, WithQuoteElements
  <2> QED BY <2>1, <2>2, StreamSizeAssumption
<1> DEFINE once == WithQuote(stream, q)
           twice == WithQuote(once, q)
<1>5. /\ once \in Seq(Quote) /\ Len(once) <= StreamSize /\ Len(once) \in 1 .. Len(once)
      /\ Flowing(once) /\ once[Len(once)] = q
  BY <1>2, <1>4 DEF FlowInv
<1>6. stream' = once \/ stream' = twice BY <1>3
<1> HIDE DEF once
<1>7. /\ twice \in Seq(Quote) /\ Len(twice) \in 1 .. Len(twice)
      /\ Flowing(twice) /\ twice[Len(twice)] = q
  BY <1>4, <1>5
<1> HIDE DEF twice
<1>8. /\ stream' \in Seq(Quote) /\ Len(stream') \in 1 .. Len(stream')
      /\ Flowing(stream') /\ stream'[Len(stream')] = q
  BY <1>5, <1>6, <1>7
<1>9. SnapshotsInOrder' BY <1>0 DEF FlowInv, SnapshotsInOrder
<1>10. Flowing(stream)' BY <1>0, <1>8 DEF Flowing
<1>11. q.symbol \in Latest(stream')
  BY <1>1, <1>8, InLatest
<1>12. LatestArrives'
  <2>1. Latest(stream)' = Latest(stream') BY <1>0 DEF Latest
  <2>2. ASSUME NEW y \in Symbols
        PROVE  y \in missed' \/ y \in Latest(stream') \/ quotes'[y] = snapshot'[y]
    <3>1. CASE y = q.symbol BY <1>11, <3>1
    <3>2. CASE y # q.symbol
      BY <1>0, <3>2 DEF FlowInv, LatestArrives, Underway, q
    <3> QED BY <3>1, <3>2
  <2> QED BY <2>1, <2>2 DEF LatestArrives, Underway
<1> QED BY <1>9, <1>10, <1>12 DEF FlowInv
\* What is left of the stream once its head is taken.
LEMMA TailElements ==
  ASSUME NEW s \in Seq(Quote), s # <<>>
  PROVE  /\ Head(s) = s[1] /\ Head(s) \in Quote
         /\ \A i \in 1 .. Len(Tail(s)) : i + 1 \in 1 .. Len(s) /\ Tail(s)[i] = s[i + 1]
         /\ \A i \in 1 .. Len(s) : i # 1 => i - 1 \in 1 .. Len(Tail(s)) /\ Tail(s)[i - 1] = s[i]
         /\ 1 \in 1 .. Len(s)
<1>1. /\ Head(s) = s[1] /\ Head(s) \in Quote /\ Tail(s) \in Seq(Quote)
      /\ Len(Tail(s)) = Len(s) - 1 /\ \A i \in 1 .. Len(Tail(s)) : Tail(s)[i] = s[i + 1]
  BY HeadTailProperties
<1>2. Len(s) \in Nat /\ Len(s) # 0 BY LenProperties, EmptySeq
<1> DEFINE t == Tail(s)
<1> HIDE DEF t
<1>3. Len(t) = Len(s) - 1 /\ \A i \in 1 .. Len(t) : t[i] = s[i + 1]
  BY <1>1 DEF t
<1>4. \A i \in 1 .. Len(t) : i + 1 \in 1 .. Len(s) /\ t[i] = s[i + 1]
  BY <1>2, <1>3
<1>5. ASSUME NEW i \in 1 .. Len(s), i # 1
      PROVE  i - 1 \in 1 .. Len(t) /\ t[i - 1] = s[i]
  <2>1. i - 1 \in 1 .. Len(t) /\ (i - 1) + 1 = i BY <1>2, <1>3, <1>5
  <2> QED BY <1>3, <2>1
<1> QED BY <1>1, <1>2, <1>4, <1>5 DEF t

LEMMA MarketDataFlows ==
  ASSUME FlowTypes, FlowInv, OnMarketData
  PROVE  FlowInv' /\ \A y \in Symbols : quotes'[y] >= quotes[y]
<1> DEFINE q == Head(stream)
<1>0. /\ stream \in Seq(Quote) /\ stream # <<>> /\ stream' = Tail(stream)
      /\ UNCHANGED <<produced, pump, snapshot>>
      /\ \/ /\ quotes' = [quotes EXCEPT ![q.symbol] = q.number]
            /\ missed' = IF q.number = snapshot[q.symbol] THEN missed \ {q.symbol} ELSE missed
         \/ missed' = missed \union {q.symbol} /\ UNCHANGED quotes
  BY DEF OnMarketData, FlowTypes, MarketType
<1>1. /\ q = stream[1] /\ q \in Quote /\ 1 \in 1 .. Len(stream)
      /\ \A i \in 1 .. Len(stream') : i + 1 \in 1 .. Len(stream) /\ stream'[i] = stream[i + 1]
      /\ \A i \in 1 .. Len(stream) :
           i # 1 => i - 1 \in 1 .. Len(stream') /\ stream'[i - 1] = stream[i]
  BY <1>0, TailElements
<1>2. stream' \in Seq(Quote) BY <1>0, HeadTailProperties
<1>3. q.symbol \in Symbols /\ q.number \in Int BY <1>1, QuoteFields
<1>4. quotes[q.symbol] <= q.number /\ q.number <= snapshot[q.symbol]
  BY <1>1 DEF FlowInv, Flowing
<1> HIDE DEF q
<1>5. \A y \in Symbols : quotes[y] \in Int /\ snapshot[y] \in Int
  BY LimitsAssumption DEF FlowTypes, MarketType
<1>6. ASSUME NEW y \in Symbols
      PROVE  /\ quotes'[y] = quotes[y] \/ (y = q.symbol /\ quotes'[y] = q.number)
             /\ quotes'[y] \in Int /\ quotes'[y] >= quotes[y] /\ quotes'[y] <= snapshot[y]
  <2>1. quotes'[y] = quotes[y] \/ (y = q.symbol /\ quotes'[y] = q.number)
    BY <1>0, <1>3 DEF FlowTypes
  <2> QED BY <1>3, <1>4, <1>5, <2>1 DEF FlowInv, SnapshotsInOrder
<1>7. SnapshotsInOrder'
  <2>1. \A y \in Symbols : quotes'[y] <= snapshot'[y] /\ snapshot'[y] <= produced'
    BY <1>0, <1>6 DEF FlowInv, SnapshotsInOrder
  <2> QED BY <1>0, <2>1 DEF FlowInv, SnapshotsInOrder
<1>8. Flowing(stream)'
  <2>1. ASSUME NEW i \in 1 .. Len(stream')
        PROVE  /\ quotes'[stream'[i].symbol] <= stream'[i].number
               /\ stream'[i].number <= snapshot'[stream'[i].symbol]
    <3>1. /\ i + 1 \in 1 .. Len(stream) /\ stream'[i] = stream[i + 1]
          /\ stream'[i].symbol \in Symbols /\ stream'[i].number \in Int
      BY <1>1, <1>2, StreamElements
    <3>2. /\ quotes[stream'[i].symbol] <= stream'[i].number
          /\ stream'[i].number <= snapshot[stream'[i].symbol]
      BY <3>1 DEF FlowInv, Flowing
    <3>3. stream'[i].symbol = q.symbol => q.number <= stream'[i].number
      <4>1. 1 < i + 1 OBVIOUS
      <4> QED BY <1>1, <3>1, <4>1 DEF FlowInv, Flowing
    <3> QED BY <1>0, <1>6, <3>1, <3>2, <3>3
  <2>2. ASSUME NEW i \in 1 .. Len(stream'), NEW j \in 1 .. Len(stream'), i < j,
               stream'[i].symbol = stream'[j].symbol
        PROVE  stream'[i].number <= stream'[j].number
    <3>1. /\ i + 1 \in 1 .. Len(stream) /\ stream'[i] = stream[i + 1]
          /\ j + 1 \in 1 .. Len(stream) /\ stream'[j] = stream[j + 1]
      BY <1>1
    <3>2. i + 1 < j + 1 BY <2>2
    <3> QED BY <2>2, <3>1, <3>2 DEF FlowInv, Flowing
  <2> QED BY <2>1, <2>2 DEF Flowing
<1>9. LatestArrives'
  <2>1. ASSUME NEW y \in Symbols
        PROVE  y \in missed' \/ Underway(y)' \/ quotes'[y] = snapshot'[y]
    <3>0. y \in missed \/ Underway(y) \/ quotes[y] = snapshot[y]
      BY DEF FlowInv, LatestArrives
    <3>1. CASE y \in missed /\ y \notin missed'
      BY <1>0, <1>3, <3>1 DEF FlowTypes
    <3>2. CASE pump.at = "cached" /\ pump.quote.symbol = y
      BY <1>0, <3>2 DEF Underway
    <3>3. CASE y \in Latest(stream)
      <4>1. PICK i \in 1 .. Len(stream) :
              stream[i].symbol = y /\ stream[i].number = snapshot[y]
        BY <1>0, <3>3, InLatest
      <4>2. CASE i = 1
        BY <1>0, <1>1, <1>3, <4>1, <4>2 DEF FlowTypes
      <4>3. CASE i # 1
        <5>1. \E k \in 1 .. Len(stream') :
                stream'[k].symbol = y /\ stream'[k].number = snapshot[y]
          <6>1. i - 1 \in 1 .. Len(stream') /\ stream'[i - 1] = stream[i]
            BY <1>1, <4>3
          <6> QED BY <4>1, <6>1
        <5>2. y \in Latest(stream')
          BY <1>2, <5>1, InLatest
        <5>3. Latest(stream)' = Latest(stream')
          BY <1>0 DEF Latest
        <5> QED BY <5>2, <5>3 DEF Underway
      <4> QED BY <4>2, <4>3
    <3>4. CASE quotes[y] = snapshot[y]
      BY <1>0, <1>5, <1>6, <3>4
    <3> QED BY <3>0, <3>1, <3>2, <3>3, <3>4 DEF Underway
  <2> QED BY <2>1 DEF LatestArrives
<1> QED BY <1>6, <1>7, <1>8, <1>9 DEF FlowInv

LEMMA OthersKeepFlow ==
  ASSUME FlowInv,
         \/ StartStream \/ SwitchEngine \/ \E t \in Strategies : NoSignal(t)
         \/ \E sig \in Signal : Evaluate(sig)
         \/ Step \/ Operator \/ UNCHANGED signalvars
  PROVE  FlowInv' /\ UNCHANGED quotes
<1>1. UNCHANGED <<produced, pump, snapshot, stream, quotes, missed>>
  <2>1. CASE StartStream BY <2>1 DEF StartStream, engine
  <2>2. CASE SwitchEngine BY <2>2 DEF SwitchEngine, market
  <2>3. CASE \E t \in Strategies : NoSignal(t) BY <2>3 DEF NoSignal, market
  <2>4. CASE \E sig \in Signal : Evaluate(sig) BY <2>4 DEF Evaluate, Others, market
  <2>5. CASE Step
    BY <2>5 DEF Step, PositionLimits, PositionShare, AskAccount, Portfolio, CheckDrawdown,
                GreeksNow, GreeksImpact, EvaluationRaises, Others, market
  <2>6. CASE Operator
    BY <2>6 DEF Operator, ActivateKillSwitch, DeactivateKillSwitch, ResetDailyStats, PauseOrResume,
                UpdatePnl, Halt, Pause, EnableResume, Resume, market, engine
  <2>7. CASE UNCHANGED signalvars BY <2>7 DEF signalvars, market, engine
  <2> QED BY <2>1, <2>2, <2>3, <2>4, <2>5, <2>6, <2>7
<1> QED BY <1>1, UntouchedKeepsFlow

LEMMA StepFlows ==
  ASSUME SignalTypeOK, FlowInv, [SignalNext]_signalvars
  PROVE  FlowInv' /\ \A y \in Symbols : quotes'[y] >= quotes[y]
<1>0. FlowTypes
  BY TypeInParts DEF FlowTypes, EngineType
<1>1. \A y \in Symbols : quotes[y] \in Int
  BY <1>0, LimitsAssumption DEF FlowTypes
<1>2. CASE StopStream \/ CacheQuote \/ Enqueue \/ \E y \in Symbols : Generate(y)
  <2>1. UNCHANGED quotes
    BY <1>2 DEF StopStream, CacheQuote, Enqueue, Generate, engine
  <2>2. FlowInv'
    BY <1>0, <1>2, StopKeepsFlow, CacheKeepsFlow, EnqueueKeepsFlow, GenerateKeepsFlow
  <2> QED BY <1>1, <2>1, <2>2
<1>3. CASE OnMarketData
  BY <1>0, <1>3, MarketDataFlows
<1>4. CASE \/ StartStream \/ SwitchEngine \/ \E t \in Strategies : NoSignal(t)
           \/ \E sig \in Signal : Evaluate(sig)
           \/ Step \/ Operator \/ UNCHANGED signalvars
  <2>1. FlowInv' /\ UNCHANGED quotes BY <1>4, OthersKeepFlow
  <2> QED BY <1>1, <2>1
<1> QED BY <1>2, <1>3, <1>4 DEF SignalNext

LEMMA FlowHolds == SignalSpec => []FlowInv
<1>1. SignalTypeOK /\ FlowInv /\ [SignalNext]_signalvars => FlowInv'
  BY StepFlows
<1> QED BY FlowInitially, <1>1, SignalTypeCorrect, PTL DEF SignalSpec

\* A strategy never works with a quote older than Redis's unless a newer one is on
\* its way to it, or the other symbols' quotes or a stop took it from the stream.
THEOREM EngineKeepsUp == SignalSpec => []EngineFollowsRedis
<1>1. SignalTypeOK /\ FlowInv => EngineFollowsRedis
  <2> SUFFICES ASSUME SignalTypeOK, FlowInv, NEW y \in Symbols
               PROVE  \/ y \in missed
                      \/ pump.at = "cached" /\ pump.quote.symbol = y
                      \/ \E i \in DOMAIN stream : stream[i].symbol = y
                      \/ quotes[y] = snapshot[y]
    BY DEF EngineFollowsRedis
  <2>1. y \in Latest(stream) => \E i \in DOMAIN stream : stream[i].symbol = y
    BY DEF Latest
  <2> QED BY <2>1 DEF FlowInv, LatestArrives, Underway
<1> QED BY FlowHolds, SignalTypeCorrect, <1>1, PTL

\* The quotes of a symbol reach the engine in the order of the source, whatever is
\* dropped, duplicated, or lost by a stop.
THEOREM QuotesNeverReturn == SignalSpec => QuotesGoForward
<1>1. SignalTypeOK /\ FlowInv /\ [SignalNext]_signalvars =>
        [\A y \in Symbols : quotes'[y] >= quotes[y]]_quotes
  BY StepFlows
<1> QED BY FlowHolds, SignalTypeCorrect, <1>1, PTL DEF SignalSpec, QuotesGoForward
\* The controls as a whole, for any symbols, strategies and limits.
THEOREM ControlsAreSound == SignalSpec => []SignalSound
<1>1. SignalTypeOK /\ KillSwitchHolds /\ PeakIsHighest /\ HaltHolds => SignalSound
  BY DEF SignalSound
<1> QED
  BY SignalTypeCorrect, KillSwitchIsPrompt, PeakNeverForgets, HaltIsKept, <1>1, PTL

-----------------------------------------------------------------------------
(* AuditChain: the queues and the workers.                                 *)

Known == \A e \in Events : at[e] # "new" => svc[e] \in Services

\* A worker waits, or writes one of the events that are counted as occupied.
WorkInv ==
  /\ IsFiniteSet(worker)
  /\ \A s \in Services : idle[s] + Cardinality(Occupied(s)) <= Workers

\* Each queued event waits at one place of its own service's queue.
QueueInv ==
  /\ \A s \in Services : \A i \in 1 .. Len(queue[s]) :
       at[queue[s][i]] = "queued" /\ svc[queue[s][i]] = s
  /\ \A s \in Services : \A i, j \in 1 .. Len(queue[s]) : queue[s][i] = queue[s][j] => i = j
  /\ \A e \in Events : at[e] = "queued" =>
       \E i \in 1 .. Len(queue[svc[e]]) : queue[svc[e]][i] = e

TypeInv == AuditTypeOK /\ Known /\ WorkInv /\ QueueInv

LEMMA OccupiedCount ==
  ASSUME TypeInv, NEW s \in Services
  PROVE  /\ IsFiniteSet(Occupied(s)) /\ Cardinality(Occupied(s)) \in Nat
         /\ idle[s] \in Nat /\ idle[s] + Cardinality(Occupied(s)) <= Workers
<1>1. IsFiniteSet(Occupied(s))
  <2>1. Occupied(s) \subseteq worker
    BY DEF Occupied
  <2> QED BY <2>1, FS_Subset DEF TypeInv, WorkInv
<1> QED BY <1>1, FS_CardinalityType DEF TypeInv, WorkInv, AuditTypeOK

\* Some events move on, none of them into or out of a queue.
LEMMA QueueKept ==
  ASSUME TypeInv, UNCHANGED <<queue, svc>>,
         \A e \in Events : at'[e] = at[e] \/ (at[e] # "queued" /\ at'[e] # "queued")
  PROVE  QueueInv'
<1>1. \A s \in Services : \A i \in 1 .. Len(queue[s]) : queue[s][i] \in Events
  BY DEF TypeInv, AuditTypeOK
<1>2. \A s \in Services : \A i \in 1 .. Len(queue'[s]) :
        at'[queue'[s][i]] = "queued" /\ svc'[queue'[s][i]] = s
  BY <1>1 DEF TypeInv, QueueInv
<1>3. \A s \in Services : \A i, j \in 1 .. Len(queue'[s]) : queue'[s][i] = queue'[s][j] => i = j
  BY DEF TypeInv, QueueInv
<1>4. \A e \in Events : at'[e] = "queued" =>
        \E i \in 1 .. Len(queue'[svc'[e]]) : queue'[svc'[e]][i] = e
  BY DEF TypeInv, QueueInv
<1> QED BY <1>2, <1>3, <1>4 DEF QueueInv

\* Workers only stop waiting, or leave events.
LEMMA WorkKept ==
  ASSUME TypeInv, \A e \in worker : svc'[e] = svc[e], worker' \subseteq worker,
         \A s \in Services : idle'[s] \in 0 .. idle[s]
  PROVE  WorkInv'
<1>1. IsFiniteSet(worker')
  BY FS_Subset DEF TypeInv, WorkInv
<1>2. ASSUME NEW s \in Services PROVE idle'[s] + Cardinality(Occupied(s)') <= Workers
  <2>1. Occupied(s)' \subseteq Occupied(s)
    BY DEF Occupied
  <2>2. /\ Cardinality(Occupied(s)') <= Cardinality(Occupied(s))
        /\ Cardinality(Occupied(s)') \in Nat
    BY <2>1, OccupiedCount, FS_Subset, FS_CardinalityType
  <2> QED BY <2>2, OccupiedCount, WorkersAssumption
<1> QED BY <1>1, <1>2 DEF WorkInv

\* A worker that finishes waits again, in the place it took.
LEMMA FinishKeeps ==
  ASSUME TypeInv, NEW e \in Events, at[e] # "new", Finish(e), UNCHANGED svc
  PROVE  /\ WorkInv' /\ idle' \in [Services -> 0 .. Workers]
         /\ worker' = worker \ {e}
<1>1. PICK s \in Services : svc[e] = s
  BY DEF TypeInv, Known
<1>2. worker' = worker \ {e}
  BY DEF Finish
<1>3. CASE idle' = idle
  <2>1. \A t \in Services : idle'[t] \in 0 .. idle[t]
    BY <1>3 DEF TypeInv, AuditTypeOK
  <2> QED BY <1>2, <1>3, <2>1, WorkKept DEF TypeInv, AuditTypeOK
<1>4. CASE idle' # idle
  <2>1. e \in worker /\ idle' = [idle EXCEPT ![s] = @ + 1]
    BY <1>1, <1>4 DEF Finish
  <2>2. IsFiniteSet(worker')
    BY <1>2, FS_Subset DEF TypeInv, WorkInv
  <2>3. Occupied(s)' = Occupied(s) \ {e} /\ e \in Occupied(s)
    BY <1>1, <1>2, <2>1 DEF Occupied
  <2>4. Cardinality(Occupied(s)') = Cardinality(Occupied(s)) - 1
    BY <2>3, OccupiedCount, FS_RemoveElement
  <2>5. /\ idle[s] \in Nat /\ Cardinality(Occupied(s)) \in Nat /\ Cardinality(Occupied(s)') \in Nat
        /\ idle[s] + Cardinality(Occupied(s)) <= Workers /\ Workers \in Nat
    BY <2>3, <2>4, OccupiedCount, FS_Subset, FS_CardinalityType, WorkersAssumption
  <2>6. idle'[s] = idle[s] + 1
    BY <2>1 DEF TypeInv, AuditTypeOK
  <2>7. idle'[s] + Cardinality(Occupied(s)') <= Workers /\ idle'[s] \in 0 .. Workers
    BY <2>4, <2>5, <2>6
  <2>8. ASSUME NEW t \in Services, t # s
        PROVE  /\ idle'[t] = idle[t] /\ idle[t] \in 0 .. Workers
               /\ idle'[t] + Cardinality(Occupied(t)') <= Workers
    <3>1. Occupied(t)' = Occupied(t)
      BY <1>1, <1>2, <2>8 DEF Occupied
    <3>2. idle'[t] = idle[t] /\ idle[t] \in 0 .. Workers
      BY <2>1, <2>8 DEF TypeInv, AuditTypeOK
    <3> QED BY <3>1, <3>2, OccupiedCount
  <2>9. WorkInv'
    BY <2>2, <2>7, <2>8 DEF WorkInv
  <2>10. idle' \in [Services -> 0 .. Workers]
    BY <2>1, <2>6, <2>7, <2>8 DEF TypeInv, AuditTypeOK
  <2> QED BY <1>2, <2>9, <2>10
<1> QED BY <1>3, <1>4
\* A transaction that ends without a commit takes with it what it wrote and the events E.
LEMMA LoseType ==
  ASSUME TypeInv, NEW s \in Services, NEW E \in SUBSET Events, Lose(s, E), Clear(s),
         \A e \in E : at[e] \notin {"new", "queued"}
  PROVE  /\ at' \in [Events -> Steps]
         /\ \A e \in Events : \/ at'[e] = at[e]
                              \/ at[e] \notin {"new", "queued"} /\ at'[e] = "lost"
         /\ \A e \in Events \ E : at[e] # "written" => at'[e] = at[e]
         /\ rows' \in [Services -> SUBSET Row] /\ own' \in [Services -> Row \union {Nobody}]
         /\ lock' \in Services \union {Nobody}
<1>1. \A e \in Events : /\ at'[e] = at[e] \/ at'[e] = "lost"
                        /\ at'[e] # at[e] => e \in E \/ at[e] = "written"
  BY DEF Lose
<1>2. at' \in [Events -> Steps]
  BY <1>1 DEF Lose, Steps, TypeInv, AuditTypeOK
<1>3. /\ rows' \in [Services -> SUBSET Row] /\ own' \in [Services -> Row \union {Nobody}]
      /\ lock' \in Services \union {Nobody}
  BY DEF Clear, TypeInv, AuditTypeOK
<1> QED BY <1>1, <1>2, <1>3

LEMMA LogType ==
  ASSUME TypeInv, NEW s \in Services, NEW e \in Events, Log(s, e) \/ LogOutsideLoop(s, e)
  PROVE  TypeInv'
<1>1. /\ at[e] = "new" /\ svc'[e] = s
      /\ \A f \in Events \ {e} : at'[f] = at[f] /\ svc'[f] = svc[f]
      /\ at'[e] \in {"queued", "read", "lost"}
      /\ UNCHANGED <<worker, prev, seq, phase, idle, session, committed, next>>
  BY DEF Log, LogOutsideLoop, TypeInv, AuditTypeOK, service, Steps
<1>4. at' \in [Events -> Steps] /\ svc' \in [Events -> Services \union {Nobody}]
  BY DEF Log, LogOutsideLoop, TypeInv, AuditTypeOK, Steps
<1>5. worker \subseteq {f \in Events : at'[f] \in Writing \union {"read"}}
  BY <1>1 DEF TypeInv, AuditTypeOK, Writing
<1>2. CASE at'[e] = "queued" /\ queue' = [queue EXCEPT ![s] = Append(@, e)]
  <2>1. queue[s] \in Seq(Events) /\ e \notin worker
    BY <1>1 DEF TypeInv, AuditTypeOK, Writing
  <2>2. /\ queue'[s] = Append(queue[s], e) /\ \A t \in Services \ {s} : queue'[t] = queue[t]
        /\ queue' \in [Services -> Seq(Events)]
    BY <1>2, <2>1 DEF TypeInv, AuditTypeOK
  <2>3. /\ Len(queue'[s]) = Len(queue[s]) + 1 /\ Len(queue[s]) \in Nat
        /\ queue'[s][Len(queue[s]) + 1] = e
        /\ \A i \in 1 .. Len(queue[s]) : queue'[s][i] = queue[s][i] /\ queue[s][i] \in Events
    BY <2>1, <2>2
  <2>4. \A t \in Services : \A i \in 1 .. Len(queue[t]) : queue[t][i] \in Events \ {e}
    BY <1>1 DEF TypeInv, QueueInv, AuditTypeOK
  <2>5. \A t \in Services : \A i \in 1 .. Len(queue'[t]) :
          at'[queue'[t][i]] = "queued" /\ svc'[queue'[t][i]] = t
    <3> TAKE t \in Services
    <3>1. CASE t = s
      BY <1>1, <1>2, <2>3, <2>4, <3>1 DEF TypeInv, QueueInv
    <3>2. CASE t # s
      BY <1>1, <2>2, <2>4, <3>2 DEF TypeInv, QueueInv
    <3> QED BY <3>1, <3>2
  <2>6. \A t \in Services : \A i, j \in 1 .. Len(queue'[t]) : queue'[t][i] = queue'[t][j] => i = j
    <3> TAKE t \in Services
    <3>1. CASE t = s
      BY SMTT(30), <2>3, <2>4, <3>1 DEF TypeInv, QueueInv
    <3>2. CASE t # s
      BY <2>2, <3>2 DEF TypeInv, QueueInv
    <3> QED BY <3>1, <3>2
  <2>7. \A f \in Events : at'[f] = "queued" =>
          \E i \in 1 .. Len(queue'[svc'[f]]) : queue'[svc'[f]][i] = f
    <3> SUFFICES ASSUME NEW f \in Events, at'[f] = "queued"
                 PROVE  \E i \in 1 .. Len(queue'[svc'[f]]) : queue'[svc'[f]][i] = f
      OBVIOUS
    <3>1. CASE f = e
      BY <1>1, <2>3, <3>1
    <3>2. CASE f # e
      <4>1. PICK t \in Services : svc[f] = t
        BY <1>1, <3>2 DEF TypeInv, Known
      <4>2. PICK i \in 1 .. Len(queue[t]) : queue[t][i] = f
        BY <1>1, <3>2, <4>1 DEF TypeInv, QueueInv
      <4>3. i \in 1 .. Len(queue'[t]) /\ queue'[t][i] = f
        BY <2>2, <2>3, <4>2
      <4> QED BY <1>1, <3>2, <4>1, <4>3
    <3> QED BY <3>1, <3>2
  <2>8. WorkInv' /\ Known'
    <3>1. \A f \in worker : svc'[f] = svc[f]
      BY <1>1, <2>1 DEF TypeInv, AuditTypeOK
    <3>2. \A t \in Services : idle'[t] \in 0 .. idle[t]
      BY <1>1 DEF TypeInv, AuditTypeOK
    <3>3. Known'
      BY <1>1 DEF TypeInv, Known
    <3> QED BY <1>1, <3>1, <3>2, <3>3, WorkKept
  <2>9. AuditTypeOK'
    <3>1. queue' \in [Services -> Seq(Events)]
      BY <2>2 DEF TypeInv, AuditTypeOK
    <3> QED BY <1>1, <1>4, <1>5, <2>1, <3>1 DEF TypeInv, AuditTypeOK, session, committed
  <2> QED BY <2>5, <2>6, <2>7, <2>8, <2>9 DEF TypeInv, QueueInv
<1>3. CASE at'[e] # "queued" /\ UNCHANGED queue
  <2>1. e \notin worker
    BY <1>1 DEF TypeInv, AuditTypeOK, Writing
  <2>2. \A t \in Services : \A i \in 1 .. Len(queue[t]) : queue[t][i] \in Events \ {e}
    BY <1>1 DEF TypeInv, QueueInv, AuditTypeOK
  <2>3. QueueInv'
    BY <1>1, <1>3, <2>2 DEF TypeInv, QueueInv
  <2>4. WorkInv' /\ Known'
    <3>1. \A f \in worker : svc'[f] = svc[f]
      BY <1>1, <2>1 DEF TypeInv, AuditTypeOK
    <3>2. \A t \in Services : idle'[t] \in 0 .. idle[t]
      BY <1>1 DEF TypeInv, AuditTypeOK
    <3>3. Known'
      BY <1>1 DEF TypeInv, Known
    <3> QED BY <1>1, <3>1, <3>2, <3>3, WorkKept
  <2>5. AuditTypeOK'
    <3>1. queue' \in [Services -> Seq(Events)]
      BY <1>3 DEF TypeInv, AuditTypeOK
    <3> QED BY <1>1, <1>4, <1>5, <2>1, <3>1 DEF TypeInv, AuditTypeOK, session, committed
  <2> QED BY <2>3, <2>4, <2>5 DEF TypeInv
<1> QED BY <1>1, <1>2, <1>3 DEF Log, LogOutsideLoop, TypeInv, AuditTypeOK, service

LEMMA TakeType ==
  ASSUME TypeInv, NEW s \in Services, Take(s)
  PROVE  TypeInv'
<1> DEFINE e == Head(queue[s])
<1>1. /\ queue[s] \in Seq(Events) /\ queue[s] # <<>> /\ Len(queue[s]) \in Nat \ {0}
      /\ e = queue[s][1] /\ e \in Events
  BY DEF Take, TypeInv, AuditTypeOK
<1>2. at[e] = "queued" /\ svc[e] = s /\ e \notin worker
  <2>1. 1 \in 1 .. Len(queue[s]) /\ e = queue[s][1]
    BY <1>1
  <2>2. at[e] = "queued" /\ svc[e] = s
    BY <2>1 DEF TypeInv, QueueInv
  <2> HIDE DEF e
  <2> QED BY <2>2 DEF TypeInv, AuditTypeOK, Writing
<1>3. /\ Tail(queue[s]) \in Seq(Events) /\ Len(Tail(queue[s])) = Len(queue[s]) - 1
      /\ \A i \in 1 .. Len(Tail(queue[s])) : Tail(queue[s])[i] = queue[s][i + 1]
  BY <1>1
<1>4. /\ at' = [at EXCEPT ![e] = "read"] /\ worker' = worker \union {e}
      /\ queue' = [queue EXCEPT ![s] = Tail(@)] /\ idle' = [idle EXCEPT ![s] = @ - 1]
      /\ idle[s] > 0 /\ UNCHANGED <<svc, prev, seq, phase, session, committed, next>>
  BY DEF Take
<1> HIDE DEF e
<1>5. AuditTypeOK'
  <2>1. at' \in [Events -> Steps] /\ worker' \subseteq {f \in Events : at'[f] \in Writing \union {"read"}}
    BY <1>1, <1>2, <1>4 DEF TypeInv, AuditTypeOK, Steps
  <2>2. queue' \in [Services -> Seq(Events)]
    BY <1>3, <1>4 DEF TypeInv, AuditTypeOK
  <2>3. idle' \in [Services -> 0 .. Workers]
    BY <1>4, WorkersAssumption DEF TypeInv, AuditTypeOK
  <2> QED BY <1>4, <2>1, <2>2, <2>3 DEF TypeInv, AuditTypeOK, session, committed
<1>6. Known'
  BY <1>2, <1>4 DEF TypeInv, Known, AuditTypeOK
<1>7. WorkInv'
  <2>1. IsFiniteSet(worker')
    BY <1>4, FS_AddElement DEF TypeInv, WorkInv
  <2>2. Occupied(s)' = Occupied(s) \union {e} /\ e \notin Occupied(s)
    BY <1>1, <1>2, <1>4 DEF Occupied
  <2>3. Cardinality(Occupied(s)') = Cardinality(Occupied(s)) + 1
    BY <2>2, OccupiedCount, FS_AddElement
  <2>4. idle'[s] = idle[s] - 1
    BY <1>4 DEF TypeInv, AuditTypeOK
  <2>5. idle'[s] + Cardinality(Occupied(s)') <= Workers
    BY <2>3, <2>4, OccupiedCount, WorkersAssumption
  <2>6. ASSUME NEW t \in Services, t # s
        PROVE  idle'[t] + Cardinality(Occupied(t)') <= Workers
    <3>1. Occupied(t)' = Occupied(t) /\ idle'[t] = idle[t]
      BY <1>2, <1>4, <2>6 DEF Occupied, TypeInv, AuditTypeOK
    <3> QED BY <3>1, OccupiedCount
  <2> QED BY <2>1, <2>5, <2>6 DEF WorkInv
<1>8. QueueInv'
  <2>1. /\ queue'[s] = Tail(queue[s]) /\ \A t \in Services \ {s} : queue'[t] = queue[t]
        /\ at'[e] = "read" /\ \A f \in Events \ {e} : at'[f] = at[f]
    BY <1>1, <1>4 DEF TypeInv, AuditTypeOK
  <2>5. Len(queue'[s]) = Len(queue[s]) - 1 /\ 1 \in 1 .. Len(queue[s])
    BY <1>1, <1>3, <2>1
  <2>6. \A i \in 1 .. Len(queue'[s]) : /\ queue'[s][i] = queue[s][i + 1] /\ i + 1 # 1
                                      /\ i + 1 \in 1 .. Len(queue[s])
    BY <1>1, <1>3, <2>1, <2>5
  <2>2. \A t \in Services : \A i \in 1 .. Len(queue'[t]) :
          queue'[t][i] \in Events \ {e} /\ at[queue'[t][i]] = "queued" /\ svc[queue'[t][i]] = t
    <3> TAKE t \in Services
    <3>1. CASE t = s
      <4> TAKE i \in 1 .. Len(queue'[t])
      <4>1. i + 1 \in 1 .. Len(queue[s]) /\ queue'[t][i] = queue[s][i + 1] /\ 1 \in 1 .. Len(queue[s])
            /\ i + 1 # 1
        BY <2>5, <2>6, <3>1
      <4>2. queue[s][i + 1] # queue[s][1]
        BY <4>1 DEF TypeInv, QueueInv
      <4>3. queue[s][i + 1] \in Events
        BY <1>1, <4>1
      <4> QED BY <1>1, <3>1, <4>1, <4>2, <4>3 DEF TypeInv, QueueInv
    <3>2. CASE t # s
      BY <1>2, <2>1, <3>2 DEF TypeInv, QueueInv, AuditTypeOK
    <3> QED BY <3>1, <3>2
  <2>3. \A t \in Services : \A i, j \in 1 .. Len(queue'[t]) : queue'[t][i] = queue'[t][j] => i = j
    <3> TAKE t \in Services
    <3>1. CASE t = s
      <4> TAKE i, j \in 1 .. Len(queue'[t])
      <4>1. /\ queue'[t][i] = queue[s][i + 1] /\ queue'[t][j] = queue[s][j + 1]
            /\ i + 1 \in 1 .. Len(queue[s]) /\ j + 1 \in 1 .. Len(queue[s])
        BY <2>6, <3>1
      <4>2. queue[s][i + 1] = queue[s][j + 1] => i + 1 = j + 1
        BY <4>1 DEF TypeInv, QueueInv
      <4> QED BY <4>1, <4>2
    <3>2. CASE t # s
      BY <2>1, <3>2 DEF TypeInv, QueueInv
    <3> QED BY <3>1, <3>2
  <2>4. \A f \in Events : at'[f] = "queued" =>
          \E i \in 1 .. Len(queue'[svc'[f]]) : queue'[svc'[f]][i] = f
    <3> SUFFICES ASSUME NEW f \in Events, at'[f] = "queued"
                 PROVE  \E i \in 1 .. Len(queue'[svc'[f]]) : queue'[svc'[f]][i] = f
      OBVIOUS
    <3>1. f # e /\ at[f] = "queued"
      BY <2>1
    <3>2. PICK t \in Services : svc[f] = t
      BY <3>1 DEF TypeInv, Known
    <3>3. PICK i \in 1 .. Len(queue[t]) : queue[t][i] = f
      BY <3>1, <3>2 DEF TypeInv, QueueInv
    <3>4. CASE t = s
      <4>1. i # 1 /\ i - 1 \in 1 .. Len(queue'[s]) /\ queue'[s][i - 1] = queue[s][i]
        BY <1>1, <1>3, <2>1, <3>1, <3>3, <3>4
      <4> QED BY <1>4, <3>2, <3>3, <3>4, <4>1
    <3>5. CASE t # s
      BY <1>4, <2>1, <3>2, <3>3, <3>5
    <3> QED BY <3>4, <3>5
  <2>7. \A t \in Services : \A i \in 1 .. Len(queue'[t]) :
          at'[queue'[t][i]] = "queued" /\ svc'[queue'[t][i]] = t
    <3> TAKE t \in Services
    <3> TAKE i \in 1 .. Len(queue'[t])
    <3>1. PICK f \in Events \ {e} : queue'[t][i] = f
      BY <2>2
    <3>2. at[f] = "queued" /\ svc[f] = t
      BY <2>2, <3>1
    <3>3. at'[f] = "queued" /\ svc'[f] = t
      BY <1>4, <2>1, <3>2
    <3> QED BY <3>1, <3>3
  <2> QED BY <2>3, <2>4, <2>7 DEF QueueInv
<1> QED BY <1>5, <1>6, <1>7, <1>8 DEF TypeInv
\* A write moves on within its transaction.
LEMMA WriteType ==
  ASSUME TypeInv, NEW e \in Events, Write(e)
  PROVE  TypeInv'
<1>1. /\ at[e] \in Writing \union {"read"} /\ at'[e] \in Writing \union {"written"}
      /\ \A f \in Events \ {e} : at'[f] = at[f]
      /\ at' \in [Events -> Steps]
      /\ UNCHANGED <<svc, queue, phase, committed>>
  BY ZenonT(30) DEF Write, ReadHead, Number, Insert, Upsert, TypeInv, AuditTypeOK, Steps, Writing, service,
         session
<1>2. PICK s \in Services : svc[e] = s
  BY <1>1 DEF TypeInv, Known, Writing
<1>3. QueueInv' /\ Known'
  BY <1>1, QueueKept DEF TypeInv, Known, Writing
<1>4. /\ worker' \subseteq {f \in Events : at'[f] \in Writing \union {"read"}}
      /\ idle' \in [Services -> 0 .. Workers] /\ WorkInv'
  <2>1. CASE Upsert(e)
    <3>1. Finish(e) /\ at[e] # "new"
      BY <2>1 DEF Upsert
    <3>2. worker' = worker \ {e} /\ idle' \in [Services -> 0 .. Workers] /\ WorkInv'
      BY <1>1, <3>1, FinishKeeps
    <3> QED BY <1>1, <3>2 DEF TypeInv, AuditTypeOK
  <2>2. CASE ReadHead(e) \/ Number(e) \/ Insert(e)
    <3>1. UNCHANGED <<worker, idle, svc>> /\ at'[e] \in Writing
      BY <2>2 DEF ReadHead, Number, Insert, service, Writing, TypeInv, AuditTypeOK
    <3>2. /\ \A f \in worker : svc'[f] = svc[f]
          /\ \A t \in Services : idle'[t] \in 0 .. idle[t]
      BY <3>1 DEF TypeInv, AuditTypeOK
    <3>3. WorkInv'
      BY <3>1, <3>2, WorkKept
    <3> QED BY <1>1, <3>1, <3>3 DEF TypeInv, AuditTypeOK
  <2> QED BY <2>1, <2>2 DEF Write
<1>5. RowOf(e) \in Row
  BY DEF RowOf, Row, TypeInv, AuditTypeOK
<1>6. /\ prev' \in [Events -> Events \union {Genesis, Nobody}] /\ seq' \in [Events -> Nat]
      /\ next' \in Nat
  <2>1. HeadSeen(s) \in Row \union {Nobody}
    BY DEF HeadSeen, TypeInv, AuditTypeOK
  <2>2. HeadSeen(s) # Nobody => HeadSeen(s).event \in Events \union {Genesis}
    BY <2>1 DEF Row
  <2>3. CASE ReadHead(e)
    <3>1. /\ prev' = [prev EXCEPT ![e] = Nobody]
             \/ (HeadSeen(s) # Nobody /\ prev' = [prev EXCEPT ![e] = HeadSeen(s).event])
          /\ UNCHANGED <<seq, next>>
      BY <1>2, <2>3 DEF ReadHead
    <3> QED BY <2>2, <3>1 DEF TypeInv, AuditTypeOK
  <2>4. CASE Number(e)
    BY <2>4 DEF Number, TypeInv, AuditTypeOK
  <2>5. CASE Insert(e) \/ Upsert(e)
    BY <2>5 DEF Insert, Upsert, TypeInv, AuditTypeOK
  <2> QED BY <2>3, <2>4, <2>5 DEF Write
<1>7. /\ rows' \in [Services -> SUBSET Row] /\ own' \in [Services -> Row \union {Nobody}]
      /\ lock' \in Services \union {Nobody} /\ aborted' \subseteq Services
  <2>1. CASE ReadHead(e)
    BY <1>2, <2>1 DEF ReadHead, TypeInv, AuditTypeOK
  <2>2. CASE Number(e)
    BY <2>2 DEF Number, session, TypeInv, AuditTypeOK
  <2>3. CASE Insert(e)
    BY <1>2, <1>5, <2>3 DEF Insert, TypeInv, AuditTypeOK
  <2>4. CASE Upsert(e)
    BY <1>2, <1>5, <2>4 DEF Upsert, TypeInv, AuditTypeOK
  <2> QED BY <2>1, <2>2, <2>3, <2>4 DEF Write
<1> QED BY <1>1, <1>3, <1>4, <1>6, <1>7 DEF TypeInv, AuditTypeOK, committed

LEMMA RaiseType ==
  ASSUME TypeInv, NEW e \in Events, Raise(e)
  PROVE  TypeInv'
<1>1. PICK s \in Services : svc[e] = s
  BY DEF Raise, TypeInv, Known, Writing
<1>2. /\ at[e] \in Writing \union {"read"} /\ Lose(s, {e}) /\ Clear(s) /\ Finish(e)
      /\ aborted' = aborted \union {s}
      /\ UNCHANGED <<svc, prev, seq, queue, phase, committed, next>>
  BY <1>1 DEF Raise
<1> DEFINE E == {e}
<1>3. E \in SUBSET Events /\ Lose(s, E) /\ \A f \in E : at[f] \notin {"new", "queued"}
  BY <1>2 DEF Writing
<1> HIDE DEF E
<1>4. /\ at' \in [Events -> Steps]
      /\ \A f \in Events : \/ at'[f] = at[f]
                           \/ at[f] \notin {"new", "queued"} /\ at'[f] = "lost"
      /\ \A f \in Events \ E : at[f] # "written" => at'[f] = at[f]
      /\ rows' \in [Services -> SUBSET Row] /\ own' \in [Services -> Row \union {Nobody}]
      /\ lock' \in Services \union {Nobody}
  BY <1>2, <1>3, LoseType
<1>5. worker' = worker \ {e} /\ idle' \in [Services -> 0 .. Workers] /\ WorkInv'
  BY <1>2, FinishKeeps DEF Writing
<1>6. QueueInv' /\ Known'
  BY <1>2, <1>4, QueueKept DEF TypeInv, Known
<1>7. worker' \subseteq {f \in Events : at'[f] \in Writing \union {"read"}}
  BY <1>4, <1>5 DEF TypeInv, AuditTypeOK, Writing, E
<1> QED BY <1>2, <1>4, <1>5, <1>6, <1>7 DEF TypeInv, AuditTypeOK, committed

LEMMA EndType ==
  ASSUME TypeInv, NEW s \in Services, Commit(s) \/ Rollback(s)
  PROVE  TypeInv'
<1>1. CASE Commit(s)
  <2>1. UNCHANGED <<at, svc, worker, prev, seq, queue, phase, idle, next>>
    BY <1>1 DEF Commit, event, service
  <2>2. /\ rows' \in [Services -> SUBSET Row] /\ own' \in [Services -> Row \union {Nobody}]
        /\ lock' \in Services \union {Nobody} /\ aborted' \subseteq Services
    BY <1>1 DEF Commit, Clear, TypeInv, AuditTypeOK
  <2>3. log' \subseteq Row /\ head' \in Row \union {Nobody}
    BY <1>1 DEF Commit, TypeInv, AuditTypeOK
  <2>4. QueueInv' /\ WorkInv' /\ Known'
    BY <2>1 DEF TypeInv, QueueInv, WorkInv, Known, Occupied
  <2> QED BY <2>1, <2>2, <2>3, <2>4 DEF TypeInv, AuditTypeOK
<1>2. CASE Rollback(s)
  <2> DEFINE E == {}
  <2>1. E \in SUBSET Events /\ Lose(s, E) /\ Clear(s) /\ \A f \in E : at[f] \notin {"new", "queued"}
    BY <1>2 DEF Rollback
  <2> HIDE DEF E
  <2>2. /\ at' \in [Events -> Steps]
        /\ \A f \in Events : \/ at'[f] = at[f]
                             \/ at[f] \notin {"new", "queued"} /\ at'[f] = "lost"
        /\ \A f \in Events \ E : at[f] # "written" => at'[f] = at[f]
        /\ rows' \in [Services -> SUBSET Row] /\ own' \in [Services -> Row \union {Nobody}]
        /\ lock' \in Services \union {Nobody}
    BY <2>1, LoseType
  <2>3. UNCHANGED <<svc, worker, prev, seq, queue, phase, idle, log, head, next>> /\ aborted' \subseteq Services
    BY <1>2 DEF Rollback, service, committed, TypeInv, AuditTypeOK
  <2>4. QueueInv'
    BY <2>2, <2>3, QueueKept
  <2>5. WorkInv' /\ Known'
    BY <2>2, <2>3 DEF TypeInv, WorkInv, Known, Occupied
  <2>6. worker' \subseteq {f \in Events : at'[f] \in Writing \union {"read"}}
    BY <2>2, <2>3 DEF TypeInv, AuditTypeOK, Writing, E
  <2> QED BY <2>2, <2>3, <2>4, <2>5, <2>6 DEF TypeInv, AuditTypeOK
<1> QED BY <1>1, <1>2

LEMMA StopType ==
  ASSUME TypeInv, NEW s \in Services, WorkerExits(s) \/ Stop(s) \/ StopEnds(s)
  PROVE  TypeInv'
<1>1. CASE WorkerExits(s) \/ (Stop(s) /\ queue[s] # <<>>)
  <2>1. /\ UNCHANGED <<at, svc, worker, prev, seq, queue, rows, own, aborted, lock, log, head, next>>
        /\ idle' = idle \/ (idle[s] > 0 /\ idle' = [idle EXCEPT ![s] = @ - 1])
        /\ phase' = phase \/ phase' = [phase EXCEPT ![s] = "draining"]
    BY <1>1 DEF WorkerExits, Stop, event, session, committed
  <2>2. /\ phase' \in [Services -> {"running", "draining", "stopped"}]
        /\ idle' \in [Services -> 0 .. Workers]
        /\ \A t \in Services : idle'[t] \in 0 .. idle[t]
    <3>1. phase' \in [Services -> {"running", "draining", "stopped"}]
      BY <2>1 DEF TypeInv, AuditTypeOK
    <3>2. \A t \in Services : idle'[t] \in 0 .. idle[t] /\ idle'[t] \in 0 .. Workers
      <4> TAKE t \in Services
      <4>1. idle[t] \in 0 .. Workers /\ Workers \in Nat
        BY WorkersAssumption DEF TypeInv, AuditTypeOK
      <4>2. idle'[t] = idle[t] \/ (idle[t] > 0 /\ idle'[t] = idle[t] - 1)
        BY <2>1 DEF TypeInv, AuditTypeOK
      <4> QED BY <4>1, <4>2
    <3>3. idle' \in [Services -> 0 .. Workers]
      BY <2>1, <3>2 DEF TypeInv, AuditTypeOK
    <3> QED BY <3>1, <3>2, <3>3
  <2>3. WorkInv'
    BY <2>1, <2>2, WorkKept
  <2>4. QueueInv' /\ Known'
    BY <2>1 DEF TypeInv, QueueInv, Known
  <2> QED BY <2>1, <2>2, <2>3, <2>4 DEF TypeInv, AuditTypeOK
<1>2. CASE Cancel(s) /\ UNCHANGED <<svc, prev, seq, queue, committed, next>>
  <2>1. /\ phase' \in [Services -> {"running", "draining", "stopped"}]
        /\ idle' \in [Services -> 0 .. Workers]
        /\ \A t \in Services : idle'[t] \in 0 .. idle[t]
        /\ worker' = worker \ Occupied(s)
    BY <1>2, WorkersAssumption DEF Cancel, TypeInv, AuditTypeOK
  <2>2. WorkInv'
    BY <1>2, <2>1, WorkKept
  <2>3. CASE Occupied(s) = {} /\ UNCHANGED <<at, session>>
    BY <1>2, <2>1, <2>2, <2>3 DEF TypeInv, QueueInv, Known, AuditTypeOK, session, committed
  <2>4. CASE Lose(s, Occupied(s)) /\ Clear(s) /\ aborted' = aborted \union {s}
    <3> DEFINE E == Occupied(s)
    <3>1. E \in SUBSET Events /\ Lose(s, E) /\ \A f \in E : at[f] \notin {"new", "queued"}
      BY <2>4 DEF Occupied, TypeInv, AuditTypeOK, Writing
    <3>2. worker' = worker \ E
      BY <2>1
    <3> HIDE DEF E
    <3>3. /\ at' \in [Events -> Steps]
          /\ \A f \in Events : \/ at'[f] = at[f]
                               \/ at[f] \notin {"new", "queued"} /\ at'[f] = "lost"
          /\ \A f \in Events \ E : at[f] # "written" => at'[f] = at[f]
          /\ rows' \in [Services -> SUBSET Row] /\ own' \in [Services -> Row \union {Nobody}]
          /\ lock' \in Services \union {Nobody}
      BY <2>4, <3>1, LoseType
    <3>4. QueueInv' /\ Known'
      BY <1>2, <3>3, QueueKept DEF TypeInv, Known
    <3>5. worker' \subseteq {f \in Events : at'[f] \in Writing \union {"read"}}
      BY <3>2, <3>3 DEF TypeInv, AuditTypeOK, Writing
    <3> QED BY <1>2, <2>1, <2>2, <2>4, <3>3, <3>4, <3>5 DEF TypeInv, AuditTypeOK, committed
  <2> QED BY <1>2, <2>3, <2>4 DEF Cancel
<1> QED BY <1>1, <1>2 DEF Stop, StopEnds

LEMMA AuditInitType == AuditInit => TypeInv
<1> SUFFICES ASSUME AuditInit PROVE TypeInv
  OBVIOUS
<1>1. AuditTypeOK
  BY WorkersAssumption DEF AuditInit, AuditTypeOK, Steps, Row, FirstRow
<1>2. WorkInv
  <2>1. \A s \in Services : Occupied(s) = {}
    BY DEF AuditInit, Occupied
  <2>2. IsFiniteSet({}) /\ Cardinality({}) = 0
    BY FS_EmptySet
  <2>3. \A s \in Services : Cardinality(Occupied(s)) = 0 /\ idle[s] = Workers
    BY <2>1, <2>2 DEF AuditInit
  <2> QED BY <2>2, <2>3, WorkersAssumption DEF AuditInit, WorkInv
<1>3. QueueInv /\ Known
  BY DEF AuditInit, QueueInv, Known
<1> QED BY <1>1, <1>2, <1>3 DEF TypeInv

LEMMA AuditNextType == TypeInv /\ [AuditNext]_auditvars => TypeInv'
<1>1. TypeInv /\ UNCHANGED auditvars => TypeInv'
  BY DEF auditvars, event, service, session, committed, TypeInv, AuditTypeOK, Known, WorkInv,
         QueueInv, Occupied
<1> QED BY <1>1, LogType, TakeType, WriteType, RaiseType, EndType, StopType DEF AuditNext

\* Whatever sessions fail and services stop, every variable stays what it is meant to be;
\* in particular no service ever counts more waiting workers than it started.
THEOREM AuditTypeCorrect == AuditSpec => []AuditTypeOK
<1>1. TypeInv => AuditTypeOK
  BY DEF TypeInv
<1> QED BY <1>1, AuditInitType, AuditNextType, PTL DEF AuditSpec
-----------------------------------------------------------------------------
(* The chain.  A session that has written a row holds the lock of the head, *)
(* and a row with a predecessor is written by the holder of the lock; so    *)
(* sessions that keep their statements in order extend the chain in turns.  *)

Orderly == {"overlap", "midway"} \intersect AuditAnomalies = {}

\* What a session would read of the log now: what is committed, and those of its own
\* rows that the head has been moved to.
Seen(s) == log \union {r \in rows[s] : at[r.event] = "written"}

RootedIn(R) == \A p, q \in R : p.prev = Nobody /\ q.prev = Nobody => p = q

\* R verifies, and h is its last row.
IsChain(R, h) ==
  RootedIn(R) => /\ Intact(R)
                 /\ R # {} => h \in R /\ \A r \in R : r.seq <= h.seq

\* A session sends the statements of one write at a time.
OneWriter ==
  \A e, f \in Events :
    svc[e] = svc[f] /\ at[e] \in Writing /\ at[f] \in Writing => e = f

Ended == \A s \in aborted : rows[s] = {} /\ own[s] = Nobody /\ lock # s

OwnHead ==
  \A s \in Services :
    own[s] # Nobody => lock = s /\ own[s] \in rows[s] /\ at[own[s].event] = "written"

SessionRows ==
  \A s \in Services : \A r \in rows[s] :
    /\ r.event \in Events /\ r = RowOf(r.event) /\ svc[r.event] = s
    /\ at[r.event] \in {"upsert", "written"}
    /\ at[r.event] = "written" => own[s] # Nobody

Inserted ==
  \A e \in Events : at[e] = "upsert" /\ svc[e] \notin aborted => RowOf(e) \in rows[svc[e]]

LogRows ==
  \A r \in log : r.event # Genesis =>
    at[r.event] = "written" /\ \A s \in Services : \A q \in rows[s] : q.event # r.event

WrittenRows ==
  \A e \in Events : at[e] = "written" => RowOf(e) \in log \union rows[svc[e]]

Numbered ==
  /\ \A e \in Events : seq[e] < next
  /\ \A r \in log : r.seq < next

HeadOfLog ==
  /\ head = Nobody <=> log = {}
  /\ head # Nobody => head \in log
  /\ log # {} => \E q \in log : q.prev = Nobody

\* Who writes a row with a predecessor holds the lock, and its predecessor is the head.
Chained ==
  \A e \in Events :
    at[e] \in Writing /\ svc[e] \notin aborted /\ prev[e] # Nobody
      => /\ lock = svc[e] /\ HeadSeen(svc[e]) # Nobody /\ prev[e] = HeadSeen(svc[e]).event
         /\ at[e] # "number" => HeadSeen(svc[e]).seq < seq[e]

SeenIsChain ==
  \A s \in Services :
    /\ IsChain(Seen(s), HeadSeen(s))
    /\ Seen(s) # {} => \E q \in Seen(s) : q.prev = Nobody
    /\ RootedIn(Seen(s)) => \A q \in log, r \in Seen(s) \ log : q.seq < r.seq

WritesInv == OneWriter /\ Ended /\ OwnHead /\ SessionRows /\ Inserted

BooksInv == LogRows /\ WrittenRows /\ Numbered /\ HeadOfLog

ChainInv == WritesInv /\ BooksInv /\ Chained /\ IsChain(log, head) /\ SeenIsChain

\* A row with the next number, chained to the last one, makes a longer chain.
LEMMA ExtendChain ==
  ASSUME NEW R \in SUBSET Row, NEW h \in R, NEW r \in Row, Intact(R),
         \A q \in R : q.seq <= h.seq, r.prev = h.event, h.seq < r.seq
  PROVE  Intact(R \union {r}) /\ \A q \in R \union {r} : q.seq <= r.seq
<1>1. /\ \A q \in R : q.seq \in Nat /\ q.seq < r.seq
      /\ r.seq \in Nat
  BY DEF Row
<1>2. \A p, q \in R \union {r} : p.seq = q.seq => p = q
  BY <1>1 DEF Intact
<1>3. ASSUME NEW x \in R \union {r}
      PROVE  \/ x.prev = Nobody /\ \A q \in R \union {r} : q.seq >= x.seq
             \/ \E p \in R \union {r} : /\ p.event = x.prev /\ p.seq < x.seq
                                        /\ \A q \in R \union {r} : q.seq <= p.seq \/ q.seq >= x.seq
  <2>1. CASE x = r
    BY <1>1, <2>1
  <2>2. CASE x \in R /\ x.prev = Nobody /\ \A q \in R : q.seq >= x.seq
    BY <1>1, <2>2
  <2>3. CASE x \in R /\ \E p \in R : /\ p.event = x.prev /\ p.seq < x.seq
                                     /\ \A q \in R : q.seq <= p.seq \/ q.seq >= x.seq
    BY <1>1, <2>3
  <2> QED BY <1>3, <2>1, <2>2, <2>3 DEF Intact
<1>4. \A q \in R \union {r} : q.seq <= r.seq
  BY <1>1
<1> QED BY <1>2, <1>3, <1>4 DEF Intact

LEMMA FirstChain ==
  ASSUME NEW r \in Row, r.prev = Nobody
  PROVE  Intact({r}) /\ \A q \in {r} : q.seq <= r.seq
<1>1. r.seq \in Nat
  BY DEF Row
<1> QED BY <1>1 DEF Intact

\* The head a session sees is the row it or the last committed transaction wrote.
LEMMA HeadSeenIsRow ==
  ASSUME TypeInv, WritesInv, BooksInv, NEW s \in Services
  PROVE  /\ HeadSeen(s) # Nobody => /\ HeadSeen(s) \in Seen(s) /\ HeadSeen(s) \in Row
                                    /\ HeadSeen(s).seq < next
         /\ HeadSeen(s) = Nobody => Seen(s) = {} /\ own[s] = Nobody
         /\ Seen(s) \in SUBSET Row
<1>1. Seen(s) \in SUBSET Row
  BY DEF Seen, TypeInv, AuditTypeOK
<1>2. CASE own[s] # Nobody
  <2>1. own[s] \in rows[s] /\ own[s] \in Seen(s) /\ own[s].seq = seq[own[s].event]
        /\ own[s].event \in Events
    BY <1>2 DEF WritesInv, OwnHead, SessionRows, Seen, RowOf
  <2> QED BY <1>1, <1>2, <2>1 DEF HeadSeen, BooksInv, Numbered
<1>3. CASE own[s] = Nobody
  <2>1. Seen(s) = log
    BY <1>3 DEF WritesInv, SessionRows, Seen
  <2> QED BY <1>1, <1>3, <2>1 DEF HeadSeen, BooksInv, HeadOfLog, Numbered
<1> QED BY <1>2, <1>3

\* Events that are not being written come and go.
LEMMA ChainKept ==
  ASSUME TypeInv, ChainInv, UNCHANGED <<prev, seq, session, committed, next>>,
         \A e \in Events :
           \/ at'[e] = at[e] /\ svc'[e] = svc[e]
           \/ /\ at[e] \in {"new", "queued", "read", "lost"}
              /\ at'[e] \in {"new", "queued", "read", "lost"}
  PROVE  ChainInv'
<1>1. UNCHANGED <<prev, seq, rows, own, aborted, lock, log, head, next>>
  BY DEF session, committed
<1>2. \A e \in Events : RowOf(e)' = RowOf(e)
  BY <1>1 DEF RowOf
<1>3. \A e \in Events : at[e] \in Writing \union {"written"} \/ at'[e] \in Writing \union {"written"}
        => at'[e] = at[e] /\ svc'[e] = svc[e]
  BY DEF Writing
<1>4. \A s \in Services : \A r \in rows[s] :
        r.event \in Events /\ at'[r.event] = at[r.event] /\ svc'[r.event] = svc[r.event]
  BY <1>3 DEF ChainInv, WritesInv, SessionRows, Writing
<1>5. WritesInv'
  <2>1. OneWriter' /\ Ended'
    BY <1>1, <1>3 DEF ChainInv, WritesInv, OneWriter, Ended
  <2>2. OwnHead'
    BY <1>1, <1>4 DEF ChainInv, WritesInv, OwnHead
  <2>3. SessionRows'
    BY <1>1, <1>2, <1>4 DEF ChainInv, WritesInv, SessionRows
  <2>4. Inserted'
    BY <1>1, <1>2, <1>3 DEF ChainInv, WritesInv, Inserted, Writing
  <2> QED BY <2>1, <2>2, <2>3, <2>4 DEF WritesInv
<1>6. BooksInv'
  <2>1. LogRows'
    <3>1. \A r \in log : r.event # Genesis => r.event \in Events
      BY DEF TypeInv, AuditTypeOK, Row
    <3> QED BY <1>1, <1>3, <3>1 DEF ChainInv, BooksInv, LogRows
  <2>2. WrittenRows'
    BY <1>1, <1>2, <1>3 DEF ChainInv, BooksInv, WrittenRows
  <2> QED BY <1>1, <2>1, <2>2 DEF ChainInv, BooksInv, Numbered, HeadOfLog
<1>7. \A s \in Services : HeadSeen(s)' = HeadSeen(s) /\ Seen(s)' = Seen(s)
  BY <1>1, <1>4 DEF HeadSeen, Seen
<1>8. Chained'
  <2> SUFFICES ASSUME NEW e \in Events, at'[e] \in Writing, svc'[e] \notin aborted', prev'[e] # Nobody
               PROVE  /\ lock' = svc'[e] /\ (HeadSeen(svc[e]) # Nobody)'
                      /\ prev'[e] = (HeadSeen(svc[e]).event)'
                      /\ at'[e] # "number" => (HeadSeen(svc[e]).seq)' < seq'[e]
    BY DEF Chained
  <2>1. PICK s \in Services : svc[e] = s /\ svc'[e] = s /\ at'[e] = at[e]
    BY <1>3 DEF TypeInv, Known, Writing
  <2> QED BY <1>1, <1>7, <2>1 DEF ChainInv, Chained
<1>9. SeenIsChain' /\ IsChain(log, head)'
  BY <1>1, <1>7 DEF ChainInv, SeenIsChain, IsChain, Intact, RootedIn
<1> QED BY <1>5, <1>6, <1>8, <1>9 DEF ChainInv
\* A transaction that ends without a commit leaves nothing behind: what others see is
\* what they saw.
LEMMA DropKeepsChain ==
  ASSUME TypeInv, ChainInv, NEW s \in Services, NEW E \in SUBSET Events, Lose(s, E), Clear(s),
         \A e \in E : at[e] \in Writing \union {"read"} /\ svc[e] = s,
         UNCHANGED <<svc, prev, seq, committed, next>>,
         \/ aborted' = aborted \union {s}
         \/ aborted' = aborted \ {s} /\ \A e \in Events : svc[e] = s => at[e] \notin Writing
  PROVE  ChainInv'
<1>1. UNCHANGED <<svc, prev, seq, log, head, next>> /\ s # Nobody
  BY NobodyAssumption DEF committed
<1>2. /\ rows'[s] = {} /\ own'[s] = Nobody
      /\ \A t \in Services \ {s} : rows'[t] = rows[t] /\ own'[t] = own[t]
      /\ lock' = IF lock = s THEN Nobody ELSE lock
  BY DEF Clear, TypeInv, AuditTypeOK
<1>3. \A e \in Events : /\ RowOf(e)' = RowOf(e)
                        /\ at'[e] = at[e] \/ (at'[e] = "lost" /\ svc[e] = s)
                        /\ at'[e] = "written" => at[e] = "written" /\ RowOf(e) \notin rows[s]
  <2> TAKE e \in Events
  <2>1. RowOf(e)' = RowOf(e)
    BY <1>1 DEF RowOf
  <2>2. CASE e \in E \/ (at[e] = "written" /\ RowOf(e) \in rows[s])
    <3>1. svc[e] = s
      BY <2>2 DEF ChainInv, WritesInv, SessionRows, RowOf
    <3> QED BY <2>1, <2>2, <3>1 DEF Lose
  <2>3. CASE ~(e \in E \/ (at[e] = "written" /\ RowOf(e) \in rows[s]))
    BY <2>1, <2>3 DEF Lose
  <2> QED BY <2>2, <2>3
<1>4. \A r \in log : r.event # Genesis => r.event \in Events /\ at'[r.event] = at[r.event]
  <2> TAKE r \in log
  <2> HAVE r.event # Genesis
  <2>1. r.event \in Events /\ at[r.event] = "written" /\ \A q \in rows[s] : q.event # r.event
    BY DEF TypeInv, AuditTypeOK, Row, ChainInv, BooksInv, LogRows
  <2>2. r.event \notin E /\ RowOf(r.event) \notin rows[s]
    BY <2>1 DEF Writing, RowOf
  <2> QED BY <2>1, <2>2 DEF Lose
<1>5. \A t \in Services \ {s} : \A r \in rows[t] :
        r.event \in Events /\ svc[r.event] = t /\ at'[r.event] = at[r.event]
  BY <1>3 DEF ChainInv, WritesInv, SessionRows
<1>6. \A t \in Services \ {s} : t \notin aborted' => t \notin aborted
  OBVIOUS
<1>7. s \in aborted' \/ \A e \in Events : svc[e] = s => at'[e] \notin Writing
  BY <1>3 DEF Writing
<1>8. WritesInv'
  <2>1. OneWriter'
    BY <1>1, <1>3 DEF ChainInv, WritesInv, OneWriter, Writing
  <2>2. Ended'
    BY <1>1, <1>2, NobodyAssumption DEF ChainInv, WritesInv, Ended, TypeInv, AuditTypeOK
  <2>3. OwnHead'
    <3> SUFFICES ASSUME NEW t \in Services, own'[t] # Nobody
                 PROVE  lock' = t /\ own'[t] \in rows'[t] /\ at'[own'[t].event] = "written"
      BY DEF OwnHead
    <3>1. t # s /\ own'[t] = own[t] /\ rows'[t] = rows[t]
      BY <1>2
    <3>2. lock = t /\ own[t] \in rows[t] /\ at[own[t].event] = "written"
      BY <3>1 DEF ChainInv, WritesInv, OwnHead
    <3>3. at'[own[t].event] = at[own[t].event]
      BY <1>5, <3>1, <3>2
    <3> QED BY <1>2, <3>1, <3>2, <3>3
  <2>4. SessionRows'
    <3> SUFFICES ASSUME NEW t \in Services, NEW r \in rows'[t]
                 PROVE  /\ r.event \in Events /\ svc'[r.event] = t
                        /\ r = [event |-> r.event, seq |-> seq'[r.event], prev |-> prev'[r.event]]
                        /\ at'[r.event] \in {"upsert", "written"}
                        /\ at'[r.event] = "written" => own'[t] # Nobody
      BY DEF SessionRows, RowOf
    <3>1. t # s /\ own'[t] = own[t] /\ rows'[t] = rows[t]
      BY <1>2
    <3>2. /\ r.event \in Events /\ r = RowOf(r.event) /\ svc[r.event] = t
          /\ at[r.event] \in {"upsert", "written"}
          /\ at[r.event] = "written" => own[t] # Nobody
      BY <3>1 DEF ChainInv, WritesInv, SessionRows
    <3>3. r = [event |-> r.event, seq |-> seq[r.event], prev |-> prev[r.event]]
      BY <3>2 DEF RowOf
    <3>4. /\ seq'[r.event] = seq[r.event] /\ prev'[r.event] = prev[r.event]
          /\ svc'[r.event] = svc[r.event] /\ at'[r.event] = at[r.event]
      BY <1>1, <1>5, <3>1, <3>2
    <3>5. r = [event |-> r.event, seq |-> seq'[r.event], prev |-> prev'[r.event]]
      BY <3>3, <3>4, Zenon
    <3>6. /\ r.event \in Events /\ svc'[r.event] = t
          /\ at'[r.event] \in {"upsert", "written"}
          /\ at'[r.event] = "written" => own'[t] # Nobody
      BY <3>1, <3>2, <3>4
    <3> QED BY <3>5, <3>6, Zenon
  <2>5. Inserted'
    <3> SUFFICES ASSUME NEW e \in Events, at'[e] = "upsert", svc'[e] \notin aborted'
                 PROVE  RowOf(e)' \in rows'[svc'[e]]
      BY DEF Inserted
    <3>1. at[e] = "upsert"
      BY <1>3
    <3>2. PICK t \in Services : svc[e] = t
      BY <3>1 DEF TypeInv, Known
    <3>3. t # s
      BY <1>1, <1>7, <3>2 DEF Writing
    <3>4. RowOf(e) \in rows[t]
      BY <1>1, <1>6, <3>1, <3>2, <3>3 DEF ChainInv, WritesInv, Inserted
    <3> QED BY <1>1, <1>2, <1>3, <3>2, <3>3, <3>4
  <2> QED BY <2>1, <2>2, <2>3, <2>4, <2>5 DEF WritesInv
<1>9. BooksInv'
  <2>1. LogRows'
    <3>1. \A t \in Services : rows'[t] \subseteq rows[t]
      BY <1>2
    <3> QED BY <1>1, <1>4, <3>1 DEF ChainInv, BooksInv, LogRows
  <2>2. WrittenRows'
    <3> SUFFICES ASSUME NEW e \in Events, at'[e] = "written"
                 PROVE  RowOf(e)' \in log' \union rows'[svc'[e]]
      BY DEF WrittenRows
    <3>1. at[e] = "written" /\ RowOf(e) \notin rows[s]
      BY <1>3
    <3>2. PICK t \in Services : svc[e] = t
      BY <3>1 DEF TypeInv, Known
    <3>3. RowOf(e) \in log \union rows[t]
      BY <3>1, <3>2 DEF ChainInv, BooksInv, WrittenRows
    <3> QED BY <1>1, <1>2, <1>3, <3>1, <3>2, <3>3
  <2> QED BY <1>1, <2>1, <2>2 DEF ChainInv, BooksInv, Numbered, HeadOfLog
<1>10. \A t \in Services \ {s} : HeadSeen(t)' = HeadSeen(t) /\ Seen(t)' = Seen(t)
  <2> TAKE t \in Services \ {s}
  <2>1. HeadSeen(t)' = HeadSeen(t)
    BY <1>1, <1>2 DEF HeadSeen
  <2>2. {r \in rows'[t] : at'[r.event] = "written"} = {r \in rows[t] : at[r.event] = "written"}
    BY <1>2, <1>5
  <2> QED BY <1>1, <2>1, <2>2 DEF Seen
<1>11. HeadSeen(s)' = head /\ Seen(s)' = log
  BY <1>1, <1>2 DEF HeadSeen, Seen
<1>12. Chained'
  <2> SUFFICES ASSUME NEW e \in Events, at'[e] \in Writing, svc'[e] \notin aborted', prev'[e] # Nobody
               PROVE  /\ lock' = svc'[e] /\ (HeadSeen(svc[e]) # Nobody)'
                      /\ prev'[e] = (HeadSeen(svc[e]).event)'
                      /\ at'[e] # "number" => (HeadSeen(svc[e]).seq)' < seq'[e]
    BY DEF Chained
  <2>1. at'[e] = at[e]
    BY <1>3 DEF Writing
  <2>2. PICK t \in Services : svc[e] = t /\ svc'[e] = t
    BY <1>1, <2>1 DEF TypeInv, Known, Writing
  <2>3. t # s
    BY <1>7, <2>1, <2>2
  <2>4. t \notin aborted
    BY <1>6, <2>2, <2>3
  <2>5. /\ lock = t /\ HeadSeen(t) # Nobody /\ prev[e] = HeadSeen(t).event
        /\ at[e] # "number" => HeadSeen(t).seq < seq[e]
    BY <1>1, <2>1, <2>2, <2>4 DEF ChainInv, Chained
  <2> QED BY <1>1, <1>2, <1>10, <2>1, <2>2, <2>3, <2>5
<1>13. IsChain(log, head)'
  BY <1>1 DEF ChainInv, IsChain, Intact, RootedIn
<1>14. SeenIsChain'
  <2> SUFFICES ASSUME NEW t \in Services
               PROVE  /\ IsChain(Seen(t), HeadSeen(t))'
                      /\ (Seen(t) # {} => \E q \in Seen(t) : q.prev = Nobody)'
                      /\ (RootedIn(Seen(t)) => \A q \in log, r \in Seen(t) \ log : q.seq < r.seq)'
    BY DEF SeenIsChain
  <2>1. CASE t = s
    BY <1>1, <1>11, <2>1 DEF ChainInv, BooksInv, HeadOfLog, IsChain, Intact, RootedIn
  <2>2. CASE t # s
    BY <1>1, <1>10, <2>2 DEF ChainInv, SeenIsChain, IsChain, Intact, RootedIn
  <2> QED BY <2>1, <2>2
<1> QED BY <1>8, <1>9, <1>12, <1>13, <1>14 DEF ChainInv
\* What is committed is what the session saw, and nobody else has anything to commit.
LEMMA CommitKeepsChain ==
  ASSUME TypeInv, ChainInv, Orderly, NEW s \in Services, Commit(s)
  PROVE  ChainInv'
<1>1. /\ UNCHANGED <<at, svc, prev, seq, next>>
      /\ \A e \in Events : svc[e] = s => at[e] \notin Writing
      /\ log' = log \union rows[s] /\ head' = HeadSeen(s)
      /\ aborted' = aborted \ {s} /\ s # Nobody
  BY NobodyAssumption DEF Commit, event, MayEnd, Orderly, HeadSeen
<1>2. /\ rows'[s] = {} /\ own'[s] = Nobody
      /\ \A t \in Services \ {s} : rows'[t] = rows[t] /\ own'[t] = own[t]
      /\ lock' = IF lock = s THEN Nobody ELSE lock
  BY DEF Commit, Clear, TypeInv, AuditTypeOK
<1>3. \A e \in Events : RowOf(e)' = RowOf(e)
  BY <1>1 DEF RowOf
<1>4. \A r \in rows[s] : /\ r.event \in Events /\ r = RowOf(r.event) /\ svc[r.event] = s
                         /\ at[r.event] = "written" /\ own[s] # Nobody
  BY <1>1 DEF ChainInv, WritesInv, SessionRows, Writing
<1>5. log' = Seen(s)
  BY <1>1, <1>4 DEF Seen
<1>6. rows[s] # {} => lock = s /\ own[s] # Nobody
  BY <1>4 DEF ChainInv, WritesInv, OwnHead
<1>7. rows[s] = {} => log' = log /\ head' = head
  BY <1>1 DEF ChainInv, WritesInv, OwnHead, HeadSeen
<1>8. WritesInv'
  <2>1. OneWriter' /\ Ended'
    BY <1>1, <1>2, NobodyAssumption DEF ChainInv, WritesInv, OneWriter, Ended, TypeInv, AuditTypeOK
  <2>2. OwnHead'
    BY <1>1, <1>2 DEF ChainInv, WritesInv, OwnHead
  <2>3. SessionRows'
    BY <1>1, <1>2, <1>3 DEF ChainInv, WritesInv, SessionRows
  <2>4. Inserted'
    <3> SUFFICES ASSUME NEW e \in Events, at[e] = "upsert", svc[e] \notin aborted'
                 PROVE  RowOf(e)' \in rows'[svc[e]]
      BY <1>1 DEF Inserted
    <3>1. PICK t \in Services : svc[e] = t
      BY DEF TypeInv, Known
    <3>2. t # s
      BY <1>1, <3>1 DEF Writing
    <3>3. t \notin aborted
      BY <1>1, <3>1, <3>2
    <3> QED BY <1>2, <1>3, <3>1, <3>2, <3>3 DEF ChainInv, WritesInv, Inserted
  <2> QED BY <2>1, <2>2, <2>3, <2>4 DEF WritesInv
<1>9. BooksInv'
  <2>1. LogRows'
    <3> SUFFICES ASSUME NEW r \in log', r.event # Genesis
                 PROVE  /\ at[r.event] = "written"
                        /\ \A t \in Services : \A q \in rows'[t] : q.event # r.event
      BY <1>1 DEF LogRows
    <3>1. CASE r \in log
      <4>1. \A t \in Services : rows'[t] \subseteq rows[t]
        BY <1>2
      <4> QED BY <3>1, <4>1 DEF ChainInv, BooksInv, LogRows
    <3>2. CASE r \in rows[s]
      BY <1>2, <1>4, <3>2 DEF ChainInv, WritesInv, SessionRows
    <3> QED BY <1>1, <3>1, <3>2
  <2>2. WrittenRows'
    <3> SUFFICES ASSUME NEW e \in Events, at[e] = "written"
                 PROVE  RowOf(e) \in log' \union rows'[svc[e]]
      BY <1>1, <1>3 DEF WrittenRows
    <3>1. PICK t \in Services : svc[e] = t
      BY DEF TypeInv, Known
    <3>2. RowOf(e) \in log \union rows[t]
      BY <3>1 DEF ChainInv, BooksInv, WrittenRows
    <3> QED BY <1>1, <1>2, <3>1, <3>2
  <2>3. Numbered'
    <3>1. \A r \in rows[s] : r.seq < next
      BY <1>4 DEF ChainInv, BooksInv, Numbered, RowOf
    <3> QED BY <1>1, <3>1 DEF ChainInv, BooksInv, Numbered
  <2>4. HeadOfLog'
    <3>1. /\ HeadSeen(s) # Nobody => HeadSeen(s) \in Seen(s)
          /\ HeadSeen(s) = Nobody => Seen(s) = {}
      BY HeadSeenIsRow DEF ChainInv
    <3>2. log' # {} => \E q \in log' : q.prev = Nobody
      BY <1>5 DEF ChainInv, SeenIsChain
    <3> QED BY <1>1, <1>5, <3>1, <3>2 DEF HeadOfLog
  <2> QED BY <2>1, <2>2, <2>3, <2>4 DEF BooksInv
<1>10. ASSUME NEW t \in Services \ {s}
       PROVE  IF rows[s] = {} THEN HeadSeen(t)' = HeadSeen(t) /\ Seen(t)' = Seen(t)
                              ELSE HeadSeen(t)' = head' /\ Seen(t)' = log'
  <2>1. CASE rows[s] = {}
    BY <1>1, <1>2, <1>7, <2>1 DEF HeadSeen, Seen
  <2>2. CASE rows[s] # {}
    <3>1. own[t] = Nobody
      BY <1>6, <2>2 DEF ChainInv, WritesInv, OwnHead
    <3>2. {r \in rows[t] : at[r.event] = "written"} = {}
      BY <3>1 DEF ChainInv, WritesInv, SessionRows
    <3> QED BY <1>1, <1>2, <2>2, <3>1, <3>2 DEF HeadSeen, Seen
  <2> QED BY <2>1, <2>2
<1>11. HeadSeen(s)' = head' /\ Seen(s)' = log'
  BY <1>2 DEF HeadSeen, Seen
<1>12. Chained'
  <2> SUFFICES ASSUME NEW e \in Events, at[e] \in Writing, svc[e] \notin aborted', prev[e] # Nobody
               PROVE  /\ lock' = svc[e] /\ (HeadSeen(svc[e]) # Nobody)'
                      /\ prev[e] = (HeadSeen(svc[e]).event)'
                      /\ at[e] # "number" => (HeadSeen(svc[e]).seq)' < seq[e]
    BY <1>1 DEF Chained
  <2>1. PICK t \in Services : svc[e] = t /\ svc'[e] = t
    BY <1>1 DEF TypeInv, Known, Writing
  <2>2. t # s /\ t \notin aborted
    BY <1>1, <2>1
  <2>3. /\ lock = t /\ HeadSeen(t) # Nobody /\ prev[e] = HeadSeen(t).event
        /\ at[e] # "number" => HeadSeen(t).seq < seq[e]
    BY <2>1, <2>2 DEF ChainInv, Chained
  <2>4. rows[s] = {}
    BY <1>6, <2>2, <2>3
  <2> QED BY <1>2, <1>10, <2>1, <2>2, <2>3, <2>4
<1>13. IsChain(log', head') /\ (log' # {} => \E q \in log' : q.prev = Nobody)
  BY <1>1, <1>5 DEF ChainInv, SeenIsChain
<1>14. SeenIsChain'
  <2> SUFFICES ASSUME NEW t \in Services
               PROVE  /\ IsChain(Seen(t)', HeadSeen(t)')
                      /\ Seen(t)' # {} => \E q \in Seen(t)' : q.prev = Nobody
                      /\ RootedIn(Seen(t)') => \A q \in log', r \in Seen(t)' \ log' : q.seq < r.seq
    BY DEF SeenIsChain, IsChain, Intact, RootedIn
  <2>1. CASE t = s \/ rows[s] # {}
    BY <1>10, <1>11, <1>13, <2>1
  <2>2. CASE t # s /\ rows[s] = {}
    BY <1>7, <1>10, <2>2 DEF ChainInv, SeenIsChain
  <2> QED BY <2>1, <2>2
<1>15. IsChain(log, head)'
  BY <1>13 DEF IsChain, Intact, RootedIn
<1> QED BY <1>8, <1>9, <1>12, <1>14, <1>15 DEF ChainInv
\* The statements of a write.  Until the last of them nobody's view of the log changes.
LEMMA EarlyWriteKeepsChain ==
  ASSUME TypeInv, ChainInv, Orderly, NEW e \in Events, ReadHead(e) \/ Number(e) \/ Insert(e)
  PROVE  ChainInv'
<1>1. at[e] \in {"read", "number", "insert"} /\ svc[e] \notin aborted
  BY DEF ReadHead, Number, Insert, MaySend
<1>2. PICK s \in Services : svc[e] = s
  BY <1>1 DEF TypeInv, Known
<1>3. /\ UNCHANGED <<svc, own, aborted, log, head>> /\ s \notin aborted /\ s # Nobody
      /\ at'[e] \in Writing /\ at'[e] # "written" /\ at[e] # "written" /\ at[e] # "upsert"
      /\ \A f \in Events \ {e} : /\ at'[f] = at[f] /\ prev'[f] = prev[f] /\ seq'[f] = seq[f]
                                 /\ RowOf(f)' = RowOf(f)
  BY <1>1, <1>2, NobodyAssumption
     DEF ReadHead, Number, Insert, Writing, session, committed, service, RowOf, TypeInv, AuditTypeOK
<1>4. \A f \in Events \ {e} : svc[f] = s => at[f] \notin Writing
  BY <1>1, <1>2 DEF ReadHead, Number, Insert, MaySend, Orderly, ChainInv, WritesInv, OneWriter, Writing
<1>5. \/ Insert(e) /\ rows' = [rows EXCEPT ![s] = @ \union {RowOf(e)}] /\ RowOf(e)' = RowOf(e)
      \/ ~Insert(e) /\ rows' = rows
  BY <1>1, <1>2 DEF ReadHead, Number, Insert, session, RowOf
<1>6. lock' = lock \/ (lock = Nobody /\ lock' = s)
  BY <1>2 DEF ReadHead, Number, Insert, session
<1>15. /\ \A t \in Services \ {s} : rows'[t] = rows[t]
       /\ \A r \in rows[s] : r \in rows'[s]
  BY <1>5 DEF TypeInv, AuditTypeOK
<1>7. \A t \in Services : \A r \in rows[t] :
        /\ r.event \in Events \ {e} /\ at'[r.event] = at[r.event] /\ r \in rows'[t]
  <2>1. \A t \in Services : \A r \in rows[t] : r.event \in Events \ {e}
    BY <1>1 DEF ChainInv, WritesInv, SessionRows
  <2> QED BY <1>3, <1>15, <2>1
<1>8. \A t \in Services : \A r \in rows'[t] :
        \/ r \in rows[t]
        \/ t = s /\ r = RowOf(e) /\ r.event = e /\ r = RowOf(e)' /\ at'[e] = "upsert"
  BY <1>5 DEF Insert, RowOf, TypeInv, AuditTypeOK
<1>9. \A r \in log : r.event # Genesis => r.event \in Events \ {e} /\ at'[r.event] = at[r.event]
  BY <1>1, <1>3 DEF ChainInv, BooksInv, LogRows, TypeInv, AuditTypeOK, Row
<1>10. \A t \in Services : HeadSeen(t)' = HeadSeen(t) /\ Seen(t)' = Seen(t)
  <2> TAKE t \in Services
  <2>1. {r \in rows'[t] : at'[r.event] = "written"} = {r \in rows[t] : at[r.event] = "written"}
    BY <1>3, <1>7, <1>8
  <2> QED BY <1>3, <2>1 DEF HeadSeen, Seen
<1>11. WritesInv'
  <2>1. OneWriter'
    BY <1>2, <1>3, <1>4 DEF ChainInv, WritesInv, OneWriter
  <2>2. Ended'
    <3>1. \A t \in aborted : t \in Services \ {s} /\ t # Nobody
      BY <1>3, NobodyAssumption DEF TypeInv, AuditTypeOK
    <3> QED BY <1>3, <1>6, <1>15, <3>1 DEF ChainInv, WritesInv, Ended
  <2>3. OwnHead'
    BY <1>3, <1>6, <1>7, NobodyAssumption DEF ChainInv, WritesInv, OwnHead
  <2>4. SessionRows'
    <3> SUFFICES ASSUME NEW t \in Services, NEW r \in rows'[t]
                 PROVE  /\ r.event \in Events /\ svc'[r.event] = t
                        /\ r = [event |-> r.event, seq |-> seq'[r.event], prev |-> prev'[r.event]]
                        /\ at'[r.event] \in {"upsert", "written"}
                        /\ at'[r.event] = "written" => own'[t] # Nobody
      BY DEF SessionRows, RowOf
    <3>1. CASE r \in rows[t]
      <4>1. /\ r.event \in Events \ {e} /\ r = RowOf(r.event) /\ svc[r.event] = t
            /\ at[r.event] \in {"upsert", "written"}
            /\ at[r.event] = "written" => own[t] # Nobody
        BY <1>7, <3>1 DEF ChainInv, WritesInv, SessionRows
      <4>2. r = [event |-> r.event, seq |-> seq[r.event], prev |-> prev[r.event]]
        BY <4>1 DEF RowOf
      <4>3. /\ seq'[r.event] = seq[r.event] /\ prev'[r.event] = prev[r.event]
            /\ svc'[r.event] = svc[r.event] /\ at'[r.event] = at[r.event] /\ own'[t] = own[t]
        BY <1>3, <4>1
      <4>4. r = [event |-> r.event, seq |-> seq'[r.event], prev |-> prev'[r.event]]
        BY <4>2, <4>3, Zenon
      <4>5. /\ r.event \in Events /\ svc'[r.event] = t
            /\ at'[r.event] \in {"upsert", "written"}
            /\ at'[r.event] = "written" => own'[t] # Nobody
        BY <4>1, <4>3
      <4> QED BY <4>4, <4>5, Zenon
    <3>2. CASE r \notin rows[t]
      BY <1>2, <1>3, <1>8, <3>2 DEF RowOf
    <3> QED BY <3>1, <3>2
  <2>5. Inserted'
    <3> SUFFICES ASSUME NEW f \in Events, at'[f] = "upsert", svc[f] \notin aborted
                 PROVE  RowOf(f)' \in rows'[svc[f]]
      BY <1>3 DEF Inserted
    <3>1. CASE f = e
      <4>1. Insert(e)
        BY <1>3, <3>1 DEF ReadHead, Number, Insert, TypeInv, AuditTypeOK
      <4> QED BY <1>2, <1>5, <3>1, <4>1 DEF TypeInv, AuditTypeOK
    <3>2. CASE f # e
      <4>1. PICK t \in Services : svc[f] = t
        BY <1>3, <3>2 DEF TypeInv, Known
      <4>2. RowOf(f) \in rows[t]
        BY <1>3, <3>2, <4>1 DEF ChainInv, WritesInv, Inserted
      <4> QED BY <1>3, <1>7, <3>2, <4>1, <4>2
    <3> QED BY <3>1, <3>2
  <2> QED BY <2>1, <2>2, <2>3, <2>4, <2>5 DEF WritesInv
<1>12. BooksInv'
  <2>1. LogRows'
    <3> SUFFICES ASSUME NEW r \in log, r.event # Genesis
                 PROVE  /\ at'[r.event] = "written"
                        /\ \A t \in Services : \A q \in rows'[t] : q.event # r.event
      BY <1>3 DEF LogRows
    <3>1. /\ at[r.event] = "written" /\ r.event # e /\ at'[r.event] = at[r.event]
          /\ \A t \in Services : \A q \in rows[t] : q.event # r.event
      BY <1>9 DEF ChainInv, BooksInv, LogRows
    <3> QED BY <1>8, <3>1
  <2>2. WrittenRows'
    <3> SUFFICES ASSUME NEW f \in Events, at'[f] = "written"
                 PROVE  RowOf(f)' \in log \union rows'[svc[f]]
      BY <1>3 DEF WrittenRows
    <3>1. f # e /\ at[f] = "written"
      BY <1>3
    <3>2. PICK t \in Services : svc[f] = t
      BY <3>1 DEF TypeInv, Known
    <3>3. RowOf(f) \in log \union rows[t]
      BY <3>1, <3>2 DEF ChainInv, BooksInv, WrittenRows
    <3> QED BY <1>3, <1>7, <3>1, <3>2, <3>3
  <2>3. Numbered' /\ next' \in {next, next + 1}
    <3>1. /\ \A f \in Events : seq[f] \in Nat /\ seq[f] < next
          /\ \A r \in log : r.seq \in Nat /\ r.seq < next
          /\ next \in Nat
      BY DEF ChainInv, BooksInv, Numbered, TypeInv, AuditTypeOK, Row
    <3>2. \/ UNCHANGED <<seq, next>>
          \/ next' = next + 1 /\ seq' = [seq EXCEPT ![e] = next]
      BY DEF ReadHead, Number, Insert
    <3>3. \A f \in Events : seq'[f] = seq[f] \/ (next' = next + 1 /\ seq'[f] = next)
      BY <3>2 DEF TypeInv, AuditTypeOK
    <3>4. next' \in {next, next + 1}
      BY <3>2
    <3>5. \A f \in Events : seq'[f] < next'
      BY <3>1, <3>3, <3>4
    <3>6. \A r \in log' : r.seq < next'
      BY <1>3, <3>1, <3>4
    <3> QED BY <3>4, <3>5, <3>6 DEF Numbered
  <2> QED BY <1>3, <2>1, <2>2, <2>3 DEF ChainInv, BooksInv, HeadOfLog
<1>13. Chained'
  <2> SUFFICES ASSUME NEW f \in Events, at'[f] \in Writing, svc[f] \notin aborted, prev'[f] # Nobody
               PROVE  /\ lock' = svc[f] /\ HeadSeen(svc[f])' # Nobody
                      /\ prev'[f] = HeadSeen(svc[f])'.event
                      /\ at'[f] # "number" => HeadSeen(svc[f])'.seq < seq'[f]
    BY <1>3 DEF Chained
  <2>1. CASE f # e
    <3>1. PICK t \in Services : svc[f] = t
      BY <1>3, <2>1 DEF TypeInv, Known, Writing
    <3>2. /\ lock = t /\ HeadSeen(t) # Nobody /\ prev[f] = HeadSeen(t).event
          /\ at[f] # "number" => HeadSeen(t).seq < seq[f]
      BY <1>3, <2>1, <3>1 DEF ChainInv, Chained
    <3> QED BY <1>3, <1>6, <1>10, <2>1, <3>1, <3>2, NobodyAssumption
  <2>2. CASE f = e /\ ReadHead(e)
    <3>1. at'[e] = "number" /\ HeadSeen(s) # Nobody /\ prev'[e] = HeadSeen(s).event /\ lock' = s
      BY <1>2, <2>2 DEF ReadHead, TypeInv, AuditTypeOK
    <3> QED BY <1>2, <1>3, <1>10, <2>2, <3>1
  <2>3. CASE f = e /\ Number(e)
    <3>1. /\ seq'[e] = next /\ prev'[e] = prev[e] /\ at[e] = "number" /\ UNCHANGED lock
      BY <2>3 DEF Number, session, TypeInv, AuditTypeOK
    <3>2. lock = s /\ HeadSeen(s) # Nobody /\ prev[e] = HeadSeen(s).event
      BY <1>2, <1>3, <2>3, <3>1 DEF ChainInv, Chained, Writing
    <3>3. HeadSeen(s).seq < next
      BY <3>2, HeadSeenIsRow DEF ChainInv
    <3> QED BY <1>2, <1>3, <1>10, <2>3, <3>1, <3>2, <3>3
  <2>4. CASE f = e /\ Insert(e)
    <3>1. /\ seq'[e] = seq[e] /\ prev'[e] = prev[e] /\ at[e] = "insert" /\ UNCHANGED lock
      BY <2>4 DEF Insert, TypeInv, AuditTypeOK
    <3>2. lock = s /\ HeadSeen(s) # Nobody /\ prev[e] = HeadSeen(s).event /\ HeadSeen(s).seq < seq[e]
      BY <1>2, <1>3, <2>4, <3>1 DEF ChainInv, Chained, Writing
    <3> QED BY <1>2, <1>3, <1>10, <2>4, <3>1, <3>2
  <2> QED BY <2>1, <2>2, <2>3, <2>4
<1>14. SeenIsChain' /\ IsChain(log, head)'
  BY <1>3, <1>10 DEF ChainInv, SeenIsChain, IsChain, Intact, RootedIn
<1> QED BY <1>11, <1>12, <1>13, <1>14 DEF ChainInv
\* The last statement moves the head to the new row, which extends what the session saw.
LEMMA UpsertKeepsChain ==
  ASSUME TypeInv, ChainInv, Orderly, NEW e \in Events, Upsert(e)
  PROVE  ChainInv'
<1>1. at[e] = "upsert" /\ svc[e] \notin aborted
  BY DEF Upsert, MaySend
<1>2. PICK s \in Services : svc[e] = s
  BY <1>1 DEF TypeInv, Known
<1> DEFINE r == RowOf(e)
<1>3. /\ UNCHANGED <<svc, prev, seq, rows, aborted, log, head, next>> /\ s \notin aborted
      /\ at'[e] = "written" /\ \A f \in Events \ {e} : at'[f] = at[f]
      /\ lock \in {Nobody, s} /\ lock' = s /\ s # Nobody
      /\ own'[s] = r /\ \A t \in Services \ {s} : own'[t] = own[t]
  BY <1>1, <1>2, NobodyAssumption DEF Upsert, committed, TypeInv, AuditTypeOK
<1>4. /\ r \in rows[s] /\ r \in Row /\ r # Nobody /\ r.event = e /\ r.prev = prev[e] /\ r.seq = seq[e]
      /\ e # Genesis
  BY <1>1, <1>2, NobodyAssumption, NobodyIsNoRow
     DEF ChainInv, WritesInv, Inserted, TypeInv, AuditTypeOK, RowOf
<1>5. \A f \in Events : RowOf(f)' = RowOf(f)
  BY <1>3 DEF RowOf
<1>6. \A f \in Events \ {e} : svc[f] = s => at[f] \notin Writing
  BY <1>1, <1>2 DEF ChainInv, WritesInv, OneWriter, Writing
<1>7. \A t \in Services \ {s} : own[t] = Nobody
  BY <1>3, NobodyAssumption DEF ChainInv, WritesInv, OwnHead
<1>8. \A t \in Services \ {s} : \A q \in rows[t] : q.event \in Events \ {e}
  BY <1>2 DEF ChainInv, WritesInv, SessionRows
<1>9. \A q \in log : q.event # e
  BY <1>1, <1>4 DEF ChainInv, BooksInv, LogRows
<1>10. \A q \in rows[s] : q.event \in Events /\ (q.event = e => q = r)
  BY DEF ChainInv, WritesInv, SessionRows
<1> HIDE DEF r
<1>11. Seen(s)' = Seen(s) \union {r} /\ HeadSeen(s)' = r /\ r \notin Seen(s)
  <2>1. {q \in rows'[s] : at'[q.event] = "written"} = {q \in rows[s] : at[q.event] = "written"} \union {r}
    BY <1>1, <1>3, <1>4, <1>10
  <2>2. r \notin log /\ r \notin {q \in rows[s] : at[q.event] = "written"}
    BY <1>1, <1>4, <1>9
  <2> QED BY <1>3, <1>4, <2>1, <2>2 DEF Seen, HeadSeen
<1>12. \A t \in Services \ {s} : Seen(t)' = Seen(t) /\ HeadSeen(t)' = HeadSeen(t)
  <2> TAKE t \in Services \ {s}
  <2>1. {q \in rows'[t] : at'[q.event] = "written"} = {q \in rows[t] : at[q.event] = "written"}
    BY <1>3, <1>8
  <2> QED BY <1>3, <2>1 DEF Seen, HeadSeen
<1>13. WritesInv'
  <2>1. OneWriter'
    BY <1>3 DEF ChainInv, WritesInv, OneWriter, Writing
  <2>2. Ended'
    <3>1. \A t \in aborted : t \in Services \ {s}
      BY <1>3 DEF TypeInv, AuditTypeOK
    <3> QED BY <1>3, <3>1 DEF ChainInv, WritesInv, Ended
  <2>3. OwnHead'
    BY <1>3, <1>4, <1>7 DEF OwnHead
  <2>4. SessionRows'
    <3> SUFFICES ASSUME NEW t \in Services, NEW q \in rows[t]
                 PROVE  /\ q.event \in Events /\ svc[q.event] = t
                        /\ q = RowOf(q.event)'
                        /\ at'[q.event] \in {"upsert", "written"}
                        /\ at'[q.event] = "written" => own'[t] # Nobody
      BY <1>3 DEF SessionRows
    <3>1. /\ q.event \in Events /\ svc[q.event] = t /\ q = RowOf(q.event)
          /\ at[q.event] \in {"upsert", "written"}
          /\ at[q.event] = "written" => own[t] # Nobody
      BY DEF ChainInv, WritesInv, SessionRows
    <3>2. q = RowOf(q.event)'
      BY <1>3, <3>1 DEF RowOf
    <3>3. at'[q.event] \in {"upsert", "written"}
      BY <1>3, <3>1
    <3>4. at'[q.event] = "written" => own'[t] # Nobody
      BY <1>3, <1>4, <1>8, <3>1
    <3> QED BY <3>1, <3>2, <3>3, <3>4
  <2>5. Inserted'
    BY <1>3, <1>5 DEF ChainInv, WritesInv, Inserted
  <2> QED BY <2>1, <2>2, <2>3, <2>4, <2>5 DEF WritesInv
<1>14. BooksInv'
  <2>1. LogRows'
    <3>1. \A q \in log : q.event # Genesis => at'[q.event] = at[q.event]
      BY <1>3, <1>9 DEF TypeInv, AuditTypeOK, Row
    <3> QED BY <1>3, <3>1 DEF ChainInv, BooksInv, LogRows
  <2>2. WrittenRows'
    <3> SUFFICES ASSUME NEW f \in Events, at'[f] = "written"
                 PROVE  RowOf(f) \in log \union rows[svc[f]]
      BY <1>3, <1>5 DEF WrittenRows
    <3>1. CASE f = e
      BY <1>2, <1>4, <3>1 DEF r
    <3>2. CASE f # e
      BY <1>3, <3>2 DEF ChainInv, BooksInv, WrittenRows
    <3> QED BY <3>1, <3>2
  <2> QED BY <1>3, <2>1, <2>2 DEF ChainInv, BooksInv, Numbered, HeadOfLog
<1>15. Chained'
  <2> SUFFICES ASSUME NEW f \in Events, at'[f] \in Writing, svc[f] \notin aborted, prev[f] # Nobody
               PROVE  FALSE
    BY <1>3 DEF Chained
  <2>1. f # e /\ at[f] \in Writing
    BY <1>3 DEF Writing
  <2>2. lock = svc[f] /\ svc[f] # Nobody
    BY <2>1, NobodyAssumption DEF ChainInv, Chained, TypeInv, Known, Writing
  <2> QED BY <1>3, <1>6, <2>1, <2>2
<1>16. IsChain(log, head)'
  BY <1>3 DEF ChainInv, IsChain, Intact, RootedIn
<1>17. /\ IsChain(Seen(s) \union {r}, r)
       /\ \E q \in Seen(s) \union {r} : q.prev = Nobody
       /\ RootedIn(Seen(s) \union {r}) => \A q \in log, x \in (Seen(s) \union {r}) \ log : q.seq < x.seq
  <2> DEFINE R == Seen(s)
  <2>1. R \in SUBSET Row /\ log \subseteq R /\ r \notin R
    BY <1>11, HeadSeenIsRow DEF ChainInv, Seen
  <2>2. /\ R # {} => \E q \in R : q.prev = Nobody
        /\ RootedIn(R) => \A q \in log, x \in R \ log : q.seq < x.seq
        /\ IsChain(R, HeadSeen(s))
    BY DEF ChainInv, SeenIsChain
  <2>3. CASE prev[e] = Nobody
    <3>1. ASSUME RootedIn(R \union {r}) PROVE R = {}
      <4> HIDE DEF R
      <4> QED BY <1>4, <2>1, <2>2, <2>3, <3>1 DEF RootedIn
    <3>2. R = {} => Intact(R \union {r}) /\ \A q \in R \union {r} : q.seq <= r.seq
      <4>1. R = {} => R \union {r} = {r}
        OBVIOUS
      <4>2. Intact({r}) /\ \A q \in {r} : q.seq <= r.seq
        BY <1>4, <2>3, FirstChain
      <4> HIDE DEF R
      <4> QED BY <4>1, <4>2
    <3>3. r.prev = Nobody /\ r \in R \union {r}
      BY <1>4, <2>3
    <3> HIDE DEF R
    <3> QED BY <2>1, <3>1, <3>2, <3>3 DEF IsChain, R
  <2>4. CASE prev[e] # Nobody
    <3>1. /\ HeadSeen(s) # Nobody /\ r.prev = HeadSeen(s).event /\ HeadSeen(s).seq < r.seq
      BY <1>1, <1>2, <1>3, <1>4, <2>4 DEF ChainInv, Chained, Writing
    <3>2. PICK h \in R : h = HeadSeen(s)
      BY <3>1, HeadSeenIsRow DEF ChainInv
    <3>3. RootedIn(R \union {r}) => RootedIn(R)
      BY DEF RootedIn
    <3>4. RootedIn(R) => Intact(R) /\ \A q \in R : q.seq <= h.seq
      BY <2>2, <3>2 DEF IsChain
    <3>5. r.prev = h.event /\ h.seq < r.seq
      BY <3>1, <3>2
    <3> HIDE DEF R
    <3>6. RootedIn(R) => Intact(R \union {r}) /\ \A q \in R \union {r} : q.seq <= r.seq
      BY <1>4, <2>1, <3>4, <3>5, ExtendChain
    <3>7. ASSUME RootedIn(R), NEW q \in log, NEW x \in (R \union {r}) \ log PROVE q.seq < x.seq
      <4>1. q.seq <= h.seq /\ q.seq \in Nat /\ h.seq \in Nat /\ r.seq \in Nat
        BY <1>4, <2>1, <3>4, <3>7 DEF Row
      <4> QED BY <2>2, <3>5, <3>7, <4>1
    <3>8. \E q \in R \union {r} : q.prev = Nobody
      BY <2>2, <3>2
    <3> QED BY <3>3, <3>6, <3>7, <3>8 DEF IsChain, R
  <2> QED BY <2>3, <2>4
<1>18. SeenIsChain'
  <2> SUFFICES ASSUME NEW t \in Services
               PROVE  /\ IsChain(Seen(t)', HeadSeen(t)')
                      /\ Seen(t)' # {} => \E q \in Seen(t)' : q.prev = Nobody
                      /\ RootedIn(Seen(t)') => \A q \in log', x \in Seen(t)' \ log' : q.seq < x.seq
    BY DEF SeenIsChain, IsChain, Intact, RootedIn
  <2>1. CASE t = s
    BY <1>3, <1>11, <1>17, <2>1
  <2>2. CASE t # s
    BY <1>3, <1>12, <2>2 DEF ChainInv, SeenIsChain
  <2> QED BY <2>1, <2>2
<1> QED BY <1>13, <1>14, <1>15, <1>16, <1>18 DEF ChainInv
LEMMA AuditInitChain == AuditInit => ChainInv
<1> SUFFICES ASSUME AuditInit PROVE ChainInv
  OBVIOUS
<1>1. WritesInv
  BY DEF AuditInit, WritesInv, OneWriter, Ended, OwnHead, SessionRows, Inserted, Writing
<1>2. FirstRow \in Row /\ FirstRow # Nobody /\ FirstRow.seq = 0 /\ FirstRow.prev = Nobody
      /\ FirstRow.event = Genesis
  BY NobodyIsNoRow DEF FirstRow, Row
<1>3. \/ /\ log = {}
         /\ head = Nobody
      \/ /\ log = {FirstRow}
         /\ head = FirstRow
  <2>1. CASE "fresh" \in AuditAnomalies
    BY <2>1 DEF AuditInit
  <2>2. CASE "fresh" \notin AuditAnomalies
    BY <2>2 DEF AuditInit
  <2> QED BY <2>1, <2>2
<1>4. BooksInv
  <2>1. LogRows /\ WrittenRows
    BY <1>2, <1>3 DEF AuditInit, LogRows, WrittenRows
  <2>2. Numbered
    BY <1>2, <1>3 DEF AuditInit, Numbered
  <2>3. HeadOfLog
    BY <1>2, <1>3 DEF HeadOfLog
  <2> QED BY <2>1, <2>2, <2>3 DEF BooksInv
<1>5. Chained
  BY DEF AuditInit, Chained, Writing
<1>6. IsChain(log, head)
  <2>1. Intact({FirstRow}) /\ \A q \in {FirstRow} : q.seq <= FirstRow.seq
    BY <1>2, FirstChain
  <2>2. Intact({})
    BY DEF Intact
  <2> QED BY <1>3, <2>1, <2>2 DEF IsChain
<1>7. SeenIsChain
  <2>1. \A s \in Services : Seen(s) = log /\ HeadSeen(s) = head
    BY DEF AuditInit, Seen, HeadSeen
  <2> QED BY <1>4, <1>6, <2>1 DEF SeenIsChain, BooksInv, HeadOfLog
<1> QED BY <1>1, <1>4, <1>5, <1>6, <1>7 DEF ChainInv

\* Every step keeps the chain, and only a commit changes what is committed.
LEMMA AuditNextChain ==
  ASSUME TypeInv, ChainInv, Orderly, [AuditNext]_auditvars
  PROVE  ChainInv' /\ (UNCHANGED log \/ \E s \in Services : Commit(s))
<1>1. ASSUME UNCHANGED <<prev, seq, session, committed, next>>,
             \A e \in Events :
               \/ at'[e] = at[e] /\ svc'[e] = svc[e]
               \/ /\ at[e] \in {"new", "queued", "read", "lost"}
                  /\ at'[e] \in {"new", "queued", "read", "lost"}
      PROVE  ChainInv' /\ UNCHANGED log
  BY <1>1, ChainKept DEF committed
<1>2. ASSUME NEW s \in Services, NEW e \in Events, Log(s, e) \/ LogOutsideLoop(s, e)
      PROVE  ChainInv' /\ UNCHANGED log
  <2>1. /\ UNCHANGED <<prev, seq, session, committed, next>> /\ at[e] = "new"
        /\ at'[e] \in {"queued", "read", "lost"}
        /\ \A f \in Events \ {e} : at'[f] = at[f] /\ svc'[f] = svc[f]
    BY <1>2 DEF Log, LogOutsideLoop, TypeInv, AuditTypeOK
  <2> QED BY <1>1, <2>1
<1>3. ASSUME NEW s \in Services, Take(s)
      PROVE  ChainInv' /\ UNCHANGED log
  <2>1. 1 \in 1 .. Len(queue[s]) /\ Head(queue[s]) = queue[s][1] /\ Head(queue[s]) \in Events
    BY <1>3 DEF Take, TypeInv, AuditTypeOK
  <2>2. at[Head(queue[s])] = "queued"
    BY <2>1 DEF TypeInv, QueueInv
  <2>3. /\ UNCHANGED <<svc, prev, seq, session, committed, next>>
        /\ at' = [at EXCEPT ![Head(queue[s])] = "read"]
    BY <1>3 DEF Take
  <2> QED BY <1>1, <2>1, <2>2, <2>3 DEF TypeInv, AuditTypeOK
<1>4. ASSUME NEW s \in Services, Cancel(s), UNCHANGED <<svc, prev, seq, queue, committed, next>>
      PROVE  ChainInv' /\ UNCHANGED log
  <2>1. CASE UNCHANGED <<at, session>>
    BY <1>1, <1>4, <2>1
  <2>2. CASE ~UNCHANGED <<at, session>>
    <3>1. Lose(s, Occupied(s)) /\ Clear(s) /\ aborted' = aborted \union {s}
      BY <1>4, <2>2 DEF Cancel
    <3>2. /\ Occupied(s) \in SUBSET Events
          /\ \A e \in Occupied(s) : at[e] \in Writing \union {"read"} /\ svc[e] = s
      BY DEF Occupied, TypeInv, AuditTypeOK
    <3>3. ChainInv'
      BY <1>4, <3>1, <3>2, DropKeepsChain
    <3> QED BY <1>4, <3>3 DEF committed
  <2> QED BY <2>1, <2>2
<1>5. ASSUME NEW s \in Services, WorkerExits(s) \/ Stop(s) \/ StopEnds(s)
      PROVE  ChainInv' /\ UNCHANGED log
  <2>1. CASE Cancel(s) /\ UNCHANGED <<svc, prev, seq, queue, committed, next>>
    BY <1>4, <2>1
  <2>2. CASE UNCHANGED <<event, session, committed, next>>
    BY <1>1, <2>2 DEF event
  <2> QED BY <1>5, <2>1, <2>2 DEF WorkerExits, Stop, StopEnds
<1>6. ASSUME NEW e \in Events, Write(e)
      PROVE  ChainInv' /\ UNCHANGED log
  <2>1. UNCHANGED log
    BY <1>6 DEF Write, ReadHead, Number, Insert, Upsert, committed
  <2> QED BY <1>6, <2>1, EarlyWriteKeepsChain, UpsertKeepsChain DEF Write
<1>7. ASSUME NEW e \in Events, Raise(e)
      PROVE  ChainInv' /\ UNCHANGED log
  <2>1. PICK s \in Services : svc[e] = s
    BY <1>7 DEF Raise, TypeInv, Known, Writing
  <2> DEFINE E == {e}
  <2>2. /\ E \in SUBSET Events /\ Lose(s, E) /\ Clear(s) /\ aborted' = aborted \union {s}
        /\ \A f \in E : at[f] \in Writing \union {"read"} /\ svc[f] = s
        /\ UNCHANGED <<svc, prev, seq, committed, next>>
    BY <1>7, <2>1 DEF Raise
  <2> HIDE DEF E
  <2>3. ChainInv'
    BY <2>2, DropKeepsChain
  <2> QED BY <2>2, <2>3 DEF committed
<1>8. ASSUME NEW s \in Services, Rollback(s)
      PROVE  ChainInv' /\ UNCHANGED log
  <2> DEFINE E == {}
  <2>1. /\ E \in SUBSET Events /\ Lose(s, E) /\ Clear(s) /\ aborted' = aborted \ {s}
        /\ \A f \in E : at[f] \in Writing \union {"read"} /\ svc[f] = s
        /\ \A e \in Events : svc[e] = s => at[e] \notin Writing
        /\ UNCHANGED <<svc, prev, seq, committed, next>>
    BY <1>8 DEF Rollback, MayEnd, Orderly
  <2> HIDE DEF E
  <2>2. ChainInv'
    BY <2>1, DropKeepsChain
  <2> QED BY <2>1, <2>2 DEF committed
<1>9. ASSUME UNCHANGED auditvars
      PROVE  ChainInv' /\ UNCHANGED log
  BY <1>1, <1>9 DEF auditvars, event
<1> QED BY <1>2, <1>3, <1>5, <1>6, <1>7, <1>8, <1>9, CommitKeepsChain DEF AuditNext

LEMMA QueuedOnce ==
  ASSUME TypeInv, NEW e \in Events, at[e] = "queued"
  PROVE  Cardinality({i \in DOMAIN queue[svc[e]] : queue[svc[e]][i] = e}) = 1
<1>1. PICK s \in Services : svc[e] = s
  BY DEF TypeInv, Known
<1>2. PICK i \in 1 .. Len(queue[s]) : queue[s][i] = e
  BY <1>1 DEF TypeInv, QueueInv
<1>3. DOMAIN queue[s] = 1 .. Len(queue[s])
  BY DEF TypeInv, AuditTypeOK
<1>4. {j \in DOMAIN queue[s] : queue[s][j] = e} = {i}
  BY <1>2, <1>3 DEF TypeInv, QueueInv
<1>5. Cardinality({i}) = 1
  BY FS_Singleton
<1> QED BY <1>1, <1>4, <1>5

LEMMA ChainInvIsSound == ASSUME TypeInv, ChainInv PROVE ChainSound
<1>1. ChainIntact /\ HeadIsLast
  <2>1. Rooted => RootedIn(log)
    BY DEF Rooted, RootedIn
  <2> QED BY <2>1 DEF ChainInv, IsChain, ChainIntact, HeadIsLast, BooksInv, HeadOfLog
<1>2. Accounted
  <2>1. \A e \in Events : at[e] = "written" => RowOf(e) \in log \union rows[svc[e]]
    BY DEF ChainInv, BooksInv, WrittenRows
  <2>2. \A r \in log : r.event # Genesis => at[r.event] = "written"
    BY DEF ChainInv, BooksInv, LogRows
  <2>3. \A s \in Services : \A r \in rows[s] :
          at[r.event] \in {"upsert", "written"} /\ svc[r.event] = s
    BY DEF ChainInv, WritesInv, SessionRows
  <2> QED BY <2>1, <2>2, <2>3, QueuedOnce DEF Accounted
<1> QED BY <1>1, <1>2 DEF ChainSound, TypeInv

\* However many sessions race for the head, fail between any two statements, are rolled
\* back or cancelled: as long as a session sends one write's statements at a time and
\* does not end its transaction within them, the committed rows of a chain with one
\* first row verify, the head names their last, and every event is accounted for.
THEOREM ChainIsSound == ASSUME Orderly PROVE AuditSpec => []ChainSound
<1>1. TypeInv /\ ChainInv /\ [AuditNext]_auditvars => ChainInv'
  BY AuditNextChain
<1>2. TypeInv /\ ChainInv => ChainSound
  BY ChainInvIsSound
<1> QED BY <1>1, <1>2, AuditInitType, AuditInitChain, AuditNextType, PTL DEF AuditSpec

\* Rows that were once read as the whole chain stay its beginning.
THEOREM ChainGrowsAtItsEnd == ASSUME Orderly PROVE AuditSpec => AppendOnly
<1>1. ASSUME TypeInv, ChainInv, [AuditNext]_auditvars
      PROVE  [Rooted' => \A q \in log, r \in log' \ log : q.seq < r.seq]_log
  <2>1. CASE UNCHANGED log
    BY <2>1
  <2>2. ASSUME NEW s \in Services, Commit(s)
        PROVE  Rooted' => \A q \in log, r \in log' \ log : q.seq < r.seq
    <3>1. log' = log \union rows[s] /\ \A e \in Events : svc[e] = s => at[e] \notin Writing
      BY <2>2 DEF Commit, MayEnd, Orderly
    <3>2. \A r \in rows[s] : at[r.event] = "written"
      BY <1>1, <3>1 DEF ChainInv, WritesInv, SessionRows, Writing
    <3>3. log' = Seen(s)
      BY <3>1, <3>2 DEF Seen
    <3>4. RootedIn(Seen(s)) => \A q \in log, r \in Seen(s) \ log : q.seq < r.seq
      BY <1>1 DEF ChainInv, SeenIsChain
    <3>5. Rooted' <=> RootedIn(Seen(s))
      BY <3>3 DEF Rooted, RootedIn
    <3> HIDE DEF RootedIn, Rooted
    <3> QED BY <3>3, <3>4, <3>5
  <2> QED BY <1>1, <2>1, <2>2, AuditNextChain
<1>2. TypeInv /\ ChainInv /\ [AuditNext]_auditvars => ChainInv'
  BY AuditNextChain
<1> QED BY <1>1, <1>2, AuditInitType, AuditInitChain, AuditNextType, PTL DEF AuditSpec, AppendOnly

-----------------------------------------------------------------------------
(* A chain that has its first row when the services start.                 *)

\* Nobody finds the head missing, so only the first row has no predecessor.
Established ==
  /\ head # Nobody
  /\ \A e \in Events : at[e] \in Writing \union {"written"} => prev[e] # Nobody
  /\ \A r \in log : r.prev = Nobody => r = FirstRow

LEMMA EstablishedKept ==
  ASSUME TypeInv, ChainInv, Orderly, Established, [AuditNext]_auditvars
  PROVE  Established'
<1>1. ASSUME UNCHANGED <<log, head, prev>>,
             \A e \in Events : \/ at'[e] \notin Writing \union {"written"}
                               \/ at[e] \in Writing \union {"written"}
      PROVE  Established'
  BY <1>1 DEF Established
<1>2. ASSUME NEW s \in Services, NEW e \in Events, Log(s, e) \/ LogOutsideLoop(s, e)
      PROVE  Established'
  <2>1. UNCHANGED <<log, head, prev>> /\ at'[e] \in {"queued", "read", "lost"}
        /\ \A f \in Events \ {e} : at'[f] = at[f]
    BY <1>2 DEF Log, LogOutsideLoop, committed, TypeInv, AuditTypeOK
  <2> QED BY <1>1, <2>1 DEF Writing
<1>3. ASSUME NEW s \in Services, Take(s) \/ WorkerExits(s) \/ Stop(s) \/ StopEnds(s) \/ Rollback(s)
      PROVE  Established'
  <2>1. UNCHANGED <<log, head, prev>>
    BY <1>3 DEF Take, WorkerExits, Stop, StopEnds, Rollback, event, committed
  <2>2. \A e \in Events : at'[e] = at[e] \/ at'[e] \in {"read", "lost"}
    BY <1>3 DEF Take, WorkerExits, Stop, StopEnds, Rollback, Cancel, Lose, event, TypeInv, AuditTypeOK
  <2> QED BY <1>1, <2>1, <2>2 DEF Writing
<1>4. ASSUME NEW e \in Events, Raise(e)
      PROVE  Established'
  <2>1. UNCHANGED <<log, head, prev>> /\ \A f \in Events : at'[f] = at[f] \/ at'[f] = "lost"
    BY <1>4 DEF Raise, Lose, committed
  <2> QED BY <1>1, <2>1 DEF Writing
<1>5. ASSUME NEW e \in Events, Number(e) \/ Insert(e) \/ Upsert(e)
      PROVE  Established'
  <2>1. UNCHANGED <<log, head, prev>> /\ at[e] \in Writing
        /\ \A f \in Events \ {e} : at'[f] = at[f]
    BY <1>5 DEF Number, Insert, Upsert, committed, Writing, TypeInv, AuditTypeOK
  <2> QED BY <1>1, <2>1
<1>6. ASSUME NEW e \in Events, ReadHead(e)
      PROVE  Established'
  <2>1. PICK s \in Services : svc[e] = s
    BY <1>6 DEF ReadHead, TypeInv, Known
  <2>2. HeadSeen(s) # Nobody /\ HeadSeen(s) \in Row
    BY HeadSeenIsRow DEF ChainInv, Established, HeadSeen
  <2>3. HeadSeen(s).event # Nobody
    BY <2>2, NobodyAssumption DEF Row
  <2>4. /\ prev'[e] = HeadSeen(s).event /\ UNCHANGED <<log, head>>
        /\ \A f \in Events \ {e} : at'[f] = at[f] /\ prev'[f] = prev[f]
    BY <1>6, <2>1, <2>2 DEF ReadHead, committed, TypeInv, AuditTypeOK
  <2> QED BY <2>3, <2>4 DEF Established
<1>7. ASSUME NEW s \in Services, Commit(s)
      PROVE  Established'
  <2>1. UNCHANGED <<at, prev>> /\ log' = log \union rows[s] /\ head' = HeadSeen(s)
    BY <1>7 DEF Commit, event, HeadSeen
  <2>2. \A r \in rows[s] : r.prev # Nobody
    BY DEF ChainInv, WritesInv, SessionRows, RowOf, Established, Writing
  <2>3. HeadSeen(s) # Nobody
    BY DEF HeadSeen, Established
  <2> QED BY <2>1, <2>2, <2>3 DEF Established
<1>8. CASE UNCHANGED auditvars
  BY <1>1, <1>8 DEF auditvars, event, committed
<1> QED BY <1>2, <1>3, <1>4, <1>5, <1>6, <1>7, <1>8 DEF AuditNext, Write

\* Of a chain that has a first row there is no doubt left: its log verifies at all times
\* and its head names the last row.
THEOREM EstablishedChainVerifies ==
  ASSUME Orderly, "fresh" \notin AuditAnomalies
  PROVE  AuditSpec => [](Intact(log) /\ head \in log /\ \A r \in log : r.seq <= head.seq)
<1>1. AuditInit => Established
  BY NobodyIsNoRow DEF AuditInit, Established, FirstRow, Row, Writing
<1>2. TypeInv /\ ChainInv /\ Established
        => Intact(log) /\ head \in log /\ \A r \in log : r.seq <= head.seq
  BY DEF Established, ChainInv, IsChain, RootedIn, BooksInv, HeadOfLog
<1>3. TypeInv /\ ChainInv /\ [AuditNext]_auditvars => ChainInv'
  BY AuditNextChain
<1>4. TypeInv /\ ChainInv /\ Established /\ [AuditNext]_auditvars => Established'
  BY EstablishedKept
<1> QED BY <1>1, <1>2, <1>3, <1>4, AuditInitType, AuditInitChain, AuditNextType, PTL DEF AuditSpec
=============================================================================
