----------------------------- MODULE MCResearch -----------------------------
(***************************************************************************)
(* Small instances of research and governance: backtest, trend strategy,   *)
(* walk-forward validation, derivatives, and the three sides of the        *)
(* governance layer.  They share no state, apart from the registries of    *)
(* constraints and pool: a behaviour of this instance exercises one area,  *)
(* chosen by its initial state, and leaves the others alone.               *)
(***************************************************************************)
EXTENDS Backtest, TrendStrategy, Validation, Derivatives, Governance

VARIABLE area

Rule(id, on, needs, prio, acts, rails) ==
  [id |-> id, on |-> on, needs |-> needs, prio |-> prio, acts |-> acts, rails |-> rails]

R1 == Rule(1, {}, {"h1"}, 2, [stop_mode |-> "wide", risk_budget_multiplier |-> 2],
           [max_position_pct |-> 10])
R2 == Rule(2, {"A"}, {}, 1, [stop_mode |-> "fundamental_guarded", veto_downgrade |-> TRUE],
           [max_position_pct |-> 5, max_drawdown_addon |-> 2])
R3 == Rule(3, {"A"}, {"h1", "h2"}, 1, [stop_mode |-> "wide", veto_downgrade |-> FALSE,
           risk_budget_multiplier |-> 3], <<>>)
R2b == [R2 EXCEPT !.prio = 3, !.acts = [stop_mode |-> "baseline"]]

Hyp(id, status, symbols, sectors) ==
  [id |-> id, status |-> status, symbols |-> symbols, sectors |-> sectors]

H1 == Hyp("h1", "ACTIVE", {1}, {"tech"})
H2 == Hyp("h2", "ACTIVE", {2}, {})
H3 == Hyp("h3", "ACTIVE", {}, {})

MCRuleDirs == {<<>>, <<R1, R2>>, <<R1, R2, R2b>>, Broken}
MCHypDirs == {<<H1, H2, H3>>, <<H1, [H2 EXCEPT !.status = "SUNSET"]>>, Broken, Missing}
MCNewRules == {R3, R2b}

Sym(s, sector, own, price) ==
  [symbol |-> s, sector |-> sector, state_owned_ratio |-> own, dividend_yield |-> 0,
   avg_dollar_volume |-> 9, market_cap |-> 9, price |-> price]

MCUniverses == {<<Sym(3, "oil", 5, 9), Sym(1, "tech", 0, 9), Sym(2, "tech", 0, 9)>>,
                <<Sym(2, "oil", 0, 1), Sym(1, "oil", 0, 9), Sym(1, "oil", 0, 9)>>,
                <<Sym(2, "oil", 9, 1)>>}
MCFilterSets == {<<>>, [exclude_state_owned_ratio_gte |-> 5, min_price |-> 2, exclude_sectors |-> {"gas"}]}
MCPoolRequests ==
  {[deny |-> d, allow |-> a, bias |-> b, multiplier |-> Len(b)] :
     d \in {<<>>, <<"h3", "h1">>}, a \in {<<>>, <<"h3">>, <<"h2", "h1">>},
     b \in {<<"h1">>, <<"h2", "h1">>}}
Plain == [deny |-> <<>>, allow |-> <<>>, bias |-> <<"h1">>, multiplier |-> 1]

Falsifier(m, op, limit, action) == [metric |-> m, op |-> op, limit |-> limit, action |-> action]

MCWatched == {[id |-> "h1", status |-> "ACTIVE",
               falsifiers |-> <<Falsifier("max_drawdown", ">=", 1, "review"),
                                Falsifier("portfolio_volatility", "<", 1, "sunset")>>],
              [id |-> "h2", status |-> "DRAFT",
               falsifiers |-> <<Falsifier("max_drawdown", ">", 1, "sunset")>>]}
MCFailureRules == ("f1" :> <<Falsifier("max_drawdown", ">", 1, "disable"),
                             Falsifier("portfolio_volatility", "<=", 1, "review")>>)
MCThresholds == [volatility_transition |-> 1, volatility_stress |-> 2,
                 drawdown_transition |-> 1, drawdown_stress |-> 2]


MCRootOf == [c \in Futures |-> IF c = "CLZ" THEN "CL" ELSE "ES"]
MCExpiryOf == [c \in Futures |-> IF c = "ESH" THEN 1 ELSE 3]
MCMonthOf == [c \in Futures |-> IF c = "ESH" THEN 3 ELSE 12]
MCFileDays == [u \in {"ES", "CL"} |-> IF u = "CL" THEN 2 ELSE 1]
MCFileStrategy == [u \in {"ES", "CL"} |-> IF u = "CL" THEN "close_open" ELSE "calendar_spread"]

MCPercents == {<<70, 15>>, <<60, 30>>, <<50, 25>>, <<90, 9>>}
MCPerformances == {-4, -3, 0, 3, 4}

MCInit ==
  /\ BacktestInit /\ TInit /\ VInit /\ DInit /\ GovInit
  /\ area \in {"backtest", "trades", "weights", "lockstep", "validation", "derivatives",
             "constraints", "context", "pool", "regime", "falsifiers", "factors"}
  /\ area \notin {"constraints", "pool", "context"} => ruleDir = <<R1, R2>> /\ hypDir = Missing
  /\ area = "pool" => ruleDir = <<R1, R2>>
  /\ area = "constraints" => hypDir # Missing
  /\ ruleDir # <<>>
  /\ area # "validation" => share = <<70, 15>>

\* The trend strategy on one symbol that trades, on one symbol whose weights are
\* followed for longer, and on two symbols whose bars come in turn and are scored.
NowScored ==
  \A s \in TSymbols :
    /\ ~lastBar'[s].zero
    /\ held'[s] = Lookback + 1 => scored'[s] # <<>> /\ Last(scored'[s]) = now'[s]

Trend ==
  /\ TNext
  /\ \/ area = "trades" /\ now'["B"] = 0 /\ now'["A"] <= 6
     \/ area = "weights" /\ now'["B"] = 0 /\ flying' = {}
     \/ /\ area = "lockstep" /\ now'["B"] \in {now'["A"], now'["A"] - 1}
        /\ flying' = {} /\ starts' = 0 /\ NowScored

\* One judgement, by the validator with the usual shares.
Validate ==
  /\ judged = NotJudged /\ VNext
  /\ judged' # judged => cut = <<>> /\ share = <<70, 15>>

OnGovernance ==
  \/ area = "constraints" /\ CNext /\ UNCHANGED <<mvars, gvars>>
  \/ /\ area = "pool"
     /\ \/ (EditFiles \/ Reload) /\ UNCHANGED <<mvars, gvars>> /\ UNCHANGED ruleDir
        \/ RebuildPool
  \/ /\ area = "context"
     /\ \/ (EditFiles \/ Reload) /\ UNCHANGED <<mvars, gvars>> /\ ruleDir' # <<>>
        \/ RebuildPool /\ (pool' # None => pool'.version[3] = Plain)
        \/ \E s \in Symbols : BuildContext(s)
  \/ /\ area = "regime"
     /\ \/ (MetricMoves \/ Detect) /\ UNCHANGED <<cvars, gvars>>
        \/ \E s \in Symbols : BuildContext(s)
  \* Falsifiers and factors read the same metrics and nothing of each other.
  \/ /\ MNext /\ UNCHANGED <<cvars, gvars, regime>>
     /\ \/ area = "falsifiers" /\ UNCHANGED <<factor, condemned, checking>>
        \/ area = "factors" /\ UNCHANGED <<store, alerts, runs>>

MCNext ==
  /\ UNCHANGED area
  /\ \/ area = "backtest" /\ BacktestNext /\ UNCHANGED <<tvars, vvars, dvars, vars>>
     \/ Trend /\ UNCHANGED <<backtestvars, vvars, dvars, vars>>
     \/ area = "validation" /\ Validate /\ UNCHANGED <<backtestvars, tvars, dvars, vars>>
     \/ area = "derivatives" /\ DNext /\ UNCHANGED <<backtestvars, tvars, vvars, vars>>
     \/ OnGovernance /\ UNCHANGED <<backtestvars, tvars, vvars, dvars>>

MCvars == <<backtestvars, tvars, vvars, dvars, vars, area>>

\* The fairness of Governance: of the clock, whose variables no other component's
\* steps change in that area.
MCFairness == WF_cvars(area = "constraints" /\ Tick)

MCSpec == MCInit /\ [][MCNext]_MCvars /\ MCFairness

\* CacheCatchesUp in the area whose fairness it needs: when files and registries stop
\* changing, every cached answer is in the end the one resolving would give (cache.py:117).
CacheFollows == area = "constraints" => CacheCatchesUp
=============================================================================
