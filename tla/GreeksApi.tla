------------------------------ MODULE GreeksApi ------------------------------
(***************************************************************************)
(* The endpoints of the Greeks that keep or compute something              *)
(* (src/api/greeks.py): the limits of an account and the store they live   *)
(* in, the scenario shocks judged by them, the acknowledgement of alerts,  *)
(* and the history in time buckets.                                        *)
(*                                                                         *)
(* A request runs from one await to the next: a shock reads the positions, *)
(* and later the limits; an acknowledgement writes, and later reads what   *)
(* it answers.                                                             *)
(***************************************************************************)
EXTENDS Integers, Sequences, FiniteSetsExt, SequencesExt

CONSTANTS
  NoValue,
  Accounts, Books,   \* Books: sets of legs that may be open in an account
  LimitSets,         \* bodies of PUT /limits, sound or not
  Shocks, ShockLists,   \* requests of a scenario, and their lists of percentages
  Bad,                  \* a percentage that is no number
  AckCalls, AlertIds,
  Times, HistoryWindows, Rows  \* seconds at which a snapshot may be saved; Rows bounds their number

\* The time buckets are those of the four windows of the endpoint.
ASSUME ApiAssumption ==
  /\ Times \subseteq Nat /\ Rows \in Nat
  /\ HistoryWindows \subseteq {"1h", "4h", "1d", "7d"}
  /\ NoValue \notin LimitSets
  /\ \A list \in ShockLists : ToSet(list) \ {Bad} \subseteq Int
  /\ \A legs \in Books :
       IsFiniteSet(legs) /\ \A g \in legs : {g.delta, g.gamma, g.quantity, g.price} \subseteq Int

VARIABLES
  limits,   \* LimitsStore._limits
  book,     \* account -> the legs of its open option positions
  shock,    \* shock request -> where it is and what it holds
  acked,    \* alert -> the calls that acknowledged it, the last one last
  ackcall,  \* acknowledgement -> where it is and what it answered
  rows,     \* the snapshots of one scope: [ts, value], by time
  lastHistory   \* the last answer of the history

limitvars == <<limits, book, shock>>
ackvars == <<acked, ackcall>>
apivars == <<limitvars, ackvars, rows, lastHistory>>

-----------------------------------------------------------------------------
(* The limits of an account.                                               *)

Dims == {"dollar_delta", "gamma_dollar"}

Default ==
  [d \in Dims |-> IF d = "dollar_delta" THEN [warn |-> 100, crit |-> 150, hard |-> 200]
                                        ELSE [warn |-> 50, crit |-> 75, hard |-> 100]]

LimitsOf(a) == IF limits[a] = NoValue THEN Default ELSE limits[a]

Ordered(t) == 0 < t.warn /\ t.warn < t.crit /\ t.crit < t.hard

\* Faulty: the first dimension that is right is enough.
ValidAny(set) == \E d \in Dims : Ordered(set[d])

ValidSet(set) == \A d \in Dims : Ordered(set[d])

\* set_limits: it raises, and keeps what it has, when the limits are not ordered.
SetLimits(a, set) == limits' = IF ValidSet(set) THEN [limits EXCEPT ![a] = set] ELSE limits

\* PUT /limits: 501 for a strategy, 400 when the store raises.
PutLimits(a, set, strategy) ==
  /\ IF strategy THEN UNCHANGED limits ELSE SetLimits(a, set)
  /\ UNCHANGED <<book, shock, ackvars, rows, lastHistory>>

\* Fills open and close positions.
BookMoves(a) ==
  /\ book' \in [Accounts -> Books]
  /\ \A b \in Accounts \ {a} : book'[b] = book[b]
  /\ UNCHANGED <<limits, shock, ackvars, rows, lastHistory>>

-----------------------------------------------------------------------------
(* Scenario shocks.  Money is counted so that every amount is whole: PnL   *)
(* in 1/20000, a delta after the shock in 1/100.                           *)

\* Faulty: the convexity misses one factor of the price.
ConvexityOnce(leg) == leg.gamma * leg.quantity * leg.price

\* gamma_pnl_1pct = 0.5 x gamma x quantity x multiplier x (0.01 x price)^2
Convexity(leg) == leg.gamma * leg.quantity * leg.price * leg.price

\* convert_to_dollar_greeks of each leg, and their sum.
Exposure(legs) ==
  [delta |-> MapThenSumSet(LAMBDA g : g.delta * g.quantity * g.price, legs),
   gamma |-> MapThenSumSet(LAMBDA g : g.gamma * g.quantity * g.price * g.price, legs),
   convexity |-> MapThenSumSet(Convexity, legs)]

\* What is no number is skipped, and nothing left means 1 % and 2 %.
Percentages(list) ==
  LET numbers == ToSet(list) \ {Bad}
  IN IF numbers = {} THEN {1, 2} ELSE numbers

\* calculate_scenario with _check_breach: only the hard limit of the delta is looked at.
Scenario(now, pct, sign, set) ==
  LET after == 100 * now.delta + now.gamma * pct * sign
      size == IF after < 0 THEN 0 - after ELSE after
  IN [pct |-> pct, sign |-> sign, after |-> after,
      pnl |-> 200 * now.delta * pct * sign + now.convexity * pct * pct,
      level |-> IF size > 100 * set["dollar_delta"].hard THEN "hard" ELSE "none"]

\* get_scenario_shocks: each percentage up and down.
ScenarioShocks(now, percentages, set) ==
  {Scenario(now, p, s, set) : p \in percentages, s \in {1, -1}}

\* get_scenario_shock up to the positions: 404 without any.
ShockLoads(r, a, list) ==
  /\ shock[r].at = "new" /\ book[a] # {}
  /\ shock' = [shock EXCEPT ![r] = [at |-> "loaded", account |-> a, now |-> Exposure(book[a]),
                                    list |-> list, results |-> {}, under |-> NoValue]]
  /\ UNCHANGED <<limits, book, ackvars, rows, lastHistory>>

\* The limits are those of the account when the positions have come.
ShockAnswers(r) ==
  /\ shock[r].at = "loaded"
  /\ LET set == LimitsOf(shock[r].account)
     IN shock' = [shock EXCEPT ![r] =
          [@ EXCEPT !.at = "answered", !.under = set,
                    !.results = ScenarioShocks(shock[r].now, Percentages(shock[r].list), set)]]
  /\ UNCHANGED <<limits, book, ackvars, rows, lastHistory>>

-----------------------------------------------------------------------------
(* Acknowledgements: an UPDATE that commits, then a SELECT.                *)

\* Faulty: the answer is what the request found before its own update.
AckWritesKeepingOld(c, i) ==
  /\ ackcall[c].at = "new"
  /\ acked' = [acked EXCEPT ![i] = Append(@, c)]
  /\ ackcall' = [ackcall EXCEPT ![c] =
       [at |-> "answered", alert |-> i, by |-> IF acked[i] = <<>> THEN NoValue ELSE Last(acked[i])]]
  /\ UNCHANGED <<limitvars, rows, lastHistory>>

AckWrites(c, i) ==
  /\ ackcall[c].at = "new"
  /\ acked' = [acked EXCEPT ![i] = Append(@, c)]
  /\ ackcall' = [ackcall EXCEPT ![c] = [at |-> "written", alert |-> i, by |-> NoValue]]
  /\ UNCHANGED <<limitvars, rows, lastHistory>>

AckAnswers(c) ==
  /\ ackcall[c].at = "written"
  /\ ackcall' = [ackcall EXCEPT ![c] = [@ EXCEPT !.at = "answered", !.by = Last(acked[ackcall[c].alert])]]
  /\ UNCHANGED <<limitvars, acked, rows, lastHistory>>

-----------------------------------------------------------------------------
(* History.                                                                *)

\* save_snapshot: in the order of time.
Save(t, v) ==
  /\ Len(rows) < Rows /\ \A i \in DOMAIN rows : rows[i].ts < t
  /\ rows' = Append(rows, [ts |-> t, value |-> v])
  /\ UNCHANGED <<limitvars, ackvars, lastHistory>>

Hours(window) ==
  CASE window = "1h" -> 1 [] window = "4h" -> 4 [] window = "1d" -> 24 [] window = "7d" -> 168

\* Seconds of a bucket; 0 means that nothing is aggregated.
Interval(window) ==
  CASE window = "1h" -> 0 [] window = "4h" -> 60 [] window = "1d" -> 300 [] window = "7d" -> 3600

\* Faulty: only the minutes are cut to the bucket.
BucketOfMinute(ts, interval) ==
  LET per == interval \div 60
      minute == (((ts \div 60) % 60) \div per) * per
  IN (ts \div 3600) * 3600 + (IF per >= 60 THEN (ts \div 60) % 60 ELSE minute) * 60

\* _aggregate_snapshots: the seconds are cut, then the minutes to the bucket, then
\* the hours of the day.
Bucket(ts, interval) ==
  LET per == interval \div 60
      minute == (((ts \div 60) % 60) \div per) * per
      hours == interval \div 3600
      hour == (ts \div 3600) % 24
      day == ts \div 86400
  IN IF interval >= 3600 THEN day * 86400 + ((hour \div hours) * hours) * 3600
                         ELSE day * 86400 + hour * 3600 + minute * 60

\* The average is kept as its sum, beside the count.
Point(ts, members) ==
  [ts |-> ts, count |-> Cardinality(members), sum |-> MapThenSumSet(LAMBDA r : r.value, members)]

\* The repository's get_history: raw, or in buckets.
PointsOf(within, width) ==
  IF width = 0
    THEN {Point(r.ts, {r}) : r \in within}
    ELSE {Point(b, {r \in within : Bucket(r.ts, width) = b}) : b \in {Bucket(r.ts, width) : r \in within}}

\* GET /history: of the snapshots of the window up to now.
GetHistory(window, now) ==
  LET within == {r \in ToSet(rows) : r.ts >= now - 3600 * Hours(window) /\ r.ts <= now}
  IN /\ lastHistory' = [now |-> now, window |-> window, within |-> within,
                        points |-> PointsOf(within, Interval(window))]
     /\ UNCHANGED <<limitvars, ackvars, rows>>

-----------------------------------------------------------------------------
ApiInit ==
  /\ limits = [a \in Accounts |-> NoValue]
  /\ book \in [Accounts -> Books]
  /\ shock = [r \in Shocks |-> [at |-> "new", account |-> NoValue, now |-> NoValue,
                                list |-> <<>>, results |-> {}, under |-> NoValue]]
  /\ acked = [i \in AlertIds |-> <<>>]
  /\ ackcall = [c \in AckCalls |-> [at |-> "new", alert |-> NoValue, by |-> NoValue]]
  /\ rows = <<>>
  /\ lastHistory = [now |-> 0, window |-> "1h", within |-> {}, points |-> {}]

LimitsNext ==
  \/ \E a \in Accounts, set \in LimitSets, strategy \in BOOLEAN : PutLimits(a, set, strategy)
  \/ \E a \in Accounts : BookMoves(a)
  \/ \E r \in Shocks, a \in Accounts, list \in ShockLists : ShockLoads(r, a, list)
  \/ \E r \in Shocks : ShockAnswers(r)

AcksNext ==
  \/ \E c \in AckCalls, i \in AlertIds : AckWrites(c, i)
  \/ \E c \in AckCalls : AckAnswers(c)

HistoryNext ==
  \/ \E t \in Times, v \in {1, 2} : Save(t, v)
  \/ \E w \in HistoryWindows, t \in Times : GetHistory(w, t)

-----------------------------------------------------------------------------
(* Properties.                                                             *)

\* Types of the variables.
ApiTypeOK ==
  /\ limits \in [Accounts -> LimitSets \cup {NoValue}] /\ book \in [Accounts -> Books]
  /\ \A r \in Shocks : shock[r].at \in {"new", "loaded", "answered"}
  /\ acked \in [AlertIds -> Seq(AckCalls)]
  /\ \A c \in AckCalls : ackcall[c].at \in {"new", "written", "answered"}
  /\ \A i \in DOMAIN rows : rows[i].ts \in Times

\* Whatever is put, an account's limits rise from warn through crit to hard in every
\* dimension, so that a larger exposure is never judged more lightly; so do those an
\* answered shock was judged by (v2_models.py:229, limits_store.py:115).
LimitsRise ==
  /\ \A a \in Accounts, d \in Dims : Ordered(LimitsOf(a)[d])
  /\ \A r \in Shocks : shock[r].at = "answered" => \A d \in Dims : Ordered(shock[r].under[d])

\* The result of a scenario is one consistent quadratic: the PnL is the move times the
\* average of the deltas before and after it (scenario.py:3, calculator.py:386).  It
\* relates formulas of two modules: a factor of the price too many or too few in the
\* calculator's gamma, or a sign on the second order, breaks it.
PnlMatchesDelta ==
  \A r \in Shocks : \A x \in shock[r].results :
    x.pnl = (100 * shock[r].now.delta + x.after) * x.pct * x.sign

\* An acknowledgement is answered with itself or with a later one, never with an earlier
\* one nor with none (api/greeks.py:319).
AckAnswersOwnOrLater ==
  \A c \in AckCalls : ackcall[c].at = "answered" =>
    LET calls == acked[ackcall[c].alert]
    IN \E i, j \in DOMAIN calls : i <= j /\ calls[i] = c /\ calls[j] = ackcall[c].by

\* The points of a history split the snapshots of its window: each is counted once, in
\* the point whose interval holds it (repository.py:315).
HistorySplitsRows ==
  LET width == Interval(lastHistory.window)
      in(p) == {r \in lastHistory.within : IF width = 0 THEN r.ts = p.ts
                                       ELSE r.ts >= p.ts /\ r.ts < p.ts + width}
  IN /\ UNION {in(p) : p \in lastHistory.points} = lastHistory.within
     /\ \A p \in lastHistory.points : p = Point(p.ts, in(p)) /\ p.count > 0
     /\ \A x, y \in lastHistory.points : x # y => in(x) \cap in(y) = {}
=============================================================================
