--------------------------- MODULE ResearchProofs ---------------------------
(***************************************************************************)
(* The invariants of the research run's modules, for every set of symbols, *)
(* prices, limits, directories and every size of the histories: the rolls  *)
(* and assignments of Derivatives, the judgements of Validation, the       *)
(* histories and signals of TrendStrategy, the fills and the report of a   *)
(* Backtest, and the state of the governance layer.                        *)
(***************************************************************************)
EXTENDS Backtest, TrendStrategy, Validation, Derivatives, Governance, SumLemmas,
        SequenceTheorems

-----------------------------------------------------------------------------
(* Derivatives.                                                            *)

\* The plans are those of contracts, and an estimate is asked of an option.
DerivInv ==
  /\ plans \subseteq {PlanFor(c) : c \in Futures}
  /\ asked \in [kind : Kinds, strike : Int, price : Int, quantity : Int]

LEMMA NextMonthIs ==
  ASSUME NEW m \in 1..12
  PROVE  NextMonth(m) \in 1..12 /\ NextMonth(m) - m \in {1, -11}
  BY DEF NextMonth

LEMMA PlansRoll ==
  ASSUME DerivInv
  PROVE  SpreadsRollOneMonth
<1> SUFFICES ASSUME NEW p \in plans
             PROVE  IF p.strategy = "calendar_spread"
                    THEN p.bought \in 1..12 /\ (p.bought - MonthOf[p.sold]) \in {1, -11}
                    ELSE p.bought = 0
  BY DEF SpreadsRollOneMonth
<1>1. PICK c \in Futures : p = PlanFor(c)
  BY DEF DerivInv
<1>2. PICK m \in 1..12 : m = MonthOf[c]
  BY DerivativesAssumption
<1>3. /\ p.sold = c /\ p.strategy = DefaultStrategy
      /\ p.bought = IF DefaultStrategy = "calendar_spread" THEN NextMonth(m) ELSE 0
  BY <1>1, <1>2 DEF PlanFor, ConfigOf
<1>4. NextMonth(m) \in 1..12 /\ NextMonth(m) - m \in {1, -11}
  BY NextMonthIs
<1> QED BY <1>2, <1>3, <1>4

\* The magnitude and the direction of what is estimated.
Magnitude(n) == IF n < 0 THEN -n ELSE n

LEMMA OppositeSides ==
  ASSUME NEW kind \in Kinds, NEW n \in Int, n # 0
  PROVE  Direction(kind, n) # Direction(kind, -n)
  BY DEF Direction, Kinds

\* Of a quantity of nothing no cash moves, whatever the direction.
LEMMA CashBalances ==
  ASSUME NEW kind \in Kinds, NEW strike \in Int, NEW price \in Int, NEW n \in Int
  PROVE  /\ Estimate(kind, strike, price, n).shares = Estimate(kind, strike, price, -n).shares
         /\ Estimate(kind, strike, price, n).cash + Estimate(kind, strike, price, -n).cash = 0
         /\ Estimate(kind, strike, price, n).direction = Direction(kind, n)
         /\ Estimate(kind, strike, price, n).shares
              = IF InTheMoney(kind, strike, price) THEN Magnitude(n) * Multiplier ELSE 0
<1> DEFINE shares == IF InTheMoney(kind, strike, price) THEN Magnitude(n) * Multiplier ELSE 0
           Factor(d) == IF d = "BUY" THEN -1 ELSE 1
<1>1. Magnitude(n) \in Nat /\ Magnitude(-n) = Magnitude(n)
  BY DEF Magnitude
<1>2. shares \in Int
  BY <1>1, DerivativesAssumption
<1>3. Estimate(kind, strike, price, n)
        = [shares |-> shares, direction |-> Direction(kind, n),
           cash |-> Factor(Direction(kind, n)) * strike * shares]
  BY DEF Estimate, Magnitude
<1>4. Estimate(kind, strike, price, -n)
        = [shares |-> shares, direction |-> Direction(kind, -n),
           cash |-> Factor(Direction(kind, -n)) * strike * shares]
  <2>1. Estimate(kind, strike, price, -n)
          = [shares |-> IF InTheMoney(kind, strike, price) THEN Magnitude(-n) * Multiplier ELSE 0,
             direction |-> Direction(kind, -n),
             cash |-> Factor(Direction(kind, -n)) * strike
                      * (IF InTheMoney(kind, strike, price) THEN Magnitude(-n) * Multiplier ELSE 0)]
    BY DEF Estimate, Magnitude
  <2> QED BY <1>1, <2>1
<1>5. /\ Estimate(kind, strike, price, n).shares = Estimate(kind, strike, price, -n).shares
      /\ Estimate(kind, strike, price, n).direction = Direction(kind, n)
      /\ Estimate(kind, strike, price, n).shares
           = IF InTheMoney(kind, strike, price) THEN Magnitude(n) * Multiplier ELSE 0
  BY <1>3, <1>4
<1>6. n = 0 => Estimate(kind, strike, price, n).cash + Estimate(kind, strike, price, -n).cash = 0
  <2> SUFFICES ASSUME n = 0
               PROVE  Estimate(kind, strike, price, n).cash + Estimate(kind, strike, price, -n).cash = 0
    OBVIOUS
  <2>1. shares = 0
    BY DerivativesAssumption DEF Magnitude
  <2>2. \A d : Factor(d) * strike * 0 = 0
    OBVIOUS
  <2> HIDE DEF shares, Factor
  <2>3. Estimate(kind, strike, price, n).cash = 0 /\ Estimate(kind, strike, price, -n).cash = 0
    BY <1>3, <1>4, <2>1, <2>2
  <2> QED BY <2>3
<1>7. n # 0 => Estimate(kind, strike, price, n).cash + Estimate(kind, strike, price, -n).cash = 0
  <2> SUFFICES ASSUME n # 0
               PROVE  Estimate(kind, strike, price, n).cash + Estimate(kind, strike, price, -n).cash = 0
    OBVIOUS
  <2>1. Direction(kind, n) \in {"BUY", "SELL"} /\ Direction(kind, -n) \in {"BUY", "SELL"}
    BY DEF Direction
  <2>2. Factor(Direction(kind, n)) = -Factor(Direction(kind, -n))
    BY <2>1, OppositeSides
  <2>3. PICK k \in Int : k = Factor(Direction(kind, -n))
    OBVIOUS
  <2> HIDE DEF shares, Factor
  <2>4. PICK s \in Int : s = shares
    BY <1>2
  <2>5. (-k) * strike * s + k * strike * s = 0
    OBVIOUS
  <2>6. Estimate(kind, strike, price, n).cash = (-k) * strike * s
    BY <1>3, <2>2, <2>3, <2>4
  <2>7. Estimate(kind, strike, price, -n).cash = k * strike * s
    BY <1>4, <2>3, <2>4
  <2> QED BY <2>5, <2>6, <2>7
<1> QED BY <1>5, <1>6, <1>7

LEMMA AssignmentsBalance ==
  ASSUME DerivInv
  PROVE  AssignmentBalances
<1>1. PICK kind \in Kinds, strike \in Int, price \in Int, n \in Int :
        asked.kind = kind /\ asked.strike = strike /\ asked.price = price /\ asked.quantity = n
  BY DEF DerivInv
<1>2. PICK k \in Kinds : k = (CHOOSE y \in Kinds : y # asked.kind) /\ k # kind
  BY <1>1 DEF Kinds
<1>3. ~(InTheMoney(kind, strike, price) /\ InTheMoney(k, strike, price))
  BY <1>2 DEF InTheMoney, Kinds
<1>4. /\ Estimate(kind, strike, price, n).shares = Estimate(kind, strike, price, -n).shares
      /\ Estimate(kind, strike, price, n).cash + Estimate(kind, strike, price, -n).cash = 0
  BY CashBalances
<1>5. n # 0 => Estimate(kind, strike, price, n).direction # Estimate(kind, strike, price, -n).direction
  BY CashBalances, OppositeSides
<1>6. Estimate(kind, strike, price, n).shares = 0 \/ Estimate(k, strike, price, n).shares = 0
  <2>1. /\ ~InTheMoney(kind, strike, price) => Estimate(kind, strike, price, n).shares = 0
        /\ ~InTheMoney(k, strike, price) => Estimate(k, strike, price, n).shares = 0
    BY CashBalances
  <2> QED BY <1>3, <2>1
<1> QED BY <1>1, <1>2, <1>4, <1>5, <1>6 DEF AssignmentBalances

LEMMA DerivStep ==
  ASSUME DerivInv, [DNext]_dvars
  PROVE  DerivInv'
<1>1. CASE UNCHANGED <<plans, asked>>
  BY <1>1 DEF DerivInv
<1>2. ASSUME NEW c \in Futures, RollRequest(c) PROVE DerivInv'
  BY <1>2 DEF RollRequest, DerivInv
<1>3. ASSUME NEW kind \in Kinds, NEW strike \in Strikes, NEW price \in Prices, NEW n \in Int,
             EstimateRequest(kind, strike, price, n)
      PROVE  DerivInv'
  <2>1. strike \in Int /\ price \in Int
    BY DerivativesAssumption
  <2> QED BY <1>3, <2>1 DEF EstimateRequest, DerivInv
<1>4. \A n \in Contracts : n \in Int /\ -n \in Int
  BY DerivativesAssumption
<1>5. NextDay \/ (\E days : Lookup(days)) \/ UNCHANGED dvars => UNCHANGED <<plans, asked>>
  BY DEF NextDay, Lookup, dvars
<1> QED BY <1>1, <1>2, <1>3, <1>4, <1>5 DEF DNext

\* Futures rolls and assignments, for any contracts, months, strikes and quantities: a
\* calendar spread goes on to the next month, over the end of a year too, and what an
\* assignment gives one side it takes from the other
\* (futures_roll.py:279-344, assignment_handler.py:130-197).
THEOREM DerivativesAreSound == DSpec => []DerivativesSound
<1>1. DInit => DerivInv
  BY DEF DInit, DerivInv, NoOption, Kinds
<1>2. DerivInv /\ [DNext]_dvars => DerivInv'
  BY DerivStep
<1>3. DerivInv => DerivativesSound
  BY PlansRoll, AssignmentsBalance DEF DerivativesSound
<1> QED BY <1>1, <1>2, <1>3, PTL DEF DSpec

-----------------------------------------------------------------------------
(* Validation.                                                             *)

\* A sample that was cut had its rows, and what was judged had its reasons.
ValidInv ==
  /\ share \in Percents
  /\ cut # <<>> =>
       \E n \in Rows : \E t \in Part(n, share[1]), v \in Part(n, share[1] + share[2]) :
         /\ n >= MinRows
         /\ cut = <<n, BiggerOf(1, t), BiggerOf(0, ValEnd(BiggerOf(1, t), v) - BiggerOf(1, t)),
                    BiggerOf(0, n - ValEnd(BiggerOf(1, t), v))>>
  /\ \E train, val, test \in Int, perturbed \in [Labels -> Int] :
       /\ judged.train = train /\ judged.val = val /\ judged.test = test
       /\ judged.perturbed = perturbed
       /\ judged.reason = Reason(train, val, test)
       /\ judged.unstable = {l \in Labels : Deviates(val, perturbed[l])}

\* A part of n rows is the share of n, or one row less.
LEMMA PartIs ==
  ASSUME NEW n \in Nat, NEW p \in 0..100, NEW t \in Part(n, p)
  PROVE  t \in Int /\ 100 * t <= n * p
<1>1. PICK x \in Nat : x = n * p
  OBVIOUS
<1>2. t = x \div 100 \/ t = x \div 100 - 1
  BY <1>1 DEF Part
<1>3. x \div 100 \in Int /\ 100 * (x \div 100) <= x
  OBVIOUS
<1> QED BY <1>1, <1>2, <1>3

LEMMA ProductGrows ==
  ASSUME NEW n \in Nat, NEW p \in Nat, NEW q \in Nat, p <= q
  PROVE  n * p <= n * q
<1>1. PICK d \in Nat : q = p + d
  <2>1. q - p \in Nat /\ q = p + (q - p)
    OBVIOUS
  <2> QED BY <2>1
<1>2. n * q = n * p + n * d /\ n * d \in Nat /\ n * p \in Nat
  BY <1>1
<1> QED BY <1>2

LEMMA PartsHoldSomething ==
  ASSUME ValidInv
  PROVE  NoPartEmpty
<1> SUFFICES ASSUME cut # <<>>
             PROVE  /\ cut[2] + cut[3] + cut[4] = cut[1]
                    /\ cut[2] >= 1 /\ cut[3] >= 1
                    /\ 100 - share[1] - share[2] >= 10 => cut[4] >= 1
  BY DEF NoPartEmpty
<1>1. PICK a \in 1..99, b \in 1..99 : share[1] = a /\ share[2] = b /\ a + b <= 100
  BY ValidationAssumption DEF ValidInv
<1> DEFINE Cut(n, t, v) ==
             <<n, BiggerOf(1, t), BiggerOf(0, ValEnd(BiggerOf(1, t), v) - BiggerOf(1, t)),
               BiggerOf(0, n - ValEnd(BiggerOf(1, t), v))>>
<1>20. PICK n \in Rows :
         n >= 10 /\ \E t \in Part(n, a), v \in Part(n, a + b) : cut = Cut(n, t, v)
  BY <1>1 DEF ValidInv, MinRows
<1>2. PICK t \in Part(n, a), v \in Part(n, a + b) : n >= 10 /\ cut = Cut(n, t, v)
  BY <1>20
<1>3. n \in Nat /\ a \in 0..100 /\ a + b \in 0..100 /\ a \in Nat /\ a + b \in Nat
  BY <1>1, ValidationAssumption
<1>4. t \in Int /\ v \in Int /\ 100 * t <= n * a /\ 100 * v <= n * (a + b)
  BY <1>3, PartIs
<1>5. n * a <= n * 99 /\ n * (a + b) <= n * 100
  BY <1>1, <1>3, ProductGrows
<1>6. PICK x \in Int, y \in Int : x = n * a /\ y = n * (a + b)
  <2>1. n * a \in Int /\ n * (a + b) \in Int
    BY <1>3
  <2> QED BY <2>1
<1>7. t <= n - 1 /\ v <= n
  <2>1. 100 * t <= x /\ 100 * v <= y /\ x <= n * 99 /\ y <= n * 100
    BY <1>4, <1>5, <1>6
  <2> QED BY <1>2, <1>3, <1>4, <2>1
<1>8. a + b <= 90 => t <= n - 2 /\ v <= n - 1
  <2> SUFFICES ASSUME a + b <= 90 PROVE t <= n - 2 /\ v <= n - 1
    OBVIOUS
  <2>1. n * a <= n * 89 /\ n * (a + b) <= n * 90
    BY <1>1, <1>3, ProductGrows
  <2>2. 100 * t <= x /\ 100 * v <= y /\ x <= n * 89 /\ y <= n * 90
    BY <1>4, <1>6, <2>1
  <2> QED BY <1>2, <1>3, <1>4, <2>2
<1>9. PICK e \in Int : e = BiggerOf(1, t) /\ e >= 1 /\ e <= n - 1 /\ (a + b <= 90 => e <= n - 2)
  BY <1>2, <1>3, <1>4, <1>7, <1>8 DEF BiggerOf
<1>10. PICK w \in Int : w = ValEnd(e, v) /\ w >= e + 1 /\ w <= n /\ (a + b <= 90 => w <= n - 1)
  BY <1>3, <1>4, <1>7, <1>8, <1>9 DEF ValEnd, BiggerOf
<1>11. cut = <<n, e, w - e, n - w>>
  BY <1>2, <1>3, <1>9, <1>10 DEF BiggerOf
<1> QED BY <1>1, <1>3, <1>9, <1>10, <1>11

\* A threshold of a performance is not negative.
LEMMA ThresholdIs ==
  ASSUME NEW k \in 1..100, NEW x \in Int
  PROVE  Abs(x) \in Nat /\ k * Abs(x) \in Nat
<1>1. Abs(x) \in Nat
  BY DEF Abs
<1> QED BY <1>1

LEMMA VerdictsFollow ==
  ASSUME ValidInv
  PROVE  VerdictFollowsOrder
<1>1. PICK train \in Int, val \in Int, test \in Int :
        /\ judged.train = train /\ judged.val = val /\ judged.test = test
        /\ judged.reason = Reason(train, val, test)
  BY DEF ValidInv
<1> DEFINE Limit(x) == MaxDegradation * Abs(x)
<1>2. \A x \in Int : Limit(x) \in Nat
  BY ThresholdIs, ValidationAssumption
<1>3. \A x, y \in Int : Exceeds(x, y, MaxDegradation)
         <=> IF x = 0 THEN y # 0 ELSE 100 * (x - y) > Limit(x)
  BY DEF Exceeds
<1>4. Limit(0) = 0
  BY ValidationAssumption DEF Abs
<1> HIDE DEF Limit
<1>5. \A x, y \in Int : 100 * (x - y) > Limit(x) => Exceeds(x, y, MaxDegradation)
  BY <1>2, <1>3, <1>4
<1>6. \A x, y \in Int : x <= y /\ x # 0 => ~Exceeds(x, y, MaxDegradation)
  BY <1>2, <1>3
<1>7. judged.reason = "none" <=> /\ ~Exceeds(train, val, MaxDegradation)
                                 /\ ~Exceeds(val, test, MaxDegradation)
  BY <1>1 DEF Reason
<1>8. /\ (train <= val /\ val <= test /\ train # 0 /\ val # 0 => judged.reason = "none")
      /\ (100 * (val - test) > Limit(val) \/ 100 * (train - val) > Limit(train)
            => judged.reason # "none")
  BY <1>5, <1>6, <1>7
<1> QED BY <1>1, <1>8 DEF VerdictFollowsOrder, Limit

LEMMA StableIsClose ==
  ASSUME ValidInv
  PROVE  StableMeansClose
<1>1. PICK val \in Int, perturbed \in [Labels -> Int] :
        /\ judged.val = val /\ judged.perturbed = perturbed
        /\ judged.unstable = {l \in Labels : Deviates(val, perturbed[l])}
  BY DEF ValidInv
<1> DEFINE limit == StabilityThreshold * Abs(val)
<1>2. limit \in Nat
  BY ThresholdIs, ValidationAssumption
<1>3. val = 0 => limit = 0
  BY ValidationAssumption DEF Abs
<1>4. ASSUME NEW x \in Int, ~Deviates(val, x)
      PROVE  100 * Abs(x - val) <= limit
  <2>1. ~Exceeds(val, x, StabilityThreshold)
        /\ ~(val # 0 /\ 100 * (x - val) > limit)
    BY <1>4 DEF Deviates
  <2>2. IF val = 0 THEN x = 0 ELSE ~(100 * (val - x) > limit)
    BY <2>1 DEF Exceeds
  <2> HIDE DEF limit
  <2> QED BY <1>2, <1>3, <2>1, <2>2 DEF Abs
<1> HIDE DEF limit
<1>5. judged.unstable = {} => \A l \in Labels : 100 * Abs(perturbed[l] - val) <= limit
  BY <1>1, <1>4
<1> QED BY <1>1, <1>5 DEF StableMeansClose, limit

LEMMA ValidInitially == VInit => ValidInv
<1> SUFFICES ASSUME VInit PROVE ValidInv
  OBVIOUS
<1>1. share \in Percents /\ cut = <<>> /\ judged = NotJudged
  BY DEF VInit
<1>2. \A k \in 1..100 : ~Exceeds(0, 0, k)
  BY DEF Exceeds
<1>3. Reason(0, 0, 0) = "none" /\ ~Deviates(0, 0)
  BY <1>2, ValidationAssumption DEF Reason, Deviates
<1>4. PICK z \in [Labels -> Int] : z = [l \in Labels |-> 0]
  <2>1. [l \in Labels |-> 0] \in [Labels -> Int]
    OBVIOUS
  <2> QED BY <2>1
<1>5. {l \in Labels : Deviates(0, z[l])} = {}
  BY <1>3, <1>4
<1>6. /\ judged.train = 0 /\ judged.val = 0 /\ judged.test = 0 /\ judged.perturbed = z
      /\ judged.reason = Reason(0, 0, 0) /\ judged.unstable = {l \in Labels : Deviates(0, z[l])}
  BY <1>1, <1>3, <1>4, <1>5 DEF NotJudged
<1> QED BY <1>1, <1>6 DEF ValidInv

LEMMA ValidStep ==
  ASSUME ValidInv, [VNext]_vvars
  PROVE  ValidInv'
<1>1. ASSUME NEW n \in Rows, Split(n) PROVE ValidInv'
  BY <1>1 DEF Split, ValidInv
<1>2. ASSUME NEW train \in Performances, NEW val \in Performances, NEW test \in Performances,
             NEW perturbed \in [Labels -> Performances], Judge(train, val, test, perturbed)
      PROVE  ValidInv'
  <2>1. train \in Int /\ val \in Int /\ test \in Int /\ perturbed \in [Labels -> Int]
    BY ValidationAssumption
  <2>2. /\ judged'.train = train /\ judged'.val = val /\ judged'.test = test
        /\ judged'.perturbed = perturbed /\ judged'.reason = Reason(train, val, test)
        /\ judged'.unstable = {l \in Labels : Deviates(val, perturbed[l])}
    BY <1>2 DEF Judge
  <2>3. UNCHANGED <<cut, share>>
    BY <1>2 DEF Judge
  <2> QED BY <2>1, <2>2, <2>3 DEF ValidInv
<1>3. CASE UNCHANGED vvars
  BY <1>3 DEF ValidInv, vvars
<1> QED BY <1>1, <1>2, <1>3 DEF VNext

\* Walk-forward validation, for any data, shares, performances and thresholds: no part
\* is empty that is to have a tenth of the rows, verdicts follow the performances
\* whatever their signs, and stable means close (walk_forward.py:220-521).
THEOREM ValidationIsSound == VSpec => []ValidationSound
<1>1. VInit => ValidInv
  BY ValidInitially
<1>2. ValidInv /\ [VNext]_vvars => ValidInv'
  BY ValidStep
<1>3. ValidInv => ValidationSound
  BY PartsHoldSomething, VerdictsFollow, StableIsClose DEF ValidationSound
<1> QED BY <1>1, <1>2, <1>3, PTL DEF VSpec

-----------------------------------------------------------------------------
(* The trend strategy.                                                     *)

BarsSeen == 1..TBars
ReturnPairs == BarsSeen \X BarsSeen
LastBarRec == [bar : 0..TBars, zero : BOOLEAN]
SignalRec == [symbol : TSymbols, action : {"buy", "sell"}, quantity : Int, bar : BarsSeen]

TrendTypes ==
  /\ now \in [TSymbols -> 0..TBars] /\ held \in [TSymbols -> 0..(Lookback + 1)]
  /\ scored \in [TSymbols -> Seq(BarsSeen)] /\ returns \in [TSymbols -> Seq(ReturnPairs)]
  /\ lastBar \in [TSymbols -> LastBarRec]
  /\ icBars \in Nat /\ lastUpdate \in Int /\ norm \in 0..WindowSize
  /\ owned \in [TSymbols -> Int] /\ flying \subseteq SignalRec
  /\ initialized \in BOOLEAN

\* What a symbol's signals under way are, while none has met another.
OneFlies(s) ==
  /\ owned[s] \in Sizes \union {0}
  /\ \A f \in Side(s) : IF f.action = "buy" THEN owned[s] = 0 /\ f.quantity \in Sizes
                        ELSE f.quantity = owned[s]
  /\ \A f, g \in Side(s) : f = g

\* What the histories of a symbol are to each other: bounded, with one return for
\* each score but the prior while no price is zero...
Counted(s) ==
  /\ Len(scored[s]) <= MaxHistory /\ Len(returns[s]) <= MaxHistory
  /\ "zero" \notin snags => /\ ~lastBar[s].zero
                            /\ lastBar[s] = NoBar => scored[s] = <<>>
                            /\ Len(returns[s]) >= Len(scored[s]) - 1

\* ...and, until the histories are full, the one that leads away from its bar.
Leads(sc, rt, prior) ==
  /\ sc = <<>> => rt = <<>> /\ prior = NoBar
  /\ sc # <<>> => /\ Len(rt) = Len(sc) - 1
                  /\ prior.bar = sc[Len(sc)]
  /\ \A i \in 1..Len(rt) : i <= Len(sc) /\ rt[i][1] = sc[i]

TrendInv ==
  /\ TrendTypes
  /\ "late" \notin snags => \A s \in TSymbols : OneFlies(s)
  /\ \A s \in TSymbols : Counted(s)
  /\ snags \intersect {"zero", "full"} = {} =>
       /\ \A s \in TSymbols : Leads(scored[s], returns[s], lastBar[s])
       /\ Aligned(weights)
  /\ WeightsHaveData
  /\ WeightsAreFresh

-----------------------------------------------------------------------------
(* The histories.                                                          *)

LEMMA TrimIs ==
  ASSUME NEW S, NEW s \in Seq(S), Len(s) <= MaxHistory + 1
  PROVE  /\ Trim(s) \in Seq(S)
         /\ Len(Trim(s)) = IF Len(s) = MaxHistory + 1 THEN MaxHistory ELSE Len(s)
         /\ Len(s) <= MaxHistory => Trim(s) = s
<1>1. MaxHistory \in Nat
  BY TrendAssumption DEF MaxHistory
<1> Len(s) \in Nat
  BY LenProperties
<1>2. CASE Len(s) > MaxHistory
  <2>1. s # <<>>
    BY <1>1, <1>2
  <2>2. Tail(s) \in Seq(S) /\ Len(Tail(s)) = Len(s) - 1
    BY <2>1, HeadTailProperties
  <2>3. Trim(s) = Tail(s)
    BY <1>2 DEF Trim
  <2>4. Len(s) = MaxHistory + 1
    BY <1>1, <1>2
  <2>5. Len(Tail(s)) = MaxHistory
    BY <1>1, <2>2, <2>4
  <2> QED BY <1>2, <2>2, <2>3, <2>4, <2>5
<1>3. CASE ~(Len(s) > MaxHistory)
  <2>1. Trim(s) = s
    BY <1>3 DEF Trim
  <2> QED BY <1>1, <1>3, <2>1
<1> QED BY <1>2, <1>3

\* A bar is entered in a history.
LEMMA EnterIs ==
  ASSUME NEW S, NEW s \in Seq(S), NEW e \in S, Len(s) <= MaxHistory
  PROVE  /\ Trim(Append(s, e)) \in Seq(S)
         /\ Len(Trim(Append(s, e))) <= MaxHistory
         /\ Len(Trim(Append(s, e))) = IF Len(s) = MaxHistory THEN MaxHistory ELSE Len(s) + 1
         /\ Len(s) < MaxHistory => Trim(Append(s, e)) = Append(s, e)
<1>1. MaxHistory \in Nat
  BY TrendAssumption DEF MaxHistory
<1>2. Append(s, e) \in Seq(S) /\ Len(Append(s, e)) = Len(s) + 1
  BY AppendProperties
<1>3. Len(s) \in Nat
  BY LenProperties
<1> DEFINE t == Append(s, e)
<1>4. t \in Seq(S) /\ Len(t) <= MaxHistory + 1
  BY <1>1, <1>2, <1>3
<1> HIDE DEF t
<1>5. /\ Trim(t) \in Seq(S)
      /\ Len(Trim(t)) = IF Len(t) = MaxHistory + 1 THEN MaxHistory ELSE Len(t)
      /\ Len(t) <= MaxHistory => Trim(t) = t
  BY <1>4, TrimIs
<1>6. Len(t) = Len(s) + 1 /\ t = Append(s, e)
  BY <1>2 DEF t
<1>7. CASE Len(s) = MaxHistory
  <2>1. Len(t) = MaxHistory + 1
    BY <1>6, <1>7
  <2> QED BY <1>1, <1>5, <1>6, <1>7, <2>1
<1>8. CASE Len(s) < MaxHistory
  <2>1. Len(t) <= MaxHistory /\ Len(t) # MaxHistory + 1
    BY <1>1, <1>3, <1>6, <1>8
  <2> QED BY <1>1, <1>5, <1>6, <1>8, <2>1
<1> QED BY <1>1, <1>3, <1>7, <1>8

\* As long as nothing is trimmed, the next score gets the return that led to it.
LEMMA LeadsOn ==
  ASSUME NEW sc \in Seq(BarsSeen), NEW rt \in Seq(ReturnPairs), NEW prior \in LastBarRec,
         NEW n \in BarsSeen, NEW zero \in BOOLEAN,
         Leads(sc, rt, prior), ~prior.zero
  PROVE  Leads(Append(sc, n), IF prior = NoBar THEN rt ELSE Append(rt, <<prior.bar, n>>),
               [bar |-> n, zero |-> zero])
<1> DEFINE more == Append(sc, n)
           then == Append(rt, <<prior.bar, n>>)
           next == [bar |-> n, zero |-> zero]
<1>1. /\ more \in Seq(BarsSeen) /\ Len(more) = Len(sc) + 1 /\ more # <<>>
      /\ more[Len(more)] = n /\ \A i \in 1..Len(sc) : more[i] = sc[i]
  BY AppendProperties
<1>2. Len(sc) \in Nat /\ Len(rt) \in Nat
  BY LenProperties
<1>3. next.bar = n
  OBVIOUS
<1>4. CASE prior = NoBar
  <2>1. sc = <<>>
    <3> SUFFICES ASSUME sc # <<>> PROVE FALSE
      OBVIOUS
    <3>1. Len(sc) \in 1..Len(sc)
      BY <1>2, EmptySeq
    <3>2. sc[Len(sc)] \in BarsSeen
      BY <3>1, ElementOfSeq
    <3>3. prior.bar = 0
      BY <1>4 DEF NoBar
    <3> QED BY <3>2, <3>3 DEF Leads, BarsSeen
  <2>2. rt = <<>> /\ Len(rt) = 0 /\ Len(sc) = 0
    BY <2>1 DEF Leads
  <2> QED BY <1>1, <1>3, <1>4, <2>2 DEF Leads
<1>5. CASE prior # NoBar
  <2>1. sc # <<>> /\ Len(rt) = Len(sc) - 1 /\ prior.bar = sc[Len(sc)]
    BY <1>5 DEF Leads
  <2>2. Len(sc) \in 1..Len(sc)
    BY <2>1, <1>2, EmptySeq
  <2>3. prior.bar \in BarsSeen
    BY <2>1, <2>2, ElementOfSeq
  <2>4. <<prior.bar, n>> \in ReturnPairs /\ <<prior.bar, n>>[1] = prior.bar
    BY <2>3 DEF ReturnPairs
  <2>5. /\ Len(then) = Len(rt) + 1 /\ then[Len(then)] = <<prior.bar, n>>
        /\ \A i \in 1..Len(rt) : then[i] = rt[i]
    BY <2>4, AppendProperties
  <2>6. ASSUME NEW i \in 1..Len(then)
        PROVE  i <= Len(more) /\ then[i][1] = more[i]
    <3>1. CASE i \in 1..Len(rt)
      <4>1. then[i] = rt[i] /\ rt[i][1] = sc[i] /\ i \in 1..Len(sc)
        BY <2>5, <3>1, <1>2 DEF Leads
      <4>2. more[i] = sc[i]
        BY <4>1, <1>1
      <4> QED BY <4>1, <4>2, <1>1, <1>2
    <3>2. CASE i = Len(then)
      <4>1. then[i][1] = prior.bar /\ i = Len(sc)
        BY <2>1, <2>4, <2>5, <3>2, <1>2
      <4>2. more[i] = sc[i]
        BY <4>1, <1>1, <2>2
      <4> QED BY <4>1, <4>2, <1>1, <2>1, <1>2
    <3> QED BY <3>1, <3>2, <2>5, <1>2
  <2> HIDE DEF more, then, next
  <2>7. Leads(more, then, next)
    BY <1>1, <1>2, <1>3, <2>1, <2>5, <2>6 DEF Leads
  <2> QED BY <1>5, <2>7 DEF more, then, next
<1> QED BY <1>4, <1>5

\* Weights that a recomputation takes from such histories lie in their past.
LEMMA PairsAlign ==
  ASSUME NEW sc \in Seq(BarsSeen), NEW rt \in Seq(ReturnPairs), NEW prior,
         Leads(sc, rt, prior), Enough(sc, rt)
  PROVE  Aligned(Pairs(sc, rt))
<1> SUFFICES ASSUME NEW i \in Windows(MinLen(sc, rt) - 1)
             PROVE  <<sc[i], rt[i]>>[2][1] = <<sc[i], rt[i]>>[1]
  BY DEF Pairs, Aligned
<1>1. Len(sc) \in Nat /\ Len(rt) \in Nat
  BY LenProperties
<1>2. ICLookback \in Nat /\ ICPeriods \in Nat
  BY TrendAssumption
<1>3. MinLen(sc, rt) \in Int /\ MinLen(sc, rt) <= Len(rt) + 1
  BY <1>1 DEF MinLen, SmallerOf
<1>4. i \in 1..Len(rt)
  BY <1>1, <1>2, <1>3 DEF Windows, Enough
<1> QED BY <1>4 DEF Leads

-----------------------------------------------------------------------------
(* A scored bar.                                                           *)

\* The bar of a symbol is scored: its histories, the weights and the snags.
Scores(s, zero) ==
  /\ now'[s] \in BarsSeen
  /\ ICWeights(s, zero)
  /\ snags' = snags \union (IF zero THEN {"zero"} ELSE {})
       \union (IF Len(scored[s]) = MaxHistory THEN {"full"} ELSE {})
       \union (IF Side(s) # {} THEN {"late"} ELSE {})

\* What a scored bar of s does to the histories.
HistoriesGrow(s) ==
  /\ scored' \in [TSymbols -> Seq(BarsSeen)] /\ returns' \in [TSymbols -> Seq(ReturnPairs)]
  /\ lastBar' \in [TSymbols -> LastBarRec]
  /\ \A t \in TSymbols \ {s} : /\ scored'[t] = scored[t] /\ returns'[t] = returns[t]
                               /\ lastBar'[t] = lastBar[t]
  /\ Len(scored'[s]) >= Len(scored[s]) /\ Len(returns'[s]) >= Len(returns[s])

LEMMA SnagsGrow ==
  ASSUME NEW s \in TSymbols, NEW zero \in BOOLEAN, Scores(s, zero)
  PROVE  /\ "zero" \notin snags' => "zero" \notin snags /\ zero = FALSE
         /\ snags' \intersect {"zero", "full"} = {} =>
              snags \intersect {"zero", "full"} = {} /\ Len(scored[s]) # MaxHistory
         /\ "late" \notin snags' => "late" \notin snags /\ Side(s) = {}
<1>1. snags' = snags \union (IF zero THEN {"zero"} ELSE {})
       \union (IF Len(scored[s]) = MaxHistory THEN {"full"} ELSE {})
       \union (IF Side(s) # {} THEN {"late"} ELSE {})
  BY DEF Scores
<1> QED BY <1>1, Zenon

LEMMA ScoredHistories ==
  ASSUME TrendInv, NEW s \in TSymbols, NEW zero \in BOOLEAN, Scores(s, zero)
  PROVE  /\ HistoriesGrow(s)
         /\ Counted(s)'
         /\ snags' \intersect {"zero", "full"} = {} =>
              Leads(scored'[s], returns'[s], lastBar'[s])
<1>1. PICK sc \in Seq(BarsSeen) : sc = scored[s]
  BY DEF TrendInv, TrendTypes
<1>2. PICK rt \in Seq(ReturnPairs) : rt = returns[s]
  BY DEF TrendInv, TrendTypes
<1>3. PICK prior \in LastBarRec : prior = lastBar[s]
  BY DEF TrendInv, TrendTypes
<1>4. PICK n \in BarsSeen : n = now'[s]
  BY DEF Scores
<1>5. /\ Len(sc) <= MaxHistory /\ Len(rt) <= MaxHistory
      /\ "zero" \notin snags => ~prior.zero /\ (prior = NoBar => sc = <<>>) /\ Len(rt) >= Len(sc) - 1
  BY <1>1, <1>2, <1>3 DEF TrendInv, Counted
<1>6. MaxHistory \in Nat /\ Len(sc) \in Nat /\ Len(rt) \in Nat
  BY LenProperties, TrendAssumption DEF MaxHistory
<1> DEFINE sc2 == Trim(Append(sc, n))
           rt2 == Trim(IF prior = NoBar \/ prior.zero THEN rt ELSE Append(rt, <<prior.bar, n>>))
           bar2 == [bar |-> n, zero |-> zero]
<1>7. /\ scored' = [scored EXCEPT ![s] = sc2]
      /\ returns' = [returns EXCEPT ![s] = rt2]
      /\ lastBar' = [lastBar EXCEPT ![s] = bar2]
  BY <1>1, <1>2, <1>3, <1>4 DEF Scores, ICWeights
<1>8. /\ sc2 \in Seq(BarsSeen) /\ Len(sc2) <= MaxHistory
      /\ Len(sc2) = IF Len(sc) = MaxHistory THEN MaxHistory ELSE Len(sc) + 1
      /\ Len(sc) < MaxHistory => sc2 = Append(sc, n)
  BY <1>5, EnterIs
<1>9. bar2 \in LastBarRec /\ bar2.zero = zero /\ bar2 # NoBar
  BY DEF LastBarRec, BarsSeen, NoBar
<1>10. CASE prior = NoBar \/ prior.zero
  <2>1. rt2 = Trim(rt)
    BY <1>10
  <2>2. Len(rt) <= MaxHistory + 1 /\ Len(rt) # MaxHistory + 1
    BY <1>5, <1>6
  <2>3. Trim(rt) = rt
    BY <2>2, <1>5, TrimIs
  <2> QED
    <3>1. rt2 = rt
      BY <2>1, <2>3
    <3>2. "zero" \notin snags => prior = NoBar /\ sc = <<>> /\ Len(sc) = 0
      BY <1>5, <1>10
    <3> HIDE DEF sc2, rt2, bar2
    <3>3. /\ rt2 \in Seq(ReturnPairs) /\ Len(rt2) <= MaxHistory /\ Len(rt2) >= Len(rt)
          /\ "zero" \notin snags => Len(rt2) >= Len(sc2) - 1
      BY <3>1, <3>2, <1>5, <1>6, <1>8
    <3>4. /\ scored'[s] = sc2 /\ returns'[s] = rt2 /\ lastBar'[s] = bar2
          /\ scored' \in [TSymbols -> Seq(BarsSeen)] /\ returns' \in [TSymbols -> Seq(ReturnPairs)]
          /\ lastBar' \in [TSymbols -> LastBarRec]
          /\ \A t \in TSymbols \ {s} : /\ scored'[t] = scored[t] /\ returns'[t] = returns[t]
                                       /\ lastBar'[t] = lastBar[t]
      BY <1>7, <1>8, <1>9, <3>3 DEF TrendInv, TrendTypes
    <3>5. HistoriesGrow(s)
      BY <3>3, <3>4, <1>1, <1>2, <1>6, <1>8 DEF HistoriesGrow
    <3>6. Counted(s)'
      BY <3>3, <3>4, <1>8, <1>9, SnagsGrow DEF Counted
    <3>7. ASSUME snags' \intersect {"zero", "full"} = {}
          PROVE  Leads(sc2, rt2, bar2)
      <4>1. snags \intersect {"zero", "full"} = {} /\ Len(sc) # MaxHistory
        BY <3>7, <1>1, SnagsGrow
      <4>2. "zero" \notin snags /\ prior = NoBar /\ ~prior.zero
        BY <4>1, <3>2, <1>5
      <4>3. Leads(sc, rt, prior)
        BY <4>1, <1>1, <1>2, <1>3 DEF TrendInv
      <4>4. Leads(Append(sc, n), rt, [bar |-> n, zero |-> zero])
        BY <4>2, <4>3, LeadsOn
      <4>5. sc2 = Append(sc, n)
        BY <4>1, <1>5, <1>6, <1>8
      <4>6. bar2 = [bar |-> n, zero |-> zero]
        BY DEF bar2
      <4> QED BY <4>4, <4>5, <4>6, <3>1, Zenon
    <3> QED BY <3>4, <3>5, <3>6, <3>7
<1>11. CASE prior # NoBar /\ ~prior.zero
  <2>1. rt2 = Trim(Append(rt, <<prior.bar, n>>))
    BY <1>11
  <2>2. prior.bar \in BarsSeen
    BY <1>11 DEF LastBarRec, NoBar, BarsSeen
  <2>3. PICK e \in ReturnPairs : e = <<prior.bar, n>>
    BY <2>2 DEF ReturnPairs
  <2>4. /\ rt2 \in Seq(ReturnPairs) /\ Len(rt2) <= MaxHistory
        /\ Len(rt2) = IF Len(rt) = MaxHistory THEN MaxHistory ELSE Len(rt) + 1
        /\ Len(rt) < MaxHistory => rt2 = Append(rt, <<prior.bar, n>>)
    <3>1. /\ Trim(Append(rt, e)) \in Seq(ReturnPairs)
          /\ Len(Trim(Append(rt, e))) <= MaxHistory
          /\ Len(Trim(Append(rt, e))) = IF Len(rt) = MaxHistory THEN MaxHistory ELSE Len(rt) + 1
          /\ Len(rt) < MaxHistory => Trim(Append(rt, e)) = Append(rt, e)
      BY <1>5, EnterIs
    <3>2. rt2 = Trim(Append(rt, e))
      BY <2>1, <2>3
    <3> HIDE DEF rt2
    <3> QED BY <3>1, <3>2, <2>3
  <2> HIDE DEF sc2, rt2, bar2
  <2>5. Len(rt2) >= Len(rt) /\ ("zero" \notin snags => Len(rt2) >= Len(sc2) - 1)
    BY <2>4, <1>5, <1>6, <1>8
  <2>6. /\ scored'[s] = sc2 /\ returns'[s] = rt2 /\ lastBar'[s] = bar2
        /\ scored' \in [TSymbols -> Seq(BarsSeen)] /\ returns' \in [TSymbols -> Seq(ReturnPairs)]
        /\ lastBar' \in [TSymbols -> LastBarRec]
        /\ \A t \in TSymbols \ {s} : /\ scored'[t] = scored[t] /\ returns'[t] = returns[t]
                                     /\ lastBar'[t] = lastBar[t]
    BY <1>7, <1>8, <1>9, <2>4 DEF TrendInv, TrendTypes
  <2>7. HistoriesGrow(s)
    BY <2>5, <2>6, <1>1, <1>2, <1>6, <1>8 DEF HistoriesGrow
  <2>8. Counted(s)'
    BY <2>4, <2>5, <2>6, <1>8, <1>9, SnagsGrow DEF Counted
  <2>9. ASSUME snags' \intersect {"zero", "full"} = {}
        PROVE  Leads(sc2, rt2, bar2)
    <3>1. snags \intersect {"zero", "full"} = {} /\ Len(sc) # MaxHistory
      BY <2>9, <1>1, SnagsGrow
    <3>2. Leads(sc, rt, prior)
      BY <3>1, <1>1, <1>2, <1>3 DEF TrendInv
    <3>3. Leads(Append(sc, n), Append(rt, <<prior.bar, n>>), [bar |-> n, zero |-> zero])
      BY <1>11, <3>2, LeadsOn
    <3>4. Len(rt) < MaxHistory
      <4>1. CASE sc = <<>>
        <5>1. Len(rt) = 0 /\ Len(sc) = 0
          BY <4>1, <3>2 DEF Leads
        <5> QED BY <5>1, <3>1, <1>5, <1>6
      <4>2. CASE sc # <<>>
        <5>1. Len(rt) = Len(sc) - 1
          BY <4>2, <3>2 DEF Leads
        <5> QED BY <5>1, <1>5, <1>6
      <4> QED BY <4>1, <4>2
    <3>5. sc2 = Append(sc, n) /\ rt2 = Append(rt, <<prior.bar, n>>)
      BY <3>1, <3>4, <2>4, <1>5, <1>6, <1>8
    <3>6. bar2 = [bar |-> n, zero |-> zero]
      BY DEF bar2
    <3> QED BY <3>3, <3>5, <3>6, Zenon
  <2> QED BY <2>6, <2>7, <2>8, <2>9
<1> QED BY <1>10, <1>11

LEMMA EnoughKeeps ==
  ASSUME NEW sc \in Seq(BarsSeen), NEW rt \in Seq(ReturnPairs),
         NEW sc2 \in Seq(BarsSeen), NEW rt2 \in Seq(ReturnPairs),
         Len(sc2) >= Len(sc), Len(rt2) >= Len(rt), Enough(sc, rt)
  PROVE  Enough(sc2, rt2)
<1>1. /\ Len(sc) \in Nat /\ Len(rt) \in Nat /\ Len(sc2) \in Nat /\ Len(rt2) \in Nat
      /\ ICLookback \in Nat /\ ICPeriods \in Nat
  BY LenProperties, TrendAssumption
<1> QED BY <1>1 DEF Enough, MinLen, SmallerOf

\* Until a price is zero there is a return for each score but the last, so that
\* enough scores are enough pairs.
LEMMA ScoresSuffice ==
  ASSUME NEW sc \in Seq(BarsSeen), NEW rt \in Seq(ReturnPairs),
         Len(rt) >= Len(sc) - 1, Len(sc) >= ICLookback + ICPeriods
  PROVE  Enough(sc, rt)
<1>1. /\ Len(sc) \in Nat /\ Len(rt) \in Nat
      /\ ICLookback \in Nat /\ ICPeriods \in Nat
  BY LenProperties, TrendAssumption
<1> QED BY <1>1 DEF Enough, MinLen, SmallerOf

\* The weights are left alone, or they are due and computed where there is data.
WeightsMove ==
  /\ icBars' = icBars + 1
  /\ \/ /\ lastUpdate # -1 /\ ~Due /\ initialized
        /\ UNCHANGED <<lastUpdate, weights, initialized>>
     \/ /\ lastUpdate' = icBars'
        /\ IF \E t \in TSymbols : Enough(scored'[t], returns'[t])
           THEN weights' = Recomputed(scored', returns') /\ initialized' = TRUE
           ELSE UNCHANGED <<weights, initialized>>

LEMMA AgeIs ==
  ASSUME NEW i \in Nat, NEW u \in Int, u = i \/ ~(i - u >= Interval)
  PROVE  i - u < Interval
<1>1. Interval \in Nat /\ Interval > 0
  BY TrendAssumption
<1> QED BY <1>1

LEMMA WeightsFollow ==
  ASSUME TrendInv, NEW s \in TSymbols, HistoriesGrow(s), WeightsMove,
         \A t \in TSymbols : Counted(t)',
         snags \subseteq snags',
         snags' \intersect {"zero", "full"} = {} =>
           \A t \in TSymbols : Leads(scored'[t], returns'[t], lastBar'[t])
  PROVE  /\ icBars' \in Nat /\ lastUpdate' \in Int /\ initialized' \in BOOLEAN
         /\ snags' \intersect {"zero", "full"} = {} => Aligned(weights')
         /\ WeightsHaveData'
         /\ WeightsAreFresh'
<1>0. icBars \in Nat /\ lastUpdate \in Int /\ initialized \in BOOLEAN
  BY DEF TrendInv, TrendTypes
<1>01. icBars' = icBars + 1
  BY DEF WeightsMove
<1>02. icBars' \in Nat
  BY <1>0, <1>01
<1>03. lastUpdate' = lastUpdate \/ lastUpdate' = icBars'
  BY DEF WeightsMove
<1>04. lastUpdate' \in Int
  BY <1>0, <1>02, <1>03
<1>05. initialized' \in BOOLEAN
  BY <1>0, Zenon DEF WeightsMove
<1>1. icBars' \in Nat /\ lastUpdate' \in Int /\ initialized' \in BOOLEAN
  BY <1>02, <1>04, <1>05
<1>2. ASSUME NEW t \in TSymbols
      PROVE  /\ scored[t] \in Seq(BarsSeen) /\ returns[t] \in Seq(ReturnPairs)
             /\ scored'[t] \in Seq(BarsSeen) /\ returns'[t] \in Seq(ReturnPairs)
  BY DEF TrendInv, TrendTypes, HistoriesGrow
<1>3. ASSUME NEW t \in TSymbols, Enough(scored[t], returns[t])
      PROVE  Enough(scored'[t], returns'[t])
  <2>1. CASE t = s
    <3>1. PICK sc \in Seq(BarsSeen) : sc = scored[t]
      BY <1>2
    <3>2. PICK rt \in Seq(ReturnPairs) : rt = returns[t]
      BY <1>2
    <3>3. PICK sc2 \in Seq(BarsSeen) : sc2 = scored'[t]
      BY <1>2
    <3>4. PICK rt2 \in Seq(ReturnPairs) : rt2 = returns'[t]
      BY <1>2
    <3>5. Len(sc2) >= Len(sc) /\ Len(rt2) >= Len(rt) /\ Enough(sc, rt)
      BY <1>3, <2>1, <3>1, <3>2, <3>3, <3>4 DEF HistoriesGrow
    <3> QED BY <3>3, <3>4, <3>5, EnoughKeeps
  <2>2. CASE t # s
    BY <1>3, <2>2 DEF HistoriesGrow
  <2> QED BY <2>1, <2>2
<1>4. ASSUME initialized
      PROVE  \E t \in TSymbols : Enough(scored'[t], returns'[t])
  BY <1>3, <1>4 DEF TrendInv, WeightsHaveData
<1>5. WeightsHaveData'
  <2> SUFFICES ASSUME initialized' PROVE \E t \in TSymbols : Enough(scored'[t], returns'[t])
    BY DEF WeightsHaveData
  <2> QED BY <1>4 DEF WeightsMove
<1>6. ASSUME snags' \intersect {"zero", "full"} = {}
      PROVE  Aligned(weights')
  <2>1. Aligned(weights)
    BY <1>6 DEF TrendInv
  <2>2. ASSUME NEW t \in TSymbols, Enough(scored'[t], returns'[t])
        PROVE  Aligned(Pairs(scored'[t], returns'[t]))
    <3>1. PICK sc2 \in Seq(BarsSeen) : sc2 = scored'[t]
      BY <1>2
    <3>2. PICK rt2 \in Seq(ReturnPairs) : rt2 = returns'[t]
      BY <1>2
    <3>3. PICK b2 : b2 = lastBar'[t]
      OBVIOUS
    <3>4. Leads(sc2, rt2, b2) /\ Enough(sc2, rt2)
      BY <1>6, <2>2, <3>1, <3>2, <3>3
    <3>5. Aligned(Pairs(sc2, rt2))
      BY <3>4, PairsAlign
    <3> QED BY <3>1, <3>2, <3>5
  <2>3. Aligned(Recomputed(scored', returns'))
    BY <2>2 DEF Recomputed, Aligned
  <2> QED BY <2>1, <2>3 DEF WeightsMove
<1>7. ASSUME "zero" \notin snags', NEW t \in TSymbols,
             Len(scored'[t]) >= ICLookback + ICPeriods
      PROVE  initialized'
  <2>1. PICK sc2 \in Seq(BarsSeen) : sc2 = scored'[t]
    BY <1>2
  <2>2. PICK rt2 \in Seq(ReturnPairs) : rt2 = returns'[t]
    BY <1>2
  <2>3. Len(rt2) >= Len(sc2) - 1 /\ Len(sc2) >= ICLookback + ICPeriods
    BY <1>7, <2>1, <2>2 DEF Counted
  <2>4. Enough(sc2, rt2)
    BY <2>3, ScoresSuffice
  <2> QED BY <2>1, <2>2, <2>4 DEF WeightsMove
<1>8. ASSUME initialized'
      PROVE  icBars' - lastUpdate' < Interval
  <2>1. lastUpdate' = icBars' \/ ~(icBars' - lastUpdate' >= Interval)
    BY DEF WeightsMove, Due
  <2> QED BY <2>1, <1>02, <1>04, AgeIs
<1>9. WeightsAreFresh'
  <2>1. snags' \intersect {"zero"} = {} => "zero" \notin snags'
    OBVIOUS
  <2> QED BY <1>7, <1>8, <2>1 DEF WeightsAreFresh
<1> QED BY <1>1, <1>5, <1>6, <1>9

-----------------------------------------------------------------------------
(* The signals.                                                            *)

LEMMA SignalsKeepOne ==
  ASSUME TrendInv, NEW s \in TSymbols, now'[s] \in BarsSeen, Signals(s), UNCHANGED owned,
         "late" \notin snags' => "late" \notin snags /\ Side(s) = {}
  PROVE  /\ flying' \subseteq SignalRec
         /\ "late" \notin snags' => \A t \in TSymbols : OneFlies(t)'
<1>1. \A q \in Sizes : q \in Int /\ q > 0
  BY TrendAssumption
<1>2. owned[s] \in Int /\ flying \subseteq SignalRec
  BY DEF TrendInv, TrendTypes
<1>3. PICK new :
        /\ flying' \in {flying, flying \union {new}}
        /\ new \in SignalRec /\ new.symbol = s
        /\ IF new.action = "buy" THEN owned[s] = 0 /\ new.quantity \in Sizes
                                 ELSE new.quantity = owned[s]
  <2>1. CASE \E q \in Sizes :
               /\ Flat(s)
               /\ flying' = flying \union {[symbol |-> s, action |-> "buy", quantity |-> q, bar |-> now'[s]]}
    <3>1. PICK q \in Sizes :
               /\ Flat(s)
               /\ flying' = flying \union {[symbol |-> s, action |-> "buy", quantity |-> q, bar |-> now'[s]]}
      BY <2>1
    <3>2. PICK b \in BarsSeen : b = now'[s]
      OBVIOUS
    <3>3. PICK new : new = [symbol |-> s, action |-> "buy", quantity |-> q, bar |-> b]
      OBVIOUS
    <3>4. new \in SignalRec /\ new.symbol = s /\ new.action = "buy" /\ new.quantity = q
      BY <3>3, <1>1 DEF SignalRec
    <3> QED BY <3>1, <3>2, <3>3, <3>4 DEF Flat
  <2>2. CASE flying' = flying \union {[symbol |-> s, action |-> "sell",
                                       quantity |-> ExitQuantity(s), bar |-> now'[s]]}
    <3>1. PICK b \in BarsSeen : b = now'[s]
      OBVIOUS
    <3>2. PICK new : new = [symbol |-> s, action |-> "sell", quantity |-> owned[s], bar |-> b]
      OBVIOUS
    <3>3. new \in SignalRec /\ new.symbol = s /\ new.action = "sell" /\ new.quantity = owned[s]
      BY <3>2, <1>2 DEF SignalRec
    <3>4. flying' = flying \union {new}
      BY <2>2, <3>1, <3>2 DEF ExitQuantity
    <3> QED BY <3>3, <3>4
  <2>3. CASE UNCHANGED flying
    <3>1. PICK b \in BarsSeen : b = now'[s]
      OBVIOUS
    <3>2. PICK new : new = [symbol |-> s, action |-> "sell", quantity |-> owned[s], bar |-> b]
      OBVIOUS
    <3>3. new \in SignalRec /\ new.symbol = s /\ new.action = "sell" /\ new.quantity = owned[s]
      BY <3>2, <1>2 DEF SignalRec
    <3> QED BY <2>3, <3>3
  <2> QED BY <2>1, <2>2, <2>3 DEF Signals
<1>4. flying' \subseteq SignalRec
  BY <1>2, <1>3
<1>5. ASSUME "late" \notin snags', NEW t \in TSymbols
      PROVE  OneFlies(t)'
  <2>1. OneFlies(t) /\ Side(s) = {}
    BY <1>5 DEF TrendInv
  <2>2. Side(t)' = {f \in flying' : f.symbol = t}
    BY DEF Side
  <2>3. CASE t = s
    <3>1. Side(t)' \subseteq {new}
      BY <1>3, <2>1, <2>2, <2>3 DEF Side
    <3> QED BY <1>3, <2>1, <2>3, <3>1 DEF OneFlies
  <2>4. CASE t # s
    <3>1. Side(t)' = Side(t)
      BY <1>3, <2>2, <2>4 DEF Side
    <3> QED BY <2>1, <3>1 DEF OneFlies
  <2> QED BY <2>3, <2>4
<1> QED BY <1>4, <1>5

-----------------------------------------------------------------------------
(* The strategy's steps.                                                   *)

\* A bar that is not scored, or scored with its histories, weights and signals.
LEMMA TrendBar ==
  ASSUME TrendInv, NEW s \in TSymbols, OnMarketData(s)
  PROVE  TrendInv'
<1>1. now[s] \in 0..TBars /\ now[s] < TBars /\ TBars \in Nat /\ Lookback \in Nat
  BY TrendAssumption DEF TrendInv, TrendTypes, OnMarketData
<1>2. now' \in [TSymbols -> 0..TBars] /\ now'[s] \in BarsSeen
  BY <1>1 DEF TrendInv, TrendTypes, OnMarketData, BarsSeen
<1>3. held' \in [TSymbols -> 0..(Lookback + 1)]
  <2>1. held[s] \in 0..(Lookback + 1)
    BY DEF TrendInv, TrendTypes
  <2>2. SmallerOf(held[s] + 1, Lookback + 1) \in 0..(Lookback + 1)
    BY <1>1, <2>1 DEF SmallerOf
  <2> QED BY <2>2 DEF TrendInv, TrendTypes, OnMarketData
<1>4. UNCHANGED <<owned, starts>> /\ owned \in [TSymbols -> Int]
  BY DEF OnMarketData, TrendInv, TrendTypes
<1>5. CASE UNCHANGED <<scored, returns, lastBar, icBars, lastUpdate, initialized,
                       weights, norm, flying, snags>>
  <2>1. TrendTypes'
    BY <1>2, <1>3, <1>4, <1>5 DEF TrendInv, TrendTypes
  <2>2. /\ WeightsHaveData' /\ WeightsAreFresh'
        /\ \A t \in TSymbols : Counted(t)'
    BY <1>5 DEF TrendInv, WeightsHaveData, WeightsAreFresh, Counted
  <2>3. "late" \notin snags' => \A t \in TSymbols : OneFlies(t)'
    BY <1>4, <1>5 DEF TrendInv, OneFlies, Side
  <2>4. snags' \intersect {"zero", "full"} = {} =>
          /\ \A t \in TSymbols : Leads(scored[t], returns[t], lastBar[t])'
          /\ Aligned(weights)'
    BY <1>5 DEF TrendInv
  <2> QED BY <2>1, <2>2, <2>3, <2>4 DEF TrendInv
<1>6. CASE \E zero \in BOOLEAN :
             Scores(s, zero) /\ Signals(s) /\ norm' = SmallerOf(norm + 1, WindowSize)
  <2>1. PICK zero \in BOOLEAN :
             Scores(s, zero) /\ Signals(s) /\ norm' = SmallerOf(norm + 1, WindowSize)
    BY <1>6
  <2>2. /\ HistoriesGrow(s) /\ Counted(s)'
        /\ snags' \intersect {"zero", "full"} = {} =>
             Leads(scored'[s], returns'[s], lastBar'[s])
    BY <2>1, ScoredHistories
  <2>3. /\ "zero" \notin snags' => "zero" \notin snags /\ zero = FALSE
        /\ snags' \intersect {"zero", "full"} = {} =>
             snags \intersect {"zero", "full"} = {} /\ Len(scored[s]) # MaxHistory
        /\ "late" \notin snags' => "late" \notin snags /\ Side(s) = {}
    BY <2>1, SnagsGrow
  <2>4. \A t \in TSymbols : Counted(t)'
    <3> SUFFICES ASSUME NEW t \in TSymbols \ {s} PROVE Counted(t)'
      BY <2>2
    <3>1. scored'[t] = scored[t] /\ returns'[t] = returns[t] /\ lastBar'[t] = lastBar[t]
      BY <2>2 DEF HistoriesGrow
    <3>2. Counted(t)
      BY DEF TrendInv
    <3> QED BY <2>3, <3>1, <3>2 DEF Counted
  <2>5. snags' \intersect {"zero", "full"} = {} =>
          \A t \in TSymbols : Leads(scored'[t], returns'[t], lastBar'[t])
    <3> SUFFICES ASSUME snags' \intersect {"zero", "full"} = {}, NEW t \in TSymbols \ {s}
                 PROVE  Leads(scored'[t], returns'[t], lastBar'[t])
      BY <2>2
    <3>1. scored'[t] = scored[t] /\ returns'[t] = returns[t] /\ lastBar'[t] = lastBar[t]
      BY <2>2 DEF HistoriesGrow
    <3>2. Leads(scored[t], returns[t], lastBar[t])
      BY <2>3 DEF TrendInv
    <3> QED BY <3>1, <3>2
  <2>6. WeightsMove
    BY <2>1, Zenon DEF Scores, ICWeights, WeightsMove
  <2>7. snags \subseteq snags'
    BY <2>1 DEF Scores
  <2>8. /\ icBars' \in Nat /\ lastUpdate' \in Int /\ initialized' \in BOOLEAN
        /\ snags' \intersect {"zero", "full"} = {} => Aligned(weights')
        /\ WeightsHaveData'
        /\ WeightsAreFresh'
    BY <2>2, <2>4, <2>5, <2>6, <2>7, WeightsFollow
  <2>9. norm' \in 0..WindowSize
    <3>1. norm \in 0..WindowSize /\ WindowSize \in Nat
      BY TrendAssumption DEF TrendInv, TrendTypes
    <3> QED BY <2>1, <3>1 DEF SmallerOf
  <2>10. /\ flying' \subseteq SignalRec
         /\ "late" \notin snags' => \A t \in TSymbols : OneFlies(t)'
    BY <2>1, <2>3, <1>2, <1>4, SignalsKeepOne
  <2>11. TrendTypes'
    BY <2>2, <2>8, <2>9, <2>10, <1>2, <1>3, <1>4 DEF TrendTypes, HistoriesGrow
  <2> QED BY <2>4, <2>5, <2>8, <2>10, <2>11 DEF TrendInv
<1> QED
  <2>1. \/ UNCHANGED <<scored, returns, lastBar, icBars, lastUpdate, initialized,
                       weights, norm, flying, snags>>
        \/ /\ norm' = SmallerOf(norm + 1, WindowSize)
           /\ \E zero \in BOOLEAN :
                /\ ICWeights(s, zero)
                /\ snags' = snags \union (IF zero THEN {"zero"} ELSE {})
                     \union (IF Len(scored[s]) = MaxHistory THEN {"full"} ELSE {})
                     \union (IF Side(s) # {} THEN {"late"} ELSE {})
           /\ Signals(s)
    BY Zenon DEF OnMarketData
  <2> QED BY <2>1, <1>2, <1>5, <1>6, Zenon DEF Scores

LEMMA TrendFill ==
  ASSUME TrendInv, NEW f \in flying, SignalFilled(f)
  PROVE  TrendInv'
<1>1. /\ f \in SignalRec /\ f.symbol \in TSymbols /\ f.quantity \in Int
      /\ f.action \in {"buy", "sell"}
  BY DEF TrendInv, TrendTypes, SignalRec
<1>2. owned[f.symbol] \in Int
  BY <1>1 DEF TrendInv, TrendTypes
<1>3. PICK n \in Int : n = IF f.action = "buy" THEN owned[f.symbol] + f.quantity
                                               ELSE owned[f.symbol] - f.quantity
  BY <1>1, <1>2
<1>4. /\ flying' = flying \ {f} /\ owned' = [owned EXCEPT ![f.symbol] = n]
      /\ UNCHANGED <<now, held, scored, returns, lastBar, icBars, lastUpdate, initialized,
                     weights, norm, snags, starts>>
  BY <1>3 DEF SignalFilled
<1>5. TrendTypes'
  BY <1>1, <1>4 DEF TrendInv, TrendTypes
<1>6. ASSUME "late" \notin snags', NEW t \in TSymbols
      PROVE  OneFlies(t)'
  <2>1. OneFlies(t)
    BY <1>4, <1>6 DEF TrendInv
  <2>2. Side(t)' = {g \in flying' : g.symbol = t}
    BY DEF Side
  <2>3. CASE t = f.symbol
    <3>1. f \in Side(t)
      BY <2>3 DEF Side
    <3>2. Side(t)' = {}
      BY <2>1, <2>2, <3>1, <1>4 DEF OneFlies, Side
    <3>3. n \in Sizes \union {0}
      <4>1. \A q \in Sizes : q \in Int
        BY TrendAssumption
      <4> QED BY <1>1, <1>2, <1>3, <2>1, <2>3, <3>1, <4>1 DEF OneFlies
    <3>4. owned'[t] = n
      BY <1>1, <1>4, <2>3 DEF TrendInv, TrendTypes
    <3> QED BY <3>2, <3>3, <3>4 DEF OneFlies
  <2>4. CASE t # f.symbol
    <3>1. Side(t)' = Side(t) /\ owned'[t] = owned[t]
      BY <1>1, <1>4, <2>2, <2>4 DEF Side, TrendInv, TrendTypes
    <3> QED BY <2>1, <3>1 DEF OneFlies
  <2> QED BY <2>3, <2>4
<1>7. /\ WeightsHaveData' /\ WeightsAreFresh'
      /\ \A t \in TSymbols : Counted(t)'
  BY <1>4 DEF TrendInv, WeightsHaveData, WeightsAreFresh, Counted
<1>8. snags' \intersect {"zero", "full"} = {} =>
        /\ \A t \in TSymbols : Leads(scored[t], returns[t], lastBar[t])'
        /\ Aligned(weights)'
  BY <1>4 DEF TrendInv
<1> QED BY <1>5, <1>6, <1>7, <1>8 DEF TrendInv

\* What on_start leaves is what the strategy begins with.
Restarted ==
  /\ held = [s \in TSymbols |-> 0]
  /\ scored = [s \in TSymbols |-> <<>>] /\ returns = [s \in TSymbols |-> <<>>]
  /\ lastBar = [s \in TSymbols |-> NoBar]
  /\ icBars = 0 /\ lastUpdate = -1 /\ initialized = FALSE /\ weights = {}

FreshFacts ==
  /\ held \in [TSymbols -> 0..(Lookback + 1)]
  /\ scored \in [TSymbols -> Seq(BarsSeen)] /\ returns \in [TSymbols -> Seq(ReturnPairs)]
  /\ lastBar \in [TSymbols -> LastBarRec]
  /\ icBars \in Nat /\ lastUpdate \in Int /\ initialized \in BOOLEAN
  /\ \A s \in TSymbols : Counted(s) /\ Leads(scored[s], returns[s], lastBar[s])
  /\ Aligned(weights)
  /\ WeightsHaveData /\ WeightsAreFresh

LEMMA TrendFresh == Restarted => FreshFacts
<1> SUFFICES ASSUME Restarted PROVE FreshFacts
  OBVIOUS
<1> USE DEF Restarted
<1>1. /\ Lookback \in Nat /\ TBars \in Nat /\ MaxHistory \in Nat
      /\ ICLookback \in Nat \ {0} /\ ICPeriods \in Nat
  BY TrendAssumption DEF MaxHistory
<1>2. held \in [TSymbols -> 0..(Lookback + 1)]
  BY <1>1
<1>3. <<>> \in Seq(BarsSeen) /\ <<>> \in Seq(ReturnPairs)
  OBVIOUS
<1>4. scored \in [TSymbols -> Seq(BarsSeen)] /\ returns \in [TSymbols -> Seq(ReturnPairs)]
  BY <1>3
<1>5. NoBar \in LastBarRec /\ NoBar.zero = FALSE
  BY <1>1 DEF NoBar, LastBarRec
<1>6. lastBar \in [TSymbols -> LastBarRec]
  BY <1>5
<1>7. ASSUME NEW s \in TSymbols
      PROVE  Counted(s) /\ Leads(scored[s], returns[s], lastBar[s])
  <2>1. scored[s] = <<>> /\ returns[s] = <<>> /\ lastBar[s] = NoBar /\ Len(<<>>) = 0
    OBVIOUS
  <2>2. Counted(s)
    BY <2>1, <1>1, <1>5 DEF Counted
  <2>3. Leads(<<>>, <<>>, NoBar)
    BY <2>1 DEF Leads
  <2> QED BY <2>1, <2>2, <2>3
<1>8. Aligned(weights)
  BY DEF Aligned
<1>9. WeightsHaveData
  BY DEF WeightsHaveData
<1>10. WeightsAreFresh
  <2>1. ASSUME NEW s \in TSymbols
        PROVE  ~(Len(scored[s]) >= ICLookback + ICPeriods)
    <3>1. scored[s] = <<>> /\ Len(scored[s]) = 0
      OBVIOUS
    <3>2. ICLookback + ICPeriods > 0
      BY <1>1
    <3> HIDE <1>1
    <3> QED BY <1>1, <3>1, <3>2
  <2> QED BY <2>1 DEF WeightsAreFresh
<1>11. icBars \in Nat /\ lastUpdate \in Int
  OBVIOUS
<1>12. initialized \in BOOLEAN
  OBVIOUS
<1> HIDE DEF Restarted
<1> QED BY <1>2, <1>4, <1>6, <1>7, <1>8, <1>9, <1>10, <1>11, <1>12 DEF FreshFacts

LEMMA TrendStart ==
  ASSUME TrendInv, OnStart
  PROVE  TrendInv'
<1>1. Restarted'
  BY DEF OnStart, StartsInitialized, Restarted
<1>2. UNCHANGED <<now, norm, owned, flying, snags>>
  BY DEF OnStart
<1>3. FreshFacts'
  BY <1>1, TrendFresh, PTL
<1>4. TrendTypes'
  BY <1>2, <1>3 DEF TrendInv, TrendTypes, FreshFacts
<1>5. "late" \notin snags' => \A t \in TSymbols : OneFlies(t)'
  BY <1>2 DEF TrendInv, OneFlies, Side
<1> QED BY <1>3, <1>4, <1>5 DEF TrendInv, FreshFacts

LEMMA TrendInitially == TInit => TrendInv
<1> SUFFICES ASSUME TInit PROVE TrendInv
  OBVIOUS
<1>1. FreshFacts
  BY TrendFresh DEF TInit, Restarted
<1>2. /\ now \in [TSymbols -> 0..TBars] /\ norm \in 0..WindowSize
      /\ owned \in [TSymbols -> Int] /\ flying \subseteq SignalRec
  BY TrendAssumption DEF TInit
<1>3. \A s \in TSymbols : OneFlies(s)
  BY DEF TInit, OneFlies, Side
<1> QED BY <1>1, <1>2, <1>3 DEF TrendInv, TrendTypes, FreshFacts

\* The trend strategy has one entry at most under way for a symbol while fills come
\* in time, weighs its factors by pairs that lie in its past until a history is
\* full or a price zero, and over enough data that is not too old
\* (trend_breakout.py).
THEOREM TrendIsSound == TSpec => []TrendSound
<1>1. TrendInv /\ [TNext]_tvars => TrendInv'
  <2> SUFFICES ASSUME TrendInv, [TNext]_tvars PROVE TrendInv'
    OBVIOUS
  <2>1. ASSUME NEW s \in TSymbols, OnMarketData(s) PROVE TrendInv'
    BY <2>1, TrendBar
  <2>2. ASSUME NEW f \in flying, SignalFilled(f) PROVE TrendInv'
    BY <2>2, TrendFill
  <2>3. CASE OnStart
    BY <2>3, TrendStart
  <2>4. CASE UNCHANGED tvars
    <3>1. TrendTypes' /\ WeightsHaveData' /\ WeightsAreFresh'
      BY <2>4 DEF TrendInv, TrendTypes, WeightsHaveData, WeightsAreFresh, tvars
    <3>2. /\ \A s \in TSymbols : Counted(s)'
          /\ "late" \notin snags' => \A s \in TSymbols : OneFlies(s)'
      BY <2>4 DEF TrendInv, Counted, OneFlies, Side, tvars
    <3>3. snags' \intersect {"zero", "full"} = {} =>
            /\ \A s \in TSymbols : Leads(scored[s], returns[s], lastBar[s])'
            /\ Aligned(weights)'
      BY <2>4 DEF TrendInv, tvars
    <3> QED BY <3>1, <3>2, <3>3 DEF TrendInv
  <2> QED BY <2>1, <2>2, <2>3, <2>4 DEF TNext
<1>2. TrendInv => TrendSound
  <2> SUFFICES ASSUME TrendInv PROVE TrendSound
    OBVIOUS
  <2>1. TrendTypeOK
    <3>1. \A s \in TSymbols : Len(scored[s]) <= MaxHistory /\ Len(returns[s]) <= MaxHistory
      BY DEF TrendInv, Counted
    <3> QED BY <3>1 DEF TrendInv, TrendTypes, TrendTypeOK, BarsSeen
  <2>2. OneEntryAtATime
    <3> SUFFICES ASSUME "late" \notin snags, NEW s \in TSymbols
                 PROVE  /\ owned[s] \in Sizes \union {0}
                        /\ \A f \in Side(s) : IF f.action = "buy" THEN owned[s] = 0
                                                                  ELSE f.quantity = owned[s]
      BY DEF OneEntryAtATime
    <3>1. OneFlies(s)
      BY DEF TrendInv
    <3> QED BY <3>1 DEF OneFlies
  <2>3. WeightsLookForward /\ WeightsHaveData /\ WeightsAreFresh
    BY DEF TrendInv, WeightsLookForward
  <2> QED BY <2>1, <2>2, <2>3 DEF TrendSound
<1> QED BY <1>1, <1>2, TrendInitially, PTL DEF TSpec

-----------------------------------------------------------------------------
(* Governance: loading the registry of constraints.                        *)

\* A directory whose files could be read.
Readable(d) == d \in RuleDirs /\ d \notin {Broken, Missing}

LEMMA LeastIs ==
  ASSUME NEW S \in SUBSET Nat, S # {}
  PROVE  Min(S) \in S
<1>1. \E x \in S : \A y \in S : x <= y
  BY LeastOf
<1> QED BY <1>1 DEF Min

\* The files whose id is there already, from the registry or an earlier file.
Doubles(files, have) ==
  {i \in DOMAIN files : \/ files[i].id \in Ids(have)
                        \/ \E j \in 1 .. i - 1 : files[j].id = files[i].id}

\* A load that raises into an empty registry has entered nothing or the first file.
LEMMA InsertIs ==
  ASSUME NEW S, NEW files \in Seq(S), NEW have
  PROVE  /\ Insert(files, have).raised <=> Doubles(files, have) # {}
         /\ Insert(files, have).raised \in BOOLEAN
         /\ have \subseteq Insert(files, have).items
         /\ ~Insert(files, have).raised => Insert(files, have).items = have \union Range(files)
         /\ Insert(files, have).items # have =>
              1 \in DOMAIN files /\ files[1] \in Insert(files, have).items
<1> DEFINE dup == Doubles(files, have)
           n == IF dup = {} THEN Len(files) ELSE Min(dup) - 1
<1>1. Insert(files, have) = [raised |-> dup # {}, items |-> have \union {files[i] : i \in 1 .. n}]
  BY DEF Insert, Doubles
<1>2. DOMAIN files = 1 .. Len(files) /\ Len(files) \in Nat
  BY LenProperties
<1>3. dup \subseteq 1 .. Len(files)
  BY <1>2 DEF Doubles
<1>4. n \in Int /\ n <= Len(files)
  <2>1. CASE dup = {}
    BY <2>1, <1>2
  <2>2. CASE dup # {}
    <3>1. dup \in SUBSET Nat
      BY <1>2, <1>3
    <3> HIDE DEF dup
    <3>2. Min(dup) \in dup
      BY <2>2, <3>1, LeastIs
    <3>3. Min(dup) \in 1 .. Len(files)
      BY <1>3, <3>2
    <3>4. n = Min(dup) - 1
      BY <2>2
    <3> HIDE DEF n
    <3> QED BY <3>3, <3>4, <1>2
  <2> QED BY <2>1, <2>2
<1>5. dup = {} => n = Len(files)
  OBVIOUS
<1> HIDE DEF n, dup
<1>6. {files[i] : i \in 1 .. Len(files)} = Range(files)
  BY <1>2 DEF Range
<1>7. ASSUME have \union {files[i] : i \in 1 .. n} # have
      PROVE  1 \in DOMAIN files /\ files[1] \in have \union {files[i] : i \in 1 .. n}
  <2>1. PICK i : i \in 1 .. n
    BY <1>7
  <2>2. 1 \in 1 .. n /\ 1 \in 1 .. Len(files)
    BY <2>1, <1>2, <1>4
  <2> QED BY <2>2, <1>2
<1>8. /\ Insert(files, have).raised = (dup # {})
      /\ Insert(files, have).items = have \union {files[i] : i \in 1 .. n}
  BY <1>1
<1>9. /\ Insert(files, have).raised <=> dup # {}
      /\ Insert(files, have).raised \in BOOLEAN
  BY <1>8
<1>10. ~Insert(files, have).raised => Insert(files, have).items = have \union Range(files)
  BY <1>5, <1>6, <1>8, <1>9
<1> QED BY <1>7, <1>8, <1>9, <1>10, Zenon DEF dup

\* What is in the registry is in the way of what the directory says.
Blocked(d, have) == have # {} => Load(d, have).raised

LEMMA LoadIs ==
  ASSUME NEW d \in RuleDirs, NEW have, Blocked(d, have)
  PROVE  LET l == Load(d, have)
         IN /\ l.raised \in BOOLEAN
            /\ l.raised => Blocked(d, l.items)
            /\ ~l.raised => l.items = Range(d)
<1> DEFINE l == Load(d, have)
<1>1. CASE d \in {Broken, Missing}
  <2>1. l = [raised |-> TRUE, items |-> have]
    BY <1>1 DEF Load
  <2>2. l.raised = TRUE /\ l.items = have
    BY <2>1
  <2> QED BY <2>2 DEF Blocked
<1>2. CASE d \notin {Broken, Missing}
  <2>1. PICK files \in Seq(Range(d)) : files = d
    BY <1>2, DirsAssumption
  <2>2. \A any : Load(d, any) = Insert(files, any)
    BY <1>2, <2>1 DEF Load
  <2>3. ASSUME NEW any
        PROVE  /\ Insert(files, any).raised <=> Doubles(files, any) # {}
               /\ Insert(files, any).raised \in BOOLEAN
               /\ any \subseteq Insert(files, any).items
               /\ ~Insert(files, any).raised => Insert(files, any).items = any \union Range(files)
               /\ Insert(files, any).items # any =>
                    1 \in DOMAIN files /\ files[1] \in Insert(files, any).items
    BY InsertIs
  <2>4. PICK its : its = Insert(files, have).items
    OBVIOUS
  <2>5. ASSUME Insert(files, have).raised
        PROVE  Blocked(d, its)
    <3> SUFFICES ASSUME its # {} PROVE Insert(files, its).raised
      BY <2>2 DEF Blocked
    <3>1. CASE its = have
      BY <3>1, <2>5
    <3>2. CASE its # have
      <4>1. 1 \in DOMAIN files /\ files[1] \in its
        BY <3>2, <2>3, <2>4
      <4>2. files[1].id \in Ids(its)
        BY <4>1 DEF Ids
      <4>3. Doubles(files, its) # {}
        BY <4>1, <4>2 DEF Doubles
      <4> QED BY <4>3, <2>3
    <3> QED BY <3>1, <3>2
  <2>6. ASSUME ~Insert(files, have).raised
        PROVE  its = Range(d)
    <3>1. have = {}
      BY <2>2, <2>6 DEF Blocked
    <3>2. its = have \union Range(files)
      BY <2>3, <2>4, <2>6
    <3> QED BY <3>1, <3>2, <2>1
  <2> QED BY <2>2, <2>3, <2>4, <2>5, <2>6
<1> QED BY <1>1, <1>2

-----------------------------------------------------------------------------
(* Governance: what the registries are.                                    *)

\* No reload of a loaded registry fails, nothing is registered on one whose load
\* failed, and what a failed load left keeps out the files that come after.
Undisturbed == Anomalies \intersect {"torn", "claim", "leftover"} = {}

\* A registry, beside a directory: an empty one or what a failed load left of it,
\* which lets nothing else in, or what was loaded whole and changed by hand since.
WholeOrBlocked(g, d) ==
  /\ ~g.created => g.rules = {}
  /\ ~g.loaded => ~g.byHand /\ Blocked(d, g.rules)
  /\ g.loaded => g.whole # None /\ (g.byHand \/ g.rules = Range(g.whole))

RegistryRec(R, W) ==
  [created : BOOLEAN, loaded : BOOLEAN, rules : R, whole : W, byHand : BOOLEAN]

RegistryOK(g, d) ==
  /\ g \in RegistryRec({g.rules}, {g.whole})
  /\ g.loaded => g.created
  /\ Undisturbed => WholeOrBlocked(g, d)

LEMMA EmptyIsFree == \A d : Blocked(d, {})
  BY DEF Blocked

LEMMA RecordIs ==
  ASSUME NEW g, NEW R, NEW W, g \in RegistryRec(R, W)
  PROVE  /\ g \in RegistryRec({g.rules}, {g.whole})
         /\ g.created \in BOOLEAN /\ g.loaded \in BOOLEAN /\ g.byHand \in BOOLEAN
  BY DEF RegistryRec

LEMMA ReloadKeeps ==
  ASSUME ruleDir \in RuleDirs, RegistryOK(reg, ruleDir),
         reg.loaded /\ ReloadRules.whole = None => "torn" \in Anomalies
  PROVE  RegistryOK(ReloadRules, ruleDir) /\ ReloadRules.created
<1>1. PICK l : l = Load(ruleDir, {})
  OBVIOUS
<1>2. /\ l.raised \in BOOLEAN
      /\ l.raised => Blocked(ruleDir, l.items)
      /\ ~l.raised => l.items = Range(ruleDir)
  BY <1>1, EmptyIsFree, LoadIs
<1>3. PICK m \in BOOLEAN : m = ~l.raised
  BY <1>2
<1>33. PICK its : its = l.items
  OBVIOUS
<1>4. PICK v : v = IF l.raised THEN None ELSE ruleDir
  OBVIOUS
<1>5. PICK r : r = reg
  OBVIOUS
<1>6. PICK g : g = ReloadRules
  OBVIOUS
<1>7. g = [r EXCEPT !.created = TRUE, !.rules = its, !.loaded = @ \/ m, !.whole = v, !.byHand = FALSE]
  BY <1>1, <1>3, <1>33, <1>4, <1>5, <1>6 DEF ReloadRules
<1>8. r \in RegistryRec({r.rules}, {r.whole})
  BY <1>5 DEF RegistryOK
<1>9. /\ g \in RegistryRec({r.rules} \union {its}, {r.whole} \union {v})
      /\ g.created /\ g.rules = its /\ g.whole = v /\ ~g.byHand
      /\ g.loaded <=> (r.loaded \/ m)
  BY <1>7, <1>8 DEF RegistryRec
<1>10. ASSUME Undisturbed PROVE WholeOrBlocked(g, ruleDir)
  <2>1. r.loaded => m
    BY <1>2, <1>3, <1>4, <1>5, <1>6, <1>9, <1>10 DEF Undisturbed
  <2>2. ruleDir # None
    BY DirsAssumption
  <2> QED BY <2>1, <2>2, <1>2, <1>3, <1>33, <1>4, <1>9 DEF WholeOrBlocked
<1> QED BY <1>6, <1>9, <1>10, RecordIs DEF RegistryOK

LEMMA GetKeeps ==
  ASSUME ruleDir \in RuleDirs, RegistryOK(reg, ruleDir)
  PROVE  RegistryOK(GetRules, ruleDir) /\ GetRules.created
<1>1. CASE reg.created
  BY <1>1 DEF GetRules
<1>2. CASE ~reg.created /\ ruleDir = Missing
  <2>1. PICK r : r = reg
    OBVIOUS
  <2>2. PICK g : g = GetRules
    OBVIOUS
  <2>3. PICK v : v = <<>>
    OBVIOUS
  <2>4. g = [r EXCEPT !.created = TRUE, !.loaded = TRUE, !.whole = v]
    BY <1>2, <2>1, <2>2, <2>3 DEF GetRules
  <2>5. r \in RegistryRec({r.rules}, {r.whole})
    BY <2>1 DEF RegistryOK
  <2>6. /\ g \in RegistryRec({r.rules}, {r.whole} \union {v})
        /\ g.created /\ g.loaded /\ g.rules = r.rules /\ g.whole = v
    BY <2>4, <2>5 DEF RegistryRec
  <2>7. ASSUME Undisturbed PROVE WholeOrBlocked(g, ruleDir)
    <3>1. reg.rules = {}
      BY <1>2, <2>7 DEF RegistryOK, WholeOrBlocked
    <3>2. Range(<<>>) = {} /\ <<>> # None
      BY DirsAssumption DEF Range
    <3> QED BY <2>1, <2>3, <2>6, <3>1, <3>2 DEF WholeOrBlocked
  <2> QED BY <2>2, <2>6, <2>7, RecordIs DEF RegistryOK
<1>3. CASE ~reg.created /\ ruleDir # Missing
  <2>1. GetRules = ReloadRules /\ ~reg.loaded
    BY <1>3 DEF GetRules, RegistryOK
  <2> QED BY <2>1, ReloadKeeps
<1> QED BY <1>1, <1>2, <1>3

LEMMA EnsureKeeps ==
  ASSUME ruleDir \in RuleDirs, NEW g, RegistryOK(g, ruleDir), g.created
  PROVE  RegistryOK(EnsureLoaded(g), ruleDir) /\ EnsureLoaded(g).created
<1>1. CASE g.loaded
  BY <1>1 DEF EnsureLoaded
<1>2. CASE ~g.loaded
  <2>1. PICK have : have = g.rules
    OBVIOUS
  <2>2. PICK l : l = Load(ruleDir, have)
    OBVIOUS
  <2>3. l.raised \in BOOLEAN
    <3>1. CASE ruleDir \in {Broken, Missing}
      BY <2>2, <3>1 DEF Load
    <3>2. CASE ruleDir \notin {Broken, Missing}
      BY <2>2, <3>2 DEF Load, Insert
    <3> QED BY <3>1, <3>2
  <2>4. PICK m \in BOOLEAN : m = ~l.raised
    BY <2>3
  <2>44. PICK its : its = l.items
    OBVIOUS
  <2>5. PICK v : v = IF l.raised THEN g.whole ELSE ruleDir
    OBVIOUS
  <2>6. PICK z : z = EnsureLoaded(g)
    OBVIOUS
  <2>7. z = [g EXCEPT !.rules = its, !.loaded = m, !.whole = v]
    BY <1>2, <2>1, <2>2, <2>4, <2>44, <2>5, <2>6 DEF EnsureLoaded
  <2>8. g \in RegistryRec({g.rules}, {g.whole})
    BY DEF RegistryOK
  <2>9. /\ z \in RegistryRec({g.rules} \union {its}, {g.whole} \union {v})
        /\ z.created = g.created /\ z.loaded = m /\ z.rules = its /\ z.whole = v
        /\ z.byHand = g.byHand
    BY <2>7, <2>8 DEF RegistryRec
  <2>10. ASSUME Undisturbed PROVE WholeOrBlocked(z, ruleDir)
    <3>1. ~g.byHand /\ Blocked(ruleDir, have)
      BY <1>2, <2>1, <2>10 DEF RegistryOK, WholeOrBlocked
    <3>2. /\ l.raised => Blocked(ruleDir, l.items)
          /\ ~l.raised => l.items = Range(ruleDir)
      BY <2>2, <3>1, LoadIs
    <3>3. ruleDir # None
      BY DirsAssumption
    <3> QED BY <2>3, <2>4, <2>44, <2>5, <2>9, <3>1, <3>2, <3>3 DEF WholeOrBlocked
  <2> QED BY <2>6, <2>9, <2>10, RecordIs DEF RegistryOK
<1>3. g.loaded \in BOOLEAN
  BY RecordIs DEF RegistryOK
<1> QED BY <1>1, <1>2, <1>3

LEMMA OpenedKeeps ==
  ASSUME ruleDir \in RuleDirs, RegistryOK(reg, ruleDir)
  PROVE  RegistryOK(Opened.rules, ruleDir)
<1>1. RegistryOK(GetRules, ruleDir) /\ GetRules.created
  BY GetKeeps
<1>2. PICK g : g = GetRules
  OBVIOUS
<1>3. RegistryOK(EnsureLoaded(g), ruleDir)
  BY <1>1, <1>2, EnsureKeeps
<1>4. Opened.rules \in {g, EnsureLoaded(g)}
  <2>1. PICK a \in BOOLEAN : a = (~reg.created /\ ~g.loaded)
    OBVIOUS
  <2>2. PICK b \in BOOLEAN : b = (~hreg.created /\ hypDir # Missing /\ Load(hypDir, {}).raised)
    OBVIOUS
  <2>3. Opened = CASE a -> [ok |-> FALSE, rules |-> g, hyps |-> hreg]
                   [] ~a /\ b -> [ok |-> FALSE, rules |-> g, hyps |-> GetHypotheses]
                   [] OTHER -> [ok |-> EnsureLoaded(g).loaded, rules |-> EnsureLoaded(g),
                                hyps |-> GetHypotheses]
    BY <1>2, <2>1, <2>2 DEF Opened
  <2> QED BY <2>3
<1> QED BY <1>1, <1>2, <1>3, <1>4

RegInv == ruleDir \in RuleDirs /\ RegistryOK(reg, ruleDir)

\* Files are edited while the registry is not whole only so that it stays blocked.
LEMMA EditKeeps ==
  ASSUME NEW g, NEW d, NEW e, RegistryOK(g, d),
         Undisturbed /\ ~g.loaded => Blocked(e, g.rules)
  PROVE  RegistryOK(g, e)
<1>1. Undisturbed => WholeOrBlocked(g, e)
  BY DEF RegistryOK, WholeOrBlocked
<1> QED BY <1>1 DEF RegistryOK

\* A change by hand of a registry that has been loaded.
LEMMA HandKeeps ==
  ASSUME NEW g, NEW d, NEW its, RegistryOK(g, d), g.created, Undisturbed => g.loaded
  PROVE  /\ RegistryOK([g EXCEPT !.loaded = TRUE, !.rules = its, !.byHand = TRUE], d)
         /\ g.loaded => RegistryOK([g EXCEPT !.rules = its, !.byHand = TRUE], d)
<1>1. g \in RegistryRec({g.rules}, {g.whole})
  BY DEF RegistryOK
<1>2. PICK z : z = [g EXCEPT !.loaded = TRUE, !.rules = its, !.byHand = TRUE]
  OBVIOUS
<1>3. /\ z \in RegistryRec({g.rules} \union {its}, {g.whole})
      /\ z.created = g.created /\ z.loaded /\ z.byHand /\ z.whole = g.whole
  BY <1>1, <1>2 DEF RegistryRec
<1>4. PICK y : y = [g EXCEPT !.rules = its, !.byHand = TRUE]
  OBVIOUS
<1>5. /\ y \in RegistryRec({g.rules} \union {its}, {g.whole})
      /\ y.created = g.created /\ y.loaded = g.loaded /\ y.byHand /\ y.whole = g.whole
  BY <1>1, <1>4 DEF RegistryRec
<1>6. Undisturbed => g.whole # None
  BY DEF RegistryOK, WholeOrBlocked
<1>7. Undisturbed => WholeOrBlocked(z, d)
  BY <1>3, <1>6 DEF WholeOrBlocked
<1>8. g.loaded /\ Undisturbed => WholeOrBlocked(y, d)
  BY <1>5, <1>6 DEF WholeOrBlocked
<1>9. z \in RegistryRec({z.rules}, {z.whole}) /\ y \in RegistryRec({y.rules}, {y.whole})
  BY <1>3, <1>5, RecordIs
<1>10. RegistryOK(z, d)
  BY <1>3, <1>7, <1>9 DEF RegistryOK
<1>11. g.loaded => RegistryOK(y, d)
  BY <1>5, <1>8, <1>9 DEF RegistryOK
<1> QED BY <1>2, <1>4, <1>10, <1>11

LEMMA RegFromInit == GovInit => RegInv
<1> SUFFICES ASSUME GovInit PROVE RegInv
  OBVIOUS
<1>1. /\ ruleDir \in RuleDirs
      /\ reg = [created |-> FALSE, loaded |-> FALSE, rules |-> {}, whole |-> None, byHand |-> FALSE]
  BY DEF GovInit, CInit
<1>2. /\ reg \in RegistryRec({reg.rules}, {reg.whole})
      /\ ~reg.loaded /\ ~reg.byHand /\ reg.rules = {}
  BY <1>1 DEF RegistryRec
<1>3. WholeOrBlocked(reg, ruleDir)
  BY <1>2, EmptyIsFree DEF WholeOrBlocked
<1> QED BY <1>1, <1>2, <1>3 DEF RegInv, RegistryOK

LEMMA RegEdited ==
  ASSUME RegInv, EditFiles
  PROVE  RegInv'
<1>1. reg' = reg
  BY DEF EditFiles
<1>2. CASE ruleDir' = ruleDir
  BY <1>1, <1>2 DEF RegInv
<1>3. CASE ruleDir' # ruleDir
  <2>1. ruleDir' \in RuleDirs /\ (Mixes(ruleDir') => "leftover" \in Anomalies)
    BY <1>3 DEF EditFiles
  <2>2. PICK e : e = ruleDir'
    OBVIOUS
  <2>3. Undisturbed /\ ~reg.loaded => Blocked(e, reg.rules)
    BY <2>1, <2>2 DEF Mixes, Undisturbed, Blocked
  <2>4. RegistryOK(reg, e)
    BY <2>3, EditKeeps DEF RegInv
  <2> QED BY <1>1, <2>1, <2>2, <2>4 DEF RegInv
<1> QED BY <1>2, <1>3

LEMMA RegReloaded ==
  ASSUME RegInv, Reload
  PROVE  RegInv'
<1>1. ruleDir' = ruleDir
  BY DEF Reload
<1>2. CASE reg' = reg
  BY <1>1, <1>2 DEF RegInv
<1>3. CASE reg' # reg
  <2>1. /\ reg.loaded /\ ReloadRules.whole = None => "torn" \in Anomalies
        /\ reg' = ReloadRules
    BY <1>3 DEF Reload
  <2>2. RegistryOK(ReloadRules, ruleDir)
    BY <2>1, ReloadKeeps DEF RegInv
  <2> QED BY <1>1, <2>1, <2>2 DEF RegInv
<1> QED BY <1>2, <1>3

LEMMA RegByHand ==
  ASSUME RegInv, Register \/ Unregister
  PROVE  RegInv'
<1>1. ruleDir' = ruleDir
  BY DEF Register, Unregister
<1>2. CASE Register
  <2>1. reg.created /\ (reg.loaded \/ "claim" \in Anomalies)
    BY <1>2 DEF Register
  <2>2. PICK its : reg' = [reg EXCEPT !.loaded = TRUE, !.rules = its, !.byHand = TRUE]
    BY <1>2 DEF Register
  <2>3. Undisturbed => reg.loaded
    BY <2>1 DEF Undisturbed
  <2>4. RegistryOK([reg EXCEPT !.loaded = TRUE, !.rules = its, !.byHand = TRUE], ruleDir)
    BY <2>1, <2>3, HandKeeps DEF RegInv
  <2> QED BY <1>1, <2>2, <2>4 DEF RegInv
<1>3. CASE Unregister
  <2>1. PICK g : g = EnsureLoaded(reg)
    OBVIOUS
  <2>2. reg.created
    BY <1>3 DEF Unregister
  <2>3. RegistryOK(g, ruleDir) /\ g.created
    BY <2>1, <2>2, EnsureKeeps DEF RegInv
  <2>4. CASE ~g.loaded
    <3>1. reg' = g
      BY <1>3, <2>1, <2>4 DEF Unregister
    <3> QED BY <1>1, <2>3, <3>1 DEF RegInv
  <2>5. CASE g.loaded
    <3>1. PICK r : reg' = [g EXCEPT !.rules = @ \ {r}, !.byHand = TRUE]
      BY <1>3, <2>1, <2>5 DEF Unregister
    <3>2. PICK its : its = g.rules \ {r}
      OBVIOUS
    <3>3. reg' = [g EXCEPT !.rules = its, !.byHand = TRUE]
      BY <3>1, <3>2
    <3>4. RegistryOK([g EXCEPT !.rules = its, !.byHand = TRUE], ruleDir)
      BY <2>3, <2>5, HandKeeps
    <3> QED BY <1>1, <3>3, <3>4 DEF RegInv
  <2> QED BY <2>4, <2>5
<1> QED BY <1>2, <1>3

LEMMA RegAsked ==
  ASSUME RegInv, ruleDir' = ruleDir, reg' = Opened.rules
  PROVE  RegInv'
  BY OpenedKeeps DEF RegInv

LEMMA RegBrowsed ==
  ASSUME RegInv, Browse
  PROVE  RegInv'
<1>1. ruleDir' = ruleDir
  BY DEF Browse
<1>2. reg' \in {reg, EnsureLoaded(reg), GetRules} /\ (reg' = EnsureLoaded(reg) => reg.created \/ reg' \in {reg, GetRules})
  BY DEF Browse
<1>3. CASE reg' = reg
  BY <1>1, <1>3 DEF RegInv
<1>4. CASE reg' = GetRules
  BY <1>1, <1>4, GetKeeps DEF RegInv
<1>5. CASE reg' = EnsureLoaded(reg) /\ reg.created
  BY <1>1, <1>5, EnsureKeeps DEF RegInv
<1> QED BY <1>2, <1>3, <1>4, <1>5

LEMMA RegHolds == RegInv /\ [GovNext]_vars => RegInv'
<1> SUFFICES ASSUME RegInv, [GovNext]_vars PROVE RegInv'
  OBVIOUS
<1>1. CASE reg' = reg /\ ruleDir' = ruleDir
  BY <1>1 DEF RegInv
<1>2. CASE EditFiles \/ Reload \/ Register \/ Unregister
  BY <1>2, RegEdited, RegReloaded, RegByHand
<1>3. CASE ResolveNow
  BY <1>3, RegAsked DEF ResolveNow
<1>4. CASE Browse
  BY <1>4, RegBrowsed
<1>5. ASSUME NEW r \in Readers, CacheMiss(r) PROVE RegInv'
  BY <1>5, RegAsked DEF CacheMiss
<1>6. ASSUME NEW s \in Symbols, BuildContext(s) PROVE RegInv'
  BY <1>6, RegAsked DEF BuildContext
<1>7. CASE Invalidate \/ Tick
  BY <1>1, <1>7 DEF Invalidate, Tick
<1>8. ASSUME NEW r \in Readers,
             (\E s \in Symbols : StartResolve(r, s)) \/ CacheHit(r) \/ CacheSet(r) \/ RedisFails(r)
      PROVE  RegInv'
  BY <1>1, <1>8 DEF StartResolve, CacheHit, CacheSet, RedisFails
<1>9. CASE CNext
  BY <1>2, <1>3, <1>4, <1>5, <1>7, <1>8, <1>9 DEF CNext, ReaderStep
<1>10. CASE UNCHANGED cvars
  BY <1>1, <1>10 DEF cvars
<1>11. CASE RebuildPool
  BY <1>1, <1>11 DEF RebuildPool
<1> QED BY <1>6, <1>9, <1>10, <1>11 DEF GovNext, vars

-----------------------------------------------------------------------------
(* Governance: the cache and its readers.                                  *)

EntryRec(V, E) == [value : V, left : 1 .. TTL, epoch : E]

CacheInv ==
  /\ DOMAIN cache = Symbols /\ DOMAIN reader = Readers
  /\ epoch \in [Symbols -> 0 .. MaxInvalidations]
  /\ \A s \in Symbols :
       cache[s] # None => /\ cache[s] \in EntryRec({cache[s].value}, {cache[s].epoch})
                          /\ "overlap" \notin Anomalies => cache[s].epoch = epoch[s]
  /\ \A r \in Readers :
       /\ reader[r].at \in {"idle", "get", "set"}
       /\ reader[r].at # "idle" => reader[r].sym \in Symbols
       /\ reader[r].at = "set" /\ "overlap" \notin Anomalies =>
            reader[r].epoch = epoch[reader[r].sym]

LEMMA CacheFromInit == GovInit => CacheInv
<1> SUFFICES ASSUME GovInit PROVE CacheInv
  OBVIOUS
<1>1. /\ cache = [s \in Symbols |-> None] /\ epoch = [s \in Symbols |-> 0]
      /\ reader = [r \in Readers |-> [at |-> "idle"]]
  BY DEF GovInit, CInit, Idle
<1>2. epoch \in [Symbols -> 0 .. MaxInvalidations]
  BY <1>1, BoundsAssumption
<1> QED BY <1>1, <1>2 DEF CacheInv

\* A reader moves: what it was told is as old as what it will set.
LEMMA ReaderMoves ==
  ASSUME CacheInv, NEW r \in Readers, NEW x, reader' = [reader EXCEPT ![r] = x],
         UNCHANGED <<cache, epoch>>,
         x.at \in {"idle", "get", "set"}, x.at # "idle" => x.sym \in Symbols,
         x.at = "set" /\ "overlap" \notin Anomalies => x.epoch = epoch[x.sym]
  PROVE  CacheInv'
<1>1. DOMAIN reader' = Readers
  BY DEF CacheInv
<1>2. \A q \in Readers : reader'[q] = IF q = r THEN x ELSE reader[q]
  BY DEF CacheInv
<1>3. ASSUME NEW q \in Readers
      PROVE  /\ reader'[q].at \in {"idle", "get", "set"}
             /\ reader'[q].at # "idle" => reader'[q].sym \in Symbols
             /\ reader'[q].at = "set" /\ "overlap" \notin Anomalies =>
                  reader'[q].epoch = epoch[reader'[q].sym]
  BY <1>2 DEF CacheInv
<1> QED BY <1>1, <1>3 DEF CacheInv

LEMMA CacheStarts ==
  ASSUME CacheInv, NEW r \in Readers, NEW s \in Symbols, StartResolve(r, s)
  PROVE  CacheInv'
<1>1. PICK x : x = [at |-> "get", sym |-> s]
  OBVIOUS
<1>2. x.at = "get" /\ x.sym = s
  BY <1>1
<1>3. reader' = [reader EXCEPT ![r] = x] /\ UNCHANGED <<cache, epoch>>
  BY <1>1 DEF StartResolve
<1> QED BY <1>2, <1>3, ReaderMoves

LEMMA CacheEnds ==
  ASSUME CacheInv, NEW r \in Readers, CacheHit(r) \/ RedisFails(r)
  PROVE  CacheInv'
<1>1. Idle.at = "idle"
  BY DEF Idle
<1>2. reader' = [reader EXCEPT ![r] = Idle] /\ UNCHANGED <<cache, epoch>>
  BY DEF CacheHit, RedisFails
<1> QED BY <1>1, <1>2, ReaderMoves

LEMMA CacheMisses ==
  ASSUME CacheInv, NEW r \in Readers, CacheMiss(r)
  PROVE  CacheInv'
<1>1. PICK s : s = reader[r].sym
  OBVIOUS
<1>2. s \in Symbols
  BY <1>1 DEF CacheInv, CacheMiss
<1>3. PICK x : x = IF ~Opened.ok THEN Idle
                   ELSE [at |-> "set", sym |-> s, epoch |-> epoch[s],
                         value |-> Resolve(Opened.rules.rules, Opened.hyps.hyps, s)]
  OBVIOUS
<1>4. reader' = [reader EXCEPT ![r] = x] /\ UNCHANGED <<cache, epoch>>
  BY <1>1, <1>3 DEF CacheMiss
<1>5. \/ x.at = "idle"
      \/ x.at = "set" /\ x.sym = s /\ x.epoch = epoch[s]
  BY <1>3 DEF Idle
<1> QED BY <1>2, <1>4, <1>5, ReaderMoves

LEMMA CacheSets ==
  ASSUME CacheInv, NEW r \in Readers, CacheSet(r)
  PROVE  CacheInv'
<1>1. PICK s : s = reader[r].sym
  OBVIOUS
<1>2. s \in Symbols /\ ("overlap" \notin Anomalies => reader[r].epoch = epoch[s])
  BY <1>1 DEF CacheInv, CacheSet
<1>3. PICK e : e = [value |-> reader[r].value, left |-> TTL, epoch |-> reader[r].epoch]
  OBVIOUS
<1>4. e \in EntryRec({e.value}, {e.epoch}) /\ e.epoch = reader[r].epoch
  BY <1>3, TTLAssumption DEF EntryRec
<1>5. /\ cache' = [cache EXCEPT ![s] = e] /\ reader' = [reader EXCEPT ![r] = Idle]
      /\ epoch' = epoch
  BY <1>1, <1>3 DEF CacheSet
<1>6. /\ DOMAIN cache' = Symbols
      /\ \A t \in Symbols : cache'[t] = IF t = s THEN e ELSE cache[t]
  BY <1>5 DEF CacheInv
<1>7. /\ DOMAIN reader' = Readers
      /\ \A q \in Readers : reader'[q] = IF q = r THEN Idle ELSE reader[q]
  BY <1>5 DEF CacheInv
<1>8. Idle.at = "idle"
  BY DEF Idle
<1>9. ASSUME NEW t \in Symbols, cache'[t] # None
      PROVE  /\ cache'[t] \in EntryRec({cache'[t].value}, {cache'[t].epoch})
             /\ "overlap" \notin Anomalies => cache'[t].epoch = epoch'[t]
  <2>1. CASE t = s
    BY <2>1, <1>2, <1>4, <1>5, <1>6
  <2>2. CASE t # s
    BY <2>2, <1>5, <1>6, <1>9 DEF CacheInv
  <2> QED BY <2>1, <2>2
<1>10. ASSUME NEW q \in Readers
       PROVE  /\ reader'[q].at \in {"idle", "get", "set"}
              /\ reader'[q].at # "idle" => reader'[q].sym \in Symbols
              /\ reader'[q].at = "set" /\ "overlap" \notin Anomalies =>
                   reader'[q].epoch = epoch'[reader'[q].sym]
  BY <1>5, <1>7, <1>8 DEF CacheInv
<1>11. epoch' \in [Symbols -> 0 .. MaxInvalidations]
  BY <1>5 DEF CacheInv
<1> QED BY <1>6, <1>7, <1>9, <1>10, <1>11 DEF CacheInv

LEMMA CacheDrops ==
  ASSUME CacheInv, Invalidate
  PROVE  CacheInv'
<1>1. PICK ss \in {{s} : s \in Symbols} \union {Symbols} :
        /\ cache' = [s \in Symbols |-> IF s \in ss THEN None ELSE cache[s]]
        /\ epoch' = [s \in Symbols |-> IF s \in ss THEN epoch[s] + 1 ELSE epoch[s]]
  BY DEF Invalidate
<1>2. /\ \A s \in Symbols : epoch[s] < MaxInvalidations
      /\ "overlap" \in Anomalies \/ \A r \in Readers : reader[r].at # "set"
      /\ reader' = reader
  BY DEF Invalidate
<1>3. /\ DOMAIN cache' = Symbols
      /\ \A s \in Symbols : cache'[s] = IF s \in ss THEN None ELSE cache[s]
      /\ \A s \in Symbols : epoch'[s] = IF s \in ss THEN epoch[s] + 1 ELSE epoch[s]
  BY <1>1
<1>4. epoch' \in [Symbols -> 0 .. MaxInvalidations]
  <2>1. ASSUME NEW s \in Symbols
        PROVE  (IF s \in ss THEN epoch[s] + 1 ELSE epoch[s]) \in 0 .. MaxInvalidations
    BY <1>2, BoundsAssumption DEF CacheInv
  <2> QED BY <1>1, <2>1
<1>5. ASSUME NEW t \in Symbols, cache'[t] # None
      PROVE  /\ cache'[t] \in EntryRec({cache'[t].value}, {cache'[t].epoch})
             /\ "overlap" \notin Anomalies => cache'[t].epoch = epoch'[t]
  <2>1. t \notin ss /\ cache'[t] = cache[t] /\ epoch'[t] = epoch[t]
    BY <1>3, <1>5
  <2> QED BY <2>1, <1>5 DEF CacheInv
<1>6. ASSUME NEW q \in Readers
      PROVE  /\ reader'[q].at \in {"idle", "get", "set"}
             /\ reader'[q].at # "idle" => reader'[q].sym \in Symbols
             /\ reader'[q].at = "set" /\ "overlap" \notin Anomalies =>
                  reader'[q].epoch = epoch'[reader'[q].sym]
  BY <1>2 DEF CacheInv
<1>7. DOMAIN reader' = Readers
  BY <1>2 DEF CacheInv
<1> QED BY <1>3, <1>4, <1>5, <1>6, <1>7 DEF CacheInv

LEMMA AgedIs ==
  ASSUME NEW e, e # None => e \in EntryRec({e.value}, {e.epoch}), Aged(e) # None
  PROVE  /\ e # None
         /\ Aged(e) \in EntryRec({Aged(e).value}, {Aged(e).epoch})
         /\ Aged(e).epoch = e.epoch
<1>1. e # None /\ e.left # 1 /\ Aged(e) = [e EXCEPT !.left = @ - 1]
  BY DEF Aged
<1>2. PICK n : n = e.left - 1
  OBVIOUS
<1>3. e \in EntryRec({e.value}, {e.epoch}) /\ e.left \in 1 .. TTL
  BY <1>1 DEF EntryRec
<1>4. n \in 1 .. TTL
  BY <1>1, <1>2, <1>3, TTLAssumption
<1>5. PICK z : z = [e EXCEPT !.left = n]
  OBVIOUS
<1>6. z \in EntryRec({e.value}, {e.epoch}) /\ z.epoch = e.epoch /\ z.value = e.value
  BY <1>3, <1>4, <1>5 DEF EntryRec
<1> QED BY <1>1, <1>2, <1>5, <1>6

LEMMA CacheTicks ==
  ASSUME CacheInv, Tick
  PROVE  CacheInv'
<1>1. /\ DOMAIN cache' = Symbols
      /\ \A s \in Symbols : cache'[s] = Aged(cache[s])
      /\ epoch' = epoch /\ reader' = reader
  BY DEF Tick
<1>2. ASSUME NEW t \in Symbols, cache'[t] # None
      PROVE  /\ cache'[t] \in EntryRec({cache'[t].value}, {cache'[t].epoch})
             /\ "overlap" \notin Anomalies => cache'[t].epoch = epoch'[t]
  <2>1. PICK e : e = cache[t]
    OBVIOUS
  <2>2. /\ e # None => e \in EntryRec({e.value}, {e.epoch})
        /\ e # None /\ "overlap" \notin Anomalies => e.epoch = epoch[t]
    BY <2>1 DEF CacheInv
  <2>3. cache'[t] = Aged(e)
    BY <1>1, <2>1
  <2> QED BY <1>1, <1>2, <2>2, <2>3, AgedIs
<1> QED BY <1>1, <1>2 DEF CacheInv

LEMMA CacheHolds == CacheInv /\ [GovNext]_vars => CacheInv'
<1> SUFFICES ASSUME CacheInv, [GovNext]_vars PROVE CacheInv'
  OBVIOUS
<1>1. CASE UNCHANGED <<cache, epoch, reader>>
  BY <1>1 DEF CacheInv
<1>2. CASE EditFiles \/ Reload \/ Register \/ Unregister \/ ResolveNow \/ Browse
  BY <1>1, <1>2 DEF EditFiles, Reload, Register, Unregister, ResolveNow, Browse
<1>3. CASE Invalidate
  BY <1>3, CacheDrops
<1>4. CASE Tick
  BY <1>4, CacheTicks
<1>5. ASSUME NEW r \in Readers,
             (\E s \in Symbols : StartResolve(r, s)) \/ ReaderStep(r) \/ RedisFails(r)
      PROVE  CacheInv'
  BY <1>5, CacheStarts, CacheEnds, CacheMisses, CacheSets DEF ReaderStep
<1>6. CASE CNext
  BY <1>2, <1>3, <1>4, <1>5, <1>6 DEF CNext
<1>7. CASE UNCHANGED cvars
  BY <1>1, <1>7 DEF cvars
<1>8. CASE RebuildPool \/ \E s \in Symbols : BuildContext(s)
  BY <1>1, <1>8 DEF RebuildPool, BuildContext
<1> QED BY <1>6, <1>7, <1>8 DEF GovNext, vars

-----------------------------------------------------------------------------
(* Governance: factors, and the theorem.                                   *)

MonitorInv ==
  /\ factor \in [Factors -> [status : {"NONE", "enabled", "disabled", "review"},
                             enabled : BOOLEAN]]
  /\ condemned \subseteq Registered
  /\ checking \in [Checkers -> Factors \union {NoValue}]
  /\ FactorStaysOut
  /\ regime.state \in {NoValue, "NORMAL", "TRANSITION", "STRESS"}

LEMMA RegimeIs ==
  /\ RegimeState \in {"NORMAL", "TRANSITION", "STRESS"}
  /\ Detected.state \in {NoValue, "NORMAL", "TRANSITION", "STRESS"}
<1>1. RegimeState \in {"NORMAL", "TRANSITION", "STRESS"}
  <2>1. PICK v : v = Level("portfolio_volatility")
    OBVIOUS
  <2>2. PICK d : d = Level("max_drawdown")
    OBVIOUS
  <2>3. PICK a \in BOOLEAN : a = (v >= Thresholds.volatility_stress \/ d >= Thresholds.drawdown_stress)
    OBVIOUS
  <2>4. PICK b \in BOOLEAN : b = (/\ v < Thresholds.volatility_stress /\ d < Thresholds.drawdown_stress
          /\ \/ v >= Thresholds.volatility_transition
             \/ d >= Thresholds.drawdown_transition)
    OBVIOUS
  <2>5. RegimeState = CASE a -> "STRESS" [] b -> "TRANSITION" [] OTHER -> "NORMAL"
    BY <2>1, <2>2, <2>3, <2>4 DEF RegimeState
  <2> QED BY <2>5
<1>2. Detected.state = RegimeState
  BY DEF Detected
<1> QED BY <1>1, <1>2

LEMMA MonitorFromInit == GovInit => MonitorInv
<1> SUFFICES ASSUME GovInit PROVE MonitorInv
  OBVIOUS
<1>1. /\ factor = [f \in Factors |-> NotRegistered] /\ condemned = {}
      /\ checking = [c \in Checkers |-> NoValue]
      /\ regime = [state |-> NoValue, previous |-> NoValue]
  BY DEF GovInit, MInit
<1> QED BY <1>1 DEF MonitorInv, NotRegistered, FactorStaysOut

\* What a factor may become: not in use while it is condemned.
LEMMA FactorMoves ==
  ASSUME MonitorInv, NEW f \in Factors, NEW x,
         x \in [status : {"NONE", "enabled", "disabled", "review"}, enabled : BOOLEAN],
         factor' = [factor EXCEPT ![f] = x],
         \/ condemned' = condemned \ {f}
         \/ /\ condemned' \in {condemned, condemned \union {f}}
            /\ x # NotRegistered
            /\ x.status = "enabled" => x = factor[f] /\ condemned' = condemned
  PROVE  /\ factor' \in [Factors -> [status : {"NONE", "enabled", "disabled", "review"},
                                     enabled : BOOLEAN]]
         /\ (condemned \subseteq Registered)'
         /\ FactorStaysOut'
<1>1. /\ factor' \in [Factors -> [status : {"NONE", "enabled", "disabled", "review"},
                                  enabled : BOOLEAN]]
      /\ \A g \in Factors : factor'[g] = IF g = f THEN x ELSE factor[g]
  BY DEF MonitorInv
<1>2. condemned \subseteq Factors /\ condemned' \subseteq Factors
  BY DEF MonitorInv, Registered
<1>3. ASSUME NEW g \in condemned'
      PROVE  factor'[g] # NotRegistered /\ ~(factor'[g].status = "enabled" /\ factor'[g].enabled)
  <2>1. CASE g # f
    <3>1. g \in condemned /\ factor'[g] = factor[g] /\ g \in Factors
      BY <1>1, <1>2, <1>3, <2>1
    <3> QED BY <3>1 DEF MonitorInv, Registered, FactorStaysOut, GetEnabled
  <2>2. CASE g = f
    <3>1. /\ condemned' \in {condemned, condemned \union {f}} /\ x # NotRegistered
          /\ x.status = "enabled" => x = factor[f] /\ condemned' = condemned
      BY <1>3, <2>2
    <3>2. factor'[g] = x
      BY <1>1, <2>2
    <3>3. CASE x.status = "enabled"
      <4>1. f \in condemned /\ x = factor[f]
        BY <3>1, <3>3, <2>2, <1>3
      <4> QED BY <3>1, <3>2, <4>1 DEF MonitorInv, FactorStaysOut, GetEnabled
    <3> QED BY <3>1, <3>2, <3>3
  <2> QED BY <2>1, <2>2
<1> QED BY <1>1, <1>2, <1>3 DEF Registered, FactorStaysOut, GetEnabled

LEMMA EntriesAre ==
  /\ [status |-> "enabled", enabled |-> TRUE] \in
       [status : {"NONE", "enabled", "disabled", "review"}, enabled : BOOLEAN]
  /\ NotRegistered \in [status : {"NONE", "enabled", "disabled", "review"}, enabled : BOOLEAN]
  /\ Disabled \in [status : {"NONE", "enabled", "disabled", "review"}, enabled : BOOLEAN]
  /\ NotRegistered.status = "NONE" /\ Disabled.status = "disabled"
  /\ \A e \in [status : {"NONE", "enabled", "disabled", "review"}, enabled : BOOLEAN] :
       /\ Reviewed(e) \in [status : {"NONE", "enabled", "disabled", "review"}, enabled : BOOLEAN]
       /\ Reviewed(e).status = "review"
  BY DEF NotRegistered, Disabled, Reviewed

LEMMA FactorSteps ==
  ASSUME MonitorInv, NEW f \in Factors,
         RegisterFactor(f) \/ UnregisterFactor(f) \/ EnableFactor(f) \/ SetAside(f)
  PROVE  MonitorInv'
<1>1. checking' = checking /\ regime' = regime
  BY DEF RegisterFactor, UnregisterFactor, EnableFactor, SetAside
<1>2. factor[f] \in [status : {"NONE", "enabled", "disabled", "review"}, enabled : BOOLEAN]
  BY DEF MonitorInv
<1>3. PICK x : /\ x \in {[status |-> "enabled", enabled |-> TRUE], NotRegistered, Disabled,
                         Reviewed(factor[f])}
               /\ factor' = [factor EXCEPT ![f] = x]
               /\ \/ condemned' = condemned \ {f}
                  \/ condemned' = condemned /\ x \in {Disabled, Reviewed(factor[f])}
  BY DEF RegisterFactor, UnregisterFactor, EnableFactor, SetAside
<1>4. x \in [status : {"NONE", "enabled", "disabled", "review"}, enabled : BOOLEAN]
  BY <1>2, <1>3, EntriesAre
<1>5. x \in {Disabled, Reviewed(factor[f])} => x # NotRegistered /\ x.status # "enabled"
  BY <1>2, EntriesAre
<1>6. \/ condemned' = condemned \ {f}
      \/ /\ condemned' \in {condemned, condemned \union {f}}
         /\ x # NotRegistered
         /\ x.status = "enabled" => x = factor[f] /\ condemned' = condemned
  BY <1>3, <1>5
<1>7. /\ factor' \in [Factors -> [status : {"NONE", "enabled", "disabled", "review"},
                                  enabled : BOOLEAN]]
      /\ (condemned \subseteq Registered)'
      /\ FactorStaysOut'
  BY <1>3, <1>4, <1>6, FactorMoves
<1> QED BY <1>1, <1>7 DEF MonitorInv

LEMMA CheckEnds ==
  ASSUME MonitorInv, NEW c \in Checkers, EndCheck(c)
  PROVE  MonitorInv'
<1>1. PICK f : f = checking[c]
  OBVIOUS
<1>2. f \in Factors
  BY <1>1 DEF EndCheck, MonitorInv
<1>3. regime' = regime /\ checking' \in [Checkers -> Factors \union {NoValue}]
  BY DEF EndCheck, MonitorInv
<1>4. factor[f] \in [status : {"NONE", "enabled", "disabled", "review"}, enabled : BOOLEAN]
  BY <1>2 DEF MonitorInv
<1>5. PICK x : x = IF f \in Registered /\ RuleFires(f, "disable") THEN Disabled
                   ELSE IF f \in Registered /\ RuleFires(f, "review") THEN Reviewed(factor[f])
                   ELSE factor[f]
  OBVIOUS
<1>6. factor' = [factor EXCEPT ![f] = x]
  BY <1>1, <1>2, <1>5 DEF EndCheck, MonitorInv
<1>7. /\ condemned' = IF f \in Registered /\ (RuleFires(f, "disable") \/ RuleFires(f, "review"))
                      THEN condemned \union {f} ELSE condemned
  BY <1>1 DEF EndCheck
<1>8. x \in [status : {"NONE", "enabled", "disabled", "review"}, enabled : BOOLEAN]
  BY <1>4, <1>5, EntriesAre
<1>9. CASE f \in Registered
  <2>1. \/ x = factor[f] /\ condemned' = condemned
        \/ x.status # "enabled" /\ x.status # "NONE" /\ condemned' = condemned \union {f}
    BY <1>4, <1>5, <1>7, EntriesAre
  <2>2. x # NotRegistered
    BY <1>2, <1>9, <2>1, EntriesAre DEF Registered
  <2>3. /\ factor' \in [Factors -> [status : {"NONE", "enabled", "disabled", "review"},
                                    enabled : BOOLEAN]]
        /\ (condemned \subseteq Registered)'
        /\ FactorStaysOut'
    BY <1>2, <1>6, <1>8, <2>1, <2>2, FactorMoves
  <2> QED BY <1>3, <2>3 DEF MonitorInv
<1>10. CASE f \notin Registered
  <2>1. factor' = factor /\ condemned' = condemned
    BY <1>2, <1>5, <1>6, <1>7, <1>10 DEF MonitorInv
  <2> QED BY <1>3, <2>1 DEF MonitorInv, Registered, FactorStaysOut, GetEnabled
<1> QED BY <1>9, <1>10

LEMMA MonitorHolds == MonitorInv /\ [GovNext]_vars => MonitorInv'
<1> SUFFICES ASSUME MonitorInv, [GovNext]_vars PROVE MonitorInv'
  OBVIOUS
<1>1. CASE UNCHANGED <<factor, condemned, checking>> /\ regime' \in {regime, Detected}
  BY <1>1, RegimeIs DEF MonitorInv, Registered, FactorStaysOut, GetEnabled
<1>2. CASE MetricMoves \/ RunChecks \/ CheckByRequest \/ Detect
  BY <1>1, <1>2 DEF MetricMoves, RunChecks, CheckByRequest, Detect
<1>3. ASSUME NEW f \in Factors, NEW c \in Checkers, BeginCheck(c, f)
      PROVE  MonitorInv'
  <2>1. checking' \in [Checkers -> Factors \union {NoValue}]
    BY <1>3 DEF BeginCheck, MonitorInv
  <2>2. UNCHANGED <<factor, condemned, regime>>
    BY <1>3 DEF BeginCheck
  <2> QED BY <2>1, <2>2 DEF MonitorInv, Registered, FactorStaysOut, GetEnabled
<1>4. CASE MNext
  BY <1>2, <1>3, <1>4, FactorSteps, CheckEnds DEF MNext
<1>5. CASE UNCHANGED mvars
  BY <1>1, <1>5 DEF mvars
<1>6. CASE RebuildPool
  BY <1>5, <1>6 DEF RebuildPool
<1>7. ASSUME NEW s \in Symbols, BuildContext(s) PROVE MonitorInv'
  BY <1>1, <1>7 DEF BuildContext
<1> QED BY <1>4, <1>5, <1>6, <1>7 DEF GovNext, vars

-----------------------------------------------------------------------------
(* Arrangements: sets in order, and what a comprehension keeps.            *)

TotalOn(S, leq) ==
  /\ \A x, y \in S : <<x, y>> \in leq \/ <<y, x>> \in leq
  /\ \A x, y \in S : <<x, y>> \in leq /\ <<y, x>> \in leq => x = y
  /\ \A x, y, z \in S : <<x, y>> \in leq /\ <<y, z>> \in leq => <<x, z>> \in leq

UpTo(S, leq, x) == {y \in S : <<y, x>> \in leq}

\* f lists S in the order leq, and x is where its place says.
Orders(f, S, leq) ==
  /\ Cardinality(S) \in Nat /\ f \in [1 .. Cardinality(S) -> S]
  /\ \A x \in S : /\ Cardinality(UpTo(S, leq, x)) \in 1 .. Cardinality(S)
                  /\ f[Cardinality(UpTo(S, leq, x))] = x
  /\ \A j, k \in 1 .. Cardinality(S) : j <= k <=> <<f[j], f[k]>> \in leq
  /\ \A j, k \in 1 .. Cardinality(S) : f[j] = f[k] => j = k

LEMMA PlacesRise ==
  ASSUME NEW S, IsFiniteSet(S), NEW leq, TotalOn(S, leq), NEW x \in S, NEW y \in S
  PROVE  /\ Cardinality(UpTo(S, leq, x)) \in 1 .. Cardinality(S)
         /\ <<x, y>> \in leq /\ x # y =>
              ~(Cardinality(UpTo(S, leq, y)) <= Cardinality(UpTo(S, leq, x)))
<1> DEFINE X == UpTo(S, leq, x)
           Y == UpTo(S, leq, y)
<1>1. X \in SUBSET S /\ Y \in SUBSET S /\ x \in X /\ y \in Y
  BY DEF UpTo, TotalOn
<1> HIDE DEF X, Y
<1>2. /\ IsFiniteSet(X) /\ IsFiniteSet(Y) /\ Cardinality(X) <= Cardinality(S)
      /\ Cardinality(X) \in Nat /\ Cardinality(Y) \in Nat /\ Cardinality(S) \in Nat
  BY <1>1, FS_Subset, FS_CardinalityType
<1>3. Cardinality(X) # 0
  BY <1>1, <1>2, FS_EmptySet
<1>4. ASSUME <<x, y>> \in leq, x # y
      PROVE  ~(Cardinality(Y) <= Cardinality(X))
  <2>1. X \in SUBSET Y /\ y \notin X
    BY <1>4 DEF X, Y, UpTo, TotalOn
  <2>2. Cardinality(X) <= Cardinality(Y) /\ (Cardinality(Y) = Cardinality(X) => Y = X)
    BY <1>2, <2>1, FS_Subset
  <2> QED BY <1>1, <1>2, <2>1, <2>2
<1>5. Cardinality(X) \in 1 .. Cardinality(S)
  BY <1>2, <1>3
<1> QED BY <1>4, <1>5 DEF X, Y

LEMMA InOrderIs ==
  ASSUME NEW S, IsFiniteSet(S), NEW leq, TotalOn(S, leq)
  PROVE  Orders(InOrder(S, leq), S, leq)
<1> DEFINE n == Cardinality(S)
           place == [x \in S |-> Cardinality(UpTo(S, leq, x))]
           f == InOrder(S, leq)
<1>1. n \in Nat /\ IsFiniteSet(1 .. n) /\ Cardinality(1 .. n) = n
  BY FS_CardinalityType, FS_Interval
<1>2. place \in [S -> 1 .. n]
  BY PlacesRise
<1>3. \A x, y \in S : x # y => place[x] # place[y]
  <2>1. SUFFICES ASSUME NEW x \in S, NEW y \in S, x # y PROVE place[x] # place[y]
    OBVIOUS
  <2>2. <<x, y>> \in leq \/ <<y, x>> \in leq
    BY DEF TotalOn
  <2>3. place[x] \in Nat /\ place[y] \in Nat
    BY <1>1, <1>2
  <2> QED BY <2>1, <2>2, <2>3, PlacesRise
<1>4. \A x \in S : place[x] = Cardinality({y \in S : <<y, x>> \in leq})
  BY DEF UpTo
<1>5. f = [k \in 1 .. n |-> CHOOSE x \in S : Cardinality({y \in S : <<y, x>> \in leq}) = k]
  BY DEF InOrder
<1>6. \A x \in S : place[x] = Cardinality(UpTo(S, leq, x))
  OBVIOUS
<1> HIDE DEF f, place
<1>7. place \in Injection(S, 1 .. n)
  BY <1>2, <1>3 DEF Injection, IsInjective
<1>8. place \in Surjection(S, 1 .. n)
  BY <1>1, <1>7, FS_Injection
<1>9. \A k \in 1 .. n : \E x \in S : place[x] = k
  BY <1>8 DEF Surjection
<1>10. ASSUME NEW k \in 1 .. n PROVE f[k] \in S /\ place[f[k]] = k
  <2>1. \E x \in S : Cardinality({y \in S : <<y, x>> \in leq}) = k
    BY <1>4, <1>9
  <2>2. f[k] = CHOOSE x \in S : Cardinality({y \in S : <<y, x>> \in leq}) = k
    BY <1>5
  <2>3. f[k] \in S /\ Cardinality({y \in S : <<y, f[k]>> \in leq}) = k
    BY <2>1, <2>2
  <2> QED BY <1>4, <2>3
<1>11. f \in [1 .. n -> S]
  BY <1>5, <1>10
<1>12. \A x \in S : f[place[x]] = x
  BY <1>2, <1>3, <1>10
<1>13. ASSUME NEW j \in 1 .. n, NEW k \in 1 .. n PROVE j <= k <=> <<f[j], f[k]>> \in leq
  <2>1. PICK x \in S : x = f[j]
    BY <1>10
  <2>2. PICK y \in S : y = f[k]
    BY <1>10
  <2>3. place[x] = j /\ place[y] = k /\ j \in Nat /\ k \in Nat
    BY <1>1, <1>10, <2>1, <2>2
  <2>4. <<x, y>> \in leq \/ <<y, x>> \in leq
    BY DEF TotalOn
  <2>5. /\ <<x, y>> \in leq /\ x # y => ~(place[y] <= place[x])
        /\ <<y, x>> \in leq /\ y # x => ~(place[x] <= place[y])
    BY <1>6, PlacesRise
  <2>6. <<x, x>> \in leq
    BY DEF TotalOn
  <2>7. CASE x = y
    BY <2>1, <2>2, <2>3, <2>6, <2>7
  <2>8. CASE x # y /\ <<x, y>> \in leq
    BY <2>1, <2>2, <2>3, <2>5, <2>8
  <2>9. CASE x # y /\ <<x, y>> \notin leq
    BY <2>1, <2>2, <2>3, <2>4, <2>5, <2>9
  <2> QED BY <2>7, <2>8, <2>9
<1>14. \A j, k \in 1 .. n : f[j] = f[k] => j = k
  BY <1>10
<1> QED BY <1>1, <1>2, <1>6, <1>11, <1>12, <1>13, <1>14 DEF Orders, f

LEMMA SameSize ==
  ASSUME NEW S, IsFiniteSet(S), NEW T, NEW f \in [S -> T],
         \A x, y \in S : f[x] = f[y] => x = y, \A y \in T : \E x \in S : f[x] = y
  PROVE  IsFiniteSet(T) /\ Cardinality(T) = Cardinality(S)
<1>1. f \in Bijection(S, T)
  BY DEF Bijection, Injection, Surjection, IsInjective
<1> QED BY <1>1, FS_Bijection DEF ExistsBijection

\* f lists I, a set of numbers, upwards, with n numbers in all.
Enumerates(f, n, I) ==
  /\ n \in Nat /\ f \in [1 .. n -> I]
  /\ \A x \in I : \E k \in 1 .. n : f[k] = x
  /\ \A j, k \in 1 .. n : j <= k <=> f[j] <= f[k]

Numbering(I) == InOrder(I, Upwards(I))

LEMMA NumberingIs ==
  ASSUME NEW I \in SUBSET Nat, IsFiniteSet(I)
  PROVE  /\ Orders(Numbering(I), I, Upwards(I))
         /\ Enumerates(Numbering(I), Cardinality(I), I)
<1>1. TotalOn(I, Upwards(I))
  BY DEF TotalOn, Upwards
<1> DEFINE f == Numbering(I)
<1>2. Orders(f, I, Upwards(I))
  BY <1>1, InOrderIs DEF Numbering
<1> HIDE DEF f
<1>3. \A x, y \in I : <<x, y>> \in Upwards(I) <=> x <= y
  BY DEF Upwards
<1> QED BY <1>2, <1>3 DEF Orders, Enumerates, f

\* There is one way of listing a set upwards.
LEMMA OneNumbering ==
  ASSUME NEW I \in SUBSET Nat, NEW n, NEW f, Enumerates(f, n, I)
  PROVE  /\ IsFiniteSet(I) /\ n = Cardinality(I)
         /\ \A k \in 1 .. n : f[k] = Numbering(I)[k]
<1>1. n \in Nat /\ f \in [1 .. n -> I] /\ IsFiniteSet(1 .. n) /\ Cardinality(1 .. n) = n
  BY FS_Interval DEF Enumerates
<1>2. \A j, k \in 1 .. n : f[j] = f[k] => j = k
  BY <1>1 DEF Enumerates
<1>3. \A x \in I : \E k \in 1 .. n : f[k] = x
  BY DEF Enumerates
<1>4. IsFiniteSet(I) /\ Cardinality(I) = n
  BY <1>1, <1>2, <1>3, SameSize
<1>5. Orders(Numbering(I), I, Upwards(I))
  BY <1>4, NumberingIs
<1>6. ASSUME NEW k \in 1 .. n PROVE f[k] = Numbering(I)[k]
  <2> DEFINE U == UpTo(I, Upwards(I), f[k])
             h == [j \in 1 .. k |-> f[j]]
  <2>1. U = {y \in I : y <= f[k]}
    BY <1>1 DEF UpTo, Upwards
  <2>2. k \in Nat /\ 1 .. k \subseteq 1 .. n /\ IsFiniteSet(1 .. k) /\ Cardinality(1 .. k) = k
    BY <1>1, FS_Interval
  <2>3. \A j \in 1 .. n : f[j] \in U <=> j <= k
    BY <1>1, <2>1 DEF Enumerates
  <2>4. \A y \in U : \E j \in 1 .. k : f[j] = y
    <3>1. SUFFICES ASSUME NEW y \in U PROVE \E j \in 1 .. k : f[j] = y
      OBVIOUS
    <3>2. PICK j \in 1 .. n : f[j] = y
      BY <2>1 DEF Enumerates
    <3>3. j <= k
      BY <2>3, <3>2
    <3> QED BY <1>1, <3>2, <3>3
  <2>5. \A j \in 1 .. k : j \in 1 .. n /\ j <= k
    BY <1>1, <2>2
  <2> HIDE DEF U
  <2>6. /\ h \in [1 .. k -> U] /\ \A j \in 1 .. k : h[j] = f[j]
        /\ \A i, j \in 1 .. k : h[i] = h[j] => i = j
    BY <1>2, <2>3, <2>5
  <2> HIDE DEF h
  <2>7. Cardinality(U) = k
    BY <2>2, <2>4, <2>6, SameSize
  <2> QED BY <1>1, <1>5, <2>7 DEF Orders, U
<1> QED BY <1>4, <1>6

LEMMA ShiftedNumbers ==
  ASSUME NEW J \in SUBSET Nat, NEW m, NEW g, Enumerates(g, m, J), NEW d \in Nat
  PROVE  Enumerates([k \in 1 .. m |-> g[k] + d], m, {j + d : j \in J})
<1> DEFINE h == [k \in 1 .. m |-> g[k] + d]
<1>1. m \in Nat /\ g \in [1 .. m -> J]
  BY DEF Enumerates
<1>2. \A k \in 1 .. m : g[k] \in Nat /\ h[k] = g[k] + d
  BY <1>1
<1>3. h \in [1 .. m -> {j + d : j \in J}]
  BY <1>1
<1>4. \A x \in {j + d : j \in J} : \E k \in 1 .. m : h[k] = x
  BY DEF Enumerates
<1>5. \A j, k \in 1 .. m : j <= k <=> h[j] <= h[k]
  <2>1. SUFFICES ASSUME NEW j \in 1 .. m, NEW k \in 1 .. m PROVE j <= k <=> h[j] <= h[k]
    OBVIOUS
  <2>2. j <= k <=> g[j] <= g[k]
    BY DEF Enumerates
  <2> HIDE DEF h
  <2> QED BY <1>2, <2>2
<1> HIDE DEF h
<1> QED BY <1>1, <1>3, <1>4, <1>5 DEF Enumerates, h

LEMMA JoinedNumbers ==
  ASSUME NEW I \in SUBSET Nat, NEW n, NEW f, Enumerates(f, n, I),
         NEW J \in SUBSET Nat, NEW m, NEW g, Enumerates(g, m, J),
         \A i \in I, j \in J : i < j
  PROVE  Enumerates([k \in 1 .. n + m |-> IF k <= n THEN f[k] ELSE g[k - n]], n + m, I \union J)
<1> DEFINE h == [k \in 1 .. n + m |-> IF k <= n THEN f[k] ELSE g[k - n]]
<1>1. n \in Nat /\ f \in [1 .. n -> I] /\ m \in Nat /\ g \in [1 .. m -> J]
  BY DEF Enumerates
<1>2. ASSUME NEW k \in 1 .. n + m
      PROVE  \/ k \in 1 .. n /\ h[k] = f[k] /\ h[k] \in I
             \/ k - n \in 1 .. m /\ k > n /\ h[k] = g[k - n] /\ h[k] \in J
  BY <1>1
<1>3. h \in [1 .. n + m -> I \union J]
  BY <1>2
<1>4. \A k \in 1 .. n : k \in 1 .. n + m /\ h[k] = f[k]
  BY <1>1
<1>5. \A k \in 1 .. m : k + n \in 1 .. n + m /\ h[k + n] = g[k]
  BY <1>1
<1> HIDE DEF h
<1>6. \A x \in I \union J : \E k \in 1 .. n + m : h[k] = x
  <2>1. ASSUME NEW x \in I PROVE \E k \in 1 .. n + m : h[k] = x
    BY <1>4 DEF Enumerates
  <2>2. ASSUME NEW x \in J PROVE \E k \in 1 .. n + m : h[k] = x
    <3>1. PICK k \in 1 .. m : g[k] = x
      BY <2>2 DEF Enumerates
    <3> QED BY <3>1, <1>5
  <2> QED BY <2>1, <2>2
<1>7. ASSUME NEW j \in 1 .. n + m, NEW k \in 1 .. n + m PROVE j <= k <=> h[j] <= h[k]
  <2>1. CASE j \in 1 .. n /\ k \in 1 .. n
    BY <2>1, <1>4 DEF Enumerates
  <2>2. CASE j - n \in 1 .. m /\ k - n \in 1 .. m /\ j > n /\ k > n
    <3>1. j - n <= k - n <=> g[j - n] <= g[k - n]
      BY <2>2 DEF Enumerates
    <3>2. h[j] = g[j - n] /\ h[k] = g[k - n]
      BY <1>1, <1>2, <2>2
    <3> QED BY <1>1, <3>1, <3>2
  <2>3. CASE j \in 1 .. n /\ h[j] \in I /\ k > n /\ h[k] \in J
    <3>1. h[j] < h[k] /\ h[j] \in Nat /\ h[k] \in Nat
      BY <2>3
    <3> QED BY <1>1, <2>3, <3>1
  <2>4. CASE k \in 1 .. n /\ h[k] \in I /\ j > n /\ h[j] \in J
    <3>1. h[k] < h[j] /\ h[j] \in Nat /\ h[k] \in Nat
      BY <2>4
    <3> QED BY <1>1, <2>4, <3>1
  <2> QED BY <1>2, <2>1, <2>2, <2>3, <2>4
<1>8. n + m \in Nat
  BY <1>1
<1> QED BY <1>3, <1>6, <1>7, <1>8 DEF Enumerates, h

\* w is where the m numbers h lists stand in the n numbers e lists.
Inside(w, m, h, B, n, e) ==
  /\ Enumerates(w, m, {i \in 1 .. n : e[i] \in B})
  /\ \A k \in 1 .. m : e[w[k]] = h[k]

\* What is listed of a list is listed upwards where it stands in that list.
LEMMA NumbersWithin ==
  ASSUME NEW A \in SUBSET Nat, NEW n, NEW e, Enumerates(e, n, A),
         NEW B \in SUBSET A, NEW m, NEW h, Enumerates(h, m, B)
  PROVE  \E w : Inside(w, m, h, B, n, e)
<1> DEFINE w == [k \in 1 .. m |-> CHOOSE i \in 1 .. n : e[i] = h[k]]
           W == {i \in 1 .. n : e[i] \in B}
<1>1. n \in Nat /\ e \in [1 .. n -> A] /\ m \in Nat /\ h \in [1 .. m -> B]
  BY DEF Enumerates
<1>2. ASSUME NEW k \in 1 .. m PROVE w[k] \in 1 .. n /\ e[w[k]] = h[k]
  <2>1. \E i \in 1 .. n : e[i] = h[k]
    BY <1>1 DEF Enumerates
  <2> QED BY <2>1
<1> HIDE DEF w
<1>3. w \in [1 .. m -> W]
  <2>1. w = [k \in 1 .. m |-> w[k]]
    BY DEF w
  <2> QED BY <1>1, <1>2, <2>1
<1>4. \A j, k \in 1 .. n : e[j] = e[k] => j = k
  BY <1>1 DEF Enumerates
<1>5. \A i \in W : \E k \in 1 .. m : w[k] = i
  <2>1. SUFFICES ASSUME NEW i \in W PROVE \E k \in 1 .. m : w[k] = i
    OBVIOUS
  <2>2. PICK k \in 1 .. m : h[k] = e[i]
    BY DEF Enumerates
  <2> QED BY <1>2, <1>4, <2>2
<1>6. ASSUME NEW j \in 1 .. m, NEW k \in 1 .. m PROVE j <= k <=> w[j] <= w[k]
  <2>1. j <= k <=> h[j] <= h[k]
    BY DEF Enumerates
  <2>2. w[j] <= w[k] <=> e[w[j]] <= e[w[k]]
    BY <1>2 DEF Enumerates
  <2> QED BY <1>2, <2>1, <2>2
<1>7. Enumerates(w, m, W)
  BY <1>1, <1>3, <1>5, <1>6 DEF Enumerates
<1>8. Inside(w, m, h, B, n, e)
  BY <1>2, <1>7 DEF Inside
<1> QED BY <1>8

-----------------------------------------------------------------------------
(* What is kept of a sequence.                                             *)

LEMMA KeptIs ==
  ASSUME NEW X, NEW s \in Seq(X), NEW at \in SUBSET DOMAIN s
  PROVE  /\ IsFiniteSet(at) /\ at \in SUBSET Nat /\ Cardinality(at) \in Nat
         /\ Kept(s, at) \in Seq(X) /\ DOMAIN Kept(s, at) = 1 .. Cardinality(at)
         /\ Len(Kept(s, at)) = Cardinality(at)
         /\ Enumerates(Numbering(at), Cardinality(at), at)
         /\ \A k \in 1 .. Cardinality(at) : Numbering(at)[k] \in at
                                         /\ Kept(s, at)[k] = s[Numbering(at)[k]]
<1>1. DOMAIN s = 1 .. Len(s) /\ Len(s) \in Nat /\ s \in [1 .. Len(s) -> X]
  BY LenProperties
<1>2. IsFiniteSet(at) /\ at \in SUBSET Nat /\ Cardinality(at) \in Nat
  <2>1. IsFiniteSet(1 .. Len(s)) /\ at \in SUBSET (1 .. Len(s))
    BY <1>1, FS_Interval
  <2>2. IsFiniteSet(at)
    BY <2>1, FS_Subset
  <2> QED BY <1>1, <2>1, <2>2, FS_CardinalityType
<1>3. Enumerates(Numbering(at), Cardinality(at), at)
  BY <1>2, NumberingIs
<1>4. PICK n \in Nat : n = Cardinality(at)
  BY <1>2
<1>5. PICK g : g = Numbering(at)
  OBVIOUS
<1>6. g \in [1 .. n -> at]
  BY <1>3, <1>4, <1>5 DEF Enumerates
<1>7. Kept(s, at) = [k \in 1 .. n |-> s[g[k]]]
  <2>1. Kept(s, at) = AtIndices(s, g)
    BY <1>5 DEF Kept, Numbering
  <2>2. DOMAIN g = 1 .. n
    BY <1>6
  <2>3. AtIndices(s, g) = [k \in DOMAIN g |-> s[g[k]]]
    BY DEF AtIndices
  <2> QED BY <2>1, <2>2, <2>3
<1>8. \A k \in 1 .. n : g[k] \in at /\ g[k] \in 1 .. Len(s) /\ s[g[k]] \in X
  BY <1>1, <1>6
<1>9. Kept(s, at) \in [1 .. n -> X]
  BY <1>7, <1>8
<1>10. Kept(s, at) \in Seq(X) /\ DOMAIN Kept(s, at) = 1 .. n
  BY <1>9, SeqDef
<1>11. Len(Kept(s, at)) = n
  BY <1>4, <1>10, LenProperties
<1> QED BY <1>2, <1>3, <1>4, <1>5, <1>7, <1>8, <1>10, <1>11

\* A sequence has what stands at its indices.
LEMMA KeptHas ==
  ASSUME NEW X, NEW s \in Seq(X), NEW at \in SUBSET DOMAIN s
  PROVE  /\ Range(Kept(s, at)) = {s[i] : i \in at}
         /\ Kept(s, at) = <<>> <=> at = {}
<1> DEFINE n == Cardinality(at)
           g == Numbering(at)
           k == Kept(s, at)
<1>1. /\ IsFiniteSet(at) /\ n \in Nat /\ k \in Seq(X) /\ DOMAIN k = 1 .. n
      /\ Len(k) = n /\ Enumerates(g, n, at)
      /\ \A j \in 1 .. n : g[j] \in at /\ k[j] = s[g[j]]
  BY KeptIs
<1>2. n = 0 <=> at = {}
  BY <1>1, FS_EmptySet
<1> HIDE DEF n, g, k
<1>3. \A i \in at : \E j \in 1 .. n : g[j] = i
  BY <1>1 DEF Enumerates
<1>4. Range(k) = {s[i] : i \in at}
  BY SMTT(30), <1>1, <1>3 DEF Range
<1>5. k = <<>> <=> n = 0
  BY <1>1, EmptySeq
<1> QED BY <1>2, <1>4, <1>5 DEF k

\* The places of a sequence that hold something of Y, and how many they are.
Places(s, Y) == {i \in DOMAIN s : s[i] \in Y}
Times(s, Y) == Cardinality(Places(s, Y))

LEMMA TimesNat ==
  ASSUME NEW X, NEW s \in Seq(X), NEW Y
  PROVE  IsFiniteSet(Places(s, Y)) /\ Times(s, Y) \in Nat
<1>1. DOMAIN s = 1 .. Len(s) /\ Len(s) \in Nat
  BY LenProperties
<1>2. IsFiniteSet(1 .. Len(s)) /\ Places(s, Y) \in SUBSET (1 .. Len(s))
  BY <1>1, FS_Interval DEF Places
<1>3. IsFiniteSet(Places(s, Y))
  BY <1>2, FS_Subset
<1> QED BY <1>3, FS_CardinalityType DEF Times

LEMMA TimesKept ==
  ASSUME NEW X, NEW s \in Seq(X), NEW at \in SUBSET DOMAIN s, NEW Y
  PROVE  Times(Kept(s, at), Y) = Cardinality(at \cap Places(s, Y))
<1> DEFINE n == Cardinality(at)
           g == Numbering(at)
           k == Kept(s, at)
           P == Places(k, Y)
           h == [j \in P |-> g[j]]
<1>1. /\ n \in Nat /\ k \in Seq(X) /\ DOMAIN k = 1 .. n /\ Enumerates(g, n, at)
      /\ \A j \in 1 .. n : g[j] \in at /\ k[j] = s[g[j]] /\ g[j] \in Nat
  BY KeptIs
<1> HIDE DEF n, g, k
<1>2. IsFiniteSet(P)
  BY <1>1, TimesNat
<1>3. \A j \in 1 .. n : j \in P <=> g[j] \in Places(s, Y)
  BY <1>1 DEF Places
<1>4. \A j \in P : j \in 1 .. n
  BY <1>1 DEF Places
<1>5. h \in [P -> at \cap Places(s, Y)]
  BY <1>1, <1>3, <1>4
<1>6. \A i, j \in P : h[i] = h[j] => i = j
  <2>1. SUFFICES ASSUME NEW i \in P, NEW j \in P, g[i] = g[j] PROVE i = j
    OBVIOUS
  <2>2. i \in 1 .. n /\ j \in 1 .. n /\ g[i] <= g[j] /\ g[j] <= g[i]
    BY <1>1, <1>4, <2>1
  <2>3. i <= j /\ j <= i
    BY <1>1, <2>2 DEF Enumerates
  <2> QED BY <1>1, <2>2, <2>3
<1>7. \A x \in at \cap Places(s, Y) : \E j \in P : h[j] = x
  BY <1>1, <1>3 DEF Enumerates
<1> HIDE DEF P, h
<1>8. Cardinality(at \cap Places(s, Y)) = Cardinality(P)
  BY <1>2, <1>5, <1>6, <1>7, SameSize
<1> QED BY <1>8 DEF Times, P, k

\* What is kept and what is left make up the whole.
LEMMA TimesSplit ==
  ASSUME NEW X, NEW s \in Seq(X), NEW at \in SUBSET DOMAIN s, NEW Y
  PROVE  Times(s, Y) = Times(Kept(s, at), Y) + Times(Kept(s, DOMAIN s \ at), Y)
<1> DEFINE A == at \cap Places(s, Y)
           B == (DOMAIN s \ at) \cap Places(s, Y)
<1>1. IsFiniteSet(Places(s, Y))
  BY TimesNat
<1>2. A \union B = Places(s, Y) /\ A \cap B = {}
  BY DEF Places
<1>3. IsFiniteSet(A) /\ IsFiniteSet(B)
  BY <1>1, FS_Subset
<1>4. Cardinality(A \union B) = Cardinality(A) + Cardinality(B) - Cardinality({})
  <2> HIDE DEF A, B
  <2> QED BY <1>2, <1>3, FS_Union
<1>5. Cardinality(A) \in Nat /\ Cardinality(B) \in Nat /\ Cardinality({}) = 0
  BY <1>3, FS_CardinalityType, FS_EmptySet
<1>6. Times(Kept(s, at), Y) = Cardinality(A) /\ Times(Kept(s, DOMAIN s \ at), Y) = Cardinality(B)
  BY TimesKept
<1> HIDE DEF A, B
<1>7. Cardinality(A \union B) = Cardinality(A) + Cardinality(B)
  BY <1>2, <1>4, <1>5
<1> QED BY <1>2, <1>6, <1>7 DEF Times

LEMMA TimesJoined ==
  ASSUME NEW X, NEW s \in Seq(X), NEW t \in Seq(X), NEW Y
  PROVE  Times(s \o t, Y) = Times(s, Y) + Times(t, Y)
<1> DEFINE n == Len(s)
           A == Places(s, Y)
           T == Places(t, Y)
           h == [j \in T |-> n + j]
           B == {n + j : j \in T}
<1>1. /\ DOMAIN s = 1 .. Len(s) /\ Len(s) \in Nat /\ DOMAIN t = 1 .. Len(t) /\ Len(t) \in Nat
      /\ s \o t \in Seq(X) /\ Len(s \o t) = Len(s) + Len(t)
      /\ \A i \in 1 .. Len(s) + Len(t) :
           (s \o t)[i] = IF i <= Len(s) THEN s[i] ELSE t[i - Len(s)]
  BY LenProperties, ConcatProperties
<1>2. DOMAIN (s \o t) = 1 .. Len(s) + Len(t)
  BY <1>1, LenProperties
<1>3. IsFiniteSet(A) /\ IsFiniteSet(T) /\ Cardinality(A) \in Nat /\ Cardinality(T) \in Nat
  BY TimesNat DEF Times
<1>4. T \in SUBSET (1 .. Len(t))
  BY <1>1 DEF Places
<1>5. ASSUME NEW i PROVE i \in Places(s \o t, Y) <=> i \in A \union B
  <2>1. CASE i \in 1 .. Len(s)
    BY <1>1, <1>2, <1>4, <2>1 DEF Places
  <2>2. ASSUME i \in 1 .. Len(s) + Len(t), ~(i <= Len(s))
        PROVE  i \in Places(s \o t, Y) <=> i \in A \union B
    <3>1. i - Len(s) \in 1 .. Len(t) /\ i = Len(s) + (i - Len(s)) /\ i \notin A
      BY <1>1, <2>2 DEF Places
    <3>2. i \in Places(s \o t, Y) <=> i - Len(s) \in T
      BY <1>1, <1>2, <2>2, <3>1 DEF Places
    <3>3. i \in B <=> i - Len(s) \in T
      BY <1>1, <1>4, <3>1
    <3> QED BY <3>1, <3>2, <3>3
  <2>3. CASE i \notin 1 .. Len(s) + Len(t)
    <3>1. i \notin Places(s \o t, Y)
      BY <1>2, <2>3 DEF Places
    <3>2. i \notin A
      BY <1>1, <2>3 DEF Places
    <3>3. i \notin B
      BY <1>1, <1>4, <2>3
    <3> QED BY <3>1, <3>2, <3>3
  <2> QED BY <1>1, <2>1, <2>2, <2>3
<1>6. Places(s \o t, Y) = A \union B
  BY <1>5
<1>7. A \cap B = {}
  BY <1>1, <1>4 DEF Places
<1>8. IsFiniteSet(B) /\ Cardinality(B) = Cardinality(T)
  <2>1. h \in [T -> B] /\ \A y \in B : \E x \in T : h[x] = y
    OBVIOUS
  <2>2. \A x, y \in T : h[x] = h[y] => x = y
    BY <1>1, <1>4
  <2> HIDE DEF T, B, h
  <2> QED BY <1>3, <2>1, <2>2, SameSize
<1> HIDE DEF A, B, T
<1>9. Cardinality(A \union B) = Cardinality(A) + Cardinality(B) - Cardinality(A \cap B)
  BY <1>3, <1>8, FS_Union
<1>10. Cardinality(A \cap B) = 0
  BY <1>7, FS_EmptySet
<1> QED BY <1>3, <1>6, <1>8, <1>9, <1>10 DEF Times, A, T

-----------------------------------------------------------------------------
(* Sequences end to end.                                                   *)

LEMMA FromOneOn ==
  ASSUME NEW n \in Nat, NEW T \in SUBSET (1 .. n), 1 \in T,
         \A i \in 1 .. n : i # 1 /\ i - 1 \in T => i \in T
  PROVE  \A i \in 1 .. n : i \in T
<1> DEFINE C == {i \in 1 .. n : i \notin T}
<1>1. SUFFICES ASSUME C # {} PROVE FALSE
  OBVIOUS
<1>2. PICK i \in C : \A j \in C : i <= j
  <2>1. C \in SUBSET Nat
    OBVIOUS
  <2> HIDE DEF C
  <2> QED BY <1>1, <2>1, LeastOf
<1>3. i # 1 /\ i - 1 \in 1 .. n
  BY <1>2
<1>4. i - 1 \in T
  <2>1. i - 1 \in Int /\ ~(i <= i - 1)
    BY <1>2
  <2> QED BY <1>2, <1>3, <2>1
<1> QED BY <1>2, <1>3, <1>4

Glued(g, seqs) ==
  g = [i \in 1 .. Len(seqs) |-> IF i = 1 THEN seqs[i] ELSE g[i - 1] \o seqs[i]]

LEMMA GluedExists ==
  ASSUME NEW X, NEW seqs \in Seq(X)
  PROVE  Len(seqs) # 0 => \E g : Glued(g, seqs)
<1> DEFINE n == Len(seqs)
           Upto(g, m) == g = [i \in 1 .. m |-> IF i = 1 THEN seqs[i] ELSE g[i - 1] \o seqs[i]]
           T == {m \in 1 .. n : \E g : Upto(g, m)}
<1>1. n \in Nat
  BY LenProperties
<1> HIDE DEF n
<1> SUFFICES ASSUME n # 0 PROVE \E g : Upto(g, n)
  BY DEF n, Glued
<1>2. 1 \in T
  <2> DEFINE h == [i \in 1 .. 1 |-> seqs[i]]
  <2>1. Upto(h, 1)
    OBVIOUS
  <2>2. 1 \in 1 .. n
    BY <1>1
  <2> HIDE DEF h, Upto
  <2> QED BY <2>1, <2>2
<1>3. ASSUME NEW m \in 1 .. n, m # 1, m - 1 \in T PROVE m \in T
  <2>1. PICK g : Upto(g, m - 1)
    BY <1>3
  <2> DEFINE h == [i \in 1 .. m |-> IF i = m THEN g[m - 1] \o seqs[m] ELSE g[i]]
  <2>2. ASSUME NEW i \in 1 .. m PROVE h[i] = IF i = 1 THEN seqs[i] ELSE h[i - 1] \o seqs[i]
    <3>1. CASE i = m
      <4>1. i - 1 \in 1 .. m /\ i - 1 # m
        BY <1>1, <1>3, <3>1
      <4> QED BY <3>1, <4>1, <1>3
    <3>2. CASE i # m
      <4>1. i \in 1 .. m - 1 /\ (i # 1 => i - 1 \in 1 .. m /\ i - 1 # m)
        BY <1>1, <1>3, <3>2
      <4>2. g[i] = IF i = 1 THEN seqs[i] ELSE g[i - 1] \o seqs[i]
        BY <2>1, <4>1
      <4> QED BY <3>2, <4>1, <4>2
    <3> QED BY <3>1, <3>2
  <2>3. h = [i \in 1 .. m |-> h[i]]
    OBVIOUS
  <2>4. Upto(h, m)
    <3> HIDE DEF h
    <3> QED BY <2>2, <2>3
  <2> HIDE DEF h, Upto
  <2> QED BY <2>4
<1>4. n \in 1 .. n
  BY <1>1
<1> HIDE DEF Upto
<1>5. \A m \in 1 .. n : m \in T
  <2>1. T \in SUBSET (1 .. n)
    OBVIOUS
  <2> HIDE DEF T
  <2> QED BY <1>1, <1>2, <1>3, <2>1, FromOneOn
<1> QED BY <1>4, <1>5

\* Where the elements of the first m sequences are; what lays them end to end.
Within(seqs, m) == {l \in Nat \X Nat : l[1] \in 1 .. m /\ l[2] \in DOMAIN seqs[l[1]]}

LaidOut(F, at, seqs, m) ==
  /\ at \in [DOMAIN F -> Within(seqs, m)]
  /\ \A l \in Within(seqs, m) : \E j \in DOMAIN F : at[j] = l
  /\ \A j \in DOMAIN F : F[j] = seqs[at[j][1]][at[j][2]]
  /\ \A j, k \in DOMAIN F : /\ at[j] = at[k] => j = k
                            /\ j <= k => at[j][1] <= at[k][1]

LEMMA LaidFirst ==
  ASSUME NEW X, NEW seqs \in Seq(Seq(X)), Len(seqs) # 0
  PROVE  \E at : LaidOut(seqs[1], at, seqs, 1)
<1> DEFINE F == seqs[1]
           at == [j \in DOMAIN F |-> <<1, j>>]
<1>1. 1 \in 1 .. Len(seqs) /\ Len(seqs) \in Nat
  BY LenProperties
<1>2. F \in Seq(X)
  BY <1>1, ElementOfSeq
<1>3. DOMAIN F = 1 .. Len(F) /\ Len(F) \in Nat
  BY <1>2, LenProperties
<1>4. \A l \in Within(seqs, 1) : l = <<1, l[2]>> /\ l[2] \in DOMAIN F
  BY DEF Within
<1>5. \A j \in DOMAIN F : <<1, j>> \in Within(seqs, 1)
  BY <1>3 DEF Within
<1>6. \A j \in DOMAIN F : at[j] = <<1, j>>
  OBVIOUS
<1>7. at \in [DOMAIN F -> Within(seqs, 1)]
  BY <1>5
<1>8. \A l \in Within(seqs, 1) : \E j \in DOMAIN F : at[j] = l
  BY <1>4, <1>6
<1>9. \A j \in DOMAIN F : at[j][1] = 1 /\ at[j][2] = j
  BY <1>6
<1> HIDE DEF at
<1>10. LaidOut(F, at, seqs, 1)
  BY <1>7, <1>8, <1>9 DEF LaidOut
<1> QED BY <1>10

LEMMA LaidNext ==
  ASSUME NEW X, NEW seqs \in Seq(Seq(X)), NEW m \in 1 .. Len(seqs), m # 1,
         NEW F \in Seq(X), NEW at, LaidOut(F, at, seqs, m - 1)
  PROVE  /\ F \o seqs[m] \in Seq(X)
         /\ \E to : LaidOut(F \o seqs[m], to, seqs, m)
<1> DEFINE t == seqs[m]
           n == Len(F)
           G == F \o t
           to == [j \in 1 .. n + Len(t) |-> IF j <= n THEN at[j] ELSE <<m, j - n>>]
<1>1. Len(seqs) \in Nat /\ m \in Nat /\ m >= 2
  BY LenProperties
<1>2. t \in Seq(X)
  BY ElementOfSeq
<1>3. /\ DOMAIN F = 1 .. n /\ n \in Nat /\ DOMAIN t = 1 .. Len(t) /\ Len(t) \in Nat
      /\ G \in Seq(X) /\ DOMAIN G = 1 .. n + Len(t)
      /\ \A i \in 1 .. n + Len(t) : G[i] = IF i <= n THEN F[i] ELSE t[i - n]
  <2>1. /\ G \in Seq(X) /\ Len(G) = Len(F) + Len(t)
        /\ \A i \in 1 .. Len(F) + Len(t) : G[i] = IF i <= Len(F) THEN F[i] ELSE t[i - Len(F)]
    <3> HIDE DEF t
    <3> QED BY <1>2, ConcatProperties
  <2> HIDE DEF t, G
  <2> QED BY <1>2, <2>1, LenProperties
<1>4. /\ \A j \in 1 .. n : at[j] \in Within(seqs, m - 1)
      /\ \A l \in Within(seqs, m - 1) : \E j \in 1 .. n : at[j] = l
      /\ \A j \in 1 .. n : F[j] = seqs[at[j][1]][at[j][2]]
      /\ \A j, k \in 1 .. n : /\ at[j] = at[k] => j = k
                              /\ j <= k => at[j][1] <= at[k][1]
  BY <1>3 DEF LaidOut
<1>5. \A l \in Within(seqs, m - 1) : l \in Within(seqs, m) /\ l[1] \in Nat /\ l[1] < m
  BY SMTT(30), <1>1 DEF Within
<1>6. \A i \in 1 .. Len(t) : <<m, i>> \in Within(seqs, m)
  BY <1>1, <1>3 DEF Within
<1>7. ASSUME NEW l \in Within(seqs, m)
      PROVE  l \in Within(seqs, m - 1) \/ \E i \in 1 .. Len(t) : l = <<m, i>>
  <2>1. l \in Nat \X Nat /\ l[1] \in 1 .. m /\ l[2] \in DOMAIN seqs[l[1]]
    BY DEF Within
  <2>2. CASE l[1] = m
    BY <1>3, <2>1, <2>2
  <2>3. CASE l[1] # m
    <3>1. l[1] \in 1 .. m - 1
      BY <1>1, <2>1, <2>3
    <3> QED BY <2>1, <3>1 DEF Within
  <2> QED BY <2>2, <2>3
<1>8. \A j \in 1 .. n : j \in 1 .. n + Len(t) /\ to[j] = at[j]
  BY <1>3
<1>9. \A i \in 1 .. Len(t) : n + i \in 1 .. n + Len(t) /\ to[n + i] = <<m, i>>
  <2>1. ASSUME NEW i \in 1 .. Len(t) PROVE n + i \in 1 .. n + Len(t) /\ ~(n + i <= n) /\ n + i - n = i
    BY <1>3
  <2> QED BY <2>1
<1>10. to = [j \in 1 .. n + Len(t) |-> to[j]]
  OBVIOUS
<1>11. \A j \in 1 .. n + Len(t) : j \in 1 .. n \/ \E i \in 1 .. Len(t) : j = n + i
  <2>1. SUFFICES ASSUME NEW j \in 1 .. n + Len(t), j \notin 1 .. n PROVE \E i \in 1 .. Len(t) : j = n + i
    OBVIOUS
  <2>2. j - n \in 1 .. Len(t) /\ j = n + (j - n)
    BY <1>3, <2>1
  <2> QED BY <2>2
<1>12. PICK W, V : W = Within(seqs, m) /\ V = Within(seqs, m - 1)
  OBVIOUS
<1> HIDE DEF to, G, n, t
<1>13. \A j \in 1 .. n : to[j] \in V /\ to[j] \in W /\ to[j][1] \in Nat /\ to[j][1] < m
  BY <1>4, <1>5, <1>8, <1>12
<1>14. \A i \in 1 .. Len(t) : to[n + i] \in W /\ to[n + i] = <<m, i>>
  BY <1>6, <1>9, <1>12
<1>15. to \in [1 .. n + Len(t) -> W]
  <2>1. \A j \in 1 .. n + Len(t) : to[j] \in W
    BY <1>11, <1>13, <1>14
  <2> QED BY <1>10, <2>1
<1>16. ASSUME NEW l \in W PROVE \E j \in 1 .. n + Len(t) : to[j] = l
  <2>1. CASE l \in V
    <3>1. PICK j \in 1 .. n : at[j] = l
      BY <1>4, <1>12, <2>1
    <3>2. j \in 1 .. n + Len(t) /\ to[j] = at[j]
      BY <1>8
    <3> QED BY <3>1, <3>2
  <2>2. ASSUME NEW i \in 1 .. Len(t), l = <<m, i>> PROVE \E j \in 1 .. n + Len(t) : to[j] = l
    BY <1>9, <2>2
  <2> QED BY <1>7, <1>12, <2>1, <2>2
<1>17. ASSUME NEW j \in 1 .. n + Len(t) PROVE G[j] = seqs[to[j][1]][to[j][2]]
  <2>1. ASSUME j \in 1 .. n PROVE G[j] = seqs[to[j][1]][to[j][2]]
    <3>1. F[j] = seqs[at[j][1]][at[j][2]]
      BY <1>4, <2>1
    <3>2. j <= n /\ to[j] = at[j]
      <4>1. j <= n
        BY <2>1
      <4> QED BY <1>8, <2>1, <4>1
    <3>3. G[j] = F[j]
      BY <1>3, <3>2
    <3> QED BY <3>1, <3>2, <3>3
  <2>2. ASSUME NEW i \in 1 .. Len(t), j = n + i PROVE G[j] = seqs[to[j][1]][to[j][2]]
    <3>1. G[j] = t[i]
      BY <1>3, <2>2
    <3> QED BY <1>9, <2>2, <3>1 DEF t
  <2> QED BY <1>11, <2>1, <2>2
<1>18. ASSUME NEW j \in 1 .. n + Len(t), NEW k \in 1 .. n + Len(t)
       PROVE  /\ to[j] = to[k] => j = k
              /\ j <= k => to[j][1] <= to[k][1]
  <2>1. ASSUME j \in 1 .. n, k \in 1 .. n
        PROVE  (to[j] = to[k] => j = k) /\ (j <= k => to[j][1] <= to[k][1])
    <3>1. /\ at[j] = at[k] => j = k
          /\ j <= k => at[j][1] <= at[k][1]
      BY <1>4, <2>1
    <3>2. to[j] = at[j] /\ to[k] = at[k]
      BY <1>8, <2>1
    <3> QED BY <3>1, <3>2
  <2>2. ASSUME j \in 1 .. n, NEW i \in 1 .. Len(t), k = n + i
        PROVE  to[j][1] \in Nat /\ to[j][1] < m /\ to[k][1] = m /\ j <= k
    <3>1. j <= k
      BY <1>3, <2>2
    <3> QED BY <1>13, <1>14, <2>2, <3>1
  <2>3. ASSUME k \in 1 .. n, NEW i \in 1 .. Len(t), j = n + i
        PROVE  to[k][1] \in Nat /\ to[k][1] < m /\ to[j][1] = m /\ ~(j <= k)
    <3>1. ~(j <= k)
      BY <1>3, <2>3
    <3> QED BY <1>13, <1>14, <2>3, <3>1
  <2>4. ASSUME NEW i \in 1 .. Len(t), NEW h \in 1 .. Len(t), j = n + i, k = n + h
        PROVE  /\ to[j] = to[k] => j = k
               /\ to[j][1] <= to[k][1]
    BY <1>1, <1>9, <2>4
  <2>5. \A i \in Nat : i < m => i <= m /\ i # m /\ ~(m <= i)
    BY <1>1
  <2> QED BY <1>11, <2>1, <2>2, <2>3, <2>4, <2>5
<1>19. LaidOut(G, to, seqs, m)
  BY <1>3, <1>12, <1>15, <1>16, <1>17, <1>18 DEF LaidOut
<1> QED BY <1>3, <1>19 DEF G, t

LEMMA FlattenIs ==
  ASSUME NEW X, NEW seqs \in Seq(Seq(X))
  PROVE  /\ FlattenSeq(seqs) \in Seq(X)
         /\ \E at : LaidOut(FlattenSeq(seqs), at, seqs, Len(seqs))
<1> DEFINE n == Len(seqs)
<1>1. n \in Nat /\ DOMAIN seqs = 1 .. n
  BY LenProperties
<1>2. CASE n = 0
  <2>1. seqs = <<>>
    BY <1>2, EmptySeq
  <2>2. FlattenSeq(seqs) = <<>>
    BY <1>2, <2>1 DEF FlattenSeq
  <2>3. Within(seqs, n) = {} /\ DOMAIN <<>> = {}
    BY <1>2, EmptySeq DEF Within
  <2>4. LaidOut(<<>>, <<>>, seqs, n)
    BY <2>3 DEF LaidOut
  <2> QED BY <2>2, <2>4
<1>3. CASE n # 0
  <2> DEFINE g == CHOOSE h : Glued(h, seqs)
  <2>1. FlattenSeq(seqs) = g[n]
    BY <1>3 DEF FlattenSeq, Glued
  <2>2. Glued(g, seqs)
    BY <1>3, GluedExists
  <2> HIDE DEF g
  <2>3. \A i \in 1 .. n : g[i] = IF i = 1 THEN seqs[i] ELSE g[i - 1] \o seqs[i]
    BY <2>2 DEF Glued
  <2> DEFINE T == {i \in 1 .. n : g[i] \in Seq(X) /\ \E at : LaidOut(g[i], at, seqs, i)}
  <2>4. 1 \in T
    <3>1. 1 \in 1 .. n
      BY <1>1, <1>3
    <3>2. seqs[1] \in Seq(X) /\ g[1] = seqs[1]
      BY <2>3, <3>1, ElementOfSeq
    <3> QED BY <1>3, <3>1, <3>2, LaidFirst
  <2>5. ASSUME NEW i \in 1 .. n, i # 1, i - 1 \in T PROVE i \in T
    <3>1. PICK at : LaidOut(g[i - 1], at, seqs, i - 1)
      BY <2>5
    <3>2. PICK F \in Seq(X) : F = g[i - 1]
      BY <2>5
    <3>3. LaidOut(F, at, seqs, i - 1)
      BY <3>1, <3>2
    <3>4. g[i] = F \o seqs[i]
      BY <2>3, <2>5, <3>2
    <3>5. F \o seqs[i] \in Seq(X) /\ \E to : LaidOut(F \o seqs[i], to, seqs, i)
      BY <2>5, <3>3, LaidNext
    <3> QED BY <3>4, <3>5
  <2>6. n \in T
    <3>1. T \in SUBSET (1 .. n) /\ n \in 1 .. n
      BY <1>1, <1>3
    <3> HIDE DEF T, n
    <3> QED BY <1>1, <2>4, <2>5, <3>1, FromOneOn
  <2> QED BY <2>1, <2>6
<1> QED BY <1>2, <1>3

-----------------------------------------------------------------------------
(* Governance: the alerts.                                                 *)

DueEntries(entries) == {i \in DOMAIN entries : /\ entries[i].event = "triggered"
                                        /\ entries[i].by = "scheduler"}

Matches(a, e) ==
  /\ <<a.hyp, a.index>> = <<e.hyp, e.index>>
  /\ (a.severity = "critical") <=> (e.action = "sunset")
  /\ a.delivered <=> a.taken # {}

\* The alerts are raised for the due entries, in their order.
Answers(f, raised, entries) ==
  /\ Enumerates(f, Len(raised), DueEntries(entries))
  /\ \A k \in DOMAIN raised : Matches(raised[k], entries[f[k]])

AlertsInv ==
  /\ store \in Seq(Range(store)) /\ alerts \in Seq(Range(alerts))
  /\ \E f : Answers(f, alerts, store)

LEMMA OwnRange ==
  ASSUME NEW X, NEW s \in Seq(X)
  PROVE  s \in Seq(Range(s)) /\ Range(s) \subseteq X
<1>1. s \in [1 .. Len(s) -> X] /\ DOMAIN s = 1 .. Len(s) /\ Len(s) \in Nat
  BY LenProperties
<1>2. s \in [1 .. Len(s) -> Range(s)]
  BY <1>1 DEF Range
<1>3. s \in Seq(Range(s))
  BY <1>1, <1>2, SeqDef
<1>4. Range(s) \subseteq X
  BY <1>1 DEF Range
<1> QED BY <1>3, <1>4

LEMMA FromIndices ==
  ASSUME NEW n \in Nat, NEW s, DOMAIN s = 1 .. n, s = [i \in 1 .. n |-> s[i]]
  PROVE  s \in Seq(Range(s)) /\ Len(s) = n
<1>1. s \in [1 .. n -> Range(s)]
  BY DEF Range
<1>2. s \in Seq(Range(s))
  BY <1>1, SeqDef
<1> QED BY <1>2, LenProperties

LEMMA Wider ==
  ASSUME NEW X, NEW Y, X \subseteq Y, NEW s \in Seq(X)
  PROVE  s \in Seq(Y)
<1>1. s \in [1 .. Len(s) -> X] /\ Len(s) \in Nat
  BY LenProperties
<1> QED BY <1>1, SeqDef

LEMMA Joined ==
  ASSUME NEW s, s \in Seq(Range(s)), NEW t, t \in Seq(Range(t))
  PROVE  /\ s \o t \in Seq(Range(s \o t))
         /\ Len(s \o t) = Len(s) + Len(t) /\ DOMAIN (s \o t) = 1 .. Len(s) + Len(t)
         /\ DOMAIN s = 1 .. Len(s) /\ Len(s) \in Nat /\ DOMAIN t = 1 .. Len(t) /\ Len(t) \in Nat
         /\ \A i \in 1 .. Len(s) : i \in DOMAIN (s \o t) /\ (s \o t)[i] = s[i]
         /\ \A i \in 1 .. Len(t) : i + Len(s) \in DOMAIN (s \o t) /\ (s \o t)[i + Len(s)] = t[i]
<1> DEFINE X == Range(s) \union Range(t)
<1>1. s \in Seq(X) /\ t \in Seq(X)
  BY Wider
<1> HIDE DEF X
<1> DEFINE u == s \o t
<1>2. /\ u \in Seq(X) /\ Len(u) = Len(s) + Len(t)
      /\ \A i \in 1 .. Len(s) + Len(t) : u[i] = IF i <= Len(s) THEN s[i] ELSE t[i - Len(s)]
  BY <1>1, ConcatProperties
<1> HIDE DEF u
<1>3. /\ u \in Seq(Range(u)) /\ DOMAIN u = 1 .. Len(s) + Len(t)
      /\ DOMAIN s = 1 .. Len(s) /\ Len(s) \in Nat /\ DOMAIN t = 1 .. Len(t) /\ Len(t) \in Nat
  BY <1>1, <1>2, OwnRange, LenProperties
<1>4. \A i \in 1 .. Len(s) : i \in DOMAIN u /\ u[i] = s[i]
  BY <1>2, <1>3
<1>5. ASSUME NEW i \in 1 .. Len(t) PROVE i + Len(s) \in DOMAIN u /\ u[i + Len(s)] = t[i]
  <2>1. /\ i + Len(s) \in 1 .. Len(s) + Len(t) /\ ~(i + Len(s) <= Len(s))
        /\ i + Len(s) - Len(s) = i
    BY <1>3
  <2> QED BY <1>2, <1>3, <2>1
<1> QED BY <1>2, <1>3, <1>4, <1>5 DEF u

\* New entries and the alerts for them go to the ends.
LEMMA AnswersJoin ==
  ASSUME AlertsInv, NEW L, L \in Seq(Range(L)), NEW A, A \in Seq(Range(A)),
         NEW w, Answers(w, A, L), store' = store \o L, alerts' = alerts \o A
  PROVE  AlertsInv'
<1>1. PICK s : s = store /\ s \in Seq(Range(s))
  BY DEF AlertsInv
<1>2. PICK a : a = alerts /\ a \in Seq(Range(a))
  BY DEF AlertsInv
<1>3. PICK f : Answers(f, a, s)
  BY <1>1, <1>2 DEF AlertsInv
<1> DEFINE S == s \o L
           B == a \o A
           n == Len(a)
           m == Len(A)
           d == Len(s)
           J == DueEntries(L)
           K == {j + d : j \in J}
           g == [k \in 1 .. m |-> w[k] + d]
           h == [k \in 1 .. n + m |-> IF k <= n THEN f[k] ELSE g[k - n]]
<1>4. /\ S \in Seq(Range(S)) /\ DOMAIN S = 1 .. d + Len(L)
      /\ DOMAIN s = 1 .. d /\ d \in Nat /\ DOMAIN L = 1 .. Len(L) /\ Len(L) \in Nat
      /\ \A i \in 1 .. d : i \in DOMAIN S /\ S[i] = s[i]
      /\ \A i \in 1 .. Len(L) : i + d \in DOMAIN S /\ S[i + d] = L[i]
  BY <1>1, Joined
<1>5. /\ B \in Seq(Range(B)) /\ Len(B) = n + m /\ DOMAIN B = 1 .. n + m
      /\ DOMAIN a = 1 .. n /\ n \in Nat /\ DOMAIN A = 1 .. m /\ m \in Nat
      /\ \A i \in 1 .. n : i \in DOMAIN B /\ B[i] = a[i]
      /\ \A i \in 1 .. m : i + n \in DOMAIN B /\ B[i + n] = A[i]
  BY <1>2, Joined
<1>6. Enumerates(f, n, DueEntries(s)) /\ \A k \in 1 .. n : Matches(a[k], s[f[k]])
  BY <1>3, <1>5 DEF Answers
<1>7. Enumerates(w, m, J) /\ \A k \in 1 .. m : Matches(A[k], L[w[k]])
  BY <1>5 DEF Answers
<1>8. DueEntries(s) \in SUBSET (1 .. d) /\ J \in SUBSET (1 .. Len(L)) /\ J \in SUBSET Nat /\ DueEntries(s) \in SUBSET Nat
  BY <1>4 DEF DueEntries
<1> HIDE DEF S, B, n, m, d
<1>9. Enumerates(g, m, K)
  <2> HIDE DEF J
  <2>1. J \in SUBSET Nat /\ d \in Nat /\ Enumerates(w, m, J)
    BY <1>4, <1>7, <1>8
  <2> QED BY <2>1, ShiftedNumbers
<1>10. K \in SUBSET Nat /\ \A i \in DueEntries(s), k \in K : i < k
  BY <1>4, <1>8
<1>11. Enumerates(h, n + m, DueEntries(s) \union K)
  <2> HIDE DEF g, K
  <2> QED BY <1>6, <1>8, <1>9, <1>10, JoinedNumbers
<1>12. \A i \in 1 .. d + Len(L) : i \in 1 .. d \/ \E j \in 1 .. Len(L) : i = j + d
  <2>1. SUFFICES ASSUME NEW i \in 1 .. d + Len(L), i \notin 1 .. d PROVE \E j \in 1 .. Len(L) : i = j + d
    OBVIOUS
  <2>2. i - d \in 1 .. Len(L) /\ i = (i - d) + d
    BY <1>4, <2>1
  <2> QED BY <2>2
<1>13. DueEntries(S) = DueEntries(s) \union K
  <2>1. ASSUME NEW i \in 1 .. d PROVE i \in DueEntries(S) <=> i \in DueEntries(s)
    BY <1>4 DEF DueEntries
  <2>2. ASSUME NEW j \in 1 .. Len(L) PROVE j + d \in DueEntries(S) <=> j \in J
    BY <1>4 DEF DueEntries
  <2>3. DueEntries(S) \subseteq 1 .. d + Len(L)
    BY <1>4 DEF DueEntries
  <2>4. ASSUME NEW i \in DueEntries(S) PROVE i \in DueEntries(s) \union K
    BY <1>12, <2>1, <2>2, <2>3
  <2>5. ASSUME NEW i \in DueEntries(s) PROVE i \in DueEntries(S)
    BY <1>8, <2>1
  <2>6. ASSUME NEW i \in K PROVE i \in DueEntries(S)
    BY <1>8, <2>2
  <2> QED BY <2>4, <2>5, <2>6
<1>14. ASSUME NEW k \in 1 .. n + m PROVE Matches(B[k], S[h[k]])
  <2>1. CASE k <= n
    <3>1. k \in 1 .. n /\ h[k] = f[k]
      BY <1>5, <2>1
    <3>2. f[k] \in 1 .. d
      BY <1>6, <1>8, <3>1 DEF Enumerates
    <3>3. B[k] = a[k] /\ S[h[k]] = s[f[k]]
      BY <1>4, <1>5, <3>1, <3>2
    <3> QED BY <1>6, <3>1, <3>3
  <2>2. CASE ~(k <= n)
    <3>1. k - n \in 1 .. m /\ k = (k - n) + n /\ h[k] = g[k - n]
      BY <1>5, <2>2
    <3>2. PICK j \in 1 .. m : j = k - n
      BY <3>1
    <3>3. w[j] \in 1 .. Len(L) /\ h[k] = w[j] + d /\ k = j + n
      BY <1>7, <1>8, <3>1, <3>2 DEF Enumerates
    <3>4. B[k] = A[j] /\ S[h[k]] = L[w[j]]
      BY <1>4, <1>5, <3>2, <3>3
    <3> QED BY <1>7, <3>2, <3>4
  <2> QED BY <2>1, <2>2
<1> HIDE DEF h
<1>15. Answers(h, B, S)
  BY <1>5, <1>11, <1>13, <1>14 DEF Answers
<1>16. store' = S /\ alerts' = B
  BY <1>1, <1>2 DEF S, B
<1> QED BY <1>4, <1>5, <1>15, <1>16 DEF AlertsInv

\* What a scheduled run logs and what it raises alerts for.
LEMMA RunAnswers ==
  ASSUME NEW X, NEW results \in Seq(X), \A x \in X : x.triggered => x.data, NEW takes
  PROVE  LET L == Logged(results, "scheduler")
             A == AlertsFor(results, takes)
         IN L \in Seq(Range(L)) /\ A \in Seq(Range(A)) /\ \E w : Answers(w, A, L)
<1> DEFINE D == {i \in DOMAIN results : results[i].data}
           T == {i \in DOMAIN results : results[i].triggered}
           n == Cardinality(D)
           m == Cardinality(T)
           e == Numbering(D)
           h == Numbering(T)
           L == Logged(results, "scheduler")
           A == AlertsFor(results, takes)
<1>1. D \in SUBSET DOMAIN results /\ T \in SUBSET D
  <2>1. \A i \in DOMAIN results : results[i] \in X
    BY ElementOfSeq, LenProperties
  <2> QED BY <2>1
<1>2. /\ n \in Nat /\ DOMAIN Kept(results, D) = 1 .. n /\ D \in SUBSET Nat
      /\ Enumerates(e, n, D)
      /\ \A k \in 1 .. n : e[k] \in D /\ Kept(results, D)[k] = results[e[k]]
  <2> HIDE DEF D
  <2> QED BY <1>1, KeptIs
<1>3. /\ m \in Nat /\ DOMAIN Kept(results, T) = 1 .. m
      /\ Enumerates(h, m, T)
      /\ \A k \in 1 .. m : h[k] \in T /\ Kept(results, T)[k] = results[h[k]]
  <2>1. T \in SUBSET DOMAIN results
    BY <1>1
  <2> HIDE DEF D, T
  <2> QED BY <2>1, KeptIs
<1>4. L = [i \in 1 .. n |->
             [event |-> IF results[e[i]].triggered THEN "triggered" ELSE "pass",
              hyp |-> results[e[i]].hyp, index |-> results[e[i]].index,
              action |-> results[e[i]].action, by |-> "scheduler"]]
  <2> HIDE DEF e, n
  <2> QED BY <1>2 DEF Logged
<1>5. A = [i \in 1 .. m |->
             [hyp |-> results[h[i]].hyp, index |-> results[h[i]].index,
              severity |-> IF results[h[i]].action = "sunset" THEN "critical" ELSE "warning",
              delivered |-> takes # {}, taken |-> takes]]
  <2> HIDE DEF h, m
  <2> QED BY <1>3 DEF AlertsFor
<1>6. PICK w : /\ Enumerates(w, m, {i \in 1 .. n : e[i] \in T})
               /\ \A k \in 1 .. m : e[w[k]] = h[k]
  <2> HIDE DEF n, m, D, T, e, h
  <2>1. /\ D \in SUBSET Nat /\ Enumerates(e, n, D)
        /\ T \in SUBSET D /\ Enumerates(h, m, T)
    BY <1>1, <1>2, <1>3
  <2>2. \E w : Inside(w, m, h, T, n, e)
    BY <2>1, NumbersWithin
  <2> QED BY <2>2 DEF Inside
<1>7. \A i \in 1 .. n : e[i] \in T <=> results[e[i]].triggered
  <2> HIDE DEF n, e
  <2> QED BY <1>1, <1>2
<1> HIDE DEF D, T, n, m, e, h
<1>8. DOMAIN L = 1 .. n /\ DOMAIN A = 1 .. m /\ Len(L) = n /\ Len(A) = m
  <2>1. L = [i \in 1 .. n |-> L[i]] /\ A = [i \in 1 .. m |-> A[i]] /\ DOMAIN L = 1 .. n /\ DOMAIN A = 1 .. m
    BY <1>4, <1>5
  <2> HIDE DEF L, A
  <2> QED BY <1>2, <1>3, <2>1, FromIndices
<1>9. L \in Seq(Range(L)) /\ A \in Seq(Range(A))
  <2>1. L = [i \in 1 .. n |-> L[i]] /\ A = [i \in 1 .. m |-> A[i]]
    BY <1>4, <1>5
  <2> HIDE DEF L, A
  <2> QED BY <1>2, <1>3, <1>8, <2>1, FromIndices
<1>10. \A i \in 1 .. n :
         /\ L[i].event = IF results[e[i]].triggered THEN "triggered" ELSE "pass"
         /\ L[i].hyp = results[e[i]].hyp /\ L[i].index = results[e[i]].index
         /\ L[i].action = results[e[i]].action /\ L[i].by = "scheduler"
  <2>1. SUFFICES ASSUME NEW i \in 1 .. n
                 PROVE  /\ L[i].event = IF results[e[i]].triggered THEN "triggered" ELSE "pass"
                        /\ L[i].hyp = results[e[i]].hyp /\ L[i].index = results[e[i]].index
                        /\ L[i].action = results[e[i]].action /\ L[i].by = "scheduler"
    OBVIOUS
  <2>2. PICK r : r = results[e[i]]
    OBVIOUS
  <2>3. PICK v : v = IF r.triggered THEN "triggered" ELSE "pass"
    OBVIOUS
  <2>4. L[i] = [event |-> v, hyp |-> r.hyp, index |-> r.index, action |-> r.action,
                by |-> "scheduler"]
    BY <1>4, <2>2, <2>3
  <2> HIDE DEF L
  <2> QED BY <2>2, <2>3, <2>4
<1>11. \A i \in 1 .. m :
         /\ A[i].hyp = results[h[i]].hyp /\ A[i].index = results[h[i]].index
         /\ A[i].severity = IF results[h[i]].action = "sunset" THEN "critical" ELSE "warning"
         /\ A[i].delivered = (takes # {}) /\ A[i].taken = takes
  BY <1>5
<1> HIDE DEF L, A
<1>12. \A i \in 1 .. n : L[i].event = "triggered" <=> e[i] \in T
  BY <1>7, <1>10
<1>13. DueEntries(L) = {i \in 1 .. n : e[i] \in T}
  BY <1>8, <1>10, <1>12 DEF DueEntries
<1>14. ASSUME NEW k \in 1 .. m PROVE Matches(A[k], L[w[k]])
  <2>1. w[k] \in 1 .. n /\ e[w[k]] = h[k]
    BY <1>6 DEF Enumerates
  <2>2. A[k].hyp = L[w[k]].hyp /\ A[k].index = L[w[k]].index
    BY <1>10, <1>11, <2>1
  <2>3. (A[k].severity = "critical") <=> (L[w[k]].action = "sunset")
    BY <1>10, <1>11, <2>1
  <2>4. A[k].delivered <=> A[k].taken # {}
    BY <1>11
  <2> QED BY <2>2, <2>3, <2>4 DEF Matches
<1>15. Answers(w, A, L)
  BY <1>6, <1>8, <1>13, <1>14 DEF Answers
<1> QED BY <1>9, <1>15 DEF L, A

\* A check logs what had data; by request, nothing of it is due.
LEMMA RequestAnswers ==
  ASSUME NEW X, NEW results \in Seq(X)
  PROVE  LET L == Logged(results, "request")
         IN L \in Seq(Range(L)) /\ <<>> \in Seq(Range(<<>>)) /\ Answers(<<>>, <<>>, L)
<1> DEFINE D == {i \in DOMAIN results : results[i].data}
           n == Cardinality(D)
           e == Kept(results, D)
           L == Logged(results, "request")
<1>1. n \in Nat /\ DOMAIN e = 1 .. n
  <2>1. D \in SUBSET DOMAIN results
    OBVIOUS
  <2> HIDE DEF D
  <2> QED BY <2>1, KeptIs
<1>2. L = [i \in DOMAIN e |->
             [event |-> IF e[i].triggered THEN "triggered" ELSE "pass",
              hyp |-> e[i].hyp, index |-> e[i].index,
              action |-> e[i].action, by |-> "request"]]
  BY DEF Logged
<1> HIDE DEF n, e
<1>3. L = [i \in 1 .. n |-> L[i]] /\ DOMAIN L = 1 .. n /\ \A i \in 1 .. n : L[i].by = "request"
  BY <1>1, <1>2
<1> HIDE DEF L
<1>4. L \in Seq(Range(L))
  BY <1>1, <1>3, FromIndices
<1>5. DueEntries(L) = {}
  BY <1>3 DEF DueEntries
<1>6. <<>> \in Seq({}) /\ Len(<<>>) = 0 /\ DOMAIN <<>> = {} /\ 1 .. 0 = {} /\ <<>> \in [{} -> {}]
  BY EmptySeq
<1>7. <<>> \in Seq(Range(<<>>))
  BY <1>6 DEF Range
<1>8. Answers(<<>>, <<>>, L)
  BY <1>5, <1>6 DEF Answers, Enumerates
<1> QED BY <1>4, <1>7, <1>8 DEF L

\* A result that is triggered has data.
LEMMA ResultsAre ==
  ASSUME NEW hyps \in Seq(Watched)
  PROVE  \E X : Results(hyps) \in Seq(X) /\ \A x \in X : x.triggered => x.data
<1> DEFINE res(f, h, k) == [hyp |-> h.id, index |-> k, action |-> f.action,
                            data |-> metric[f.metric] # NoValue, triggered |-> Triggered(f)]
           one(i) == [k \in DOMAIN hyps[i].falsifiers |-> res(hyps[i].falsifiers[k], hyps[i], k)]
           X == UNION {Range(one(i)) : i \in DOMAIN hyps}
           seqs == [i \in DOMAIN hyps |-> one(i)]
<1>1. DOMAIN hyps = 1 .. Len(hyps) /\ Len(hyps) \in Nat /\ \A i \in DOMAIN hyps : hyps[i] \in Watched
  BY ElementOfSeq, LenProperties
<1>2. ASSUME NEW i \in DOMAIN hyps
      PROVE  /\ one(i) \in Seq(X)
             /\ \A x \in Range(one(i)) : x.triggered => x.data
  <2>1. PICK s : s = hyps[i].falsifiers /\ s \in Seq(Range(s))
    BY <1>1, <1>2, WatchedAssumption
  <2>2. DOMAIN s = 1 .. Len(s) /\ Len(s) \in Nat
    BY <2>1, LenProperties
  <2> DEFINE t == [k \in DOMAIN s |-> res(s[k], hyps[i], k)]
  <2>3. t = one(i)
    BY <2>1
  <2>4. \A k \in DOMAIN s : t[k].triggered => t[k].data
    <3>1. SUFFICES ASSUME NEW k \in DOMAIN s, t[k].triggered PROVE t[k].data
      OBVIOUS
    <3>2. PICK f : f = s[k]
      OBVIOUS
    <3>3. t[k].triggered = Triggered(f) /\ t[k].data = (metric[f.metric] # NoValue)
      BY <3>2
    <3> HIDE DEF t
    <3> QED BY <3>1, <3>3 DEF Triggered
  <2>5. t = [k \in 1 .. Len(s) |-> t[k]] /\ DOMAIN t = 1 .. Len(s)
    BY <2>2
  <2> HIDE DEF t, one
  <2>6. t \in Seq(Range(t))
    BY <2>2, <2>5, FromIndices
  <2>7. Range(t) \subseteq X
    BY <1>2, <2>3
  <2>8. t \in Seq(X)
    <3> HIDE DEF X
    <3> QED BY <2>6, <2>7, Wider
  <2>9. \A x \in Range(t) : x.triggered => x.data
    BY <2>2, <2>4, <2>5 DEF Range
  <2> QED BY <2>3, <2>8, <2>9
<1>3. Results(hyps) = FlattenSeq(seqs)
  BY DEF Results
<1> HIDE DEF one
<1>4. \A x \in X : x.triggered => x.data
  BY <1>2
<1> HIDE DEF X
<1>5. seqs \in [1 .. Len(hyps) -> Seq(X)]
  BY <1>1, <1>2
<1>6. seqs \in Seq(Seq(X))
  <2> HIDE DEF seqs
  <2> QED BY <1>1, <1>5, SeqDef
<1> HIDE DEF seqs
<1>7. FlattenSeq(seqs) \in Seq(X)
  BY <1>6, FlattenIs
<1> QED BY <1>3, <1>4, <1>7

LEMMA ListedSet ==
  ASSUME NEW S, IsFiniteSet(S)
  PROVE  SetToSeq(S) \in Seq(S)
<1>1. Cardinality(S) \in Nat /\ ExistsBijection(1 .. Cardinality(S), S)
  BY FS_CardinalityType
<1>2. \E f \in [1 .. Cardinality(S) -> S] : IsInjective(f)
  BY <1>1 DEF ExistsBijection, Bijection, Injection
<1>3. SetToSeq(S) \in [1 .. Cardinality(S) -> S]
  BY <1>2 DEF SetToSeq
<1> QED BY <1>1, <1>3, SeqDef

LEMMA AlertsFromInit == GovInit => AlertsInv
<1> SUFFICES ASSUME GovInit PROVE AlertsInv
  OBVIOUS
<1>1. store = <<>> /\ alerts = <<>>
  BY DEF GovInit, MInit
<1>2. <<>> \in Seq({}) /\ Len(<<>>) = 0 /\ DOMAIN <<>> = {} /\ 1 .. 0 = {} /\ <<>> \in [{} -> {}]
  BY EmptySeq
<1>3. <<>> \in Seq(Range(<<>>)) /\ DueEntries(<<>>) = {}
  BY <1>2 DEF Range, DueEntries
<1>4. Answers(<<>>, <<>>, <<>>)
  BY <1>2, <1>3 DEF Answers, Enumerates
<1> QED BY <1>1, <1>3, <1>4 DEF AlertsInv

LEMMA AlertsHold == AlertsInv /\ [GovNext]_vars => AlertsInv'
<1> SUFFICES ASSUME AlertsInv, [GovNext]_vars PROVE AlertsInv'
  OBVIOUS
<1>1. ASSUME store' = store, alerts' = alerts PROVE AlertsInv'
  BY <1>1 DEF AlertsInv
<1>2. CASE RunChecks
  <2>1. PICK hyps : hyps = SetToSeq(Active)
    OBVIOUS
  <2>2. hyps \in Seq(Watched)
    <3>1. IsFiniteSet(Active) /\ Active \subseteq Watched
      <4>1. Active \in SUBSET Watched
        BY DEF Active
      <4> QED BY <4>1, WatchedAssumption, FS_Subset
    <3>2. hyps \in Seq(Active)
      BY <2>1, <3>1, ListedSet
    <3> QED BY <3>1, <3>2, Wider
  <2>3. PICK results : results = Results(hyps)
    OBVIOUS
  <2>4. PICK X : results \in Seq(X) /\ \A x \in X : x.triggered => x.data
    BY <2>2, <2>3, ResultsAre
  <2>5. PICK takes : /\ store' = store \o Logged(results, "scheduler")
                     /\ alerts' = alerts \o AlertsFor(results, takes)
    BY <1>2, <2>1, <2>3 DEF RunChecks
  <2>6. PICK L, A : L = Logged(results, "scheduler") /\ A = AlertsFor(results, takes)
    OBVIOUS
  <2>7. L \in Seq(Range(L)) /\ A \in Seq(Range(A)) /\ \E w : Answers(w, A, L)
    BY <2>4, <2>6, RunAnswers
  <2> QED BY <2>5, <2>6, <2>7, AnswersJoin
<1>3. CASE CheckByRequest
  <2>1. PICK h \in Watched : store' = store \o Logged(Results(<<h>>), "request")
    BY <1>3 DEF CheckByRequest
  <2>2. <<h>> \in Seq(Watched)
    BY SeqDef
  <2>3. PICK results : results = Results(<<h>>)
    OBVIOUS
  <2>4. PICK X : results \in Seq(X)
    BY <2>2, <2>3, ResultsAre
  <2>5. PICK L : L = Logged(results, "request")
    OBVIOUS
  <2>6. L \in Seq(Range(L)) /\ <<>> \in Seq(Range(<<>>)) /\ Answers(<<>>, <<>>, L)
    BY <2>4, <2>5, RequestAnswers
  <2>7. alerts \o <<>> = alerts
    <3>1. alerts \in Seq(Range(alerts))
      BY DEF AlertsInv
    <3> QED BY <3>1, ConcatEmptySeq
  <2>8. alerts' = alerts \o <<>>
    BY <1>3, <2>7 DEF CheckByRequest
  <2> QED BY <2>1, <2>3, <2>5, <2>6, <2>8, AnswersJoin
<1>4. CASE MetricMoves \/ Detect
  BY <1>1, <1>4 DEF MetricMoves, Detect
<1>5. ASSUME NEW f \in Factors,
             RegisterFactor(f) \/ UnregisterFactor(f) \/ EnableFactor(f) \/ SetAside(f)
      PROVE  AlertsInv'
  BY <1>1, <1>5 DEF RegisterFactor, UnregisterFactor, EnableFactor, SetAside
<1>6. ASSUME NEW f \in Factors, NEW c \in Checkers, BeginCheck(c, f) PROVE AlertsInv'
  BY <1>1, <1>6 DEF BeginCheck
<1>7. ASSUME NEW c \in Checkers, EndCheck(c) PROVE AlertsInv'
  BY <1>1, <1>7 DEF EndCheck
<1>8. CASE MNext
  BY <1>2, <1>3, <1>4, <1>5, <1>6, <1>7, <1>8 DEF MNext
<1>9. CASE UNCHANGED mvars
  BY <1>1, <1>9 DEF mvars
<1>10. CASE RebuildPool
  BY <1>9, <1>10 DEF RebuildPool
<1>11. ASSUME NEW s \in Symbols, BuildContext(s) PROVE AlertsInv'
  BY <1>1, <1>11 DEF BuildContext
<1> QED BY <1>8, <1>9, <1>10, <1>11 DEF GovNext, vars

LEMMA AlertsAnswer == AlertsInv => AlertsMatchAudit
<1> SUFFICES ASSUME AlertsInv PROVE AlertsMatchAudit
  OBVIOUS
<1>1. PICK f : Answers(f, alerts, store)
  BY DEF AlertsInv
<1> DEFINE D == DueEntries(store)
           d == Kept(store, D)
           g == Numbering(D)
<1>2. D = {i \in DOMAIN store : store[i].event = "triggered" /\ store[i].by = "scheduler"}
  BY DEF DueEntries
<1>3. D \in SUBSET DOMAIN store
  BY DEF DueEntries
<1> HIDE DEF D
<1>4. /\ IsFiniteSet(D) /\ D \in SUBSET Nat /\ Len(d) = Cardinality(D)
      /\ \A k \in 1 .. Cardinality(D) : d[k] = store[g[k]]
  BY <1>3, KeptIs DEF AlertsInv
<1>5. Enumerates(f, Len(alerts), D) /\ \A k \in DOMAIN alerts : Matches(alerts[k], store[f[k]])
  BY <1>1 DEF Answers, D
<1>6. Len(alerts) = Cardinality(D) /\ \A k \in 1 .. Len(alerts) : f[k] = g[k]
  BY <1>4, <1>5, OneNumbering
<1>7. DOMAIN alerts = 1 .. Len(alerts)
  BY LenProperties DEF AlertsInv
<1> HIDE DEF d, g
<1>8. Len(alerts) = Len(d) /\ \A k \in DOMAIN alerts : Matches(alerts[k], d[k])
  BY <1>4, <1>5, <1>6, <1>7
<1>9. d = Kept(store, {i \in DOMAIN store : store[i].event = "triggered" /\ store[i].by = "scheduler"})
  BY <1>2 DEF d
<1> QED BY <1>8, <1>9 DEF AlertsMatchAudit, Matches

-----------------------------------------------------------------------------
(* Governance: what the registries hold.                                   *)

AllRules == FileContents(RuleDirs) \union NewRules

\* Finitely many items of F, each under an id of its own.
Fits(items, F) ==
  /\ items \subseteq F /\ IsFiniteSet(items)
  /\ \A x, y \in items : x.id = y.id => x = y

LEMMA LeastComes ==
  ASSUME NEW S \in SUBSET Nat, S # {}
  PROVE  \A x \in S : Min(S) <= x
<1>1. \E x \in S : \A y \in S : x <= y
  BY LeastOf
<1> QED BY <1>1 DEF Min

\* What is entered before the first double fits.
LEMMA InsertFits ==
  ASSUME NEW F, NEW S \in SUBSET F, NEW files \in Seq(S), NEW have, Fits(have, F)
  PROVE  Fits(Insert(files, have).items, F)
<1> DEFINE dup == Doubles(files, have)
           n == IF dup = {} THEN Len(files) ELSE Min(dup) - 1
           new == {files[i] : i \in 1 .. n}
<1>1. Insert(files, have).items = have \union new
  BY DEF Insert, Doubles
<1>2. DOMAIN files = 1 .. Len(files) /\ Len(files) \in Nat
  BY LenProperties
<1>3. dup \in SUBSET (1 .. Len(files))
  BY <1>2 DEF Doubles
<1>4. n \in Int /\ n <= Len(files) /\ \A i \in 1 .. n : i \notin dup
  <2>1. CASE dup = {}
    BY <2>1, <1>2
  <2>2. CASE dup # {}
    <3>1. dup \in SUBSET Nat
      BY <1>2, <1>3
    <3> HIDE DEF dup
    <3>2. Min(dup) \in dup /\ \A x \in dup : Min(dup) <= x
      BY <2>2, <3>1, LeastIs, LeastComes
    <3>3. PICK k : k = Min(dup)
      OBVIOUS
    <3>4. k \in 1 .. Len(files) /\ n = k - 1
      BY <1>3, <2>2, <3>2, <3>3
    <3> HIDE DEF n
    <3> QED BY <1>2, <3>2, <3>3, <3>4
  <2> QED BY <2>1, <2>2
<1>5. \A i \in DOMAIN files : files[i] \in S
  BY ElementOfSeq, <1>2
<1> HIDE DEF n
<1>6. \A i \in 1 .. n : i \in DOMAIN files
  BY <1>2, <1>4
<1>7. IsFiniteSet(have \union new)
  <2>1. IsFiniteSet(1 .. n)
    BY <1>4, FS_Interval
  <2>2. [i \in 1 .. n |-> files[i]] \in Surjection(1 .. n, new)
    BY DEF Surjection
  <2>3. IsFiniteSet(new)
    BY <2>1, <2>2, FS_Surjection
  <2> HIDE DEF new
  <2> QED BY <2>3, FS_Union DEF Fits
<1>8. have \union new \subseteq F
  BY <1>5, <1>6 DEF Fits
<1>9. ASSUME NEW i \in 1 .. n, NEW x \in have PROVE files[i].id # x.id
  <2>1. files[i].id \notin Ids(have)
    BY <1>4, <1>6 DEF Doubles
  <2> QED BY <2>1 DEF Ids
<1>10. ASSUME NEW i \in 1 .. n, NEW j \in 1 .. n, files[i].id = files[j].id PROVE i = j
  <2>1. \A k \in 1 .. i - 1 : files[k].id # files[i].id
    BY <1>4, <1>6 DEF Doubles
  <2>2. \A k \in 1 .. j - 1 : files[k].id # files[j].id
    BY <1>4, <1>6 DEF Doubles
  <2> QED BY <1>4, <1>10, <2>1, <2>2
<1>11. \A x, y \in have \union new : x.id = y.id => x = y
  BY <1>9, <1>10 DEF Fits
<1> QED BY <1>1, <1>7, <1>8, <1>11 DEF Fits

LEMMA LoadFits ==
  ASSUME NEW dirs, \A d \in dirs \ {Broken, Missing} : d \in Seq(Range(d)),
         NEW F, FileContents(dirs) \subseteq F, NEW dir \in dirs, NEW have, Fits(have, F)
  PROVE  Fits(Load(dir, have).items, F)
<1>1. CASE dir \in {Broken, Missing}
  BY <1>1 DEF Load
<1>2. CASE dir \notin {Broken, Missing}
  <2>1. Load(dir, have) = Insert(dir, have)
    BY <1>2 DEF Load
  <2>2. dir \in Seq(Range(dir)) /\ Range(dir) \in SUBSET F
    BY <1>2 DEF FileContents
  <2> QED BY <2>1, <2>2, InsertFits
<1> QED BY <1>1, <1>2

LEMMA NothingFits == \A F : Fits({}, F)
  BY FS_EmptySet DEF Fits

RulesFit(g) == Fits(g.rules, AllRules)
HypsFit(g) == /\ g \in [created : BOOLEAN, hyps : {g.hyps}]
              /\ Fits(g.hyps, FileContents(HypDirs))

LEMMA RulesLoad ==
  ASSUME ruleDir \in RuleDirs, NEW have, Fits(have, AllRules)
  PROVE  Fits(Load(ruleDir, have).items, AllRules)
  BY LoadFits, DirsAssumption DEF AllRules

LEMMA HypsLoad ==
  ASSUME hypDir \in HypDirs
  PROVE  Fits(Load(hypDir, {}).items, FileContents(HypDirs))
  BY LoadFits, NothingFits, HypothesesAssumption

\* What the registries' calls leave of their rules.
LEMMA ReloadFits ==
  ASSUME RegInv
  PROVE  RulesFit(ReloadRules)
<1>1. PICK its : its = Load(ruleDir, {}).items
  OBVIOUS
<1>2. PICK r : r = reg /\ r \in RegistryRec({r.rules}, {r.whole})
  BY DEF RegInv, RegistryOK
<1>3. Fits(its, AllRules)
  BY <1>1, RulesLoad, NothingFits DEF RegInv
<1>4. ReloadRules.rules = its
  BY <1>1, <1>2 DEF ReloadRules, RegistryRec
<1> QED BY <1>3, <1>4 DEF RulesFit

LEMMA EnsureFits ==
  ASSUME RegInv, NEW g, RegistryOK(g, ruleDir), RulesFit(g)
  PROVE  RulesFit(EnsureLoaded(g))
<1>1. PICK its : its = Load(ruleDir, g.rules).items
  OBVIOUS
<1>2. g \in RegistryRec({g.rules}, {g.whole})
  BY DEF RegistryOK
<1>3. Fits(its, AllRules)
  BY <1>1, RulesLoad DEF RegInv, RulesFit
<1>4. EnsureLoaded(g).rules \in {its, g.rules}
  BY <1>1, <1>2 DEF EnsureLoaded, RegistryRec
<1> QED BY <1>3, <1>4 DEF RulesFit

LEMMA GetFits ==
  ASSUME RegInv, RulesFit(reg)
  PROVE  RulesFit(GetRules)
<1>1. PICK r : r = reg /\ r \in RegistryRec({r.rules}, {r.whole})
  BY DEF RegInv, RegistryOK
<1>2. [r EXCEPT !.created = TRUE, !.loaded = TRUE, !.whole = <<>>].rules = r.rules
  BY <1>1 DEF RegistryRec
<1>3. GetRules.rules \in {reg.rules, ReloadRules.rules}
  BY <1>1, <1>2 DEF GetRules
<1> QED BY <1>3, ReloadFits DEF RulesFit

LEMMA GetHypsFits ==
  ASSUME hypDir \in HypDirs, HypsFit(hreg)
  PROVE  HypsFit(GetHypotheses)
<1>1. PICK its : its = Load(hypDir, {}).items
  OBVIOUS
<1>2. Fits(its, FileContents(HypDirs))
  BY <1>1, HypsLoad
<1>3. GetHypotheses = IF hreg.created THEN hreg ELSE [created |-> TRUE, hyps |-> its]
  BY <1>1 DEF GetHypotheses
<1>4. CASE hreg.created
  BY <1>3, <1>4
<1>5. CASE ~hreg.created
  BY <1>2, <1>3, <1>5 DEF HypsFit
<1> QED BY <1>4, <1>5

LEMMA OpenedFits ==
  ASSUME RegInv, RulesFit(reg), hypDir \in HypDirs, HypsFit(hreg)
  PROVE  RulesFit(Opened.rules) /\ HypsFit(Opened.hyps)
<1>1. RegistryOK(GetRules, ruleDir)
  BY GetKeeps DEF RegInv
<1>2. PICK g : g = GetRules
  OBVIOUS
<1>3. RulesFit(g) /\ RulesFit(EnsureLoaded(g)) /\ HypsFit(GetHypotheses)
  BY <1>1, <1>2, GetFits, EnsureFits, GetHypsFits
<1>4. Opened.rules \in {g, EnsureLoaded(g)} /\ Opened.hyps \in {hreg, GetHypotheses}
  <2>1. PICK a \in BOOLEAN : a = (~reg.created /\ ~g.loaded)
    OBVIOUS
  <2>2. PICK b \in BOOLEAN : b = (~hreg.created /\ hypDir # Missing /\ Load(hypDir, {}).raised)
    OBVIOUS
  <2>3. Opened = CASE a -> [ok |-> FALSE, rules |-> g, hyps |-> hreg]
                   [] ~a /\ b -> [ok |-> FALSE, rules |-> g, hyps |-> GetHypotheses]
                   [] OTHER -> [ok |-> EnsureLoaded(g).loaded, rules |-> EnsureLoaded(g),
                                hyps |-> GetHypotheses]
    BY <1>2, <2>1, <2>2 DEF Opened
  <2> QED BY <2>3
<1> QED BY <1>3, <1>4

FitInv == hypDir \in HypDirs /\ RulesFit(reg) /\ HypsFit(hreg)

LEMMA FitFromInit == GovInit => FitInv
<1> SUFFICES ASSUME GovInit PROVE FitInv
  OBVIOUS
<1>1. hypDir \in HypDirs /\ reg.rules = {} /\ hreg = [created |-> FALSE, hyps |-> {}]
  BY DEF GovInit, CInit
<1> QED BY <1>1, NothingFits DEF FitInv, RulesFit, HypsFit

LEMMA FitByHand ==
  ASSUME FitInv, RegInv, Register \/ Unregister
  PROVE  FitInv'
<1>1. hypDir' = hypDir /\ hreg' = hreg
  BY DEF Register, Unregister
<1>2. PICK r : r = reg /\ r \in RegistryRec({r.rules}, {r.whole})
  BY DEF RegInv, RegistryOK
<1>3. CASE Register
  <2>1. PICK x \in NewRules :
          reg' = [reg EXCEPT !.loaded = TRUE, !.rules = Insert(<<x>>, reg.rules).items, !.byHand = TRUE]
    BY <1>3 DEF Register
  <2>2. PICK its : its = Insert(<<x>>, reg.rules).items
    OBVIOUS
  <2>3. reg'.rules = its
    BY <1>2, <2>1, <2>2 DEF RegistryRec
  <2>4. {x} \in SUBSET AllRules /\ <<x>> \in Seq({x})
    BY SeqDef DEF AllRules
  <2>5. Fits(its, AllRules)
    BY <2>2, <2>4, InsertFits DEF FitInv, RulesFit
  <2> QED BY <1>1, <2>3, <2>5 DEF FitInv, RulesFit
<1>4. CASE Unregister
  <2>1. PICK g : g = EnsureLoaded(reg)
    OBVIOUS
  <2>2. reg.created
    BY <1>4 DEF Unregister
  <2>3. RegistryOK(g, ruleDir) /\ RulesFit(g)
    BY <2>1, <2>2, EnsureKeeps, EnsureFits DEF RegInv, FitInv
  <2>4. CASE reg' = g
    BY <1>1, <2>3, <2>4 DEF FitInv
  <2>5. CASE reg' # g
    <3>1. PICK x : reg' = [g EXCEPT !.rules = @ \ {x}, !.byHand = TRUE]
      BY <1>4, <2>1, <2>5 DEF Unregister
    <3>2. reg'.rules = g.rules \ {x}
      BY <2>3, <3>1 DEF RegistryOK, RegistryRec
    <3>3. g.rules \ {x} \in SUBSET g.rules /\ IsFiniteSet(g.rules)
      BY <2>3 DEF RulesFit, Fits
    <3>4. IsFiniteSet(g.rules \ {x})
      BY <3>3, FS_Subset
    <3>5. Fits(g.rules \ {x}, AllRules)
      BY <2>3, <3>4 DEF RulesFit, Fits
    <3> QED BY <1>1, <3>2, <3>5 DEF FitInv, RulesFit
  <2> QED BY <2>4, <2>5
<1> QED BY <1>3, <1>4

LEMMA FitReloaded ==
  ASSUME FitInv, RegInv, Reload
  PROVE  FitInv'
<1>1. hypDir' = hypDir
  BY DEF Reload
<1>2. CASE reg' = ReloadRules /\ hreg' = hreg
  BY <1>1, <1>2, ReloadFits DEF FitInv
<1>3. CASE reg' = reg /\ hreg' = [hreg EXCEPT !.hyps = Load(hypDir, {}).items]
  <2>1. PICK its : its = Load(hypDir, {}).items
    OBVIOUS
  <2>2. Fits(its, FileContents(HypDirs))
    BY <2>1, HypsLoad DEF FitInv
  <2>3. PICK h : h = hreg /\ h \in [created : BOOLEAN, hyps : {h.hyps}]
    BY DEF FitInv, HypsFit
  <2>4. hreg' \in [created : BOOLEAN, hyps : {its}] /\ hreg'.hyps = its
    BY <1>3, <2>1, <2>3
  <2> QED BY <1>1, <1>3, <2>2, <2>4 DEF FitInv, HypsFit
<1> QED BY <1>2, <1>3 DEF Reload

LEMMA FitHolds == FitInv /\ RegInv /\ [GovNext]_vars => FitInv'
<1> SUFFICES ASSUME FitInv, RegInv, [GovNext]_vars PROVE FitInv'
  OBVIOUS
<1>1. ASSUME reg' = reg, hreg' = hreg, hypDir' \in HypDirs PROVE FitInv'
  BY <1>1 DEF FitInv
<1>2. ASSUME reg' = Opened.rules, hreg' = Opened.hyps, hypDir' = hypDir PROVE FitInv'
  BY <1>2, OpenedFits DEF FitInv
<1>3. CASE EditFiles
  BY <1>1, <1>3 DEF EditFiles, FitInv
<1>4. CASE Reload \/ Register \/ Unregister
  BY <1>4, FitByHand, FitReloaded
<1>5. CASE ResolveNow
  BY <1>2, <1>5 DEF ResolveNow
<1>6. CASE Browse
  <2>1. hypDir' = hypDir
    BY <1>6 DEF Browse
  <2>2. CASE hreg' = GetHypotheses /\ reg' = reg
    BY <2>1, <2>2, GetHypsFits DEF FitInv
  <2>3. CASE reg' = GetRules /\ hreg' = hreg
    BY <2>1, <2>3, GetFits DEF FitInv
  <2>4. CASE reg' = EnsureLoaded(reg) /\ hreg' = hreg
    BY <2>1, <2>4, EnsureFits DEF FitInv, RegInv
  <2> QED BY <1>6, <2>2, <2>3, <2>4 DEF Browse
<1>7. ASSUME NEW r \in Readers, CacheMiss(r) PROVE FitInv'
  BY <1>2, <1>7 DEF CacheMiss
<1>8. ASSUME NEW s \in Symbols, BuildContext(s) PROVE FitInv'
  BY <1>2, <1>8 DEF BuildContext
<1>9. CASE Invalidate \/ Tick
  BY <1>1, <1>9 DEF Invalidate, Tick, FitInv
<1>10. ASSUME NEW r \in Readers,
              (\E s \in Symbols : StartResolve(r, s)) \/ CacheHit(r) \/ CacheSet(r) \/ RedisFails(r)
       PROVE  FitInv'
  BY <1>1, <1>10 DEF StartResolve, CacheHit, CacheSet, RedisFails, FitInv
<1>11. CASE CNext
  BY <1>3, <1>4, <1>5, <1>6, <1>7, <1>9, <1>10, <1>11 DEF CNext, ReaderStep
<1>12. CASE UNCHANGED cvars
  BY <1>1, <1>12 DEF cvars, FitInv
<1>13. CASE RebuildPool
  <2>1. hreg' = GetHypotheses /\ reg' = reg /\ hypDir' = hypDir
    BY <1>13 DEF RebuildPool
  <2> QED BY <2>1, GetHypsFits DEF FitInv
<1> QED BY <1>8, <1>11, <1>12, <1>13 DEF GovNext, vars

-----------------------------------------------------------------------------
(* Governance: the merge of the rules that act.                            *)

Acting(s) == {r \in reg.rules : (r.on = {} \/ s \in r.on) /\ IsConstraintActive(r, hreg.hyps)}

\* a lists the rules A in the order of their priorities.
InTurn(a, A) ==
  /\ Fits(A, AllRules) /\ a \in Seq(A) /\ Range(a) = A
  /\ DOMAIN a = 1 .. Len(a) /\ Len(a) \in Nat
  /\ \A j, k \in DOMAIN a : /\ j <= k => a[j].prio <= a[k].prio
                            /\ a[j] = a[k] => j = k

LEMMA MinIsIn ==
  ASSUME NEW S \in SUBSET Int, IsFiniteSet(S), S # {}
  PROVE  Min(S) \in S /\ \A x \in S : Min(S) <= x
<1> DEFINE T == {-x : x \in S}
<1>1. [x \in S |-> -x] \in Surjection(S, T)
  BY DEF Surjection
<1>20. IsFiniteSet(T)
  <2> HIDE DEF T
  <2> QED BY <1>1, FS_Surjection
<1>21. T \in SUBSET Int /\ T # {}
  <2>1. PICK x : x \in S
    OBVIOUS
  <2>2. -x \in T
    BY <2>1
  <2>3. \A y \in S : -y \in Int
    OBVIOUS
  <2>4. \A y \in T : y \in Int
    BY <2>3
  <2> HIDE DEF T
  <2> QED BY <2>2, <2>4
<1>3. Max(T) \in T /\ \A y \in T : Max(T) >= y
  <2> HIDE DEF T
  <2> QED BY <1>20, <1>21, MaxIsIn
<1>4. PICK m \in S : Max(T) = -m
  BY <1>3
<1>5. ASSUME NEW x \in S PROVE m <= x
  <2>1. -x \in T /\ -m >= -x
    BY <1>3, <1>4
  <2> QED BY <2>1
<1> QED BY <1>5 DEF Min

\* Before another rule in the order of priorities and ids.
Earlier(x, y) == x.prio < y.prio \/ (x.prio = y.prio /\ x.id <= y.id)
Turns(A) == {p \in A \X A : Earlier(p[1], p[2])}

LEMMA TurnsTotal ==
  ASSUME NEW A, \A x \in A : x.prio \in Int /\ x.id \in Int,
         \A x, y \in A : x.id = y.id => x = y
  PROVE  /\ TotalOn(A, Turns(A))
         /\ \A x, y \in A : <<x, y>> \in Turns(A) => x.prio <= y.prio
<1>1. \A x, y \in A : <<x, y>> \in Turns(A) <=> Earlier(x, y)
  BY DEF Turns
<1>2. ASSUME NEW x \in A, NEW y \in A PROVE Earlier(x, y) \/ Earlier(y, x)
  <2>1. PICK a, b, c, d : a = x.prio /\ b = y.prio /\ c = x.id /\ d = y.id
    OBVIOUS
  <2>2. a \in Int /\ b \in Int /\ c \in Int /\ d \in Int
    BY <2>1
  <2>3. a < b \/ b < a \/ (a = b /\ (c <= d \/ d <= c))
    BY <2>2
  <2> QED BY <2>1, <2>3 DEF Earlier
<1>3. ASSUME NEW x \in A, NEW y \in A, Earlier(x, y), Earlier(y, x) PROVE x = y
  <2>1. x.id = y.id
    BY <1>3 DEF Earlier
  <2> QED BY <2>1
<1>4. ASSUME NEW x \in A, NEW y \in A, NEW z \in A, Earlier(x, y), Earlier(y, z)
      PROVE  Earlier(x, z)
  BY <1>4 DEF Earlier
<1>5. ASSUME NEW x \in A, NEW y \in A, Earlier(x, y) PROVE x.prio <= y.prio
  BY <1>5 DEF Earlier
<1> QED BY <1>1, <1>2, <1>3, <1>4, <1>5 DEF TotalOn

LEMMA ActiveInTurn ==
  ASSUME FitInv, NEW s
  PROVE  InTurn(ActiveInOrder(reg.rules, hreg.hyps, s), Acting(s))
<1> DEFINE A == Acting(s)
           leq == Turns(A)
           a == InOrder(A, leq)
           n == Cardinality(A)
<1>1. ActiveInOrder(reg.rules, hreg.hyps, s) = a
  <2>1. {r \in FilterBySymbol(reg.rules, s) : IsConstraintActive(r, hreg.hyps)} = A
    BY DEF FilterBySymbol, Acting
  <2> HIDE DEF A
  <2> QED BY <2>1 DEF ActiveInOrder, Turns, Earlier
<1>2. A \in SUBSET reg.rules
  BY DEF Acting
<1> HIDE DEF A
<1>3. Fits(A, AllRules)
  <2>1. IsFiniteSet(A)
    BY <1>2, FS_Subset DEF FitInv, RulesFit, Fits
  <2> QED BY <1>2, <2>1 DEF FitInv, RulesFit, Fits
<1>4. \A x \in A : x.prio \in Int /\ x.id \in Int
  BY <1>3, RulesAssumption DEF Fits, AllRules
<1>5. TotalOn(A, leq) /\ \A x, y \in A : <<x, y>> \in leq => x.prio <= y.prio
  BY <1>3, <1>4, TurnsTotal DEF Fits
<1> HIDE DEF leq
<1>7. Orders(a, A, leq)
  BY <1>3, <1>5, InOrderIs DEF Fits
<1> HIDE DEF a
<1>8. n \in Nat /\ a \in [1 .. n -> A]
  BY <1>7 DEF Orders
<1>9. a \in Seq(A) /\ Len(a) = n /\ DOMAIN a = 1 .. n
  <2>1. a \in Seq(A)
    BY <1>8, SeqDef
  <2> QED BY <1>8, <2>1, LenProperties
<1>10. Range(a) = A
  BY <1>7, <1>8 DEF Orders, Range
<1>11. ASSUME NEW j \in 1 .. n, NEW k \in 1 .. n, j <= k PROVE a[j].prio <= a[k].prio
  <2>1. <<a[j], a[k]>> \in leq /\ a[j] \in A /\ a[k] \in A
    BY <1>7, <1>8, <1>11 DEF Orders
  <2> QED BY <1>5, <2>1
<1>12. \A j, k \in 1 .. n : a[j] = a[k] => j = k
  BY <1>7 DEF Orders
<1> QED BY <1>1, <1>3, <1>8, <1>9, <1>10, <1>11, <1>12 DEF InTurn, A

\* The values of a field are those the rules that act give it.
Given(A, k) == {r.acts[k] : r \in {x \in A : k \in DOMAIN x.acts}}

LEMMA ValuesAre ==
  ASSUME NEW a, NEW A, InTurn(a, A), NEW k
  PROVE  ValuesOf(a, k) \in Seq(Given(A, k)) /\ Range(ValuesOf(a, k)) = Given(A, k)
<1> DEFINE I == {i \in DOMAIN a : k \in DOMAIN a[i].acts}
           set == Kept(a, I)
           n == Cardinality(I)
           v == [i \in DOMAIN set |-> set[i].acts[k]]
<1>1. I \in SUBSET DOMAIN a
  OBVIOUS
<1>2. /\ n \in Nat /\ DOMAIN set = 1 .. n
      /\ Range(set) = {a[i] : i \in I}
  <2> HIDE DEF I
  <2> QED BY <1>1, KeptIs, KeptHas DEF InTurn
<1>3. Range(set) = {x \in A : k \in DOMAIN x.acts}
  BY <1>2 DEF InTurn, Range
<1>4. ValuesOf(a, k) = v
  BY DEF ValuesOf
<1> HIDE DEF set, n
<1>5. \A i \in 1 .. n : v[i] = set[i].acts[k] /\ set[i] \in Range(set)
  BY <1>2 DEF Range
<1>6. v \in [1 .. n -> Given(A, k)]
  BY <1>2, <1>3, <1>5 DEF Given
<1>7. Range(v) = Given(A, k)
  BY <1>2, <1>3, <1>5, <1>6 DEF Given, Range
<1> HIDE DEF v
<1>8. v \in Seq(Given(A, k))
  BY <1>2, <1>6, SeqDef
<1> QED BY <1>4, <1>7, <1>8

-----------------------------------------------------------------------------
(* Governance: the strictest stop mode is found in one pass.               *)

Modes == DOMAIN Restrictiveness

Stricter(best, m) == IF Restrictiveness[m] > Restrictiveness[best] THEN m ELSE best

StopUnfold(g, base, seq) ==
  [s \in SUBSET DOMAIN seq |->
     IF s = {} THEN base ELSE Stricter(g[s \ {Max(s)}], seq[Max(s)])]

StopRecursion(base, seq) == CHOOSE g : g = StopUnfold(g, base, seq)

LEMMA StopIsRecursion ==
  \A modes : MostRestrictive(modes) =
               IF modes = <<>> THEN "baseline"
               ELSE StopRecursion(Head(modes), Tail(modes))[DOMAIN Tail(modes)]
  BY DEF MostRestrictive, StopRecursion, StopUnfold, Stricter, FoldLeft, MapThenFoldSet

LEMMA ModesAre ==
  /\ \A m \in Modes : Restrictiveness[m] \in Nat
  /\ "baseline" \in Modes /\ Restrictiveness["baseline"] = 0
  /\ \A m \in Modes : Restrictiveness[m] = 0 => m = "baseline"
<1>1. Modes = {"baseline", "wide", "fundamental_guarded"}
  BY DEF Modes, Restrictiveness
<1>2. /\ Restrictiveness["baseline"] = 0 /\ Restrictiveness["wide"] = 1
      /\ Restrictiveness["fundamental_guarded"] = 2
  BY DEF Restrictiveness
<1> QED BY <1>1, <1>2

LEMMA StopExists ==
  ASSUME NEW base \in Modes, NEW seq \in Seq(Modes)
  PROVE  \E g : /\ g = StopRecursion(base, seq)
                /\ g[1 .. 0] = base
                /\ \A k \in Nat : k + 1 <= Len(seq) =>
                     g[1 .. k + 1] = Stricter(g[1 .. k], seq[k + 1])
<1> DEFINE f == [p \in Modes \X Modes |-> Stricter(p[1], p[2])]
<1>0. DOMAIN seq = 1 .. Len(seq) /\ Len(seq) \in Nat /\ \A i \in 1 .. Len(seq) : seq[i] \in Modes
  BY LenProperties, ElementOfSeq
<1>1. f \in [Modes \X Modes -> Modes]
  BY DEF Stricter
<1>2. \A x \in Modes, y \in Modes : f[x, y] = Stricter(x, y)
  OBVIOUS
<1> HIDE DEF f
<1>3. PICK h \in [SUBSET (1 .. Len(seq)) -> Modes] :
        \A s \in SUBSET (1 .. Len(seq)) : FoldStep(f, base, seq, h, s)
  BY <1>1, FoldExists
<1>4. ASSUME NEW s \in SUBSET (1 .. Len(seq))
      PROVE  h[s] = IF s = {} THEN base ELSE Stricter(h[s \ {Max(s)}], seq[Max(s)])
  <2>1. FoldStep(f, base, seq, h, s)
    BY <1>3
  <2>2. CASE s = {}
    BY <2>1, <2>2 DEF FoldStep
  <2>3. CASE s # {}
    <3>1. Max(s) \in 1 .. Len(seq)
      BY <1>0, <2>3, PrefixMax
    <3>2. seq[Max(s)] \in Modes /\ h[s \ {Max(s)}] \in Modes
      BY <1>0, <3>1
    <3> QED BY <1>2, <2>1, <2>3, <3>2 DEF FoldStep
  <2> QED BY <2>2, <2>3
<1>5. h = [s \in SUBSET (1 .. Len(seq)) |-> h[s]]
  OBVIOUS
<1>6. h = StopUnfold(h, base, seq)
  BY <1>0, <1>4, <1>5 DEF StopUnfold
<1> DEFINE g == StopRecursion(base, seq)
<1>7. g = StopUnfold(g, base, seq)
  BY <1>6 DEF StopRecursion
<1> HIDE DEF g
<1>8. \A s \in SUBSET (1 .. Len(seq)) :
        g[s] = IF s = {} THEN base ELSE Stricter(g[s \ {Max(s)}], seq[Max(s)])
  BY <1>0, <1>7 DEF StopUnfold
<1>9. 1 .. 0 = {} /\ {} \in SUBSET (1 .. Len(seq))
  OBVIOUS
<1>10. ASSUME NEW k \in Nat, k + 1 <= Len(seq)
      PROVE  g[1 .. k + 1] = Stricter(g[1 .. k], seq[k + 1])
  <2>1. 1 .. k + 1 \in SUBSET (1 .. Len(seq))
    BY <1>0, <1>10
  <2>2. Max(1 .. k + 1) = k + 1 /\ (1 .. k + 1) \ {k + 1} = 1 .. k /\ 1 .. k + 1 # {}
    BY WholeMax
  <2> QED BY <1>8, <2>1, <2>2
<1>11. g[1 .. 0] = base
  BY <1>8, <1>9
<1> QED BY <1>10, <1>11 DEF g

LEMMA StrictestIs ==
  ASSUME NEW modes \in Seq(Modes)
  PROVE  LET m == MostRestrictive(modes)
         IN /\ m \in Modes
            /\ \A x \in Range(modes) : Restrictiveness[x] <= Restrictiveness[m]
            /\ m = "baseline" \/ m \in Range(modes)
<1> DEFINE m == MostRestrictive(modes)
<1>0. DOMAIN modes = 1 .. Len(modes) /\ Len(modes) \in Nat /\ \A i \in 1 .. Len(modes) : modes[i] \in Modes
  BY LenProperties, ElementOfSeq
<1>1. CASE modes = <<>>
  <2>1. m = "baseline"
    BY <1>1, StopIsRecursion
  <2>2. Range(modes) = {}
    BY <1>1 DEF Range
  <2> HIDE DEF m
  <2> QED BY <2>1, <2>2, ModesAre DEF m
<1>2. CASE modes # <<>>
  <2> DEFINE base == Head(modes)
             seq == Tail(modes)
             n == Len(seq)
  <2>1. /\ base = modes[1] /\ base \in Modes /\ seq \in Seq(Modes)
        /\ n \in Nat /\ Len(modes) = n + 1 /\ DOMAIN seq = 1 .. n
        /\ \A i \in 1 .. n : seq[i] = modes[i + 1] /\ seq[i] \in Modes
    <3>1. seq \in Seq(Modes) /\ Len(seq) = Len(modes) - 1 /\ \A i \in 1 .. Len(seq) : seq[i] = modes[i + 1]
      BY <1>2, HeadTailProperties
    <3>2. base = modes[1] /\ Len(modes) # 0
      BY <1>2, EmptySeq, HeadTailProperties
    <3>3. 1 \in 1 .. Len(modes)
      BY <1>0, <3>2
    <3> HIDE DEF seq, base
    <3>4. DOMAIN seq = 1 .. Len(seq) /\ Len(seq) \in Nat /\ \A i \in 1 .. Len(seq) : seq[i] \in Modes
      BY <3>1, LenProperties, ElementOfSeq
    <3> QED BY <1>0, <3>1, <3>2, <3>3, <3>4
  <2>2. m = StopRecursion(base, seq)[1 .. n]
    BY <1>2, <2>1, StopIsRecursion
  <2> HIDE DEF base, seq, n, m
  <2>3. PICK g : /\ g = StopRecursion(base, seq) /\ g[1 .. 0] = base
                 /\ \A k \in Nat : k + 1 <= Len(seq) =>
                      g[1 .. k + 1] = Stricter(g[1 .. k], seq[k + 1])
    BY <2>1, StopExists
  <2> DEFINE Good(k) == /\ g[1 .. k] \in Modes
                        /\ \E i \in 1 .. k + 1 : g[1 .. k] = modes[i]
                        /\ \A i \in 1 .. k + 1 : Restrictiveness[modes[i]] <= Restrictiveness[g[1 .. k]]
             C == {k \in 0 .. n : ~Good(k)}
  <2>4. Good(0)
    <3>1. 1 .. 0 + 1 = {1}
      OBVIOUS
    <3>2. Restrictiveness[base] \in Nat
      BY <2>1, ModesAre
    <3> QED BY <2>1, <2>3, <3>1, <3>2
  <2>5. ASSUME NEW k \in Nat, k + 1 <= n, Good(k) PROVE Good(k + 1)
    <3>1. PICK h \in Modes : h = g[1 .. k]
      BY <2>5
    <3>2. k + 1 \in 1 .. n /\ (k + 1) + 1 \in 1 .. (k + 1) + 1
      BY <2>1, <2>5
    <3>3. PICK x \in Modes : x = seq[k + 1] /\ x = modes[(k + 1) + 1]
      BY <2>1, <3>2
    <3>4. g[1 .. k + 1] = Stricter(h, x)
      BY <2>3, <2>5, <3>1, <3>3 DEF n
    <3>5. Restrictiveness[h] \in Nat /\ Restrictiveness[x] \in Nat
      BY ModesAre
    <3>6. /\ Stricter(h, x) \in {h, x}
          /\ Restrictiveness[h] <= Restrictiveness[Stricter(h, x)]
          /\ Restrictiveness[x] <= Restrictiveness[Stricter(h, x)]
      BY <3>5 DEF Stricter
    <3>7. PICK y : y = Stricter(h, x)
      OBVIOUS
    <3>8. \A i \in 1 .. (k + 1) + 1 : i \in 1 .. k + 1 \/ i = (k + 1) + 1
      OBVIOUS
    <3>9. \A i \in 1 .. k + 1 : i \in 1 .. (k + 1) + 1 /\ Restrictiveness[modes[i]] <= Restrictiveness[h]
      BY <2>5, <3>1
    <3>10. \E i \in 1 .. (k + 1) + 1 : y = modes[i]
      BY <2>5, <3>1, <3>2, <3>3, <3>6, <3>7, <3>9
    <3>11. ASSUME NEW i \in 1 .. (k + 1) + 1 PROVE Restrictiveness[modes[i]] <= Restrictiveness[y]
      <4>1. CASE i = (k + 1) + 1
        BY <3>3, <3>6, <3>7, <4>1
      <4>2. CASE i \in 1 .. k + 1
        <5>1. i \in 1 .. Len(modes)
          BY <2>1, <2>5, <4>2
        <5>2. Restrictiveness[modes[i]] \in Nat /\ Restrictiveness[y] \in Nat
          BY <1>0, <5>1, <3>6, <3>7, ModesAre
        <5>3. Restrictiveness[modes[i]] <= Restrictiveness[h] /\ Restrictiveness[h] <= Restrictiveness[y]
          BY <3>6, <3>7, <3>9, <4>2
        <5> QED BY <3>5, <5>2, <5>3
      <4> QED BY <3>8, <4>1, <4>2
    <3>12. g[1 .. k + 1] = y /\ y \in Modes
      BY <3>4, <3>6, <3>7
    <3> QED BY <3>10, <3>11, <3>12
  <2> HIDE DEF Good
  <2>6. C = {}
    <3>1. SUFFICES ASSUME C # {} PROVE FALSE
      OBVIOUS
    <3>2. C \in SUBSET Nat
      BY <2>1
    <3>3. PICK k \in C : \A j \in C : k <= j
      <4> HIDE DEF C
      <4> QED BY <3>1, <3>2, LeastOf
    <3>4. k # 0
      BY <2>4, <3>3
    <3>5. k - 1 \in Nat /\ (k - 1) + 1 = k /\ k <= n /\ k - 1 \in 0 .. n /\ ~(k <= k - 1)
      BY <2>1, <3>3, <3>4
    <3>6. Good(k - 1)
      BY <3>3, <3>5
    <3>7. PICK j \in Nat : j = k - 1
      BY <3>5
    <3>8. Good(j + 1)
      BY <2>5, <3>5, <3>6, <3>7
    <3> QED BY <3>3, <3>5, <3>7, <3>8
  <2>7. Good(n) /\ g[1 .. n] = m
    BY <2>1, <2>2, <2>3, <2>6
  <2>8. Range(modes) = {modes[i] : i \in 1 .. n + 1}
    BY <1>0, <2>1 DEF Range
  <2> QED BY <2>7, <2>8 DEF Good, m
<1> QED BY <1>1, <1>2

-----------------------------------------------------------------------------
(* Governance: what a resolved symbol says of the rules that act.          *)

LEMMA StopIs ==
  ASSUME NEW a, NEW A, InTurn(a, A)
  PROVE  LET m == MostRestrictive(ValuesOf(a, "stop_mode"))
         IN /\ \A r \in A : "stop_mode" \in DOMAIN r.acts =>
                 Restrictiveness[r.acts.stop_mode] <= Restrictiveness[m]
            /\ m # "baseline" =>
                 \E r \in A : "stop_mode" \in DOMAIN r.acts /\ r.acts.stop_mode = m
<1>1. PICK v : v = ValuesOf(a, "stop_mode")
  OBVIOUS
<1>2. v \in Seq(Given(A, "stop_mode")) /\ Range(v) = Given(A, "stop_mode")
  BY <1>1, ValuesAre
<1>3. A \subseteq AllRules
  BY DEF InTurn, Fits
<1>4. Given(A, "stop_mode") \subseteq Modes
  BY <1>3, RulesAssumption DEF AllRules, Given, Modes
<1>5. v \in Seq(Modes)
  BY <1>2, <1>4
<1>6. PICK m : m = MostRestrictive(v)
  OBVIOUS
<1>7. /\ \A x \in Given(A, "stop_mode") : Restrictiveness[x] <= Restrictiveness[m]
      /\ m = "baseline" \/ m \in Given(A, "stop_mode")
  BY <1>2, <1>5, <1>6, StrictestIs
<1>8. \A r \in A : "stop_mode" \in DOMAIN r.acts => r.acts.stop_mode \in Given(A, "stop_mode")
  BY DEF Given
<1>9. m # "baseline" => \E r \in A : "stop_mode" \in DOMAIN r.acts /\ r.acts.stop_mode = m
  BY <1>7 DEF Given
<1> QED BY <1>1, <1>6, <1>7, <1>8, <1>9

LEMMA VetoIs ==
  ASSUME NEW a, NEW A, InTurn(a, A)
  PROVE  TRUE \in Range(ValuesOf(a, "veto_downgrade")) <=>
           \E r \in A : "veto_downgrade" \in DOMAIN r.acts /\ r.acts.veto_downgrade
<1>1. Range(ValuesOf(a, "veto_downgrade")) = Given(A, "veto_downgrade")
  BY ValuesAre
<1>2. \A r \in A : "veto_downgrade" \in DOMAIN r.acts => r.acts.veto_downgrade \in BOOLEAN
  BY RulesAssumption DEF AllRules, InTurn, Fits
<1>3. ASSUME NEW r \in A, "veto_downgrade" \in DOMAIN r.acts
      PROVE  r.acts.veto_downgrade <=> r.acts.veto_downgrade = TRUE
  BY <1>2, <1>3
<1> QED BY <1>1, <1>3 DEF Given

LEMMA RailsIs ==
  ASSUME NEW a, NEW A, InTurn(a, A)
  PROVE  LET g == MergeGuardrails(a)
         IN /\ \A r \in A : \A k \in DOMAIN r.rails : g[k] <= r.rails[k]
            /\ \A k \in DOMAIN g : \E r \in A : k \in DOMAIN r.rails /\ r.rails[k] = g[k]
<1> DEFINE all == {a[i].rails : i \in DOMAIN a}
           limits == UNION {DOMAIN g : g \in all}
           at(k) == {g[k] : g \in {x \in all : k \in DOMAIN x}}
           with(k) == {r \in A : k \in DOMAIN r.rails}
<1>1. MergeGuardrails(a) = [k \in limits |-> Min(at(k))]
  BY DEF MergeGuardrails
<1>2. all = {r.rails : r \in A}
  BY DEF InTurn, Range
<1>3. limits = UNION {DOMAIN r.rails : r \in A}
  <2> HIDE DEF all
  <2> QED BY <1>2
<1>4. \A k : at(k) = {r.rails[k] : r \in with(k)}
  <2> HIDE DEF all
  <2> QED BY <1>2
<1> HIDE DEF all, limits, at
<1>5. ASSUME NEW k, with(k) # {}
      PROVE  Min(at(k)) \in at(k) /\ \A x \in at(k) : Min(at(k)) <= x
  <2>1. IsFiniteSet(with(k))
    <3>1. IsFiniteSet(A) /\ with(k) \in SUBSET A
      BY DEF InTurn, Fits
    <3> QED BY <3>1, FS_Subset
  <2>2. \A r \in with(k) : r.rails[k] \in Int
    BY RulesAssumption DEF AllRules, InTurn, Fits
  <2>3. PICK T : T = at(k)
    OBVIOUS
  <2>4. [r \in with(k) |-> r.rails[k]] \in Surjection(with(k), T)
    BY <1>4, <2>3 DEF Surjection
  <2>5. T \in SUBSET Int /\ T # {}
    <3> HIDE DEF with
    <3> QED BY <1>4, <1>5, <2>2, <2>3
  <2>6. IsFiniteSet(T)
    <3> HIDE DEF with
    <3> QED BY <2>1, <2>4, FS_Surjection
  <2> QED BY <2>3, <2>5, <2>6, MinIsIn
<1>6. \A k \in limits : with(k) # {}
  BY <1>3
<1>7. ASSUME NEW r \in A, NEW k \in DOMAIN r.rails
      PROVE  k \in limits /\ r.rails[k] \in at(k) /\ with(k) # {}
  BY <1>3, <1>4
<1>8. ASSUME NEW k, NEW x \in at(k) PROVE \E r \in A : k \in DOMAIN r.rails /\ r.rails[k] = x
  BY <1>4
<1> HIDE DEF with
<1> QED BY <1>1, <1>5, <1>6, <1>7, <1>8

\* e has an entry for each action field of the rule r.
Extracts(e, r) ==
  /\ e \in Seq(Range(e)) /\ DOMAIN e = 1 .. Len(e) /\ Len(e) \in Nat
  /\ \A j \in DOMAIN e : /\ e[j].rule = r.id /\ e[j].kind \in DOMAIN r.acts
                         /\ e[j].value = r.acts[e[j].kind]
  /\ \A k \in DOMAIN r.acts : \E j \in DOMAIN e : e[j].kind = k
  /\ \A i, j \in DOMAIN e : e[i].kind = e[j].kind => i = j

LEMMA KindsDiffer ==
  /\ ActionKinds \in Seq(Range(ActionKinds))
  /\ \A i, j \in DOMAIN ActionKinds : ActionKinds[i] = ActionKinds[j] => i = j
<1>1. ActionKinds = [i \in 1 .. 7 |-> ActionKinds[i]]
  BY DEF ActionKinds
<1>2. DOMAIN ActionKinds = 1 .. 7
  BY DEF ActionKinds
<1>3. \A i, j \in 1 .. 7 : ActionKinds[i] = ActionKinds[j] => i = j
  BY DEF ActionKinds
<1> QED BY <1>1, <1>2, <1>3, FromIndices

LEMMA ExtractsAll ==
  ASSUME NEW r \in AllRules
  PROVE  Extracts(ExtractActions(r), r)
<1> DEFINE I == {i \in DOMAIN ActionKinds : ActionKinds[i] \in DOMAIN r.acts}
           set == Kept(ActionKinds, I)
           n == Cardinality(I)
           g == Numbering(I)
           e == [i \in DOMAIN set |-> [rule |-> r.id, kind |-> set[i], value |-> r.acts[set[i]]]]
<1>1. ExtractActions(r) = e
  BY DEF ExtractActions
<1>2. I \in SUBSET DOMAIN ActionKinds /\ Range(ActionKinds) \cap DOMAIN r.acts = {ActionKinds[i] : i \in I}
  BY DEF Range
<1>3. \A i \in I : ActionKinds[i] \in DOMAIN r.acts
  OBVIOUS
<1> HIDE DEF I
<1>4. /\ DOMAIN set = 1 .. n /\ n \in Nat /\ Enumerates(g, n, I)
      /\ \A k \in 1 .. n : g[k] \in I /\ set[k] = ActionKinds[g[k]]
      /\ Range(set) = {ActionKinds[i] : i \in I}
  BY <1>2, KeptIs, KeptHas, KindsDiffer
<1>5. DOMAIN r.acts \subseteq Range(ActionKinds)
  BY RulesAssumption DEF AllRules
<1>6. Range(set) = DOMAIN r.acts
  BY <1>2, <1>4, <1>5
<1> HIDE DEF set, n, g
<1>7. \A i, j \in 1 .. n : set[i] = set[j] => i = j
  <2>1. ASSUME NEW i \in 1 .. n, NEW j \in 1 .. n, set[i] = set[j] PROVE i = j
    <3>1. g[i] \in I /\ g[j] \in I /\ ActionKinds[g[i]] = ActionKinds[g[j]]
      BY <1>4, <2>1
    <3>2. g[i] = g[j]
      BY <1>2, <3>1, KindsDiffer
    <3>3. g[i] \in Nat
      <4>1. I \in SUBSET Nat
        BY <1>2, KindsDiffer, LenProperties
      <4> QED BY <3>1, <4>1
    <3>4. i <= j /\ j <= i
      BY <1>4, <3>2, <3>3 DEF Enumerates
    <3> QED BY <1>4, <3>4
  <2> QED BY <2>1
<1>8. /\ DOMAIN e = 1 .. n
      /\ \A j \in 1 .. n : /\ e[j].rule = r.id /\ e[j].kind = set[j]
                           /\ e[j].value = r.acts[set[j]]
  BY <1>4
<1>9. \A j \in 1 .. n : set[j] \in DOMAIN r.acts
  BY <1>4, <1>6 DEF Range
<1>10. \A k \in DOMAIN r.acts : \E j \in 1 .. n : set[j] = k
  BY <1>4, <1>6 DEF Range
<1>11. e \in [1 .. n -> Range(e)]
  BY <1>4 DEF Range
<1> HIDE DEF e
<1>12. e \in Seq(Range(e)) /\ Len(e) = n
  <2>1. e \in Seq(Range(e))
    BY <1>4, <1>11, SeqDef
  <2> QED BY <1>4, <1>8, <2>1, LenProperties
<1> QED BY <1>1, <1>4, <1>7, <1>8, <1>9, <1>10, <1>12 DEF Extracts

\* The rule an action comes from, and what the actions of a symbol are.
RuleOf(x, A) == CHOOSE r \in A : r.id = x.rule

ActionsOf(F, A) ==
  /\ \A r \in A : \A k \in DOMAIN r.acts :
       \E x \in Range(F) : x.rule = r.id /\ x.kind = k /\ x.value = r.acts[k]
  /\ \A x \in Range(F) : \E r \in A : x.rule = r.id /\ x.kind \in DOMAIN r.acts
  /\ \A i, j \in DOMAIN F :
       /\ <<F[i].rule, F[i].kind>> = <<F[j].rule, F[j].kind>> => i = j
       /\ i <= j => RuleOf(F[i], A).prio <= RuleOf(F[j], A).prio

LEMMA ActionsAre ==
  ASSUME NEW a, NEW A, InTurn(a, A)
  PROVE  ActionsOf(FlattenSeq([i \in DOMAIN a |-> ExtractActions(a[i])]), A)
<1> DEFINE seqs == [i \in DOMAIN a |-> ExtractActions(a[i])]
           X == UNION {Range(ExtractActions(r)) : r \in A}
           n == Len(a)
<1>1. A \subseteq AllRules /\ DOMAIN a = 1 .. n /\ n \in Nat /\ \A i \in 1 .. n : a[i] \in A
  BY DEF InTurn, Fits, Range
<1>2. \A x, y \in A : x.id = y.id => x = y
  BY DEF InTurn, Fits
<1>3. ASSUME NEW r \in A PROVE ExtractActions(r) \in Seq(X)
  <2>1. ExtractActions(r) \in Seq(Range(ExtractActions(r))) /\ Range(ExtractActions(r)) \subseteq X
    BY <1>1, ExtractsAll DEF Extracts
  <2> HIDE DEF X
  <2> QED BY <2>1
<1> HIDE DEF X
<1>4. seqs \in [1 .. n -> Seq(X)]
  BY <1>1, <1>3
<1>5. \A i \in 1 .. n : Extracts(seqs[i], a[i])
  BY <1>1, ExtractsAll
<1> HIDE DEF seqs
<1>6. seqs \in Seq(Seq(X)) /\ Len(seqs) = n
  <2>1. seqs \in Seq(Seq(X))
    BY <1>1, <1>4, SeqDef
  <2> QED BY <1>1, <1>4, <2>1, LenProperties
<1>7. PICK F : F = FlattenSeq(seqs)
  OBVIOUS
<1>8. PICK at : LaidOut(F, at, seqs, n)
  BY <1>6, <1>7, FlattenIs
<1>9. ASSUME NEW p \in DOMAIN F
      PROVE  /\ at[p][1] \in 1 .. n /\ at[p][2] \in DOMAIN seqs[at[p][1]]
             /\ at[p] = <<at[p][1], at[p][2]>>
             /\ F[p] = seqs[at[p][1]][at[p][2]]
             /\ a[at[p][1]] \in A
             /\ F[p].rule = a[at[p][1]].id /\ F[p].kind \in DOMAIN a[at[p][1]].acts
  <2>1. PICK l : l = at[p] /\ l \in Within(seqs, n) /\ F[p] = seqs[l[1]][l[2]]
    BY <1>8, <1>9 DEF LaidOut
  <2>2. l[1] \in 1 .. n /\ l[2] \in DOMAIN seqs[l[1]] /\ l = <<l[1], l[2]>>
    BY <2>1 DEF Within
  <2>3. PICK e : e = seqs[l[1]] /\ Extracts(e, a[l[1]])
    BY <1>5, <2>2
  <2>4. e[l[2]].rule = a[l[1]].id /\ e[l[2]].kind \in DOMAIN a[l[1]].acts
    BY <2>2, <2>3 DEF Extracts
  <2> QED BY <1>1, <2>1, <2>2, <2>3, <2>4
<1>10. ASSUME NEW r \in A, NEW k \in DOMAIN r.acts
       PROVE  \E x \in Range(F) : x.rule = r.id /\ x.kind = k /\ x.value = r.acts[k]
  <2>1. PICK i \in 1 .. n : a[i] = r
    BY <1>1 DEF InTurn, Range
  <2>2. PICK e : e = seqs[i] /\ Extracts(e, r)
    BY <1>5, <2>1
  <2>3. PICK j \in DOMAIN e : e[j].kind = k /\ e[j].rule = r.id /\ e[j].value = r.acts[k]
    BY <1>10, <2>2 DEF Extracts
  <2>4. <<i, j>> \in Within(seqs, n)
    BY SMTT(30), <1>1, <2>2, <2>3 DEF Within, Extracts
  <2>5. PICK p \in DOMAIN F : at[p] = <<i, j>>
    BY <1>8, <2>4 DEF LaidOut
  <2>6. F[p] = e[j]
    BY <1>9, <2>2, <2>5
  <2> QED BY <2>3, <2>5, <2>6 DEF Range
<1>11. ASSUME NEW x \in Range(F) PROVE \E r \in A : x.rule = r.id /\ x.kind \in DOMAIN r.acts
  <2>1. PICK p \in DOMAIN F : x = F[p]
    BY <1>11 DEF Range
  <2> QED BY <1>9, <2>1
<1>12. ASSUME NEW p \in DOMAIN F PROVE RuleOf(F[p], A) = a[at[p][1]]
  BY <1>2, <1>9 DEF RuleOf
<1>13. ASSUME NEW i \in DOMAIN F, NEW j \in DOMAIN F, F[i].rule = F[j].rule, F[i].kind = F[j].kind
       PROVE  i = j
  <2>1. PICK l, m : l = at[i] /\ m = at[j]
    OBVIOUS
  <2>2. /\ l[1] \in 1 .. n /\ l[2] \in DOMAIN seqs[l[1]] /\ l = <<l[1], l[2]>>
        /\ F[i] = seqs[l[1]][l[2]] /\ a[l[1]] \in A /\ F[i].rule = a[l[1]].id
    BY <1>9, <1>13, <2>1
  <2>3. /\ m[1] \in 1 .. n /\ m[2] \in DOMAIN seqs[m[1]] /\ m = <<m[1], m[2]>>
        /\ F[j] = seqs[m[1]][m[2]] /\ a[m[1]] \in A /\ F[j].rule = a[m[1]].id
    BY <1>9, <1>13, <2>1
  <2>4. a[l[1]] = a[m[1]]
    BY <1>2, <1>13, <2>2, <2>3
  <2>5. l[1] = m[1]
    BY <1>1, <2>2, <2>3, <2>4 DEF InTurn
  <2>6. PICK e : e = seqs[l[1]] /\ Extracts(e, a[l[1]])
    BY <1>5, <2>2
  <2>7. e[l[2]].kind = e[m[2]].kind /\ l[2] \in DOMAIN e /\ m[2] \in DOMAIN e
    BY <1>13, <2>2, <2>3, <2>5, <2>6
  <2>8. l[2] = m[2]
    BY <2>6, <2>7 DEF Extracts
  <2>9. at[i] = at[j]
    BY <2>1, <2>2, <2>3, <2>5, <2>8
  <2> QED BY <1>8, <1>13, <2>9 DEF LaidOut
<1>14. ASSUME NEW i \in DOMAIN F, NEW j \in DOMAIN F, i <= j
       PROVE  RuleOf(F[i], A).prio <= RuleOf(F[j], A).prio
  <2>1. at[i][1] <= at[j][1] /\ at[i][1] \in DOMAIN a /\ at[j][1] \in DOMAIN a
    BY <1>1, <1>8, <1>9, <1>14 DEF LaidOut
  <2>2. a[at[i][1]].prio <= a[at[j][1]].prio
    BY <2>1 DEF InTurn
  <2> QED BY <1>12, <1>14, <2>2
<1>15. ActionsOf(F, A)
  BY <1>10, <1>11, <1>13, <1>14 DEF ActionsOf
<1> QED BY <1>7, <1>15 DEF seqs

LEMMA MergeStrict == FitInv => MergeIsStrictest
<1> SUFFICES ASSUME FitInv, NEW s \in Symbols
             PROVE  LET res == Current(s)
        act == {r \in reg.rules : /\ r.on = {} \/ s \in r.on
                                  /\ r.needs \subseteq {h.id : h \in {x \in hreg.hyps : x.status = "ACTIVE"}}}
        rule(a) == CHOOSE r \in act : r.id = a.rule
    IN /\ \A r \in act :
            /\ "stop_mode" \in DOMAIN r.acts =>
                 Restrictiveness[r.acts.stop_mode] <= Restrictiveness[res.stop]
            /\ \A k \in DOMAIN r.rails : res.rails[k] <= r.rails[k]
            /\ \A k \in DOMAIN r.acts :
                 \E a \in Range(res.actions) : a.rule = r.id /\ a.kind = k /\ a.value = r.acts[k]
       /\ res.stop # "baseline" => \E r \in act : "stop_mode" \in DOMAIN r.acts /\ r.acts.stop_mode = res.stop
       /\ \A k \in DOMAIN res.rails : \E r \in act : k \in DOMAIN r.rails /\ r.rails[k] = res.rails[k]
       /\ res.veto <=> \E r \in act : "veto_downgrade" \in DOMAIN r.acts /\ r.acts.veto_downgrade
       /\ \A a \in Range(res.actions) : \E r \in act : a.rule = r.id /\ a.kind \in DOMAIN r.acts
       /\ \A i, j \in DOMAIN res.actions :
            LET a == res.actions[i]
                b == res.actions[j]
            IN /\ <<a.rule, a.kind>> = <<b.rule, b.kind>> => i = j
               /\ i <= j => rule(a).prio <= rule(b).prio
  BY DEF MergeIsStrictest
<1> DEFINE res == Current(s)
           act == {r \in reg.rules : /\ r.on = {} \/ s \in r.on
                                     /\ r.needs \subseteq {h.id : h \in {x \in hreg.hyps : x.status = "ACTIVE"}}}
<1>1. act = Acting(s)
  BY DEF Acting, IsConstraintActive
<1> HIDE DEF act
<1>2. PICK a : a = ActiveInOrder(reg.rules, hreg.hyps, s)
  OBVIOUS
<1>3. InTurn(a, act)
  BY <1>1, <1>2, ActiveInTurn
<1>4. /\ res.stop = MostRestrictive(ValuesOf(a, "stop_mode"))
      /\ res.veto = (TRUE \in Range(ValuesOf(a, "veto_downgrade")))
      /\ res.rails = MergeGuardrails(a)
      /\ res.actions = FlattenSeq([i \in DOMAIN a |-> ExtractActions(a[i])])
  BY <1>2 DEF Current, Resolve
<1> HIDE DEF res
<1>5. /\ \A r \in act : "stop_mode" \in DOMAIN r.acts =>
           Restrictiveness[r.acts.stop_mode] <= Restrictiveness[res.stop]
      /\ res.stop # "baseline" =>
           \E r \in act : "stop_mode" \in DOMAIN r.acts /\ r.acts.stop_mode = res.stop
  BY <1>3, <1>4, StopIs
<1>6. /\ \A r \in act : \A k \in DOMAIN r.rails : res.rails[k] <= r.rails[k]
      /\ \A k \in DOMAIN res.rails : \E r \in act : k \in DOMAIN r.rails /\ r.rails[k] = res.rails[k]
  BY <1>3, <1>4, RailsIs
<1>7. res.veto <=> \E r \in act : "veto_downgrade" \in DOMAIN r.acts /\ r.acts.veto_downgrade
  BY <1>3, <1>4, VetoIs
<1>8. ActionsOf(res.actions, act)
  BY <1>3, <1>4, ActionsAre
<1> QED BY <1>5, <1>6, <1>7, <1>8 DEF ActionsOf, RuleOf, act, res

-----------------------------------------------------------------------------
(* Governance: the hypotheses a request lists, and the sorted pool.        *)

\* The elements of a list that are in Y, and the others.
With(s, Y) == Kept(s, Places(s, Y))
Without(s, Y) == Kept(s, DOMAIN s \ Places(s, Y))

LEMMA Parted ==
  ASSUME NEW X, NEW s \in Seq(X), NEW Y
  PROVE  /\ With(s, Y) \in Seq(X) /\ Without(s, Y) \in Seq(X)
         /\ Range(With(s, Y)) = Range(s) \cap Y
         /\ Range(Without(s, Y)) = Range(s) \ Y
         /\ \A Z : Times(s, Z) = Times(With(s, Y), Z) + Times(Without(s, Y), Z)
<1> DEFINE at == Places(s, Y)
           rest == DOMAIN s \ at
<1>1. at \in SUBSET DOMAIN s /\ rest \in SUBSET DOMAIN s
  BY DEF Places
<1>2. {s[i] : i \in at} = Range(s) \cap Y
  BY DEF Places, Range
<1>3. {s[i] : i \in rest} = Range(s) \ Y
  BY DEF Places, Range
<1>4. With(s, Y) = Kept(s, at) /\ Without(s, Y) = Kept(s, rest)
  BY DEF With, Without
<1> HIDE DEF at
<1>5. \A Z : Times(s, Z) = Times(Kept(s, at), Z) + Times(Kept(s, rest), Z)
  BY <1>1, TimesSplit
<1> HIDE DEF rest
<1>6. /\ Kept(s, at) \in Seq(X) /\ Kept(s, rest) \in Seq(X)
      /\ Range(Kept(s, at)) = {s[i] : i \in at} /\ Range(Kept(s, rest)) = {s[i] : i \in rest}
  BY <1>1, KeptIs, KeptHas
<1> QED BY <1>2, <1>3, <1>4, <1>5, <1>6

\* The hypotheses of hs that a list of ids names and that are ACTIVE.
Live(ids, hs) == {h \in hs : h.id \in Range(ids) /\ h.status = "ACTIVE"}

LEMMA ListedAre ==
  ASSUME NEW ids, ids \in Seq(Range(ids)), NEW hs, NEW F, Fits(hs, F)
  PROVE  Listed(ids, hs) \in Seq(hs) /\ Range(Listed(ids, hs)) = Live(ids, hs)
<1> DEFINE I == {i \in DOMAIN ids : \E y \in hs : y.id = ids[i] /\ y.status = "ACTIVE"}
           found == Kept(ids, I)
           n == Cardinality(I)
           l == [i \in DOMAIN found |-> CHOOSE y \in hs : y.id = found[i]]
<1>1. Listed(ids, hs) = l
  BY DEF Listed
<1>2. I \in SUBSET DOMAIN ids
  OBVIOUS
<1>3. \A i \in I : \E y \in hs : y.id = ids[i] /\ y.status = "ACTIVE"
  OBVIOUS
<1>4. \A h \in Live(ids, hs) : \E i \in I : ids[i] = h.id
  BY DEF Live, Range
<1> HIDE DEF I
<1>5. /\ DOMAIN found = 1 .. n /\ n \in Nat
      /\ Range(found) = {ids[i] : i \in I}
  BY <1>2, KeptIs, KeptHas
<1> HIDE DEF found, n
<1>6. \A x, y \in hs : x.id = y.id => x = y
  BY DEF Fits
<1>7. ASSUME NEW i \in 1 .. n PROVE l[i] \in Live(ids, hs) /\ l[i].id = found[i]
  <2>1. PICK j \in I : found[i] = ids[j]
    BY <1>5 DEF Range
  <2>2. PICK y \in hs : y.id = found[i] /\ y.status = "ACTIVE"
    BY <1>3, <2>1
  <2>3. l[i] = y
    BY <1>5, <1>6, <2>2
  <2>4. found[i] \in Range(ids)
    BY <1>2, <2>1 DEF Range
  <2> QED BY <2>2, <2>3, <2>4 DEF Live
<1>8. ASSUME NEW h \in Live(ids, hs) PROVE \E i \in 1 .. n : l[i] = h
  <2>1. PICK i \in 1 .. n : found[i] = h.id
    BY <1>4, <1>5 DEF Range
  <2>2. l[i] \in hs /\ l[i].id = h.id /\ h \in hs
    BY <1>7, <2>1 DEF Live
  <2> QED BY <1>6, <2>2
<1>9. DOMAIN l = 1 .. n
  BY <1>5
<1>10. \A i \in 1 .. n : l[i] \in hs
  BY <1>7 DEF Live
<1>11. l = [i \in 1 .. n |-> l[i]]
  BY <1>9
<1> HIDE DEF l
<1>12. l \in [1 .. n -> hs]
  BY <1>10, <1>11
<1>13. l \in Seq(hs)
  BY <1>5, <1>12, SeqDef
<1>14. Range(l) = Live(ids, hs)
  BY <1>7, <1>8, <1>9 DEF Range
<1> QED BY <1>1, <1>13, <1>14

LEMMA FiledIs ==
  ASSUME NEW hs, Fits(hs, FileContents(HypDirs)), NEW list \in Seq(hs), NEW field, NEW x
  PROVE  FiledUnder(list, field, x) # None <=> \E h \in Range(list) : x \in h[field]
<1> DEFINE naming == {i \in DOMAIN list : x \in list[i][field]}
<1>1. /\ DOMAIN list = 1 .. Len(list) /\ Len(list) \in Nat
      /\ \A i \in DOMAIN list : list[i] \in hs
  BY LenProperties, ElementOfSeq
<1>2. \A h \in hs : h.id # None
  BY HypothesesAssumption DEF Fits
<1>3. FiledUnder(list, field, x) = IF naming = {} THEN None ELSE list[Max(naming)].id
  BY DEF FiledUnder
<1>4. naming = {} <=> ~\E h \in Range(list) : x \in h[field]
  BY DEF Range
<1>5. ASSUME naming # {} PROVE list[Max(naming)].id # None
  <2>1. IsFiniteSet(DOMAIN list) /\ naming \in SUBSET DOMAIN list
    BY <1>1, FS_Interval
  <2>2. IsFiniteSet(naming)
    BY <2>1, FS_Subset
  <2>3. naming \in SUBSET Int
    BY <1>1
  <2> HIDE DEF naming
  <2>4. Max(naming) \in naming
    BY <1>5, <2>2, <2>3, MaxIsIn
  <2> QED BY <1>1, <1>2, <2>1, <2>4
<1> HIDE DEF naming
<1> QED BY <1>3, <1>4, <1>5

\* Before another index by symbol, and where the symbols are the same by place.
Sooner(list, i, j) ==
  list[i].symbol < list[j].symbol \/ (list[i].symbol = list[j].symbol /\ i <= j)
ByThen(list) == {p \in (DOMAIN list) \X (DOMAIN list) : Sooner(list, p[1], p[2])}

LEMMA ByThenTotal ==
  ASSUME NEW list, NEW n \in Nat, DOMAIN list = 1 .. n, \A i \in 1 .. n : list[i].symbol \in Int
  PROVE  /\ TotalOn(1 .. n, ByThen(list))
         /\ \A i, j \in 1 .. n : <<i, j>> \in ByThen(list) => list[i].symbol <= list[j].symbol
<1>1. \A i, j \in 1 .. n : <<i, j>> \in ByThen(list) <=> Sooner(list, i, j)
  BY DEF ByThen
<1>2. ASSUME NEW i \in 1 .. n, NEW j \in 1 .. n PROVE Sooner(list, i, j) \/ Sooner(list, j, i)
  <2>1. PICK a \in Int, b \in Int : a = list[i].symbol /\ b = list[j].symbol
    OBVIOUS
  <2>2. a < b \/ b < a \/ (a = b /\ (i <= j \/ j <= i))
    OBVIOUS
  <2> QED BY <2>1, <2>2 DEF Sooner
<1>3. ASSUME NEW i \in 1 .. n, NEW j \in 1 .. n, Sooner(list, i, j), Sooner(list, j, i) PROVE i = j
  BY <1>3 DEF Sooner
<1>4. ASSUME NEW i \in 1 .. n, NEW j \in 1 .. n, NEW k \in 1 .. n,
             Sooner(list, i, j), Sooner(list, j, k)
      PROVE  Sooner(list, i, k)
  BY <1>4 DEF Sooner
<1>5. ASSUME NEW i \in 1 .. n, NEW j \in 1 .. n, Sooner(list, i, j)
      PROVE  list[i].symbol <= list[j].symbol
  BY <1>5 DEF Sooner
<1> QED BY <1>1, <1>2, <1>3, <1>4, <1>5 DEF TotalOn

LEMMA SortedIs ==
  ASSUME NEW X, \A x \in X : x.symbol \in Int, NEW list \in Seq(X)
  PROVE  LET s == BySymbol(list)
         IN /\ s \in Seq(X) /\ Range(s) = Range(list)
            /\ \A i, j \in DOMAIN s : i <= j => s[i].symbol <= s[j].symbol
            /\ \A Z : Times(s, Z) = Times(list, Z)
<1> DEFINE n == Len(list)
           leq == ByThen(list)
           f == InOrder(1 .. n, leq)
           s == [k \in 1 .. n |-> list[f[k]]]
<1>1. DOMAIN list = 1 .. n /\ n \in Nat /\ \A i \in 1 .. n : list[i] \in X
  BY LenProperties, ElementOfSeq
<1>2. IsFiniteSet(1 .. n) /\ Cardinality(1 .. n) = n
  BY <1>1, FS_Interval
<1>3. TotalOn(1 .. n, leq) /\ \A i, j \in 1 .. n : <<i, j>> \in leq => list[i].symbol <= list[j].symbol
  BY <1>1, ByThenTotal
<1>4. BySymbol(list) = AtIndices(list, f)
  BY <1>1 DEF BySymbol, ByThen, Sooner
<1> HIDE DEF leq, n
<1>5. Orders(f, 1 .. n, leq)
  BY <1>2, <1>3, InOrderIs
<1> HIDE DEF f
<1>6. /\ f \in [1 .. n -> 1 .. n]
      /\ \A x \in 1 .. n : \E k \in 1 .. n : f[k] = x
      /\ \A j, k \in 1 .. n : j <= k => <<f[j], f[k]>> \in leq
      /\ \A j, k \in 1 .. n : f[j] = f[k] => j = k
  BY <1>2, <1>5 DEF Orders
<1>7. BySymbol(list) = s
  BY <1>4, <1>6 DEF AtIndices
<1>8. s \in [1 .. n -> X] /\ DOMAIN s = 1 .. n
  BY <1>1, <1>6
<1>9. \A k \in 1 .. n : s[k] = list[f[k]]
  OBVIOUS
<1> HIDE DEF s
<1>10. s \in Seq(X)
  BY <1>1, <1>8, SeqDef
<1>11. Range(s) = Range(list)
  BY <1>1, <1>6, <1>8, <1>9 DEF Range
<1>12. ASSUME NEW i \in 1 .. n, NEW j \in 1 .. n, i <= j PROVE s[i].symbol <= s[j].symbol
  <2>1. f[i] \in 1 .. n /\ f[j] \in 1 .. n /\ <<f[i], f[j]>> \in leq
    BY <1>6, <1>12
  <2>2. list[f[i]].symbol <= list[f[j]].symbol
    BY <1>3, <2>1
  <2> QED BY <1>9, <2>2
<1>13. ASSUME NEW Z PROVE Times(s, Z) = Times(list, Z)
  <2> DEFINE P == Places(s, Z)
             Q == Places(list, Z)
             h == [k \in P |-> f[k]]
  <2>1. P = {k \in 1 .. n : list[f[k]] \in Z} /\ Q = {i \in 1 .. n : list[i] \in Z}
    BY <1>1, <1>8, <1>9 DEF Places
  <2>2. IsFiniteSet(P)
    BY <1>10, TimesNat
  <2>3. h \in [P -> Q]
    BY <1>6, <2>1
  <2>4. \A j, k \in P : h[j] = h[k] => j = k
    BY <1>6, <2>1
  <2>5. \A y \in Q : \E k \in P : h[k] = y
    <3>1. ASSUME NEW y \in Q PROVE \E k \in P : f[k] = y
      BY <1>6, <2>1
    <3> QED BY <3>1
  <2> HIDE DEF P, Q, h
  <2>6. Cardinality(Q) = Cardinality(P)
    BY <2>2, <2>3, <2>4, <2>5, SameSize
  <2> QED BY <2>6 DEF Times, P, Q
<1> QED BY <1>7, <1>8, <1>10, <1>11, <1>12, <1>13

-----------------------------------------------------------------------------
(* Governance: the pool that is built.                                     *)

LEMMA Appended ==
  ASSUME NEW s, s \in Seq(Range(s)), NEW t, t \in Seq(Range(t))
  PROVE  /\ s \o t \in Seq(Range(s \o t)) /\ Range(s \o t) = Range(s) \union Range(t)
         /\ \A Y : Times(s \o t, Y) = Times(s, Y) + Times(t, Y)
<1> DEFINE X == Range(s) \union Range(t)
           n == Len(s)
<1>1. s \in Seq(X) /\ t \in Seq(X)
  OBVIOUS
<1> HIDE DEF X
<1>2. \A Y : Times(s \o t, Y) = Times(s, Y) + Times(t, Y)
  BY <1>1, TimesJoined
<1>3. /\ s \o t \in Seq(X) /\ Len(s \o t) = n + Len(t) /\ n \in Nat /\ Len(t) \in Nat
      /\ \A i \in 1 .. n + Len(t) : (s \o t)[i] = IF i <= n THEN s[i] ELSE t[i - n]
  BY <1>1, ConcatProperties
<1>4. DOMAIN s = 1 .. n /\ DOMAIN t = 1 .. Len(t) /\ DOMAIN (s \o t) = 1 .. n + Len(t)
  BY <1>1, <1>3, LenProperties
<1>5. PICK u : u = s \o t
  OBVIOUS
<1>6. /\ DOMAIN u = 1 .. n + Len(t)
      /\ \A i \in 1 .. n : i \in DOMAIN u /\ u[i] = s[i]
      /\ \A i \in 1 .. Len(t) : n + i \in DOMAIN u /\ u[n + i] = t[i]
      /\ \A i \in DOMAIN u : i \in 1 .. n \/ i - n \in 1 .. Len(t)
      /\ \A i \in DOMAIN u : i = n + (i - n)
  BY <1>3, <1>4, <1>5
<1>7. Range(u) \subseteq Range(s) \union Range(t)
  BY <1>4, <1>6 DEF Range
<1>8. Range(s) \subseteq Range(u) /\ Range(t) \subseteq Range(u)
  <2>1. \A i \in 1 .. n : s[i] \in Range(u)
    BY <1>6 DEF Range
  <2>2. \A i \in 1 .. Len(t) : t[i] \in Range(u)
    BY <1>6 DEF Range
  <2> QED BY <1>4, <2>1, <2>2 DEF Range
<1>9. u \in Seq(Range(u))
  BY <1>3, <1>5, OwnRange
<1> QED BY <1>2, <1>5, <1>7, <1>8, <1>9

\* The symbols a filter excludes not, those the denylist names, those the
\* allowlist does not admit.
Passing(u, f) == {sd \in Range(u) : FailedFilters(sd, f) = <<>>}
Named(u, deny) == {sd \in Range(u) : FiledUnder(deny, "symbols", sd.symbol) # None}
Left(u, allow) == {sd \in Range(u) : Restricts(allow) /\ ~AllowedBy(allow, sd)}

LEMMA PassingIs ==
  ASSUME NEW f \in FilterSets, NEW sd
  PROVE  FailedFilters(sd, f) = <<>> <=> \A k \in DOMAIN f : ~Excludes(k, f[k], sd)
<1> DEFINE I == {i \in DOMAIN FilterOrder : /\ FilterOrder[i] \in DOMAIN f
                                            /\ Excludes(FilterOrder[i], f[FilterOrder[i]], sd)}
<1>1. FailedFilters(sd, f) = Kept(FilterOrder, I)
  BY DEF FailedFilters
<1>2. I \in SUBSET DOMAIN FilterOrder
  OBVIOUS
<1>3. DOMAIN FilterOrder = 1 .. 7 /\ FilterOrder = [i \in 1 .. 7 |-> FilterOrder[i]]
  BY DEF FilterOrder
<1>4. FilterOrder \in Seq(Range(FilterOrder))
  BY <1>3, FromIndices
<1>5. DOMAIN f \subseteq Range(FilterOrder)
  BY PoolAssumption
<1>6. I = {} <=> \A k \in DOMAIN f : ~Excludes(k, f[k], sd)
  BY <1>5 DEF Range
<1> HIDE DEF I
<1>7. FailedFilters(sd, f) = <<>> <=> I = {}
  BY <1>1, <1>2, <1>4, KeptHas
<1> QED BY <1>6, <1>7

\* The entries e say of each of a list what was done with it.
Names(e, list, action) ==
  /\ e \in Seq(Range(e)) /\ DOMAIN e = DOMAIN list
  /\ \A i \in DOMAIN e : e[i].symbol = list[i].symbol /\ e[i].action = action

LEMMA NamesAre ==
  ASSUME NEW X, NEW list \in Seq(X), NEW action, NEW e,
         e = [i \in DOMAIN list |-> [symbol |-> list[i].symbol, action |-> action, source |-> e[i].source]]
  PROVE  Names(e, list, action)
<1>1. DOMAIN list = 1 .. Len(list) /\ Len(list) \in Nat
  BY LenProperties
<1>2. DOMAIN e = DOMAIN list
  OBVIOUS
<1>3. \A i \in DOMAIN e : e[i].symbol = list[i].symbol /\ e[i].action = action
  <2>1. PICK g : g = [i \in DOMAIN list |-> e[i].source]
    OBVIOUS
  <2>2. e = [i \in DOMAIN list |-> [symbol |-> list[i].symbol, action |-> action, source |-> g[i]]]
    BY <2>1
  <2> QED BY <2>2
<1>4. e = [i \in DOMAIN e |-> e[i]]
  OBVIOUS
<1>5. e \in Seq(Range(e))
  BY <1>1, <1>2, <1>4, FromIndices
<1> QED BY <1>2, <1>3, <1>5 DEF Names

\* The pool p was assembled from a universe in the steps of build().
Assembled(p, u, P, D, B, fav, e1, e2, e3, e4, e5) ==
  LET passed == With(u, P)
      undenied == Without(passed, D)
      final == BySymbol(Without(undenied, B))
  IN /\ p.symbols = [i \in DOMAIN final |-> final[i].symbol]
     /\ DOMAIN p.weights = {fav[i].symbol : i \in DOMAIN fav}
     /\ fav \in Seq(Range(final))
     /\ p.trail = e1 \o e2 \o e3 \o e4 \o e5
     /\ Names(e1, Without(u, P), "excluded") /\ Names(e2, With(passed, D), "excluded")
     /\ Names(e3, With(undenied, B), "excluded")
     /\ Names(e4, fav, "prioritized") /\ Names(e5, final, "included")

\* What build() goes through, filters, denylist, allowlist and bias, as above.
LEMMA BuildIs ==
  ASSUME NEW u \in Universes, NEW f \in FilterSets, NEW q \in PoolRequests,
         NEW hs, Fits(hs, FileContents(HypDirs)), NEW p, p = Build(u, f, q, hs)
  PROVE  /\ p.version = <<u, f, q>> /\ p.hyps = hs
         /\ \E fav, e1, e2, e3, e4, e5 :
              Assembled(p, u, Passing(u, f), Named(u, Listed(q.deny, hs)),
                        Left(u, Listed(q.allow, hs)), fav, e1, e2, e3, e4, e5)
<1> DEFINE deny == Listed(q.deny, hs)
           allow == Listed(q.allow, hs)
           bias == Listed(q.bias, hs)
           pass == {i \in DOMAIN u : FailedFilters(u[i], f) = <<>>}
           passed == Kept(u, pass)
           filtered == Kept(u, DOMAIN u \ pass)
           deniable == {i \in DOMAIN passed : FiledUnder(deny, "symbols", passed[i].symbol) # None}
           undenied == Kept(passed, DOMAIN passed \ deniable)
           denied == Kept(passed, deniable)
           barring == {i \in DOMAIN undenied : Restricts(allow) /\ ~AllowedBy(allow, undenied[i])}
           admitted == Kept(undenied, DOMAIN undenied \ barring)
           final == BySymbol(admitted)
           barred == Kept(undenied, barring)
           favs == {i \in DOMAIN final :
                     q.multiplier # 1 /\ FiledUnder(bias, "sectors", final[i].sector) # None}
           fav == Kept(final, favs)
           e1 == [i \in DOMAIN filtered |->
                    [symbol |-> filtered[i].symbol, action |-> "excluded",
                     source |-> Head(FailedFilters(filtered[i], f))]]
           e2 == [i \in DOMAIN denied |->
                    [symbol |-> denied[i].symbol, action |-> "excluded",
                     source |-> FiledUnder(deny, "symbols", denied[i].symbol)]]
           e3 == [i \in DOMAIN barred |->
                    [symbol |-> barred[i].symbol, action |-> "excluded", source |-> allow[1].id]]
           e4 == [i \in DOMAIN fav |->
                    [symbol |-> fav[i].symbol, action |-> "prioritized",
                     source |-> FiledUnder(bias, "sectors", fav[i].sector)]]
           e5 == [i \in DOMAIN final |->
                    [symbol |-> final[i].symbol, action |-> "included", source |-> "pool_builder"]]
<1>1. p = [symbols |-> [i \in DOMAIN final |-> final[i].symbol],
           weights |-> [s \in {fav[i].symbol : i \in DOMAIN fav} |-> q.multiplier],
           version |-> <<u, f, q>>,
           trail |-> e1 \o e2 \o e3 \o e4 \o e5,
           hyps |-> hs]
  BY DEF Build, Trail, Entry
<1>2. /\ p.version = <<u, f, q>> /\ p.hyps = hs
      /\ p.symbols = [i \in DOMAIN final |-> final[i].symbol]
      /\ DOMAIN p.weights = {fav[i].symbol : i \in DOMAIN fav}
      /\ p.trail = e1 \o e2 \o e3 \o e4 \o e5
  <2>1. PICK names, weighted, t :
          /\ names = [i \in DOMAIN final |-> final[i].symbol]
          /\ weighted = {fav[i].symbol : i \in DOMAIN fav}
          /\ t = e1 \o e2 \o e3 \o e4 \o e5
    OBVIOUS
  <2>2. p = [symbols |-> names, weights |-> [s \in weighted |-> q.multiplier],
             version |-> <<u, f, q>>, trail |-> t, hyps |-> hs]
    BY <1>1, <2>1
  <2> HIDE DEF final, fav, e1, e2, e3, e4, e5
  <2> QED BY <2>1, <2>2
<1> DEFINE X == Range(u)
           P == Passing(u, f)
           D == Named(u, deny)
           B == Left(u, allow)
<1>3. u \in Seq(X) /\ \A x \in X : x.symbol \in Int
  BY PoolAssumption
<1> HIDE DEF deny, allow, bias
<1>4. pass = Places(u, P)
  BY DEF Passing, Places, Range
<1>5. passed = With(u, P) /\ filtered = Without(u, P)
  BY <1>4 DEF With, Without
<1> HIDE DEF pass, passed, filtered
<1>6. passed \in Seq(X) /\ filtered \in Seq(X)
  BY <1>3, <1>5, Parted
<1>7. deniable = Places(passed, D)
  <2>1. \A i \in DOMAIN passed : passed[i] \in Range(u)
    BY <1>6, ElementOfSeq, LenProperties
  <2> QED BY <2>1 DEF Named, Places
<1>8. undenied = Without(passed, D) /\ denied = With(passed, D)
  BY <1>7 DEF With, Without
<1> HIDE DEF deniable, undenied, denied, D
<1>9. undenied \in Seq(X) /\ denied \in Seq(X)
  BY <1>6, <1>8, Parted
<1>10. barring = Places(undenied, B)
  <2>1. \A i \in DOMAIN undenied : undenied[i] \in Range(u)
    BY <1>9, ElementOfSeq, LenProperties
  <2> QED BY <2>1 DEF Left, Places
<1>11. admitted = Without(undenied, B) /\ barred = With(undenied, B)
  BY <1>10 DEF With, Without
<1> HIDE DEF barring, admitted, barred, B
<1>12. admitted \in Seq(X) /\ barred \in Seq(X)
  BY <1>9, <1>11, Parted
<1>13. final \in Seq(X)
  BY <1>3, <1>12, SortedIs
<1>14. final = BySymbol(admitted)
  OBVIOUS
<1>15. favs \in SUBSET DOMAIN final
  OBVIOUS
<1> HIDE DEF final, favs
<1>16. final \in Seq(Range(final)) /\ fav \in Seq(Range(final))
  BY <1>13, <1>15, OwnRange, KeptIs
<1> HIDE DEF fav
<1>17. Names(e1, filtered, "excluded")
  BY <1>6, NamesAre
<1>18. Names(e2, denied, "excluded")
  BY <1>9, NamesAre
<1>19. Names(e3, barred, "excluded")
  BY <1>12, NamesAre
<1>20. Names(e4, fav, "prioritized")
  BY <1>16, NamesAre
<1>21. Names(e5, final, "included")
  BY <1>13, NamesAre
<1> HIDE DEF e1, e2, e3, e4, e5, P
<1>22. Assembled(p, u, P, D, B, fav, e1, e2, e3, e4, e5)
  BY <1>2, <1>5, <1>8, <1>11, <1>14, <1>16, <1>17, <1>18, <1>19, <1>20, <1>21 DEF Assembled
<1>23. Assembled(p, u, Passing(u, f), Named(u, Listed(q.deny, hs)),
                 Left(u, Listed(q.allow, hs)), fav, e1, e2, e3, e4, e5)
  BY <1>22 DEF P, D, B, deny, allow
<1> QED BY <1>2, <1>23

\* What the built pool holds, and what its trail says of each symbol.
LEMMA PoolHolds ==
  ASSUME NEW u \in Universes, NEW P, NEW D, NEW B, NEW p, NEW fav,
         NEW e1, NEW e2, NEW e3, NEW e4, NEW e5,
         Assembled(p, u, P, D, B, fav, e1, e2, e3, e4, e5)
  PROVE  /\ Range(p.symbols) = {sd.symbol : sd \in ((Range(u) \cap P) \ D) \ B}
         /\ \A i \in 2 .. Len(p.symbols) : p.symbols[i - 1] <= p.symbols[i]
<1> DEFINE X == Range(u)
           passed == With(u, P)
           undenied == Without(passed, D)
           admitted == Without(undenied, B)
           final == BySymbol(admitted)
<1>1. u \in Seq(X) /\ \A x \in X : x.symbol \in Int
  BY PoolAssumption
<1>2. p.symbols = [i \in DOMAIN final |-> final[i].symbol]
  BY DEF Assembled
<1> HIDE DEF X
<1>3. passed \in Seq(X) /\ Range(passed) = X \cap P
  BY <1>1, Parted DEF X
<1> HIDE DEF passed
<1>4. undenied \in Seq(X) /\ Range(undenied) = (X \cap P) \ D
  BY <1>3, Parted
<1> HIDE DEF undenied
<1>5. admitted \in Seq(X) /\ Range(admitted) = ((X \cap P) \ D) \ B
  BY <1>4, Parted
<1> HIDE DEF admitted
<1>6. /\ final \in Seq(X) /\ Range(final) = ((X \cap P) \ D) \ B
      /\ \A i, j \in DOMAIN final : i <= j => final[i].symbol <= final[j].symbol
  BY <1>1, <1>5, SortedIs
<1> HIDE DEF final
<1>7. DOMAIN final = 1 .. Len(final) /\ Len(final) \in Nat /\ \A i \in DOMAIN final : final[i] \in X
  BY <1>6, LenProperties, ElementOfSeq
<1>8. p.symbols \in [1 .. Len(final) -> Int]
  BY <1>1, <1>2, <1>7
<1>9. p.symbols \in Seq(Int)
  BY <1>7, <1>8, SeqDef
<1>10. Len(p.symbols) = Len(final)
  BY <1>7, <1>8, <1>9, LenProperties
<1>11. Range(p.symbols) = {sd.symbol : sd \in Range(final)}
  BY <1>2, <1>7, <1>8 DEF Range
<1>12. ASSUME NEW i \in 2 .. Len(p.symbols) PROVE p.symbols[i - 1] <= p.symbols[i]
  <2>1. i - 1 \in DOMAIN final /\ i \in DOMAIN final /\ i - 1 <= i
    BY <1>7, <1>10, <1>12
  <2> QED BY <1>2, <1>6, <2>1
<1> QED BY <1>6, <1>11, <1>12 DEF X

\* The verdicts on s in the entries e are as many as the places of s in the list.
Verdicts(e, s) == {i \in DOMAIN e : e[i].symbol = s /\ e[i].action # "prioritized"}

\* T are the verdicts on s, those among the entries e with them.
Judged(T, e, s) ==
  /\ \A x \in T : x.symbol = s /\ x.action # "prioritized"
  /\ \A x \in Range(e) : x.symbol = s /\ x.action # "prioritized" => x \in T

Of(X, s) == {sd \in X : sd.symbol = s}

LEMMA NamedOnce ==
  ASSUME NEW X, NEW list \in Seq(X), NEW action, NEW e, Names(e, list, action),
         NEW s, NEW T, Judged(T, e, s)
  PROVE  /\ action # "prioritized" => Times(e, T) = Times(list, Of(X, s))
         /\ action = "prioritized" => Times(e, T) = 0
<1>1. \A i \in DOMAIN e : e[i] \in T <=> list[i].symbol = s /\ action # "prioritized"
  BY DEF Names, Range, Judged
<1>2. \A i \in DOMAIN list : list[i] \in X
  BY ElementOfSeq, LenProperties
<1>3. action # "prioritized" => Places(e, T) = Places(list, Of(X, s))
  BY <1>1, <1>2 DEF Places, Names, Of
<1>4. action = "prioritized" => Places(e, T) = {}
  BY <1>1 DEF Places
<1> QED BY <1>3, <1>4, FS_EmptySet DEF Times

LEMMA NamedRange ==
  ASSUME NEW list, NEW action, NEW e, Names(e, list, action)
  PROVE  /\ {x.symbol : x \in Range(e)} = {sd.symbol : sd \in Range(list)}
         /\ \A x \in Range(e) : x.action = action
  BY DEF Names, Range

LEMMA TrailHolds ==
  ASSUME NEW u \in Universes, NEW P, NEW D, NEW B, NEW p, NEW fav,
         NEW e1, NEW e2, NEW e3, NEW e4, NEW e5,
         Assembled(p, u, P, D, B, fav, e1, e2, e3, e4, e5)
  PROVE  /\ \A s : Cardinality(Verdicts(p.trail, s)) = Cardinality({i \in DOMAIN u : u[i].symbol = s})
         /\ {x.symbol : x \in {y \in Range(p.trail) : y.action = "included"}} = Range(p.symbols)
         /\ {x.symbol : x \in {y \in Range(p.trail) : y.action = "prioritized"}} = DOMAIN p.weights
         /\ DOMAIN p.weights \subseteq Range(p.symbols)
<1> DEFINE X == Range(u)
           passed == With(u, P)
           filtered == Without(u, P)
           undenied == Without(passed, D)
           denied == With(passed, D)
           admitted == Without(undenied, B)
           barred == With(undenied, B)
           final == BySymbol(admitted)
<1>1. u \in Seq(X) /\ \A x \in X : x.symbol \in Int
  BY PoolAssumption
<1>2. /\ p.symbols = [i \in DOMAIN final |-> final[i].symbol]
      /\ DOMAIN p.weights = {fav[i].symbol : i \in DOMAIN fav}
      /\ fav \in Seq(Range(final))
      /\ Names(e1, filtered, "excluded") /\ Names(e2, denied, "excluded")
      /\ Names(e3, barred, "excluded")
      /\ Names(e4, fav, "prioritized") /\ Names(e5, final, "included")
  BY DEF Assembled
<1> HIDE DEF X
<1>3. /\ passed \in Seq(X) /\ filtered \in Seq(X)
      /\ \A Z : Times(u, Z) = Times(passed, Z) + Times(filtered, Z)
  BY <1>1, Parted
<1> HIDE DEF passed, filtered
<1>4. /\ undenied \in Seq(X) /\ denied \in Seq(X)
      /\ \A Z : Times(passed, Z) = Times(denied, Z) + Times(undenied, Z)
  BY <1>3, Parted
<1> HIDE DEF undenied, denied
<1>5. /\ admitted \in Seq(X) /\ barred \in Seq(X)
      /\ \A Z : Times(undenied, Z) = Times(barred, Z) + Times(admitted, Z)
  BY <1>4, Parted
<1> HIDE DEF admitted, barred
<1>6. final \in Seq(X) /\ \A Z : Times(final, Z) = Times(admitted, Z)
  BY <1>1, <1>5, SortedIs
<1> HIDE DEF final
<1>7. fav \in Seq(X)
  <2>1. Range(final) \subseteq X
    BY <1>6, OwnRange
  <2> QED BY <1>2, <2>1
<1> DEFINE t2 == e1 \o e2
           t3 == t2 \o e3
           t4 == t3 \o e4
           t == t4 \o e5
<1>8. p.trail = t
  BY DEF Assembled
<1>9. /\ e1 \in Seq(Range(e1)) /\ e2 \in Seq(Range(e2)) /\ e3 \in Seq(Range(e3))
      /\ e4 \in Seq(Range(e4)) /\ e5 \in Seq(Range(e5))
  BY <1>2 DEF Names
<1>10. /\ t2 \in Seq(Range(t2)) /\ Range(t2) = Range(e1) \union Range(e2)
       /\ \A Y : Times(t2, Y) = Times(e1, Y) + Times(e2, Y)
  BY <1>9, Appended
<1> HIDE DEF t2
<1>11. /\ t3 \in Seq(Range(t3)) /\ Range(t3) = Range(t2) \union Range(e3)
       /\ \A Y : Times(t3, Y) = Times(t2, Y) + Times(e3, Y)
  <2>1. t2 \in Seq(Range(t2)) /\ e3 \in Seq(Range(e3))
    BY <1>9, <1>10
  <2> QED BY <2>1, Appended
<1> HIDE DEF t3
<1>12. /\ t4 \in Seq(Range(t4)) /\ Range(t4) = Range(t3) \union Range(e4)
       /\ \A Y : Times(t4, Y) = Times(t3, Y) + Times(e4, Y)
  <2>1. t3 \in Seq(Range(t3)) /\ e4 \in Seq(Range(e4))
    BY <1>9, <1>11
  <2> QED BY <2>1, Appended
<1> HIDE DEF t4
<1>13. /\ Range(t) = Range(t4) \union Range(e5)
       /\ \A Y : Times(t, Y) = Times(t4, Y) + Times(e5, Y)
  <2>1. t4 \in Seq(Range(t4)) /\ e5 \in Seq(Range(e5))
    BY <1>9, <1>12
  <2> QED BY <2>1, Appended
<1> HIDE DEF t
<1>14. Range(t) = Range(e1) \union Range(e2) \union Range(e3) \union Range(e4) \union Range(e5)
  BY <1>10, <1>11, <1>12, <1>13
<1>15. ASSUME NEW s PROVE Cardinality(Verdicts(t, s)) = Cardinality({i \in DOMAIN u : u[i].symbol = s})
  <2> DEFINE T == {x \in Range(t) : x.symbol = s /\ x.action # "prioritized"}
             Z == Of(X, s)
  <2>1. Verdicts(t, s) = Places(t, T)
    BY DEF Verdicts, Places, Range
  <2>2. {i \in DOMAIN u : u[i].symbol = s} = Places(u, Z)
    BY DEF Places, Range, X, Of
  <2>3. /\ Judged(T, e1, s) /\ Judged(T, e2, s) /\ Judged(T, e3, s)
        /\ Judged(T, e4, s) /\ Judged(T, e5, s)
    BY <1>14 DEF Judged
  <2> HIDE DEF T
  <2>4. "excluded" # "prioritized" /\ "included" # "prioritized"
    OBVIOUS
  <2>5. Times(e1, T) = Times(filtered, Z)
    BY <1>2, <1>3, <2>3, <2>4, NamedOnce
  <2>6. Times(e2, T) = Times(denied, Z)
    BY <1>2, <1>4, <2>3, <2>4, NamedOnce
  <2>7. Times(e3, T) = Times(barred, Z)
    BY <1>2, <1>5, <2>3, <2>4, NamedOnce
  <2>8. Times(e4, T) = 0
    BY <1>2, <1>7, <2>3, NamedOnce
  <2>9. Times(e5, T) = Times(final, Z)
    BY <1>2, <1>6, <2>3, <2>4, NamedOnce
  <2> HIDE DEF Z
  <2>10. /\ Times(filtered, Z) \in Nat /\ Times(denied, Z) \in Nat /\ Times(barred, Z) \in Nat
         /\ Times(final, Z) \in Nat
    BY <1>3, <1>4, <1>5, <1>6, TimesNat
  <2>11. Times(t, T) = Times(filtered, Z) + Times(denied, Z) + Times(barred, Z) + 0 + Times(final, Z)
    BY <1>10, <1>11, <1>12, <1>13, <2>5, <2>6, <2>7, <2>8, <2>9
  <2>12. Times(u, Z) = (Times(denied, Z) + (Times(barred, Z) + Times(final, Z))) + Times(filtered, Z)
    BY <1>3, <1>4, <1>5, <1>6
  <2>13. Times(t, T) = Times(u, Z)
    BY <2>10, <2>11, <2>12
  <2> QED BY <2>1, <2>2, <2>13 DEF Times
<1>16. /\ \A x \in Range(e1) : x.action = "excluded"
       /\ \A x \in Range(e2) : x.action = "excluded"
       /\ \A x \in Range(e3) : x.action = "excluded"
       /\ \A x \in Range(e4) : x.action = "prioritized"
       /\ \A x \in Range(e5) : x.action = "included"
       /\ {x.symbol : x \in Range(e4)} = {sd.symbol : sd \in Range(fav)}
       /\ {x.symbol : x \in Range(e5)} = {sd.symbol : sd \in Range(final)}
  BY <1>2, NamedRange
<1>17. /\ {y \in Range(t) : y.action = "included"} = Range(e5)
       /\ {y \in Range(t) : y.action = "prioritized"} = Range(e4)
  BY <1>14, <1>16
<1>18. Range(p.symbols) = {sd.symbol : sd \in Range(final)}
  BY <1>2 DEF Range
<1>19. DOMAIN p.weights = {sd.symbol : sd \in Range(fav)}
  BY <1>2 DEF Range
<1>20. Range(fav) \subseteq Range(final)
  BY <1>2, OwnRange
<1> QED BY <1>8, <1>15, <1>16, <1>17, <1>18, <1>19, <1>20

-----------------------------------------------------------------------------
(* Governance: the pool that is in force.                                  *)

PoolInv ==
  pool # None => \E u \in Universes, f \in FilterSets, q \in PoolRequests : \E hs :
                   Fits(hs, FileContents(HypDirs)) /\ pool = Build(u, f, q, hs)

LEMMA PoolHeld == PoolInv /\ FitInv /\ [GovNext]_vars => PoolInv'
<1> SUFFICES ASSUME PoolInv, FitInv, [GovNext]_vars PROVE PoolInv'
  OBVIOUS
<1>1. CASE pool' = pool
  BY <1>1 DEF PoolInv
<1>2. CASE RebuildPool
  <2>1. PICK g : g = GetHypotheses
    OBVIOUS
  <2>2. Fits(g.hyps, FileContents(HypDirs)) /\ hreg' = g
    BY <1>2, <2>1, GetHypsFits DEF FitInv, HypsFit, RebuildPool
  <2>3. PICK u \in Universes, f \in FilterSets, q \in PoolRequests :
          pool' \in {pool, Build(u, f, q, g.hyps)}
    BY <1>2, <2>2 DEF RebuildPool
  <2> QED BY <1>1, <2>2, <2>3 DEF PoolInv
<1>3. CASE pool' # pool /\ ~RebuildPool
  <2>1. \A s \in Symbols : ~BuildContext(s)
    BY <1>3 DEF BuildContext
  <2> QED BY <1>3, <2>1 DEF GovNext, vars, gvars
<1> QED BY <1>1, <1>2, <1>3

LEMMA PoolSound == PoolInv => PoolAsRequested /\ VerdictPerSymbol
<1> SUFFICES ASSUME PoolInv, pool # None PROVE PoolAsRequested /\ VerdictPerSymbol
  BY DEF PoolAsRequested, VerdictPerSymbol
<1>0. PICK u \in Universes, f \in FilterSets, q \in PoolRequests :
        \E hs : Fits(hs, FileContents(HypDirs)) /\ pool = Build(u, f, q, hs)
  BY DEF PoolInv
<1>1. PICK hs : Fits(hs, FileContents(HypDirs)) /\ pool = Build(u, f, q, hs)
  BY <1>0
<1> DEFINE deny == Listed(q.deny, hs)
           allow == Listed(q.allow, hs)
           P == Passing(u, f)
           D == Named(u, deny)
           B == Left(u, allow)
<1>2. PICK p : p = pool
  OBVIOUS
<1>3. p.version = <<u, f, q>> /\ p.hyps = hs
  BY <1>1, <1>2, BuildIs
<1>4. PICK fav, e1, e2, e3, e4, e5 : Assembled(p, u, P, D, B, fav, e1, e2, e3, e4, e5)
  BY <1>1, <1>2, BuildIs
<1>5. /\ deny \in Seq(hs) /\ Range(deny) = Live(q.deny, hs)
      /\ allow \in Seq(hs) /\ Range(allow) = Live(q.allow, hs)
  BY <1>1, ListedAre, PoolAssumption
<1> HIDE DEF deny, allow
<1> DEFINE in(sd) == /\ \A k \in DOMAIN f : ~Excludes(k, f[k], sd)
                     /\ \A h \in Live(q.deny, hs) : sd.symbol \notin h.symbols
                     /\ (\E h \in Live(q.allow, hs) : h.symbols # {} \/ h.sectors # {}) =>
                          \E h \in Live(q.allow, hs) : sd.symbol \in h.symbols \/ sd.sector \in h.sectors
<1>6. \A sd \in Range(u) : sd \in P <=> \A k \in DOMAIN f : ~Excludes(k, f[k], sd)
  BY PassingIs DEF Passing
<1>7. \A sd \in Range(u) : sd \notin D <=> \A h \in Live(q.deny, hs) : sd.symbol \notin h.symbols
  <2>1. ASSUME NEW sd \in Range(u)
        PROVE  FiledUnder(deny, "symbols", sd.symbol) # None <=>
                 \E h \in Live(q.deny, hs) : sd.symbol \in h["symbols"]
    BY <1>1, <1>5, FiledIs
  <2> QED BY <2>1 DEF Named
<1>8. Restricts(allow) <=> \E h \in Live(q.allow, hs) : h.symbols # {} \/ h.sectors # {}
  BY <1>5 DEF Restricts, Range
<1>9. \A sd : AllowedBy(allow, sd) <=>
                \E h \in Live(q.allow, hs) : sd.symbol \in h.symbols \/ sd.sector \in h.sectors
  BY <1>5 DEF AllowedBy, Range
<1>10. \A sd \in Range(u) : sd \notin B <=>
         ((\E h \in Live(q.allow, hs) : h.symbols # {} \/ h.sectors # {}) =>
            \E h \in Live(q.allow, hs) : sd.symbol \in h.symbols \/ sd.sector \in h.sectors)
  BY <1>8, <1>9 DEF Left
<1> HIDE DEF P, D, B
<1>11. ((Range(u) \cap P) \ D) \ B = {sd \in Range(u) : in(sd)}
  BY <1>6, <1>7, <1>10
<1> HIDE DEF in
<1>12. /\ Range(p.symbols) = {sd.symbol : sd \in {x \in Range(u) : in(x)}}
       /\ \A i \in 2 .. Len(p.symbols) : p.symbols[i - 1] <= p.symbols[i]
  BY <1>4, <1>11, PoolHolds
<1>13. PoolAsRequested
  BY <1>2, <1>3, <1>12 DEF PoolAsRequested, in, Live
<1>14. /\ \A s : Cardinality(Verdicts(p.trail, s)) = Cardinality({i \in DOMAIN u : u[i].symbol = s})
       /\ {x.symbol : x \in {y \in Range(p.trail) : y.action = "included"}} = Range(p.symbols)
       /\ {x.symbol : x \in {y \in Range(p.trail) : y.action = "prioritized"}} = DOMAIN p.weights
       /\ DOMAIN p.weights \subseteq Range(p.symbols)
  BY <1>4, TrailHolds
<1>15. \A a : {p.trail[i].symbol : i \in {j \in DOMAIN p.trail : p.trail[j].action = a}}
              = {x.symbol : x \in {y \in Range(p.trail) : y.action = a}}
  BY DEF Range
<1>16. PICK ins, pri :
         /\ ins = {p.trail[i].symbol : i \in {j \in DOMAIN p.trail : p.trail[j].action = "included"}}
         /\ pri = {p.trail[i].symbol : i \in {j \in DOMAIN p.trail : p.trail[j].action = "prioritized"}}
  OBVIOUS
<1>17. ins = Range(p.symbols) /\ pri = DOMAIN p.weights /\ pri \subseteq ins
  BY <1>14, <1>15, <1>16
<1>18. \A sd \in Range(u) :
         Cardinality({i \in DOMAIN p.trail : p.trail[i].symbol = sd.symbol /\ p.trail[i].action # "prioritized"})
           = Cardinality({i \in DOMAIN u : u[i].symbol = sd.symbol})
  BY <1>14 DEF Verdicts
<1>19. VerdictPerSymbol
  BY <1>2, <1>3, <1>16, <1>17, <1>18 DEF VerdictPerSymbol
<1> QED BY <1>13, <1>19

-----------------------------------------------------------------------------
(* Governance as a whole.                                                  *)

GovInv == RegInv /\ CacheInv /\ MonitorInv /\ FitInv /\ AlertsInv /\ PoolInv

LEMMA GovInitially == GovInit => GovInv
<1>1. GovInit => PoolInv
  BY DEF GovInit, GInit, PoolInv
<1> QED BY <1>1, RegFromInit, CacheFromInit, MonitorFromInit, FitFromInit, AlertsFromInit DEF GovInv

LEMMA GovStep == GovInv /\ [GovNext]_vars => GovInv'
  BY RegHolds, CacheHolds, MonitorHolds, FitHolds, AlertsHold, PoolHeld DEF GovInv

\* What the governance layer keeps to for every set of rules, directories and
\* readers (registry.py:118, cache.py:117, resolver.py:337, builder.py:78,
\* alerts.py:60, registry.py:347): it answers from whole registries when none is
\* disturbed, no reader brings back what was resolved before an invalidation it did
\* not overlap; and whatever happens, the merge is the strictest, the pool the one
\* requested, each alert has its entry, and a condemned factor stays out of use.
GovernanceParts ==
  /\ TypeOK
  /\ Undisturbed => WholeRegistry
  /\ "overlap" \notin Anomalies => InvalidationSticks
  /\ MergeIsStrictest
  /\ PoolAsRequested /\ VerdictPerSymbol
  /\ AlertsMatchAudit /\ FactorStaysOut

LEMMA GovInvGivesParts == GovInv => GovernanceParts
<1> SUFFICES ASSUME GovInv PROVE GovernanceParts
  OBVIOUS
<1>1. /\ reg.created \in BOOLEAN /\ reg.loaded \in BOOLEAN /\ reg.byHand \in BOOLEAN
      /\ reg.loaded => reg.created
      /\ Undisturbed => WholeOrBlocked(reg, ruleDir)
  BY RecordIs DEF GovInv, RegInv, RegistryOK
<1>2. \A s \in Symbols : cache[s] # None => cache[s].left \in 1 .. TTL
  BY DEF GovInv, CacheInv, EntryRec
<1>3. TypeOK
  BY <1>1, <1>2 DEF TypeOK, GovInv, CacheInv, MonitorInv
<1>4. Undisturbed => WholeRegistry
  BY <1>1 DEF WholeOrBlocked, WholeRegistry
<1>5. "overlap" \notin Anomalies => InvalidationSticks
  BY DEF GovInv, CacheInv, InvalidationSticks
<1>6. MergeIsStrictest /\ PoolAsRequested /\ VerdictPerSymbol /\ AlertsMatchAudit /\ FactorStaysOut
  BY MergeStrict, PoolSound, AlertsAnswer DEF GovInv, MonitorInv
<1> QED BY <1>3, <1>4, <1>5, <1>6 DEF GovernanceParts

\* Governance keeps to its parts above in every reachable state, whichever of the
\* anomalies happen.
THEOREM GovernanceStateIsSound == Spec => []GovernanceParts
  BY GovInitially, GovStep, GovInvGivesParts, PTL DEF Spec

\* Where none of the four anomalies happens, governance is sound: it answers from
\* whole registries, lets no invalidation be undone, merges to the strictest, and
\* keeps pool, alerts and factors in step with their records (governance.py's
\* routes over constraints, monitoring and pool).
THEOREM GovernanceIsSound ==
  ASSUME Anomalies = {}
  PROVE  Spec => []GovernanceSound
<1>1. Undisturbed /\ "overlap" \notin Anomalies
  BY DEF Undisturbed
<1>2. GovernanceParts => GovernanceSound
  BY <1>1 DEF GovernanceParts, GovernanceSound
<1> QED BY <1>2, GovernanceStateIsSound, PTL

-----------------------------------------------------------------------------
(* Backtest: divisions.                                                    *)

LEMMA DivNat ==
  ASSUME NEW a \in Nat, NEW b \in Nat \ {0}
  PROVE  a \div b \in Nat /\ a \div b <= a
  OBVIOUS

LEMMA DivInt ==
  ASSUME NEW a \in Int, NEW b \in Nat \ {0}
  PROVE  a \div b \in Int
  OBVIOUS

LEMMA DivExact ==
  ASSUME NEW a \in Nat, NEW b \in Nat \ {0}
  PROVE  (a * b) \div b = a
  OBVIOUS

LEMMA DivEven ==
  ASSUME NEW a \in Int, NEW b \in Nat \ {0}, a % b = 0
  PROVE  b * (a \div b) = a
  OBVIOUS

LEMMA FillPriceIs ==
  ASSUME NEW open \in Opens, NEW action
  PROVE  FillPrice(action, open) \in Nat
<1>1. open \in Nat /\ SlippageParts \in Nat \ {0}
  BY PricesAssumption, ConfigAssumption
<1>2. PICK part \in Nat : part = open \div SlippageParts /\ part <= open
  BY <1>1, DivNat
<1> QED BY <1>1, <1>2 DEF FillPrice

-----------------------------------------------------------------------------
(* Backtest: the bars of signals and fills.                                *)

SignalRecs ==
  [action : {"buy", "sell"}, quantity : Quantities, factors : SUBSET FactorNames, bar : Nat]

TradeRecs == [side : {"buy", "sell"}, quantity : Quantities, factors : SUBSET FactorNames,
              price : Nat, commission : Nat, signal : Nat, bar : Nat]

\* The bar at whose open a signal of bar b is filled.
FillBar(b) == (IF b > Warmup THEN b ELSE Warmup) + 1

\* A signal that is pending at the open of a bar of the backtest is due there.
PendingTimely ==
  pending # Nothing =>
    /\ pending \in SignalRecs
    /\ pending.bar \in 1 .. bar /\ pending.bar \in traces
    /\ phase = "open" => pending.bar < bar /\ (bar > Warmup => bar = FillBar(pending.bar))
    /\ phase = "close" => bar <= Warmup

\* A bar has one trade at most.
TradesTimely ==
  /\ trades \in Seq(TradeRecs) /\ completed = trades
  /\ \A i \in DOMAIN trades :
       /\ trades[i].bar = FillBar(trades[i].signal)
       /\ trades[i].bar <= bar /\ (phase = "open" => trades[i].bar < bar)
       /\ \A j \in DOMAIN trades : trades[j].bar = trades[i].bar => j = i

TimingInv ==
  /\ bar \in 1 .. Warmup + Bars /\ phase \in {"open", "close", "summing", "done"}
  /\ traces \subseteq 1 .. Warmup + Bars
  /\ PendingTimely /\ TradesTimely

LEMMA SignalIs ==
  ASSUME NEW p \in SignalRecs
  PROVE  /\ p.action \in {"buy", "sell"} /\ p.quantity \in Nat \ {0} /\ p.quantity \in Quantities
         /\ p.factors \subseteq FactorNames /\ p.bar \in Nat
  BY PricesAssumption DEF SignalRecs

LEMMA TradeIs ==
  ASSUME NEW open \in Opens, TimingInv, pending # Nothing
  PROVE  /\ TradeOf(open) \in TradeRecs
         /\ TradeOf(open).signal = pending.bar /\ TradeOf(open).bar = bar
         /\ TradeOf(open).quantity = pending.quantity
         /\ TradeOf(open).side = pending.action
         /\ TradeOf(open).factors = pending.factors
         /\ TradeOf(open).commission = Commission * pending.quantity
<1>1. pending \in SignalRecs
  BY DEF TimingInv, PendingTimely
<1>2. PICK price \in Nat : price = FillPrice(pending.action, open)
  BY FillPriceIs
<1>3. PICK c \in Nat : c = Commission * pending.quantity
  BY <1>1, SignalIs, ConfigAssumption
<1>4. bar \in Nat
  BY ConfigAssumption DEF TimingInv
<1>5. TradeOf(open) = [side |-> pending.action, quantity |-> pending.quantity,
                       factors |-> pending.factors, price |-> price, commission |-> c,
                       signal |-> pending.bar, bar |-> bar]
  BY <1>2, <1>3 DEF TradeOf
<1> QED BY <1>1, <1>3, <1>4, <1>5, SignalIs DEF TradeRecs

LEMMA TradeBars ==
  ASSUME NEW s \in Seq(TradeRecs)
  PROVE  \A i \in DOMAIN s : s[i].bar \in Nat
<1>1. \A i \in 1 .. Len(s) : s[i] \in TradeRecs
  BY ElementOfSeq
<1>2. DOMAIN s = 1 .. Len(s)
  BY LenProperties
<1> QED BY <1>1, <1>2 DEF TradeRecs

LEMMA TimingFromInit == BacktestInit => TimingInv
<1> SUFFICES ASSUME BacktestInit PROVE TimingInv
  OBVIOUS
<1>1. bar = 1 /\ phase = "open" /\ pending = Nothing /\ trades = <<>> /\ traces = {} /\ completed = <<>>
  BY DEF BacktestInit
<1>2. 1 \in 1 .. Warmup + Bars
  BY ConfigAssumption
<1>3. trades \in Seq(TradeRecs) /\ DOMAIN trades = {}
  BY <1>1
<1> QED BY <1>1, <1>2, <1>3 DEF TimingInv, PendingTimely, TradesTimely

\* One more trade, at the open of a bar that has none.
LEMMA TradeAdded ==
  ASSUME TimingInv, NEW trade \in TradeRecs, phase = "open", phase' = "close", bar' = bar,
         trade.bar = bar, trade.bar = FillBar(trade.signal),
         trades' = Append(trades, trade), completed' = Append(completed, trade)
  PROVE  TradesTimely'
<1>1. PICK n \in Nat : n = Len(trades) /\ DOMAIN trades = 1 .. n
  BY LenProperties DEF TimingInv, TradesTimely
<1>2. trades \in Seq(TradeRecs)
  BY DEF TimingInv, TradesTimely
<1>3. /\ trades' \in Seq(TradeRecs) /\ DOMAIN trades' = 1 .. n + 1
      /\ trades'[n + 1] = trade /\ \A i \in 1 .. n : trades'[i] = trades[i]
  BY <1>1, <1>2, AppendProperties
<1>4. completed' = trades'
  BY DEF TimingInv, TradesTimely
<1>5. bar \in Nat
  BY ConfigAssumption DEF TimingInv
<1>6. \A i \in 1 .. n :
        /\ trades[i].bar = FillBar(trades[i].signal) /\ trades[i].bar < bar
        /\ trades[i].bar \in Nat
        /\ \A j \in 1 .. n : trades[j].bar = trades[i].bar => j = i
  <2>1. \A i \in DOMAIN trades : trades[i].bar \in Nat
    BY <1>2, TradeBars
  <2> QED BY <1>1, <2>1 DEF TimingInv, TradesTimely
<1>7. ASSUME NEW i \in 1 .. n + 1
      PROVE  /\ trades'[i].bar = FillBar(trades'[i].signal)
             /\ trades'[i].bar <= bar
             /\ \A j \in 1 .. n + 1 : trades'[j].bar = trades'[i].bar => j = i
  <2>1. CASE i = n + 1
    BY <1>3, <1>5, <1>6, <2>1
  <2>2. CASE i # n + 1
    <3>1. i \in 1 .. n
      BY <2>2
    <3> QED BY <1>3, <1>5, <1>6, <3>1
  <2> QED BY <2>1, <2>2
<1> QED BY <1>3, <1>4, <1>7 DEF TradesTimely

LEMMA TimingFilled ==
  ASSUME TimingInv, NEW open \in Opens, pending # Nothing, Filled(TradeOf(open))
  PROVE  TimingInv'
<1>1. PICK trade \in TradeRecs : trade = TradeOf(open)
  BY TradeIs
<1>2. trade.signal = pending.bar /\ trade.bar = bar
  BY <1>1, TradeIs
<1>3. /\ phase = "open" /\ bar > Warmup /\ phase' = "close" /\ trades' = Append(trades, trade)
      /\ pending' = Nothing /\ bar' = bar /\ Complete(trade)
  BY <1>1 DEF Filled, InBacktest
<1>4. trade.signal \in traces /\ bar = FillBar(trade.signal)
  BY <1>2, <1>3 DEF TimingInv, PendingTimely
<1>5. traces' = traces \ {trade.signal} /\ completed' = Append(completed, trade)
  BY <1>3, <1>4 DEF Complete
<1>6. TradesTimely'
  BY <1>2, <1>3, <1>4, <1>5, TradeAdded
<1> QED BY <1>3, <1>5, <1>6 DEF TimingInv, PendingTimely

\* The bar goes on to its close with the same trades.
LEMMA TimingKept ==
  ASSUME TimingInv, UNCHANGED <<bar, trades, completed, traces>>,
         phase' \in {"close", "summing", "done"}, phase = "open" \/ phase' # "close",
         pending' = Nothing \/ (pending' = pending /\ (phase' = "close" => bar <= Warmup))
  PROVE  TimingInv'
<1>1. PendingTimely'
  BY DEF TimingInv, PendingTimely
<1>2. TradesTimely'
  BY DEF TimingInv, TradesTimely
<1> QED BY <1>1, <1>2 DEF TimingInv

LEMMA TimingOpens ==
  ASSUME TimingInv,
         \/ \E open \in Opens : FillBuy(open) \/ FillSell(open) \/ Refuse(open)
         \/ NoFill
  PROVE  TimingInv'
<1>1. ASSUME NEW open \in Opens, FillBuy(open) \/ FillSell(open) PROVE TimingInv'
  BY <1>1, TimingFilled DEF FillBuy, FillSell
<1>2. ASSUME NEW open \in Opens, Refuse(open) PROVE TimingInv'
  BY <1>2, TimingKept DEF Refuse, Refused, records
<1>3. CASE NoFill
  <2>1. bar \in Int
    BY ConfigAssumption DEF TimingInv
  <2>2. pending = Nothing \/ bar <= Warmup
    BY <1>3, <2>1, ConfigAssumption DEF NoFill, InBacktest
  <2> QED BY <1>3, <2>2, TimingKept DEF NoFill, records
<1> QED BY <1>1, <1>2, <1>3

LEMMA TimingCloses ==
  ASSUME TimingInv, NEW close \in Closes, phase = "close", EndBar(close),
         \/ UNCHANGED <<pending, traces>>
         \/ /\ pending' \in SignalRecs /\ pending'.bar = bar
            /\ traces' = traces \union {bar}
  PROVE  TimingInv'
<1>1. bar \in Nat /\ Warmup \in Nat /\ Bars \in Nat \ {0} /\ bar <= Warmup + Bars
  BY ConfigAssumption DEF TimingInv
<1>2. \/ bar = Warmup + Bars /\ phase' = "summing" /\ bar' = bar
      \/ bar # Warmup + Bars /\ phase' = "open" /\ bar' = bar + 1
  BY DEF EndBar
<1>3. UNCHANGED <<trades, completed>>
  BY DEF EndBar
<1>4. bar' \in 1 .. Warmup + Bars /\ bar <= bar' /\ (phase' = "open" => bar < bar')
  BY <1>1, <1>2 DEF TimingInv
<1>5. traces' \subseteq 1 .. Warmup + Bars
  BY DEF TimingInv
<1>6. TradesTimely'
  <2>1. \A i \in DOMAIN trades : trades[i].bar \in Nat
    BY TradeBars DEF TimingInv, TradesTimely
  <2> QED BY <1>1, <1>3, <1>4, <2>1 DEF TimingInv, TradesTimely
<1>7. ASSUME pending' # Nothing
      PROVE  /\ pending' \in SignalRecs
             /\ pending'.bar \in 1 .. bar' /\ pending'.bar \in traces'
             /\ phase' = "open" => /\ pending'.bar < bar'
                                   /\ bar' > Warmup => bar' = FillBar(pending'.bar)
             /\ phase' # "close"
  <2>1. /\ pending' \in SignalRecs /\ pending'.bar \in 1 .. bar /\ pending'.bar \in traces'
        /\ pending'.bar = bar \/ bar <= Warmup
    BY <1>1, <1>7 DEF TimingInv, PendingTimely
  <2>2. PICK b \in Nat : b = pending'.bar
    BY <2>1, SignalIs
  <2>3. b \in 1 .. bar /\ (b = bar \/ bar <= Warmup)
    BY <2>1, <2>2
  <2>4. phase' = "open" /\ bar' > Warmup => bar' = FillBar(b)
    BY <1>1, <1>2, <2>3 DEF FillBar
  <2>5. b \in 1 .. bar' /\ (phase' = "open" => b < bar') /\ phase' # "close"
    BY <1>1, <1>2, <1>4, <2>3
  <2> QED BY <2>1, <2>2, <2>4, <2>5
<1>8. PendingTimely'
  BY <1>7 DEF PendingTimely
<1> QED BY <1>2, <1>4, <1>5, <1>6, <1>8 DEF TimingInv

LEMMA TimingHolds == TimingInv /\ [BacktestNext]_backtestvars => TimingInv'
<1> SUFFICES ASSUME TimingInv, [BacktestNext]_backtestvars PROVE TimingInv'
  OBVIOUS
<1>1. ASSUME NEW close \in Closes, Quiet(close) PROVE TimingInv'
  BY <1>1, TimingCloses DEF Quiet
<1>2. ASSUME NEW close \in Closes, NEW quantity \in Quantities, NEW action \in {"buy", "sell"},
             NEW factors \in SUBSET FactorNames, Decide(close, action, quantity, factors)
      PROVE  TimingInv'
  <2>1. PICK p : p = [action |-> action, quantity |-> quantity, factors |-> factors, bar |-> bar]
    OBVIOUS
  <2>2. bar \in Nat
    BY ConfigAssumption DEF TimingInv
  <2>3. p \in SignalRecs /\ p.bar = bar
    BY <2>1, <2>2 DEF SignalRecs
  <2>4. /\ phase = "close" /\ EndBar(close) /\ pending' = p
        /\ traces' = traces \union {bar}
    BY <1>2, <2>1 DEF Decide
  <2> QED BY <2>3, <2>4, TimingCloses
<1>3. ASSUME NEW close \in Closes, NEW quantity \in Quantities,
             \/ \E factors \in FactorSets : Decide(close, "buy", quantity, factors)
             \/ Decide(close, "sell", quantity, {})
      PROVE  TimingInv'
  BY <1>2, <1>3, ConfigAssumption
<1>4. CASE Summarise
  BY <1>4, TimingKept DEF Summarise
<1>5. CASE UNCHANGED backtestvars
  BY <1>5 DEF backtestvars, records, TimingInv, PendingTimely, TradesTimely
<1> QED BY <1>1, <1>3, <1>4, <1>5, TimingOpens DEF BacktestNext

-----------------------------------------------------------------------------
(* Backtest: the two accounts of what is held, and the theorem.            *)

EntryRecs == [quantity : Nat, average : Nat, commission : Nat, factors : SUBSET FactorNames]

BooksInv ==
  /\ cash \in Int /\ qty \in Nat /\ avg \in Nat /\ realised \in Int /\ last \in Int
  /\ summary \in [FactorNames -> Int]
  /\ entry # Nothing => entry \in EntryRecs /\ qty > 0
  /\ PositionsAgree

LEMMA NoRecordIsNothing == Nothing \notin EntryRecs
  BY ConfigAssumption DEF EntryRecs

LEMMA RecIs ==
  ASSUME NEW t \in TradeRecs
  PROVE  /\ t.price \in Nat /\ t.commission \in Nat /\ t.quantity \in Nat \ {0}
         /\ t.factors \subseteq FactorNames
  BY PricesAssumption DEF TradeRecs

LEMMA SharedInInts ==
  ASSUME NEW factors \in SUBSET FactorNames, NEW pnl \in Int, summary \in [FactorNames -> Int]
  PROVE  Attributed(factors, pnl) \in [FactorNames -> Int]
<1>1. PICK sh \in SUBSET FactorNames : sh = Sharing(factors)
  BY DEF Sharing
<1>2. IsFiniteSet(sh)
  BY ConfigAssumption, FS_Subset
<1>3. PICK n \in Nat : n = Cardinality(sh) /\ (sh # {} => n # 0)
  BY <1>2, FS_CardinalityType, FS_EmptySet
<1>4. ASSUME NEW f \in FactorNames
      PROVE  summary[f] + (IF f \in sh THEN pnl \div n ELSE 0) \in Int
  <2>1. f \in sh => pnl \div n \in Int
    BY <1>3, DivInt
  <2> QED BY <2>1
<1>5. Attributed(factors, pnl) =
        [f \in FactorNames |-> summary[f] + IF f \in sh THEN pnl \div n ELSE 0]
  BY <1>1, <1>3 DEF Attributed
<1> QED BY <1>4, <1>5

LEMMA AverageIs ==
  ASSUME NEW n \in Nat, NEW cost \in Nat, NEW t \in TradeRecs
  PROVE  /\ Average(n, cost, t) \in Nat
         /\ Average(0, 0, t) = Average(0, cost, t)
<1>1. PICK p \in Nat, q \in Nat \ {0} : p = t.price /\ q = t.quantity
  BY RecIs
<1>2. PICK a \in Nat, b \in Nat : a = n * cost /\ b = p * q
  OBVIOUS
<1>3. PICK c \in Nat \ {0} : c = n + q
  BY <1>1
<1>4. (a + b) \div c \in Nat
  BY <1>2, <1>3, DivNat
<1>5. 0 * cost = 0 /\ 0 * 0 = 0
  OBVIOUS
<1> QED BY <1>1, <1>2, <1>3, <1>4, <1>5 DEF Average

LEMMA BooksBought ==
  ASSUME TimingInv, BooksInv, NEW open \in Opens, FillBuy(open)
  PROVE  BooksInv'
<1>1. PICK t \in TradeRecs : t = TradeOf(open) /\ t.commission = Commission * t.quantity
  BY TradeIs DEF FillBuy
<1>2. PICK p \in Nat, q \in Nat \ {0}, c \in Nat : p = t.price /\ q = t.quantity /\ c = t.commission
  BY RecIs
<1>3. /\ cash' = cash - (p * q + c) /\ qty' = qty + q /\ avg' = Average(qty, avg, t)
      /\ entry' = Enter(t) /\ UNCHANGED <<summary, realised, last>>
  BY <1>1, <1>2 DEF FillBuy, Bought, Filled
<1>4. p * q \in Nat
  OBVIOUS
<1>5. cash' \in Int /\ qty' \in Nat /\ qty' > 0 /\ avg' \in Nat
  BY <1>3, <1>4, AverageIs DEF BooksInv
<1>6. PICK e \in EntryRecs :
        /\ Enter(t) = [quantity |-> e.quantity + q, average |-> Average(e.quantity, e.average, t),
                       commission |-> e.commission + c, factors |-> e.factors \union t.factors]
        /\ e.quantity = qty /\ e.commission = Commission * qty
        /\ Average(e.quantity, e.average, t) = Average(qty, avg, t)
  <2>1. CASE entry = Nothing
    <3>1. PICK e : e = NoEntry
      OBVIOUS
    <3>2. e \in EntryRecs /\ e.quantity = 0 /\ e.average = 0 /\ e.commission = 0
      BY <3>1 DEF NoEntry, EntryRecs
    <3>3. qty = 0 /\ avg \in Nat
      BY <2>1 DEF BooksInv, PositionsAgree
    <3>4. Average(0, 0, t) = Average(0, avg, t)
      BY <3>3, AverageIs
    <3>5. Commission * 0 = 0
      BY ConfigAssumption
    <3>6. Enter(t) = [quantity |-> e.quantity + q, average |-> Average(e.quantity, e.average, t),
                      commission |-> e.commission + c, factors |-> e.factors \union t.factors]
      BY <1>2, <2>1, <3>1 DEF Enter
    <3> QED BY <3>2, <3>3, <3>4, <3>5, <3>6
  <2>2. CASE entry # Nothing
    <3>1. entry \in EntryRecs /\ entry.quantity = qty /\ entry.average = avg
          /\ entry.commission = Commission * qty
      BY <2>2 DEF BooksInv, PositionsAgree
    <3>2. Enter(t) = [quantity |-> entry.quantity + q,
                      average |-> Average(entry.quantity, entry.average, t),
                      commission |-> entry.commission + c, factors |-> entry.factors \union t.factors]
      BY <1>2, <2>2 DEF Enter
    <3> QED BY <3>1, <3>2
  <2> QED BY <2>1, <2>2
<1>7. e.quantity \in Nat /\ e.average \in Nat /\ e.commission \in Nat /\ e.factors \subseteq FactorNames
  BY DEF EntryRecs
<1>8. /\ entry'.quantity = qty' /\ entry'.average = avg' /\ entry'.commission = e.commission + c
      /\ entry' \in EntryRecs
  <2>1. PICK n \in Nat, a \in Nat, k \in Nat, fs \in SUBSET FactorNames :
          /\ n = e.quantity + q /\ a = Average(e.quantity, e.average, t)
          /\ k = e.commission + c /\ fs = e.factors \union t.factors
    <3>1. Average(e.quantity, e.average, t) \in Nat
      BY <1>7, AverageIs
    <3>2. e.factors \union t.factors \in SUBSET FactorNames
      BY <1>7, RecIs
    <3>3. e.quantity + q \in Nat /\ e.commission + c \in Nat
      BY <1>7
    <3> QED BY <3>1, <3>2, <3>3
  <2>2. entry' = [quantity |-> n, average |-> a, commission |-> k, factors |-> fs]
    BY <1>3, <1>6, <2>1
  <2>3. n = qty' /\ a = avg'
    BY <1>3, <1>6, <2>1
  <2> QED BY <2>1, <2>2, <2>3 DEF EntryRecs
<1>9. e.commission + c = Commission * qty'
  <2>1. Commission \in Nat /\ qty \in Nat
    BY ConfigAssumption DEF BooksInv
  <2>2. Commission * (qty + q) = Commission * qty + Commission * q
    BY <2>1
  <2> QED BY <1>1, <1>2, <1>3, <1>6, <2>2
<1>10. entry' # Nothing
  BY <1>8, NoRecordIsNothing
<1>11. PositionsAgree'
  BY <1>8, <1>9, <1>10 DEF PositionsAgree
<1> QED BY <1>3, <1>5, <1>8, <1>11 DEF BooksInv

\* What a sale does: its trade, its share k of the entry's commission, the gain m.
Sale(t, p, q, k, m) ==
  /\ t.side = "sell" /\ t.price = p /\ t.quantity = q /\ t.commission = k
  /\ k = Commission * q /\ m = (p - avg) * q /\ q <= qty
  /\ entry # Nothing /\ EntryCommission(t) = k /\ Profit(t) = m - k - k
  /\ cash' = cash + (p * q - k) /\ qty' = qty - q /\ avg' = avg /\ last' = last
  /\ entry' = Exit(t) /\ summary' = Attributed(entry.factors, m - k - k)
  /\ realised' = realised + (m - k - k)
  /\ uneven' = uneven \cup Remainder("share", m - k - k, Cardinality(Sharing(entry.factors)))
  /\ trades' = Append(trades, t) /\ phase = "open" /\ phase' = "close" /\ pending' = Nothing

LEMMA SaleIs ==
  ASSUME TimingInv, BooksInv, NEW open \in Opens, FillSell(open)
  PROVE  \E t \in TradeRecs, p \in Nat, q \in Nat \ {0}, k \in Nat, m \in Int : Sale(t, p, q, k, m)
<1>1. PICK t \in TradeRecs :
        /\ t = TradeOf(open) /\ t.quantity = pending.quantity /\ t.side = "sell"
        /\ t.commission = Commission * t.quantity
  BY TradeIs DEF FillSell
<1>2. PICK p \in Nat, q \in Nat \ {0}, c \in Nat : p = t.price /\ q = t.quantity /\ c = t.commission
  BY RecIs
<1>3. /\ cash' = cash + (p * q - c) /\ qty' = qty - q /\ avg' = avg /\ last' = last /\ q <= qty
      /\ trades' = Append(trades, t) /\ phase = "open" /\ phase' = "close" /\ pending' = Nothing
  BY <1>1, <1>2 DEF FillSell, Sold, Filled, CanSell
<1>4. qty \in Nat /\ avg \in Nat /\ cash \in Int
  BY DEF BooksInv
<1>5. entry # Nothing
  BY <1>3, <1>4 DEF BooksInv, PositionsAgree
<1>6. /\ entry' = Exit(t) /\ summary' = Attributed(entry.factors, Profit(t))
      /\ realised' = realised + Profit(t)
      /\ uneven' = uneven \cup Remainder("share", Profit(t), Cardinality(Sharing(entry.factors)))
  BY <1>1, <1>5 DEF FillSell
<1>7. /\ entry \in EntryRecs /\ entry.quantity = qty /\ entry.average = avg
      /\ entry.commission = Commission * qty /\ qty > 0
  BY <1>5 DEF BooksInv, PositionsAgree
<1>8. Commission \in Nat
  BY ConfigAssumption
<1>9. PICK k \in Nat : k = Commission * q /\ c = k
  BY <1>1, <1>2, <1>8
<1>10. EntryCommission(t) = k
  <2>1. (Commission * qty) * q = k * qty
    BY <1>4, <1>8, <1>9
  <2>2. (k * qty) \div qty = k
    BY <1>4, <1>7, DivExact
  <2> QED BY <1>2, <1>7, <2>1, <2>2 DEF EntryCommission
<1>11. PICK m \in Int : m = (p - avg) * q
  <2>1. PICK d \in Int : d = p - avg
    BY <1>4
  <2>2. d * q \in Int
    OBVIOUS
  <2> QED BY <2>1, <2>2
<1>12. Profit(t) = m - k - k
  BY <1>2, <1>7, <1>9, <1>10, <1>11 DEF Profit
<1>13. Sale(t, p, q, k, m)
  BY <1>1, <1>2, <1>3, <1>5, <1>6, <1>9, <1>10, <1>11, <1>12 DEF Sale
<1> QED BY <1>13

LEMMA BooksSold ==
  ASSUME TimingInv, BooksInv, NEW open \in Opens, FillSell(open)
  PROVE  BooksInv'
<1>0. PICK t \in TradeRecs, p \in Nat, q \in Nat \ {0}, k \in Nat, m \in Int : Sale(t, p, q, k, m)
  BY SaleIs
<1>1. /\ t.quantity = q /\ k = Commission * q /\ q <= qty
      /\ entry # Nothing /\ EntryCommission(t) = k
      /\ cash' = cash + (p * q - k) /\ qty' = qty - q /\ avg' = avg /\ last' = last
      /\ entry' = Exit(t) /\ summary' = Attributed(entry.factors, m - k - k)
      /\ realised' = realised + (m - k - k)
  BY <1>0 DEF Sale
<1>2. qty \in Nat /\ avg \in Nat /\ cash \in Int
  BY DEF BooksInv
<1>3. /\ entry \in EntryRecs /\ entry.quantity = qty /\ entry.average = avg
      /\ entry.commission = Commission * qty /\ qty > 0
  BY <1>1 DEF BooksInv, PositionsAgree
<1>4. Commission \in Nat
  BY ConfigAssumption
<1>5. summary' \in [FactorNames -> Int] /\ realised' \in Int
  <2>1. PICK fs \in SUBSET FactorNames : fs = entry.factors
    BY <1>3 DEF EntryRecs
  <2>2. PICK pnl \in Int : pnl = m - k - k
    OBVIOUS
  <2>3. Attributed(fs, pnl) \in [FactorNames -> Int]
    BY SharedInInts DEF BooksInv
  <2>4. summary' = Attributed(fs, pnl) /\ realised' = realised + pnl
    BY <1>1, <2>1, <2>2
  <2> QED BY <2>3, <2>4 DEF BooksInv
<1>6. cash' \in Int /\ qty' \in Nat
  BY <1>1, <1>2
<1>7. CASE qty = q
  <2>1. entry' = Nothing /\ qty' = 0
    BY <1>1, <1>2, <1>3, <1>7 DEF Exit
  <2>2. PositionsAgree'
    BY <2>1 DEF PositionsAgree
  <2> QED BY <1>1, <1>2, <1>5, <1>6, <2>1, <2>2 DEF BooksInv
<1>8. CASE qty # q
  <2>1. PICK left \in Nat \ {0} : left = qty - q
    BY <1>1, <1>2, <1>8
  <2>2. Commission * qty - k = Commission * left /\ Commission * left \in Nat
    <3>1. Commission * (qty - q) = Commission * qty - Commission * q
      BY <1>2, <1>4
    <3> QED BY <1>1, <1>4, <2>1, <3>1
  <2>3. PICK com \in Nat : com = Commission * left /\ com = entry.commission - k
    BY <1>3, <2>2
  <2>4. entry' = [entry EXCEPT !.quantity = left, !.commission = com]
    <3>1. ~(left <= 0)
      BY <2>1
    <3>2. entry' = [entry EXCEPT !.quantity = left, !.commission = @ - k]
      BY <1>1, <1>3, <2>1, <3>1 DEF Exit
    <3> QED BY <2>3, <3>2
  <2>5. /\ entry' \in EntryRecs /\ entry'.quantity = left /\ entry'.commission = com
        /\ entry'.average = avg
    BY <1>3, <2>4 DEF EntryRecs
  <2>6. qty' = left /\ qty' > 0
    BY <1>1, <2>1
  <2>7. PositionsAgree'
    BY <1>1, <2>3, <2>5, <2>6, NoRecordIsNothing DEF PositionsAgree
  <2> QED BY <1>1, <1>2, <1>5, <1>6, <2>5, <2>6, <2>7 DEF BooksInv
<1> QED BY <1>7, <1>8

LEMMA BooksSummed ==
  ASSUME BooksInv, Summarise
  PROVE  BooksInv'
<1>1. UNCHANGED <<cash, qty, avg, entry, realised, last>>
  BY DEF Summarise, portfolio
<1>2. summary' \in [FactorNames -> Int]
  <2>1. CASE entry = Nothing
    BY <2>1 DEF Summarise, BooksInv
  <2>2. CASE entry # Nothing
    <3>1. entry.average \in Nat /\ entry.quantity \in Nat /\ entry.factors \in SUBSET FactorNames
      BY <2>2 DEF BooksInv, EntryRecs
    <3>2. PICK d \in Int : d = last - entry.average
      BY <3>1 DEF BooksInv
    <3>3. d * entry.quantity \in Int
      BY <3>1
    <3>4. Unrealised(last) \in Int
      BY <3>2, <3>3 DEF Unrealised
    <3> QED BY <2>2, <3>1, <3>4, SharedInInts DEF Summarise, BooksInv
  <2> QED BY <2>1, <2>2
<1> QED BY <1>1, <1>2 DEF BooksInv, PositionsAgree

LEMMA BooksHold == TimingInv /\ BooksInv /\ [BacktestNext]_backtestvars => BooksInv'
<1> SUFFICES ASSUME TimingInv, BooksInv, [BacktestNext]_backtestvars PROVE BooksInv'
  OBVIOUS
<1>1. CASE UNCHANGED <<portfolio, entry, summary, realised>> /\ last' \in Int
  BY <1>1 DEF BooksInv, PositionsAgree, portfolio
<1>2. last \in Int
  BY DEF BooksInv
<1>3. ASSUME NEW open \in Opens, Refuse(open) PROVE BooksInv'
  BY <1>1, <1>2, <1>3 DEF Refuse, records
<1>4. CASE NoFill
  BY <1>1, <1>2, <1>4 DEF NoFill, records
<1>5. ASSUME NEW close \in Closes, EndBar(close) PROVE BooksInv'
  BY <1>1, <1>5, PricesAssumption DEF EndBar
<1>6. ASSUME NEW close \in Closes, NEW quantity \in Quantities,
             \/ Quiet(close)
             \/ \E factors \in FactorSets : Decide(close, "buy", quantity, factors)
             \/ Decide(close, "sell", quantity, {})
      PROVE  BooksInv'
  BY <1>5, <1>6 DEF Quiet, Decide
<1>7. ASSUME NEW close \in Closes, Quiet(close) PROVE BooksInv'
  BY <1>5, <1>7 DEF Quiet
<1>8. CASE UNCHANGED backtestvars
  BY <1>1, <1>2, <1>8 DEF backtestvars, records
<1> QED BY <1>3, <1>4, <1>6, <1>7, <1>8, BooksBought, BooksSold, BooksSummed DEF BacktestNext

LEMMA BooksFromInit == BacktestInit => BooksInv
<1> SUFFICES ASSUME BacktestInit PROVE BooksInv
  OBVIOUS
<1>1. /\ cash = Capital /\ qty = 0 /\ avg = 0 /\ entry = Nothing /\ realised = 0 /\ last = 0
      /\ summary = [f \in FactorNames |-> 0]
  BY DEF BacktestInit
<1>2. Capital \in Nat
  BY ConfigAssumption
<1> QED BY <1>1, <1>2 DEF BooksInv, PositionsAgree

-----------------------------------------------------------------------------
(* Backtest: the money.  What is paid for the shares and their commission  *)
(* stays in the average cost, what the shares of a profit add up to is the *)
(* profit, where no division leaves a remainder.                           *)

MoneyInv ==
  /\ uneven \subseteq {"average", "share"}
  /\ pending # Nothing /\ pending.action = "buy" => pending.factors # {}
  /\ entry # Nothing => entry.factors # {}
  /\ "average" \notin uneven => cash - Capital = realised - avg * qty - Commission * qty
  /\ "share" \notin uneven =>
       Sum(summary, FactorNames) = realised + IF phase = "done" THEN (last - avg) * qty ELSE 0

LEMMA SumOfIsSum == \A f, S : SumOf(f, S) = Sum(f, S)
  BY DEF SumOf, Sum

LEMMA SharingIs ==
  ASSUME NEW fs \in SUBSET FactorNames, fs # {}
  PROVE  Sharing(fs) \in SUBSET FactorNames /\ Cardinality(Sharing(fs)) \in Nat \ {0}
<1>1. PICK sh \in SUBSET FactorNames : sh = Sharing(fs) /\ sh # {}
  BY DEF Sharing
<1>2. IsFiniteSet(sh)
  BY ConfigAssumption, FS_Subset
<1>3. Cardinality(sh) \in Nat /\ Cardinality(sh) # 0
  BY <1>1, <1>2, FS_CardinalityType, FS_EmptySet
<1> QED BY <1>1, <1>3

\* Shares without a remainder add up to what is shared.
LEMMA SharedAddsUp ==
  ASSUME NEW fs \in SUBSET FactorNames, fs # {}, NEW pnl \in Int,
         summary \in [FactorNames -> Int],
         pnl % Cardinality(Sharing(fs)) = 0
  PROVE  Sum(Attributed(fs, pnl), FactorNames) = Sum(summary, FactorNames) + pnl
<1>1. PICK sh \in SUBSET FactorNames, n \in Nat \ {0} : sh = Sharing(fs) /\ n = Cardinality(sh)
  BY SharingIs
<1>2. PICK d \in Int : d = pnl \div n
  BY DivInt
<1>3. n * d = pnl
  BY <1>1, <1>2, DivEven
<1>4. Attributed(fs, pnl) = Raised(summary, FactorNames, sh, d)
  BY <1>1, <1>2 DEF Attributed, Raised
<1>5. Sum(Raised(summary, FactorNames, sh, d), FactorNames)
        = Sum(summary, FactorNames) + Cardinality(sh) * d
  BY ConfigAssumption, SumRaised
<1> QED BY <1>1, <1>3, <1>4, <1>5

LEMMA MoneyBought ==
  ASSUME TimingInv, BooksInv, MoneyInv, NEW open \in Opens, FillBuy(open)
  PROVE  MoneyInv'
<1>1. PICK t \in TradeRecs :
        /\ t = TradeOf(open) /\ t.commission = Commission * t.quantity
        /\ t.factors = pending.factors
  BY TradeIs DEF FillBuy
<1>2. PICK p \in Nat, q \in Nat \ {0}, c \in Nat : p = t.price /\ q = t.quantity /\ c = t.commission
  BY RecIs
<1>3. /\ cash' = cash - (p * q + c) /\ qty' = qty + q
      /\ avg' = (qty * avg + p * q) \div (qty + q)
      /\ entry' = Enter(t) /\ UNCHANGED <<summary, realised, last>>
      /\ uneven' = uneven \cup Remainder("average", qty * avg + p * q, qty + q)
      /\ phase = "open" /\ phase' = "close" /\ pending' = Nothing
      /\ pending # Nothing /\ pending.action = "buy"
  BY <1>1, <1>2 DEF FillBuy, Bought, Filled, Average
<1>4. qty \in Nat /\ avg \in Nat /\ cash \in Int /\ realised \in Int /\ Commission \in Nat /\ Capital \in Nat
  BY ConfigAssumption DEF BooksInv
<1>5. entry' # Nothing => entry'.factors # {}
  <2>1. t.factors # {}
    BY <1>1, <1>3 DEF MoneyInv
  <2>2. entry'.factors = (IF entry = Nothing THEN NoEntry ELSE entry).factors \union t.factors
    BY <1>3 DEF Enter
  <2> QED BY <2>1, <2>2
<1>6. "average" \notin uneven' => cash' - Capital = realised' - avg' * qty' - Commission * qty'
  <2>1. SUFFICES ASSUME "average" \notin uneven'
                 PROVE  cash' - Capital = realised' - avg' * qty' - Commission * qty'
    OBVIOUS
  <2>2. PICK a \in Nat, b \in Nat, x \in Nat, k \in Nat, n \in Nat \ {0} :
          /\ a = qty * avg /\ b = p * q /\ x = Commission * qty /\ k = Commission * q /\ n = qty + q
    BY <1>4
  <2>3. "average" \notin uneven /\ (a + b) % n = 0
    BY <1>3, <2>1, <2>2 DEF Remainder
  <2>4. avg' \in Nat /\ n * avg' = a + b
    <3>1. PICK z \in Nat : z = a + b
      OBVIOUS
    <3>2. z \div n \in Nat /\ n * (z \div n) = z
      BY <2>3, <3>1, DivNat, DivEven
    <3> QED BY <1>3, <2>2, <3>1, <3>2
  <2>5. Commission * (qty + q) = x + k
    BY <1>4, <2>2
  <2>6. cash - Capital = realised - a - x
    <3>1. avg * qty = a
      BY <1>4, <2>2
    <3> QED BY <2>2, <2>3, <3>1 DEF MoneyInv
  <2>7. avg' * qty' = a + b
    <3>1. PICK v \in Nat : v = avg'
      BY <2>4
    <3>2. v * n = n * v
      OBVIOUS
    <3> QED BY <1>3, <2>2, <2>4, <3>1, <3>2
  <2>8. c = k /\ Commission * qty' = x + k
    BY <1>1, <1>2, <1>3, <2>2, <2>5
  <2>9. cash' = cash - (b + k) /\ realised' = realised
    BY <1>3, <2>2, <2>8
  <2>10. (cash - (b + k)) - Capital = realised - (a + b) - (x + k)
    BY <1>4, <2>6
  <2> QED BY <2>7, <2>8, <2>9, <2>10
<1>7. "share" \notin uneven' => Sum(summary', FactorNames) = realised'
  <2>1. "share" \notin uneven' => "share" \notin uneven
    BY <1>3
  <2>2. realised + 0 = realised
    BY <1>4
  <2> QED BY <1>3, <2>1, <2>2 DEF MoneyInv
<1>8. uneven' \subseteq {"average", "share"}
  BY <1>3 DEF MoneyInv, Remainder
<1>9. realised' + 0 = realised'
  BY <1>3, <1>4
<1> QED BY <1>3, <1>5, <1>6, <1>7, <1>8, <1>9 DEF MoneyInv

LEMMA MoneySold ==
  ASSUME TimingInv, BooksInv, MoneyInv, NEW open \in Opens, FillSell(open)
  PROVE  MoneyInv'
<1>0. PICK t \in TradeRecs, p \in Nat, q \in Nat \ {0}, k \in Nat, m \in Int : Sale(t, p, q, k, m)
  BY SaleIs
<1>1. /\ k = Commission * q /\ m = (p - avg) * q /\ q <= qty /\ entry # Nothing
      /\ cash' = cash + (p * q - k) /\ qty' = qty - q /\ avg' = avg
      /\ entry' = Exit(t) /\ summary' = Attributed(entry.factors, m - k - k)
      /\ realised' = realised + (m - k - k)
      /\ uneven' = uneven \cup Remainder("share", m - k - k, Cardinality(Sharing(entry.factors)))
      /\ phase = "open" /\ phase' = "close" /\ pending' = Nothing
  BY <1>0 DEF Sale
<1>2. qty \in Nat /\ avg \in Nat /\ cash \in Int /\ realised \in Int /\ Commission \in Nat /\ Capital \in Nat
  BY ConfigAssumption DEF BooksInv
<1>3. entry \in EntryRecs /\ entry.factors # {}
  BY <1>1 DEF BooksInv, MoneyInv
<1>4. entry' # Nothing => entry'.factors # {}
  <2>1. entry' # Nothing => entry'.factors = entry.factors
    BY <1>1, <1>3 DEF Exit, EntryRecs
  <2> QED BY <1>3, <2>1
<1>5. "average" \notin uneven' => cash' - Capital = realised' - avg' * qty' - Commission * qty'
  <2>1. SUFFICES ASSUME "average" \notin uneven'
                 PROVE  cash' - Capital = realised' - avg' * qty' - Commission * qty'
    OBVIOUS
  <2>2. PICK a \in Nat, x \in Nat, b \in Nat, e \in Nat :
          a = avg * qty /\ x = Commission * qty /\ b = p * q /\ e = avg * q
    BY <1>2
  <2>3. m = b - e
    <3>1. (p - avg) * q = p * q - avg * q
      BY <1>2
    <3> QED BY <1>1, <2>2, <3>1
  <2>4. avg * (qty - q) = a - e /\ Commission * (qty - q) = x - k
    <3>1. /\ avg * (qty - q) = avg * qty - avg * q
          /\ Commission * (qty - q) = Commission * qty - Commission * q
      BY <1>2
    <3> QED BY <1>1, <2>2, <3>1
  <2>5. "average" \notin uneven
    BY <1>1, <2>1
  <2>6. cash - Capital = realised - a - x
    BY <2>2, <2>5 DEF MoneyInv
  <2>7. cash' = cash + (b - k) /\ avg' * qty' = a - e /\ Commission * qty' = x - k
    BY <1>1, <2>2, <2>4
  <2> QED BY <1>1, <1>2, <2>2, <2>3, <2>6, <2>7
<1>6. "share" \notin uneven' => Sum(summary', FactorNames) = realised'
  <2>1. SUFFICES ASSUME "share" \notin uneven' PROVE Sum(summary', FactorNames) = realised'
    OBVIOUS
  <2>2. PICK fs \in SUBSET FactorNames, pnl \in Int : fs = entry.factors /\ pnl = m - k - k
    BY <1>3 DEF EntryRecs
  <2>3. "share" \notin uneven /\ pnl % Cardinality(Sharing(fs)) = 0
    BY <1>1, <2>1, <2>2 DEF Remainder
  <2>4. Sum(Attributed(fs, pnl), FactorNames) = Sum(summary, FactorNames) + pnl
    BY <1>3, <2>2, <2>3, SharedAddsUp DEF BooksInv
  <2>5. Sum(summary, FactorNames) = realised
    <3>1. Sum(summary, FactorNames) = realised + 0
      BY <1>1, <2>3 DEF MoneyInv
    <3> QED BY <1>2, <3>1
  <2> QED BY <1>1, <2>2, <2>4, <2>5
<1>7. uneven' \subseteq {"average", "share"}
  BY <1>1 DEF MoneyInv, Remainder
<1>8. realised' + 0 = realised'
  BY <1>1, <1>2
<1> QED BY <1>1, <1>4, <1>5, <1>6, <1>7, <1>8 DEF MoneyInv

LEMMA MoneySummed ==
  ASSUME BooksInv, MoneyInv, Summarise
  PROVE  MoneyInv'
<1>1. /\ phase = "summing" /\ phase' = "done" /\ UNCHANGED <<pending, cash, qty, avg, entry, realised, last>>
      /\ uneven \subseteq uneven'
  BY DEF Summarise, portfolio
<1>2. qty \in Nat /\ avg \in Nat /\ last \in Int /\ realised \in Int
  BY DEF BooksInv
<1>3. "share" \notin uneven' => Sum(summary', FactorNames) = realised + (last - avg) * qty
  <2>1. SUFFICES ASSUME "share" \notin uneven'
                 PROVE  Sum(summary', FactorNames) = realised + (last - avg) * qty
    OBVIOUS
  <2>2. Sum(summary, FactorNames) = realised
    <3>1. Sum(summary, FactorNames) = realised + 0
      BY <1>1, <2>1 DEF MoneyInv
    <3> QED BY <1>2, <3>1
  <2>3. CASE entry = Nothing
    <3>1. qty = 0 /\ summary' = summary
      BY <2>3 DEF BooksInv, PositionsAgree, Summarise
    <3>2. (last - avg) * 0 = 0
      BY <1>2
    <3> QED BY <1>2, <2>2, <3>1, <3>2
  <2>4. CASE entry # Nothing
    <3>1. entry \in EntryRecs /\ entry.factors # {} /\ entry.average = avg /\ entry.quantity = qty
      BY <2>4 DEF BooksInv, PositionsAgree, MoneyInv
    <3>2. PICK pnl \in Int : pnl = (last - avg) * qty
      <4>1. PICK d \in Int : d = last - avg
        BY <1>2
      <4>2. d * qty \in Int
        BY <1>2
      <4> QED BY <4>1, <4>2
    <3>3. PICK fs \in SUBSET FactorNames : fs = entry.factors
      BY <3>1 DEF EntryRecs
    <3>4. /\ summary' = Attributed(fs, pnl)
          /\ uneven' = uneven \cup Remainder("share", pnl, Cardinality(Sharing(fs)))
      BY <2>4, <3>1, <3>2, <3>3 DEF Summarise, Unrealised
    <3>5. pnl % Cardinality(Sharing(fs)) = 0
      BY <2>1, <3>4 DEF Remainder
    <3>6. Sum(Attributed(fs, pnl), FactorNames) = Sum(summary, FactorNames) + pnl
      BY <3>1, <3>3, <3>5, SharedAddsUp DEF BooksInv
    <3> QED BY <2>2, <3>2, <3>4, <3>6
  <2> QED BY <2>3, <2>4
<1>4. uneven' \subseteq {"average", "share"}
  BY DEF MoneyInv, Summarise, Remainder
<1>5. "average" \notin uneven' => cash' - Capital = realised' - avg' * qty' - Commission * qty'
  BY <1>1 DEF MoneyInv
<1> QED BY <1>1, <1>3, <1>4, <1>5 DEF MoneyInv

LEMMA MoneyHolds == TimingInv /\ BooksInv /\ MoneyInv /\ [BacktestNext]_backtestvars => MoneyInv'
<1> SUFFICES ASSUME TimingInv, BooksInv, MoneyInv, [BacktestNext]_backtestvars PROVE MoneyInv'
  OBVIOUS
<1>1. ASSUME UNCHANGED <<portfolio, entry, summary, realised, uneven>>,
             (phase # "done" /\ phase' # "done") \/ (phase' = phase /\ last' = last),
             pending' # Nothing /\ pending'.action = "buy" => pending'.factors # {}
      PROVE  MoneyInv'
  BY <1>1 DEF MoneyInv, portfolio
<1>2. ASSUME NEW open \in Opens, Refuse(open) PROVE MoneyInv'
  BY <1>1, <1>2 DEF Refuse, Refused, records
<1>3. CASE NoFill
  BY <1>1, <1>3 DEF NoFill, records, MoneyInv
<1>4. ASSUME NEW close \in Closes, EndBar(close)
      PROVE  /\ UNCHANGED <<portfolio, entry, summary, realised, uneven>> /\ phase' # "done"
  BY <1>4 DEF EndBar
<1>5. ASSUME NEW close \in Closes, Quiet(close) PROVE MoneyInv'
  BY <1>1, <1>4, <1>5 DEF Quiet, MoneyInv
<1>6. ASSUME NEW close \in Closes, NEW quantity \in Quantities, NEW factors \in FactorSets,
             Decide(close, "buy", quantity, factors)
      PROVE  MoneyInv'
  <2>1. factors # {}
    BY ConfigAssumption
  <2> QED BY <1>1, <1>4, <1>6, <2>1 DEF Decide
<1>7. ASSUME NEW close \in Closes, NEW quantity \in Quantities, Decide(close, "sell", quantity, {})
      PROVE  MoneyInv'
  BY <1>1, <1>4, <1>7 DEF Decide
<1>8. CASE UNCHANGED backtestvars
  BY <1>1, <1>8 DEF backtestvars, records, MoneyInv
<1> QED BY <1>2, <1>3, <1>5, <1>6, <1>7, <1>8, MoneyBought, MoneySold, MoneySummed DEF BacktestNext

LEMMA MoneyFromInit == BacktestInit => MoneyInv
<1> SUFFICES ASSUME BacktestInit PROVE MoneyInv
  OBVIOUS
<1>1. /\ cash = Capital /\ qty = 0 /\ avg = 0 /\ entry = Nothing /\ realised = 0 /\ pending = Nothing
      /\ phase = "open" /\ uneven = {} /\ summary = [f \in FactorNames |-> 0]
  BY DEF BacktestInit
<1>2. Capital \in Nat /\ Commission \in Nat
  BY ConfigAssumption
<1>3. Sum(summary, FactorNames) = 0
  BY <1>1, ConfigAssumption, SumZero
<1>4. Commission * 0 = 0 /\ 0 * 0 = 0
  BY <1>2
<1> QED BY <1>1, <1>2, <1>3, <1>4 DEF MoneyInv

LEMMA MoneyReconciles == BooksInv /\ MoneyInv => ProfitReconciles /\ AttributionAddsUp
<1> SUFFICES ASSUME BooksInv, MoneyInv PROVE ProfitReconciles /\ AttributionAddsUp
  OBVIOUS
<1>1. qty \in Nat /\ avg \in Nat /\ cash \in Int /\ last \in Int /\ realised \in Int
      /\ Capital \in Nat /\ Commission \in Nat
  BY ConfigAssumption DEF BooksInv
<1>2. PICK a \in Int, l \in Int, x \in Int : a = avg * qty /\ l = last * qty /\ x = Commission * qty
  BY <1>1
<1>3. (last - avg) * qty = l - a /\ qty * last = l
  BY <1>1, <1>2
<1>4. ProfitReconciles
  <2>1. "average" \notin uneven => cash - Capital = realised - a - x
    BY <1>2 DEF MoneyInv
  <2>2. Equity(last) = cash + l
    BY <1>3 DEF Equity
  <2> QED BY <1>1, <1>2, <1>3, <2>1, <2>2 DEF ProfitReconciles
<1>5. AttributionAddsUp
  BY SumOfIsSum DEF MoneyInv, AttributionAddsUp
<1> QED BY <1>4, <1>5

-----------------------------------------------------------------------------
(* Backtest: the largest drop of the equity is found in one pass.  The     *)
(* pass is a recursion over the prefixes of the curve.                     *)

Accs == [peak : Nat, drop : Nat, of : Nat]
AccOf(c) == [peak |-> c[1], drop |-> 0, of |-> 1]

DrawdownUnfold(g, c) ==
  [s \in SUBSET DOMAIN c |->
     IF s = {} THEN AccOf(c) ELSE DrawdownScan(g[s \ {Max(s)}], c[Max(s)])]

DrawdownRecursion(c) == CHOOSE g : g = DrawdownUnfold(g, c)

LEMMA DrawdownIs == \A c : MaxDrawdown(c) = DrawdownRecursion(c)[DOMAIN c]
  BY DEF MaxDrawdown, DrawdownRecursion, DrawdownUnfold, FoldLeft, MapThenFoldSet, AccOf

\* The three cases of one equity.
LEMMA ScanIs ==
  ASSUME NEW a \in Accs, NEW e \in Nat
  PROVE  LET b == DrawdownScan(a, e)
             more == a.peak > 0 /\ (a.peak - e) * a.of > a.drop * a.peak
         IN /\ b \in Accs
            /\ e > a.peak => b.peak = e /\ b.drop = a.drop /\ b.of = a.of
            /\ e <= a.peak /\ more => b.peak = a.peak /\ b.drop = a.peak - e /\ b.of = a.peak
            /\ e <= a.peak /\ ~more => b = a
<1>1. a.peak \in Nat /\ a.drop \in Nat /\ a.of \in Nat
  BY DEF Accs
<1>2. PICK more \in BOOLEAN : more = (a.peak > 0 /\ (a.peak - e) * a.of > a.drop * a.peak)
  OBVIOUS
<1>3. CASE e > a.peak
  <2>1. DrawdownScan(a, e) = [a EXCEPT !.peak = e]
    BY <1>3 DEF DrawdownScan
  <2>2. ~(e <= a.peak)
    BY <1>1, <1>3
  <2> QED BY <1>3, <2>1, <2>2 DEF Accs
<1>4. CASE ~(e > a.peak) /\ more
  <2>1. PICK d \in Nat : d = a.peak - e
    BY <1>1, <1>4
  <2>2. DrawdownScan(a, e) = [a EXCEPT !.drop = d, !.of = a.peak]
    BY <1>2, <1>4, <2>1 DEF DrawdownScan
  <2>3. /\ [a EXCEPT !.drop = d, !.of = a.peak] \in Accs
        /\ [a EXCEPT !.drop = d, !.of = a.peak].peak = a.peak
        /\ [a EXCEPT !.drop = d, !.of = a.peak].drop = d
        /\ [a EXCEPT !.drop = d, !.of = a.peak].of = a.peak
    BY <1>1 DEF Accs
  <2> QED BY <1>2, <1>4, <2>1, <2>2, <2>3
<1>5. CASE ~(e > a.peak) /\ ~more
  BY <1>2, <1>5 DEF DrawdownScan
<1> QED BY <1>3, <1>4, <1>5

LEMMA DrawdownExists ==
  ASSUME NEW c \in Seq(Nat), c # <<>>
  PROVE  DrawdownRecursion(c) = DrawdownUnfold(DrawdownRecursion(c), c)
<1> DEFINE f == [p \in Accs \X Nat |-> DrawdownScan(p[1], p[2])]
<1>0. DOMAIN c = 1 .. Len(c) /\ Len(c) \in Nat /\ \A i \in 1 .. Len(c) : c[i] \in Nat
  BY LenProperties, ElementOfSeq
<1>1. f \in [Accs \X Nat -> Accs]
  BY ScanIs
<1>2. \A a \in Accs, e \in Nat : f[a, e] = DrawdownScan(a, e)
  OBVIOUS
<1> HIDE DEF f
<1>3. AccOf(c) \in Accs
  <2>1. c[1] \in Nat
    BY <1>0, EmptySeq
  <2> QED BY <2>1 DEF AccOf, Accs
<1>4. PICK g \in [SUBSET (1 .. Len(c)) -> Accs] :
        \A s \in SUBSET (1 .. Len(c)) : FoldStep(f, AccOf(c), c, g, s)
  BY <1>1, <1>3, FoldExists
<1>5. ASSUME NEW s \in SUBSET (1 .. Len(c))
      PROVE  g[s] = IF s = {} THEN AccOf(c) ELSE DrawdownScan(g[s \ {Max(s)}], c[Max(s)])
  <2>1. FoldStep(f, AccOf(c), c, g, s)
    BY <1>4
  <2>2. CASE s = {}
    BY <2>1, <2>2 DEF FoldStep
  <2>3. CASE s # {}
    <3>1. Max(s) \in 1 .. Len(c)
      BY <1>0, <2>3, PrefixMax
    <3>2. c[Max(s)] \in Nat /\ g[s \ {Max(s)}] \in Accs
      BY <1>0, <3>1
    <3> QED BY <1>2, <2>1, <2>3, <3>2 DEF FoldStep
  <2> QED BY <2>2, <2>3
<1>6. g = [s \in SUBSET (1 .. Len(c)) |-> g[s]]
  OBVIOUS
<1>7. g = DrawdownUnfold(g, c)
  BY <1>0, <1>5, <1>6 DEF DrawdownUnfold
<1> QED BY <1>7 DEF DrawdownRecursion

\* The recursion on a prefix of the curve.
LEMMA DrawdownPrefix ==
  ASSUME NEW c \in Seq(Nat), c # <<>>
  PROVE  /\ DrawdownRecursion(c)[1 .. 0] = AccOf(c)
         /\ \A k \in Nat : k + 1 <= Len(c) =>
              DrawdownRecursion(c)[1 .. k + 1]
              = DrawdownScan(DrawdownRecursion(c)[1 .. k], c[k + 1])
<1> DEFINE g == DrawdownRecursion(c)
<1>0. DOMAIN c = 1 .. Len(c) /\ Len(c) \in Nat
  BY LenProperties
<1>1. g = DrawdownUnfold(g, c)
  BY DrawdownExists
<1> HIDE DEF g
<1>2. \A s \in SUBSET (1 .. Len(c)) :
        g[s] = IF s = {} THEN AccOf(c) ELSE DrawdownScan(g[s \ {Max(s)}], c[Max(s)])
  BY <1>0, <1>1 DEF DrawdownUnfold
<1>3. 1 .. 0 = {} /\ {} \in SUBSET (1 .. Len(c))
  OBVIOUS
<1>4. ASSUME NEW k \in Nat, k + 1 <= Len(c)
      PROVE  g[1 .. k + 1] = DrawdownScan(g[1 .. k], c[k + 1])
  <2>1. 1 .. k + 1 \in SUBSET (1 .. Len(c))
    BY <1>0, <1>4
  <2>2. Max(1 .. k + 1) = k + 1 /\ (1 .. k + 1) \ {k + 1} = 1 .. k /\ 1 .. k + 1 # {}
    BY WholeMax
  <2> QED BY <1>2, <2>1, <2>2
<1> QED BY <1>2, <1>3, <1>4 DEF g

LEMMA MulLe ==
  ASSUME NEW a \in Int, NEW b \in Int, NEW c \in Nat, a <= b
  PROVE  a * c <= b * c
  OBVIOUS

LEMMA MulCancel ==
  ASSUME NEW a \in Int, NEW b \in Int, NEW c \in Nat \ {0}, a * c <= b * c
  PROVE  a <= b
  OBVIOUS

\* Fractions that grow: s/x <= drop/of and drop/of <= more/peak.
LEMMA Cut ==
  ASSUME NEW s \in Int, NEW x \in Nat, NEW of \in Nat \ {0}, NEW peak \in Nat \ {0},
         NEW drop \in Nat, NEW more \in Nat,
         s * of <= drop * x, drop * peak <= more * of
  PROVE  s * peak <= more * x
<1>1. PICK so \in Int, dx \in Int, dp \in Int, mo \in Int, sp \in Int, mx \in Int :
        /\ so = s * of /\ dx = drop * x /\ dp = drop * peak /\ mo = more * of
        /\ sp = s * peak /\ mx = more * x
  OBVIOUS
<1>2. so * peak <= dx * peak /\ dp * x <= mo * x
  BY <1>1, MulLe
<1>3. dx * peak = dp * x /\ mo * x = mx * of /\ so * peak = sp * of
  BY <1>1
<1>4. sp * of <= mx * of
  <2>1. PICK u \in Int, v \in Int, w \in Int : u = so * peak /\ v = dx * peak /\ w = mo * x
    OBVIOUS
  <2> QED BY <1>2, <1>3, <2>1
<1> QED BY <1>1, <1>4, MulCancel

\* The drop to e from what is no peak is no larger than that from the peak.
LEMMA FromPeak ==
  ASSUME NEW x \in Nat, NEW e \in Nat, NEW peak \in Nat, x <= peak
  PROVE  (x - e) * peak <= (peak - e) * x
<1>1. PICK xp \in Int, ep \in Int, ex \in Int : xp = x * peak /\ ep = peak * e /\ ex = x * e
  OBVIOUS
<1>2. ex <= ep
  BY <1>1, MulLe
<1>3. (x - e) * peak = xp - ep /\ (peak - e) * x = xp - ex
  BY <1>1
<1> QED BY <1>2, <1>3

\* What the pass has found in the first k equities.
Scanned(c, k, a) ==
  /\ a \in Accs /\ a.of # 0
  /\ \A i \in 1 .. k : c[i] <= a.peak
  /\ \E i \in 1 .. k : c[i] = a.peak
  /\ \A i, j \in 1 .. k : i <= j => (c[i] - c[j]) * a.of <= a.drop * c[i]
  /\ \E i, j \in 1 .. k : i <= j /\ (c[i] - c[j]) * a.of = a.drop * c[i]

LEMMA ScanStarts ==
  ASSUME NEW c \in Seq(Nat), c # <<>>
  PROVE  Scanned(c, 1, DrawdownScan(AccOf(c), c[1]))
<1>1. c[1] \in Nat
  BY LenProperties, ElementOfSeq, EmptySeq
<1>2. PICK e \in Nat : e = c[1]
  BY <1>1
<1>3. PICK a \in Accs : a = AccOf(c) /\ a.peak = e /\ a.drop = 0 /\ a.of = 1
  <2>1. AccOf(c) = [peak |-> e, drop |-> 0, of |-> 1]
    BY <1>2 DEF AccOf
  <2>2. AccOf(c) \in Accs /\ AccOf(c).peak = e /\ AccOf(c).drop = 0 /\ AccOf(c).of = 1
    BY <2>1 DEF Accs
  <2> QED BY <2>2
<1>4. (e - e) * 1 = 0 /\ 0 * e = 0 /\ e <= e /\ ~(0 > 0)
  OBVIOUS
<1>5. DrawdownScan(a, e) = a
  <2>1. ~((a.peak - e) * a.of > a.drop * a.peak)
    BY <1>3, <1>4
  <2> QED BY <1>3, <1>4, <2>1, ScanIs
<1>6. \A i \in 1 .. 1 : i = 1
  OBVIOUS
<1>7. \A i \in 1 .. 1 : c[i] <= a.peak
  BY <1>2, <1>3, <1>6
<1>8. \A i, j \in 1 .. 1 : i <= j => (c[i] - c[j]) * a.of <= a.drop * c[i]
  <2>1. (c[1] - c[1]) * a.of <= a.drop * c[1]
    BY <1>2, <1>3, <1>4
  <2> QED BY <1>6, <2>1
<1>9. 1 \in 1 .. 1 /\ 1 <= 1 /\ c[1] = a.peak /\ (c[1] - c[1]) * a.of = a.drop * c[1] /\ a.of # 0
  BY <1>2, <1>3, <1>4
<1>10. Scanned(c, 1, a)
  BY <1>7, <1>8, <1>9 DEF Scanned
<1> QED BY <1>2, <1>3, <1>5, <1>10

LEMMA ScanGoesOn ==
  ASSUME NEW c \in Seq(Nat), NEW k \in Nat, k + 1 <= Len(c), NEW a, Scanned(c, k, a)
  PROVE  Scanned(c, k + 1, DrawdownScan(a, c[k + 1]))
<1>1. \A i \in 1 .. k + 1 : c[i] \in Nat
  BY LenProperties, ElementOfSeq
<1>2. PICK e \in Nat : e = c[k + 1]
  BY <1>1
<1>3. PICK peak \in Nat, drop \in Nat, of \in Nat \ {0} : peak = a.peak /\ drop = a.drop /\ of = a.of
  BY DEF Scanned, Accs
<1>4. PICK b \in Accs : b = DrawdownScan(a, e)
  BY ScanIs DEF Scanned
<1>5. /\ e > peak => b.peak = e /\ b.drop = drop /\ b.of = of
      /\ e <= peak /\ peak > 0 /\ (peak - e) * of > drop * peak
         => b.peak = peak /\ b.drop = peak - e /\ b.of = peak
      /\ e <= peak /\ ~(peak > 0 /\ (peak - e) * of > drop * peak)
         => b.peak = peak /\ b.drop = drop /\ b.of = of
  BY <1>3, <1>4, ScanIs DEF Scanned
<1>6. /\ \A i \in 1 .. k : c[i] \in Nat /\ c[i] <= peak
      /\ \A i, j \in 1 .. k : i <= j => (c[i] - c[j]) * of <= drop * c[i]
  <2>1. \A i \in 1 .. k : i \in 1 .. k + 1
    OBVIOUS
  <2> QED BY <1>1, <1>3, <2>1 DEF Scanned
<1>7. PICK m \in 1 .. k : c[m] = peak
  BY <1>3 DEF Scanned
<1>8. PICK i0 \in 1 .. k, j0 \in 1 .. k : i0 <= j0 /\ (c[i0] - c[j0]) * of = drop * c[i0]
  BY <1>3 DEF Scanned
<1>9. /\ k + 1 \in 1 .. k + 1 /\ \A i \in 1 .. k : i \in 1 .. k + 1 /\ i <= k + 1
      /\ \A i \in 1 .. k + 1 : i = k + 1 \/ i \in 1 .. k
      /\ \A i \in 1 .. k : ~(k + 1 <= i)
  OBVIOUS
\* It is enough to look at the pairs that end with the new equity.
<1> DEFINE Drops == peak > 0 /\ (peak - e) * of > drop * peak
    StillFound ==
      /\ b.of # 0 /\ \A i \in 1 .. k + 1 : c[i] <= b.peak
      /\ \E i \in 1 .. k + 1 : c[i] = b.peak
      /\ \A i, j \in 1 .. k : i <= j => (c[i] - c[j]) * b.of <= b.drop * c[i]
      /\ \A i \in 1 .. k : (c[i] - e) * b.of <= b.drop * c[i]
      /\ \E i, j \in 1 .. k + 1 : i <= j /\ (c[i] - c[j]) * b.of = b.drop * c[i]
<1>10. StillFound => Scanned(c, k + 1, b)
  <2> SUFFICES ASSUME StillFound PROVE Scanned(c, k + 1, b)
    OBVIOUS
  <2>1. (e - e) * b.of <= b.drop * e
    <3>1. PICK bo \in Nat, bd \in Nat : bo = b.of /\ bd = b.drop
      BY DEF Accs
    <3>2. (e - e) * bo = 0 /\ bd * e >= 0
      OBVIOUS
    <3>3. PICK x \in Int : x = bd * e
      OBVIOUS
    <3> QED BY <3>1, <3>2, <3>3
  <2>2. ASSUME NEW i \in 1 .. k + 1, NEW j \in 1 .. k + 1, i <= j
        PROVE  (c[i] - c[j]) * b.of <= b.drop * c[i]
    <3>1. CASE j = k + 1 /\ i = k + 1
      BY <1>2, <2>1, <3>1
    <3>2. CASE j = k + 1 /\ i # k + 1
      BY <1>2, <1>9, <3>2
    <3>3. CASE j # k + 1
      BY <1>9, <2>2, <3>3
    <3> QED BY <3>1, <3>2, <3>3
  <2> QED BY <2>2 DEF Scanned
<1>11. CASE e > peak
  <2>1. b.peak = e /\ b.drop = drop /\ b.of = of
    BY <1>5, <1>11
  <2>2. \A i \in 1 .. k + 1 : c[i] <= e
    <3>1. \A i \in 1 .. k : c[i] <= e
      BY <1>6, <1>11
    <3> QED BY <1>2, <1>9, <3>1
  <2>3. ASSUME NEW i \in 1 .. k PROVE (c[i] - e) * of <= drop * c[i]
    <3>1. PICK x \in Nat : x = c[i] /\ x <= peak
      BY <1>6
    <3>2. PICK y \in Int : y = x - e /\ y <= 0
      BY <1>11, <3>1
    <3>3. y * of <= 0 * of /\ 0 * of = 0
      BY <3>2, MulLe
    <3>4. drop * x \in Nat
      OBVIOUS
    <3>5. PICK u \in Int, v \in Nat : u = y * of /\ v = drop * x
      BY <3>4
    <3>6. u <= v
      BY <3>3, <3>5
    <3> QED BY <3>1, <3>2, <3>5, <3>6
  <2>4. b.of # 0 /\ c[k + 1] = b.peak
    BY <1>2, <2>1
  <2>5. (c[i0] - c[j0]) * b.of = b.drop * c[i0] /\ i0 <= j0 /\ i0 \in 1 .. k + 1 /\ j0 \in 1 .. k + 1
    BY <1>8, <1>9, <2>1
  <2>6. \A i, j \in 1 .. k : i <= j => (c[i] - c[j]) * b.of <= b.drop * c[i]
    BY <1>6, <2>1
  <2>7. StillFound
    BY <1>9, <2>1, <2>2, <2>3, <2>4, <2>5, <2>6
  <2> HIDE DEF StillFound
  <2> QED BY <1>2, <1>4, <1>10, <2>7
<1>12. CASE e <= peak /\ Drops
  <2>1. PICK d \in Nat : d = peak - e
    BY <1>12
  <2>2. b.peak = peak /\ b.drop = d /\ b.of = peak
    BY <1>5, <1>12, <2>1
  <2>3. \A i \in 1 .. k + 1 : c[i] <= peak
    BY <1>2, <1>6, <1>9, <1>12
  <2>4. drop * peak <= d * of /\ peak \in Nat \ {0}
    <3>1. PICK u \in Int, v \in Int : u = drop * peak /\ v = d * of
      OBVIOUS
    <3> QED BY <1>12, <2>1, <3>1
  <2>5. ASSUME NEW i \in 1 .. k, NEW j \in 1 .. k, i <= j
        PROVE  (c[i] - c[j]) * peak <= d * c[i]
    <3>1. PICK x \in Nat, s \in Int : x = c[i] /\ s = c[i] - c[j]
      <4>1. PICK x \in Nat, y \in Nat : x = c[i] /\ y = c[j]
        BY <1>6
      <4> QED BY <4>1
    <3>2. s * of <= drop * x
      BY <1>6, <2>5, <3>1
    <3>3. s * peak <= d * x
      BY <2>4, <3>2, Cut
    <3> QED BY <3>1, <3>3
  <2>6. ASSUME NEW i \in 1 .. k PROVE (c[i] - e) * peak <= d * c[i]
    BY <1>6, <2>1, FromPeak
  <2>7. (c[m] - c[k + 1]) * b.of = b.drop * c[m] /\ m <= k + 1 /\ m \in 1 .. k + 1 /\ c[m] = b.peak
    BY <1>2, <1>7, <1>9, <2>1, <2>2
  <2>8. b.of # 0
    BY <2>2, <2>4
  <2>9. \A i, j \in 1 .. k : i <= j => (c[i] - c[j]) * b.of <= b.drop * c[i]
    BY <2>2, <2>5
  <2>10. StillFound
    BY <1>9, <2>2, <2>3, <2>6, <2>7, <2>8, <2>9
  <2> HIDE DEF StillFound
  <2> QED BY <1>2, <1>4, <1>10, <2>10
<1>13. CASE e <= peak /\ ~Drops
  <2>1. PICK d \in Nat : d = peak - e
    BY <1>13
  <2>2. b.peak = peak /\ b.drop = drop /\ b.of = of
    BY <1>5, <1>13
  <2>3. \A i \in 1 .. k + 1 : c[i] <= peak
    BY <1>2, <1>6, <1>9, <1>13
  <2>4. ASSUME NEW i \in 1 .. k PROVE (c[i] - e) * of <= drop * c[i]
    <3>1. PICK x \in Nat, s \in Int : x = c[i] /\ s = x - e /\ x <= peak
      <4>1. PICK x \in Nat : x = c[i] /\ x <= peak
        BY <1>6
      <4> QED BY <4>1
    <3>2. CASE peak = 0
      <4>1. x = 0 /\ s <= 0
        BY <3>1, <3>2
      <4>2. s * of <= 0 * of /\ 0 * of = 0 /\ drop * 0 = 0
        BY <4>1, MulLe
      <4> QED BY <3>1, <4>1, <4>2
    <3>3. CASE peak # 0
      <4>1. s * peak <= d * x
        BY <2>1, <3>1, FromPeak
      <4>2. d * of <= drop * peak
        <5>1. PICK u \in Int, v \in Int : u = d * of /\ v = drop * peak
          OBVIOUS
        <5>2. peak > 0
          BY <3>3
        <5> QED BY <1>13, <2>1, <5>1, <5>2
      <4>3. s * of <= drop * x
        BY <3>3, <4>1, <4>2, Cut
      <4> QED BY <3>1, <4>3
    <3> QED BY <3>2, <3>3
  <2>5. b.of # 0 /\ c[m] = b.peak /\ m \in 1 .. k + 1
    BY <1>7, <1>9, <2>2
  <2>6. (c[i0] - c[j0]) * b.of = b.drop * c[i0] /\ i0 <= j0 /\ i0 \in 1 .. k + 1 /\ j0 \in 1 .. k + 1
    BY <1>8, <1>9, <2>2
  <2>7. \A i, j \in 1 .. k : i <= j => (c[i] - c[j]) * b.of <= b.drop * c[i]
    BY <1>6, <2>2
  <2>8. StillFound
    BY <2>2, <2>3, <2>4, <2>5, <2>6, <2>7
  <2> HIDE DEF StillFound
  <2> QED BY <1>2, <1>4, <1>10, <2>8
<1>14. Scanned(c, k + 1, b)
  <2>1. e > peak \/ e <= peak
    OBVIOUS
  <2> HIDE DEF Drops
  <2> QED BY <1>2, <1>4, <1>11, <1>12, <1>13, <2>1
<1> QED BY <1>2, <1>4, <1>14

\* On every curve that is not empty and never negative the pass finds the largest drop.
LEMMA DrawdownFound ==
  ASSUME NEW c \in Seq(Nat), c # <<>>
  PROVE  Scanned(c, Len(c), MaxDrawdown(c))
<1> DEFINE g == DrawdownRecursion(c)
           C == {k \in 1 .. Len(c) : ~Scanned(c, k, g[1 .. k])}
<1>1. Len(c) \in Nat /\ DOMAIN c = 1 .. Len(c) /\ Len(c) # 0 /\ Len(c) \in 1 .. Len(c)
  BY LenProperties, EmptySeq
<1>2. MaxDrawdown(c) = g[1 .. Len(c)]
  BY <1>1, DrawdownIs
<1>3. /\ g[1 .. 0] = AccOf(c)
      /\ \A k \in Nat : k + 1 <= Len(c) => g[1 .. k + 1] = DrawdownScan(g[1 .. k], c[k + 1])
  BY DrawdownPrefix
<1> HIDE DEF g
<1>4. SUFFICES ASSUME C # {} PROVE FALSE
  BY <1>1, <1>2
<1>5. C \in SUBSET Nat
  OBVIOUS
<1>6. PICK k \in C : \A m \in C : k <= m
  <2> HIDE DEF C
  <2> QED BY <1>4, <1>5, LeastOf
<1>7. k \in 1 .. Len(c) /\ ~Scanned(c, k, g[1 .. k])
  OBVIOUS
<1>8. CASE k = 1
  <2>1. g[1 .. 0 + 1] = DrawdownScan(g[1 .. 0], c[0 + 1])
    <3>1. 0 \in Nat /\ 0 + 1 <= Len(c)
      BY <1>1
    <3> QED BY <1>3, <3>1
  <2>2. g[1 .. 1] = DrawdownScan(AccOf(c), c[1])
    BY <1>3, <2>1
  <2> QED BY <1>7, <1>8, <2>2, ScanStarts
<1>9. CASE k # 1
  <2>1. PICK m \in Nat : k = m + 1 /\ m \in 1 .. Len(c) /\ m + 1 <= Len(c) /\ ~(k <= m)
    <3>1. k - 1 \in Nat /\ k = (k - 1) + 1 /\ k - 1 \in 1 .. Len(c) /\ (k - 1) + 1 <= Len(c) /\ ~(k <= k - 1)
      BY <1>1, <1>7, <1>9
    <3> QED BY <3>1
  <2>2. Scanned(c, m, g[1 .. m])
    BY <1>6, <2>1
  <2>3. Scanned(c, m + 1, DrawdownScan(g[1 .. m], c[m + 1]))
    BY <2>1, <2>2, ScanGoesOn
  <2> QED BY <1>3, <1>7, <2>1, <2>3
<1> QED BY <1>8, <1>9

CurveInv == curve \in Seq(Int)

LEMMA DrawdownTells == CurveInv => DrawdownIsLargest
<1> SUFFICES ASSUME curve \in Seq(Int), curve # <<>>, \A i \in DOMAIN curve : curve[i] >= 0
             PROVE  LET found == MaxDrawdown(curve)
                        drop(i, j) == (curve[i] - curve[j]) * found.of - found.drop * curve[i]
                    IN /\ \A i, j \in DOMAIN curve : i <= j => drop(i, j) <= 0
                       /\ \E i, j \in DOMAIN curve : i <= j /\ drop(i, j) = 0
  BY DEF CurveInv, DrawdownIsLargest
<1>1. /\ DOMAIN curve = 1 .. Len(curve) /\ Len(curve) \in Nat
      /\ \A i \in 1 .. Len(curve) : curve[i] \in Int
  BY LenProperties, ElementOfSeq
<1>2. curve \in Seq(Nat)
  <2>1. \A i \in 1 .. Len(curve) : curve[i] \in Nat
    BY <1>1
  <2>2. curve = [i \in 1 .. Len(curve) |-> curve[i]]
    BY <1>1
  <2>3. curve \in [1 .. Len(curve) -> Nat]
    BY <2>1, <2>2
  <2> QED BY <1>1, <2>3, SeqDef
<1>3. PICK found : found = MaxDrawdown(curve)
  OBVIOUS
<1>4. Scanned(curve, Len(curve), found)
  BY <1>2, <1>3, DrawdownFound
<1>5. PICK of \in Nat, dr \in Nat : of = found.of /\ dr = found.drop
  BY <1>4 DEF Scanned, Accs
<1>6. ASSUME NEW i \in DOMAIN curve, NEW j \in DOMAIN curve
      PROVE  /\ (curve[i] - curve[j]) * of \in Int /\ dr * curve[i] \in Int
             /\ (curve[i] - curve[j]) * of <= dr * curve[i]
                => (curve[i] - curve[j]) * of - dr * curve[i] <= 0
             /\ (curve[i] - curve[j]) * of = dr * curve[i]
                => (curve[i] - curve[j]) * of - dr * curve[i] = 0
  <2>1. PICK s \in Int, x \in Int : s = curve[i] - curve[j] /\ x = curve[i]
    BY <1>1
  <2>2. PICK u \in Int, v \in Int : u = s * of /\ v = dr * x
    OBVIOUS
  <2>3. (u <= v => u - v <= 0) /\ (u = v => u - v = 0)
    OBVIOUS
  <2> QED BY <2>1, <2>2, <2>3
<1>7. /\ \A i, j \in DOMAIN curve : i <= j => (curve[i] - curve[j]) * of <= dr * curve[i]
      /\ \E i, j \in DOMAIN curve : i <= j /\ (curve[i] - curve[j]) * of = dr * curve[i]
  BY <1>1, <1>4, <1>5 DEF Scanned
<1> QED BY <1>3, <1>5, <1>6, <1>7

-----------------------------------------------------------------------------
(* Backtest: the trades the API reports, paired one by one.                *)

Pairings == [entry : TradeRecs \cup {Nothing}, earned : Int, exits : Nat, unpaired : Nat]
NoPair == [entry |-> Nothing, earned |-> 0, exits |-> 0, unpaired |-> 0]
InPairs(s) == FoldLeft(Pair, NoPair, s)

LEMMA ResponsesArePaired == Responses = InPairs(trades)
  BY DEF Responses, InPairs, NoPair

PairedUnfold(g, s) ==
  [t \in SUBSET DOMAIN s |-> IF t = {} THEN NoPair ELSE Pair(g[t \ {Max(t)}], s[Max(t)])]

PairedRecursion(s) == CHOOSE g : g = PairedUnfold(g, s)

LEMMA InPairsIs == \A s : InPairs(s) = PairedRecursion(s)[DOMAIN s]
  BY DEF InPairs, PairedRecursion, PairedUnfold, FoldLeft, MapThenFoldSet

LEMMA NoTradeIsNothing == Nothing \notin TradeRecs
<1>1. \A t \in TradeRecs : t \in [side : {"buy", "sell"}, quantity : Nat, factors : SUBSET FactorNames,
                                  price : Nat, commission : Nat, signal : Nat, bar : Nat]
  BY PricesAssumption DEF TradeRecs
<1> QED BY <1>1, ConfigAssumption

\* The three cases of one trade.
LEMMA PairIs ==
  ASSUME NEW a \in Pairings, NEW t \in TradeRecs
  PROVE  /\ Pair(a, t) \in Pairings
         /\ t.side = "buy" =>
              /\ Pair(a, t).entry = t /\ Pair(a, t).earned = a.earned
              /\ Pair(a, t).unpaired = a.unpaired
         /\ t.side = "sell" /\ a.entry # Nothing =>
              /\ Pair(a, t).entry = Nothing /\ Pair(a, t).unpaired = a.unpaired
              /\ Pair(a, t).earned = a.earned + (t.price - a.entry.price) * t.quantity
                                     - t.commission - a.entry.commission
<1>1. /\ a.entry \in TradeRecs \cup {Nothing} /\ a.earned \in Int /\ a.exits \in Nat /\ a.unpaired \in Nat
  BY DEF Pairings
<1>2. t.price \in Nat /\ t.commission \in Nat /\ t.quantity \in Nat /\ t.side \in {"buy", "sell"}
  BY RecIs DEF TradeRecs
<1>3. CASE t.side = "buy"
  <2>1. Pair(a, t) = [a EXCEPT !.entry = t]
    BY <1>3 DEF Pair
  <2>2. t.side # "sell"
    BY <1>3
  <2> QED BY <1>1, <2>1, <2>2 DEF Pairings
<1>4. CASE t.side = "sell" /\ a.entry = Nothing
  <2>1. Pair(a, t) = [a EXCEPT !.unpaired = @ + 1]
    BY <1>4 DEF Pair
  <2>2. t.side # "buy"
    BY <1>4
  <2> QED BY <1>1, <1>4, <2>1, <2>2 DEF Pairings
<1>5. CASE t.side = "sell" /\ a.entry # Nothing
  <2>1. a.entry \in TradeRecs
    BY <1>1, <1>5
  <2>2. a.entry.price \in Nat /\ a.entry.commission \in Nat
    BY <2>1, RecIs
  <2>3. PICK x \in Int : x = a.earned + (t.price - a.entry.price) * t.quantity
                             - t.commission - a.entry.commission
    <3>1. PICK d \in Int, q \in Nat : d = t.price - a.entry.price /\ q = t.quantity
      BY <1>2, <2>2
    <3>2. PICK m \in Int : m = d * q
      OBVIOUS
    <3> QED BY <1>1, <1>2, <2>2, <3>1, <3>2
  <2>4. PICK n \in Nat : n = a.exits + 1
    BY <1>1
  <2>5. Pair(a, t) = [a EXCEPT !.entry = Nothing, !.exits = n, !.earned = x]
    BY <1>5, <2>3, <2>4 DEF Pair
  <2>6. /\ [a EXCEPT !.entry = Nothing, !.exits = n, !.earned = x] \in Pairings
        /\ [a EXCEPT !.entry = Nothing, !.exits = n, !.earned = x].entry = Nothing
        /\ [a EXCEPT !.entry = Nothing, !.exits = n, !.earned = x].unpaired = a.unpaired
        /\ [a EXCEPT !.entry = Nothing, !.exits = n, !.earned = x].earned = x
    BY <1>1 DEF Pairings
  <2>7. t.side # "buy"
    BY <1>5
  <2> QED BY <2>3, <2>5, <2>6, <2>7
<1> QED BY <1>2, <1>3, <1>4, <1>5

LEMMA NoPairIs ==
  NoPair \in Pairings /\ NoPair.entry = Nothing /\ NoPair.earned = 0 /\ NoPair.unpaired = 0
  BY DEF NoPair, Pairings

LEMMA PairedExists ==
  ASSUME NEW s \in Seq(TradeRecs)
  PROVE  \E g \in [SUBSET (1 .. Len(s)) -> Pairings] : g = PairedUnfold(g, s)
<1> DEFINE f == [p \in Pairings \X TradeRecs |-> Pair(p[1], p[2])]
<1>0. DOMAIN s = 1 .. Len(s) /\ Len(s) \in Nat /\ \A i \in 1 .. Len(s) : s[i] \in TradeRecs
  BY LenProperties, ElementOfSeq
<1>1. f \in [Pairings \X TradeRecs -> Pairings]
  BY PairIs
<1>2. \A a \in Pairings, t \in TradeRecs : f[a, t] = Pair(a, t)
  OBVIOUS
<1> HIDE DEF f
<1>3. PICK g \in [SUBSET (1 .. Len(s)) -> Pairings] :
        \A t \in SUBSET (1 .. Len(s)) : FoldStep(f, NoPair, s, g, t)
  BY <1>1, NoPairIs, FoldExists
<1>4. ASSUME NEW t \in SUBSET (1 .. Len(s))
      PROVE  g[t] = IF t = {} THEN NoPair ELSE Pair(g[t \ {Max(t)}], s[Max(t)])
  <2>1. FoldStep(f, NoPair, s, g, t)
    BY <1>3
  <2>2. CASE t = {}
    BY <2>1, <2>2 DEF FoldStep
  <2>3. CASE t # {}
    <3>1. Max(t) \in 1 .. Len(s)
      BY <1>0, <2>3, PrefixMax
    <3>2. s[Max(t)] \in TradeRecs /\ g[t \ {Max(t)}] \in Pairings
      BY <1>0, <3>1
    <3> QED BY <1>2, <2>1, <2>3, <3>2 DEF FoldStep
  <2> QED BY <2>2, <2>3
<1>5. g = [t \in SUBSET (1 .. Len(s)) |-> g[t]]
  OBVIOUS
<1>6. g = PairedUnfold(g, s)
  BY <1>0, <1>4, <1>5 DEF PairedUnfold
<1> QED BY <1>6

\* The recursion on a prefix of the trades.
LEMMA PairedPrefix ==
  ASSUME NEW s \in Seq(TradeRecs)
  PROVE  /\ PairedRecursion(s)[1 .. 0] = NoPair
         /\ \A k \in Nat : k + 1 <= Len(s) =>
              PairedRecursion(s)[1 .. k + 1] = Pair(PairedRecursion(s)[1 .. k], s[k + 1])
<1> DEFINE g == PairedRecursion(s)
<1>0. DOMAIN s = 1 .. Len(s) /\ Len(s) \in Nat
  BY LenProperties
<1>1. g = PairedUnfold(g, s)
  BY PairedExists DEF PairedRecursion
<1> HIDE DEF g
<1>2. \A t \in SUBSET (1 .. Len(s)) :
        g[t] = IF t = {} THEN NoPair ELSE Pair(g[t \ {Max(t)}], s[Max(t)])
  BY <1>0, <1>1 DEF PairedUnfold
<1>3. 1 .. 0 = {} /\ {} \in SUBSET (1 .. Len(s))
  OBVIOUS
<1>4. ASSUME NEW k \in Nat, k + 1 <= Len(s)
      PROVE  g[1 .. k + 1] = Pair(g[1 .. k], s[k + 1])
  <2>1. 1 .. k + 1 \in SUBSET (1 .. Len(s))
    BY <1>0, <1>4
  <2>2. Max(1 .. k + 1) = k + 1 /\ (1 .. k + 1) \ {k + 1} = 1 .. k /\ 1 .. k + 1 # {}
    BY WholeMax
  <2> QED BY <1>2, <2>1, <2>2
<1> QED BY <1>2, <1>3, <1>4 DEF g

LEMMA PairedOfNone == InPairs(<<>>) = NoPair
<1>1. <<>> \in Seq(TradeRecs) /\ DOMAIN <<>> = {} /\ 1 .. 0 = {}
  OBVIOUS
<1>2. PairedRecursion(<<>>)[1 .. 0] = NoPair
  BY <1>1, PairedPrefix
<1> QED BY <1>1, <1>2, InPairsIs

\* One more trade is one more step, from a pairing.
LEMMA PairedAppend ==
  ASSUME NEW s \in Seq(TradeRecs), NEW t \in TradeRecs
  PROVE  InPairs(s) \in Pairings /\ InPairs(Append(s, t)) = Pair(InPairs(s), t)
<1> DEFINE more == Append(s, t)
           n == Len(s)
           g == PairedRecursion(s)
           h == PairedRecursion(more)
<1>0. n \in Nat /\ DOMAIN s = 1 .. n
  BY LenProperties
<1>1. /\ more \in Seq(TradeRecs) /\ Len(more) = n + 1 /\ more[n + 1] = t
      /\ \A i \in 1 .. n : more[i] = s[i]
  BY AppendProperties
<1>2. DOMAIN more = 1 .. n + 1
  BY <1>1, LenProperties
<1>3. /\ g[1 .. 0] = NoPair
      /\ \A k \in Nat : k + 1 <= n => g[1 .. k + 1] = Pair(g[1 .. k], s[k + 1])
  BY PairedPrefix
<1>4. /\ h[1 .. 0] = NoPair
      /\ \A k \in Nat : k + 1 <= n + 1 => h[1 .. k + 1] = Pair(h[1 .. k], more[k + 1])
  <2> HIDE DEF more
  <2>1. /\ h[1 .. 0] = NoPair
        /\ \A k \in Nat : k + 1 <= Len(more) => h[1 .. k + 1] = Pair(h[1 .. k], more[k + 1])
    BY <1>1, PairedPrefix
  <2> QED BY <1>1, <2>1
<1>5. \A i \in 1 .. n : s[i] \in TradeRecs
  BY ElementOfSeq
<1> HIDE DEF g, h, more, n
<1>6. g[1 .. n] = h[1 .. n] /\ g[1 .. n] \in Pairings
  <2> DEFINE C == {k \in 0 .. n : ~(g[1 .. k] = h[1 .. k] /\ g[1 .. k] \in Pairings)}
  <2>1. SUFFICES ASSUME C # {} PROVE FALSE
    BY <1>0
  <2>2. C \in SUBSET Nat
    BY <1>0
  <2>3. PICK k \in C : \A m \in C : k <= m
    <3> HIDE DEF C
    <3> QED BY <2>1, <2>2, LeastOf
  <2>4. k \in 0 .. n /\ k # 0
    BY <1>0, <1>3, <1>4, NoPairIs
  <2>5. PICK m \in Nat : k = m + 1 /\ m \in 0 .. n /\ m + 1 <= n /\ m + 1 \in 1 .. n
    <3>1. k - 1 \in Nat /\ k = (k - 1) + 1 /\ k - 1 \in 0 .. n /\ (k - 1) + 1 <= n /\ (k - 1) + 1 \in 1 .. n
      BY <1>0, <2>4
    <3> QED BY <3>1
  <2>6. g[1 .. m] = h[1 .. m] /\ g[1 .. m] \in Pairings
    BY <2>3, <2>5
  <2>7. more[m + 1] = s[m + 1] /\ s[m + 1] \in TradeRecs
    BY <1>0, <1>1, <1>5, <2>5
  <2>8. g[1 .. m + 1] = Pair(g[1 .. m], s[m + 1]) /\ h[1 .. m + 1] = Pair(h[1 .. m], more[m + 1])
    BY <1>0, <1>3, <1>4, <2>5
  <2>9. g[1 .. m + 1] = h[1 .. m + 1] /\ g[1 .. m + 1] \in Pairings
    BY <2>6, <2>7, <2>8, PairIs
  <2> QED BY <2>3, <2>5, <2>9
<1>7. h[1 .. n + 1] = Pair(g[1 .. n], t)
  BY <1>0, <1>1, <1>4, <1>6
<1>8. InPairs(s) = g[1 .. n] /\ InPairs(more) = h[1 .. n + 1]
  BY <1>0, <1>2, InPairsIs DEF g, h
<1> QED BY <1>6, <1>7, <1>8 DEF more

\* Where the trades are round trips, they come in pairs that leave nothing.
RoundsInv ==
  /\ \A i \in DOMAIN trades : trades[i].commission = Commission * trades[i].quantity
  /\ RoundTrips =>
       /\ InPairs(trades).earned = realised /\ InPairs(trades).unpaired = 0
       /\ IF Len(trades) % 2 = 1
          THEN /\ InPairs(trades).entry = trades[Len(trades)]
               /\ qty = trades[Len(trades)].quantity /\ avg = trades[Len(trades)].price
          ELSE InPairs(trades).entry = Nothing /\ qty = 0

\* One more trade that leaves the trades round trips.
LEMMA RoundsGoOn ==
  ASSUME NEW t \in TradeRecs, trades \in Seq(TradeRecs), trades' = Append(trades, t),
         t.commission = Commission * t.quantity,
         \A i \in DOMAIN trades : trades[i].commission = Commission * trades[i].quantity
  PROVE  /\ trades' \in Seq(TradeRecs) /\ Len(trades) \in Nat /\ Len(trades') = Len(trades) + 1
         /\ trades'[Len(trades')] = t
         /\ \A i \in DOMAIN trades' : trades'[i].commission = Commission * trades'[i].quantity
         /\ RoundTrips' =>
              /\ RoundTrips
              /\ IF Len(trades) % 2 = 0 THEN t.side = "buy"
                 ELSE t.side = "sell" /\ Len(trades) \in DOMAIN trades
                      /\ t.quantity = trades[Len(trades)].quantity
<1>1. PICK n \in Nat : n = Len(trades) /\ DOMAIN trades = 1 .. n
  BY LenProperties
<1>2. /\ trades' \in Seq(TradeRecs) /\ Len(trades') = n + 1 /\ DOMAIN trades' = 1 .. n + 1
      /\ trades'[n + 1] = t /\ \A i \in 1 .. n : trades'[i] = trades[i]
  BY <1>1, AppendProperties
<1>3. \A i \in 1 .. n + 1 : i = n + 1 \/ i \in 1 .. n
  OBVIOUS
<1>4. \A i \in DOMAIN trades' : trades'[i].commission = Commission * trades'[i].quantity
  BY <1>1, <1>2, <1>3
<1>5. ASSUME RoundTrips' PROVE RoundTrips
  <2>1. \A i \in 1 .. n + 1 : IF i % 2 = 1 THEN trades'[i].side = "buy"
                              ELSE trades'[i].side = "sell" /\ trades'[i].quantity = trades'[i - 1].quantity
    BY <1>2, <1>5 DEF RoundTrips
  <2>2. ASSUME NEW i \in 1 .. n
        PROVE  IF i % 2 = 1 THEN trades[i].side = "buy"
               ELSE trades[i].side = "sell" /\ trades[i].quantity = trades[i - 1].quantity
    <3>1. i \in 1 .. n + 1 /\ trades'[i] = trades[i]
      BY <1>2
    <3>2. i % 2 # 1 => i - 1 \in 1 .. n
      OBVIOUS
    <3>3. i % 2 # 1 => trades'[i - 1] = trades[i - 1]
      BY <1>2, <3>2
    <3> QED BY <2>1, <3>1, <3>3
  <2> QED BY <1>1, <2>2 DEF RoundTrips
<1>6. ASSUME RoundTrips'
      PROVE  IF n % 2 = 0 THEN t.side = "buy"
             ELSE t.side = "sell" /\ n \in 1 .. n /\ t.quantity = trades[n].quantity
  <2>1. n + 1 \in 1 .. n + 1
    OBVIOUS
  <2>2. IF (n + 1) % 2 = 1 THEN trades'[n + 1].side = "buy"
        ELSE trades'[n + 1].side = "sell" /\ trades'[n + 1].quantity = trades'[(n + 1) - 1].quantity
    BY <1>2, <1>6, <2>1 DEF RoundTrips
  <2>3. (n + 1) - 1 = n /\ (n % 2 = 0 => (n + 1) % 2 = 1)
        /\ (n % 2 # 0 => (n + 1) % 2 # 1 /\ n \in 1 .. n)
    OBVIOUS
  <2>4. n % 2 # 0 => trades'[n] = trades[n]
    BY <1>2, <2>3
  <2> QED BY <1>2, <2>2, <2>3, <2>4
<1> QED BY <1>1, <1>2, <1>4, <1>5, <1>6

LEMMA RoundsBought ==
  ASSUME TimingInv, BooksInv, RoundsInv, NEW open \in Opens, FillBuy(open)
  PROVE  RoundsInv'
<1>1. PICK t \in TradeRecs :
        t = TradeOf(open) /\ t.commission = Commission * t.quantity /\ t.side = "buy"
  BY TradeIs DEF FillBuy
<1>2. PICK p \in Nat, q \in Nat \ {0} : p = t.price /\ q = t.quantity
  BY RecIs
<1>3. /\ trades' = Append(trades, t) /\ qty' = qty + q /\ realised' = realised
      /\ avg' = (qty * avg + p * q) \div (qty + q)
  BY <1>1, <1>2 DEF FillBuy, Bought, Filled, Average
<1>4. trades \in Seq(TradeRecs) /\ avg \in Nat /\ qty \in Nat
  BY DEF TimingInv, TradesTimely, BooksInv
<1>5. PICK n \in Nat :
        /\ n = Len(trades) /\ Len(trades') = n + 1 /\ trades'[n + 1] = t
        /\ \A i \in DOMAIN trades' : trades'[i].commission = Commission * trades'[i].quantity
        /\ RoundTrips' => RoundTrips /\ IF n % 2 = 0 THEN t.side = "buy" ELSE t.side = "sell"
  BY <1>1, <1>3, <1>4, RoundsGoOn DEF RoundsInv
<1>6. ASSUME RoundTrips'
      PROVE  /\ InPairs(trades').earned = realised' /\ InPairs(trades').unpaired = 0
             /\ InPairs(trades').entry = t /\ qty' = t.quantity /\ avg' = t.price
             /\ (n + 1) % 2 = 1
  <2>1. RoundTrips /\ n % 2 = 0 /\ n % 2 # 1 /\ (n + 1) % 2 = 1
    <3>1. RoundTrips /\ n % 2 = 0
      BY <1>1, <1>5, <1>6
    <3>2. (n + 1) % 2 = 1
      BY <3>1
    <3> QED BY <3>1, <3>2
  <2>2. InPairs(trades).earned = realised /\ InPairs(trades).unpaired = 0 /\ qty = 0
    BY <1>5, <2>1 DEF RoundsInv
  <2>3. InPairs(trades) \in Pairings /\ InPairs(trades') = Pair(InPairs(trades), t)
    BY <1>3, <1>4, PairedAppend
  <2>4. InPairs(trades').entry = t /\ InPairs(trades').earned = InPairs(trades).earned
        /\ InPairs(trades').unpaired = InPairs(trades).unpaired
    BY <1>1, <2>3, PairIs
  <2>5. avg' = p
    <3>1. 0 * avg + p * q = p * q /\ 0 + q = q
      BY <1>4
    <3>2. (p * q) \div q = p
      BY DivExact
    <3> QED BY <1>3, <2>2, <3>1, <3>2
  <2> QED BY <1>2, <1>3, <2>1, <2>2, <2>4, <2>5
<1> QED BY <1>5, <1>6 DEF RoundsInv

LEMMA RoundsSold ==
  ASSUME TimingInv, BooksInv, RoundsInv, NEW open \in Opens, FillSell(open)
  PROVE  RoundsInv'
<1>0. PICK t \in TradeRecs, p \in Nat, q \in Nat \ {0}, k \in Nat, m \in Int : Sale(t, p, q, k, m)
  BY SaleIs
<1>1. /\ t.side = "sell" /\ t.price = p /\ t.quantity = q /\ t.commission = k
      /\ k = Commission * q /\ m = (p - avg) * q /\ qty' = qty - q
      /\ realised' = realised + (m - k - k) /\ trades' = Append(trades, t)
  BY <1>0 DEF Sale
<1>2. trades \in Seq(TradeRecs) /\ avg \in Nat /\ qty \in Nat /\ realised \in Int
  BY DEF TimingInv, TradesTimely, BooksInv
<1>3. PICK n \in Nat :
        /\ n = Len(trades) /\ Len(trades') = n + 1
        /\ \A i \in DOMAIN trades' : trades'[i].commission = Commission * trades'[i].quantity
        /\ RoundTrips' => /\ RoundTrips
                          /\ IF n % 2 = 0 THEN t.side = "buy"
                             ELSE t.side = "sell" /\ n \in DOMAIN trades /\ t.quantity = trades[n].quantity
  BY <1>1, <1>2, RoundsGoOn DEF RoundsInv
<1>4. ASSUME RoundTrips'
      PROVE  /\ InPairs(trades').earned = realised' /\ InPairs(trades').unpaired = 0
             /\ InPairs(trades').entry = Nothing /\ qty' = 0 /\ (n + 1) % 2 # 1
  <2>1. RoundTrips /\ n % 2 # 0 /\ n \in DOMAIN trades /\ q = trades[n].quantity
    BY <1>1, <1>3, <1>4
  <2>2. n % 2 = 1 /\ (n + 1) % 2 # 1
    BY <2>1
  <2>3. /\ InPairs(trades).earned = realised /\ InPairs(trades).unpaired = 0
        /\ InPairs(trades).entry = trades[n] /\ qty = q /\ avg = trades[n].price
    BY <1>3, <2>1, <2>2 DEF RoundsInv
  <2>4. trades[n] \in TradeRecs /\ trades[n] # Nothing /\ trades[n].commission = k
    <3>1. trades[n] \in TradeRecs
      BY <1>2, <2>1, ElementOfSeq, LenProperties
    <3>2. trades[n].commission = Commission * trades[n].quantity
      BY <2>1 DEF RoundsInv
    <3> QED BY <1>1, <2>1, <3>1, <3>2, NoTradeIsNothing
  <2>5. InPairs(trades) \in Pairings /\ InPairs(trades') = Pair(InPairs(trades), t)
    BY <1>1, <1>2, PairedAppend
  <2>9. PICK a \in Pairings : a = InPairs(trades)
    BY <2>5
  <2>10. a.entry = trades[n] /\ a.entry # Nothing
    BY <2>3, <2>4, <2>9
  <2>11. /\ Pair(a, t).entry = Nothing /\ Pair(a, t).unpaired = a.unpaired
         /\ Pair(a, t).earned = a.earned + (t.price - a.entry.price) * t.quantity
                                - t.commission - a.entry.commission
    BY <1>1, <2>10, PairIs
  <2>12. Pair(a, t) = InPairs(trades')
    BY <2>5, <2>9
  <2>6. /\ InPairs(trades').entry = Nothing /\ InPairs(trades').unpaired = a.unpaired
        /\ InPairs(trades').earned = a.earned + (p - avg) * q - k - k
    <3>1. a.entry.price = avg /\ a.entry.commission = k
      BY <2>3, <2>4, <2>10
    <3> QED BY <1>1, <2>11, <2>12, <3>1
  <2>13. a.earned = realised /\ a.unpaired = 0
    BY <2>3, <2>9
  <2>7. InPairs(trades').earned = realised + m - k - k
    BY <1>1, <1>2, <2>6, <2>13
  <2>8. qty - q = 0
    BY <1>2, <2>3
  <2> QED BY <1>1, <1>2, <2>2, <2>6, <2>7, <2>8, <2>13
<1> QED BY <1>3, <1>4 DEF RoundsInv

LEMMA RoundsHold == TimingInv /\ BooksInv /\ RoundsInv /\ [BacktestNext]_backtestvars => RoundsInv'
<1> SUFFICES ASSUME TimingInv, BooksInv, RoundsInv, [BacktestNext]_backtestvars PROVE RoundsInv'
  OBVIOUS
<1>1. CASE UNCHANGED <<trades, qty, avg, realised>>
  BY <1>1 DEF RoundsInv, RoundTrips
<1>2. ASSUME NEW open \in Opens, Refuse(open) PROVE RoundsInv'
  BY <1>1, <1>2 DEF Refuse, records, portfolio
<1>3. CASE NoFill
  BY <1>1, <1>3 DEF NoFill, records, portfolio
<1>4. ASSUME NEW close \in Closes, EndBar(close) PROVE RoundsInv'
  BY <1>1, <1>4 DEF EndBar, portfolio
<1>5. ASSUME NEW close \in Closes, NEW quantity \in Quantities,
             \/ Quiet(close)
             \/ \E factors \in FactorSets : Decide(close, "buy", quantity, factors)
             \/ Decide(close, "sell", quantity, {})
      PROVE  RoundsInv'
  BY <1>4, <1>5 DEF Quiet, Decide
<1>6. ASSUME NEW close \in Closes, Quiet(close) PROVE RoundsInv'
  BY <1>4, <1>6 DEF Quiet
<1>7. CASE Summarise
  BY <1>1, <1>7 DEF Summarise, portfolio
<1>8. CASE UNCHANGED backtestvars
  BY <1>1, <1>8 DEF backtestvars, records, portfolio
<1> QED BY <1>2, <1>3, <1>5, <1>6, <1>7, <1>8, RoundsBought, RoundsSold DEF BacktestNext

LEMMA RoundsFromInit == BacktestInit => RoundsInv
<1> SUFFICES ASSUME BacktestInit PROVE RoundsInv
  OBVIOUS
<1>1. trades = <<>> /\ qty = 0 /\ realised = 0
  BY DEF BacktestInit
<1>2. DOMAIN trades = {} /\ Len(trades) % 2 # 1
  BY <1>1
<1>3. InPairs(trades) = NoPair
  BY <1>1, PairedOfNone
<1> QED BY <1>1, <1>2, <1>3, NoPairIs DEF RoundsInv

LEMMA RoundsReported == TimingInv /\ RoundsInv => RoundTripsReported
<1> SUFFICES ASSUME TimingInv, RoundsInv, RoundTrips
             PROVE  /\ Responses.earned = realised /\ Responses.unpaired = 0
                    /\ (Responses.entry # Nothing) <=> (qty > 0)
  BY DEF RoundTripsReported
<1>1. PICK n \in Nat : n = Len(trades) /\ DOMAIN trades = 1 .. n
  BY LenProperties DEF TimingInv, TradesTimely
<1>2. CASE n % 2 = 1
  <2>1. n \in 1 .. n
    BY <1>2
  <2>2. trades[n] \in TradeRecs
    BY <1>1, <2>1, ElementOfSeq DEF TimingInv, TradesTimely
  <2>3. trades[n] # Nothing /\ trades[n].quantity > 0
    BY <2>2, NoTradeIsNothing, RecIs
  <2>4. InPairs(trades).entry = trades[n] /\ qty = trades[n].quantity
    BY <1>1, <1>2 DEF RoundsInv
  <2> QED BY <2>3, <2>4, ResponsesArePaired DEF RoundsInv
<1>3. CASE n % 2 # 1
  <2>1. InPairs(trades).entry = Nothing /\ qty = 0 /\ ~(0 > 0)
    BY <1>1, <1>3 DEF RoundsInv
  <2> QED BY <2>1, ResponsesArePaired DEF RoundsInv
<1> QED BY <1>2, <1>3

-----------------------------------------------------------------------------
(* Backtest: the theorem.                                                  *)

LEMMA CurveHolds == BooksInv /\ CurveInv /\ [BacktestNext]_backtestvars => CurveInv'
<1> SUFFICES ASSUME BooksInv, CurveInv, [BacktestNext]_backtestvars PROVE CurveInv'
  OBVIOUS
<1>1. CASE UNCHANGED curve
  BY <1>1 DEF CurveInv
<1>2. ASSUME NEW close \in Closes, EndBar(close) PROVE CurveInv'
  <2>1. Equity(close) \in Int
    <3>1. PICK x \in Int, y \in Nat : x = close /\ y = qty
      BY PricesAssumption DEF BooksInv
    <3>2. y * x \in Int
      OBVIOUS
    <3> QED BY <3>1, <3>2 DEF Equity, BooksInv
  <2>2. Append(curve, Equity(close)) \in Seq(Int)
    BY <2>1, AppendProperties DEF CurveInv
  <2> QED BY <1>2, <2>2 DEF EndBar, CurveInv
<1>3. ASSUME NEW close \in Closes, Quiet(close) PROVE CurveInv'
  BY <1>2, <1>3 DEF Quiet
<1>4. ASSUME NEW close \in Closes, NEW quantity \in Quantities,
             \/ \E factors \in FactorSets : Decide(close, "buy", quantity, factors)
             \/ Decide(close, "sell", quantity, {})
      PROVE  CurveInv'
  BY <1>2, <1>4 DEF Decide
<1>5. ASSUME NEW open \in Opens, FillBuy(open) \/ FillSell(open) \/ Refuse(open) PROVE CurveInv'
  BY <1>1, <1>5 DEF FillBuy, FillSell, Refuse, Filled
<1>6. CASE NoFill \/ Summarise \/ UNCHANGED backtestvars
  BY <1>1, <1>6 DEF NoFill, Summarise, backtestvars
<1> QED BY <1>3, <1>4, <1>5, <1>6 DEF BacktestNext

BacktestInv == TimingInv /\ BooksInv /\ MoneyInv /\ CurveInv /\ RoundsInv

LEMMA BacktestInvGives == BacktestInv => BacktestSound
<1> SUFFICES ASSUME BacktestInv PROVE BacktestSound
  OBVIOUS
<1>1. BacktestTypeOK
  BY SignalIs DEF BacktestInv, BacktestTypeOK, TimingInv, BooksInv, MoneyInv, PendingTimely
<1>2. FilledAtNextOpen
  <2>1. ASSUME NEW i \in DOMAIN trades
        PROVE  /\ trades[i].bar = FillBar(trades[i].signal)
               /\ \A j \in DOMAIN trades : trades[j].signal = trades[i].signal => j = i
    BY DEF BacktestInv, TimingInv, TradesTimely
  <2> QED BY <2>1 DEF FilledAtNextOpen, FillBar
<1>3. TracesMatch
  BY DEF BacktestInv, TimingInv, PendingTimely, TradesTimely, TracesMatch
<1>4. PositionsAgree /\ ProfitReconciles /\ AttributionAddsUp
  BY MoneyReconciles DEF BacktestInv, BooksInv
<1>5. DrawdownIsLargest /\ RoundTripsReported
  BY DrawdownTells, RoundsReported DEF BacktestInv
<1> QED BY <1>1, <1>2, <1>3, <1>4, <1>5 DEF BacktestSound

\* A backtest looks at no bar before its time and its books balance, for every length of
\* the run, every series of prices and every strategy (backtest/engine.py): orders are
\* filled at the next open and once, positions, profit and attribution agree, the drawdown
\* is the largest, and round trips are reported as they were.
THEOREM BacktestIsSound == BacktestSpec => []BacktestSound
<1>1. BacktestInit => BacktestInv
  <2>1. BacktestInit => CurveInv
    BY DEF BacktestInit, CurveInv
  <2> QED BY <2>1, TimingFromInit, BooksFromInit, MoneyFromInit, RoundsFromInit DEF BacktestInv
<1>2. BacktestInv /\ [BacktestNext]_backtestvars => BacktestInv'
  BY TimingHolds, BooksHold, MoneyHolds, CurveHolds, RoundsHold DEF BacktestInv
<1> QED BY <1>1, <1>2, BacktestInvGives, PTL DEF BacktestSpec
=============================================================================
