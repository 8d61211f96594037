----------------------------- MODULE Validation -----------------------------
(***************************************************************************)
(* WalkForwardValidator: data are cut into training, validation and test   *)
(* parts in the order of time, and the metrics of the three are judged.    *)
(* Percentages are whole; a product that is whole in exact arithmetic may  *)
(* come out one less after int(), as floats do (int(90 * 0.7) is 62).      *)
(***************************************************************************)
EXTENDS Integers, FiniteSets

CONSTANTS
  Rows,           \* lengths of data
  Percents,       \* <<train_pct, val_pct>>; the test part is the rest
  Performances,   \* values of the primary metric
  MaxDegradation, StabilityThreshold,   \* percent
  Labels          \* perturbations

\* __init__ wants each share between 0 and 1, and their sum to be 1 but for 0.01.
ASSUME ValidationAssumption ==
  /\ Rows \subseteq Nat /\ Performances \subseteq Int
  /\ Percents \subseteq {p \in (1..99) \X (1..99) : p[1] + p[2] <= 100}
  /\ MaxDegradation \in 1..100 /\ StabilityThreshold \in 1..100

VARIABLES
  cut,       \* the sizes of the last split, or <<>>
  judged,    \* the last validate_with_stability, its inputs and its results
  share      \* the percentages of the validator

vvars == <<cut, judged, share>>

MinRows == 10

BiggerOf(a, b) == IF a > b THEN a ELSE b

\* int(n * pct)
Part(n, percent) ==
  {(n * percent) \div 100} \cup
  (IF (n * percent) % 100 = 0 THEN {(n * percent) \div 100 - 1} ELSE {})

\* Faulty: the validation part may be empty.
ValEndPlain(trainEnd, end) == end

ValEnd(trainEnd, end) == BiggerOf(trainEnd + 1, end)

\* split_data, split_sequence; both raise for fewer than ten rows.
Split(n) ==
  /\ \/ n < MinRows /\ cut' = <<>>
     \/ /\ n >= MinRows
        /\ \E t \in Part(n, share[1]), v \in Part(n, share[1] + share[2]) :
             LET trainEnd == BiggerOf(1, t)
                 valEnd == ValEnd(trainEnd, v)
             IN cut' = <<n, trainEnd, BiggerOf(0, valEnd - trainEnd), BiggerOf(0, n - valEnd)>>
  /\ UNCHANGED <<judged, share>>

Abs(x) == IF x < 0 THEN -x ELSE x

\* Faulty: relative to the signed baseline.
ExceedsSigned(baseline, comparison, percent) ==
  IF baseline = 0 THEN comparison # 0
  ELSE IF baseline > 0 THEN 100 * (baseline - comparison) > percent * baseline
       ELSE 100 * (baseline - comparison) < percent * baseline

\* _calculate_degradation exceeds a percentage.  From zero, any change is a
\* degradation of 1.0.
Exceeds(baseline, comparison, percent) ==
  IF baseline = 0 THEN comparison # 0
  ELSE 100 * (baseline - comparison) > percent * Abs(baseline)

\* Faulty: only losses count as deviations.
DeviatesDown(base, perturbed) == Exceeds(base, perturbed, StabilityThreshold)

\* abs() of the degradation.
Deviates(base, perturbed) ==
  \/ Exceeds(base, perturbed, StabilityThreshold)
  \/ base # 0 /\ 100 * (perturbed - base) > StabilityThreshold * Abs(base)

\* Faulty: the test part is compared with the training part.
ReasonFromTrain(train, val, test) ==
  CASE Exceeds(train, val, MaxDegradation) -> "train-val"
    [] ~Exceeds(train, val, MaxDegradation) /\ Exceeds(train, test, MaxDegradation) -> "val-test"
    [] OTHER -> "none"

\* validate_performance: the first excess is the reason.
Reason(train, val, test) ==
  CASE Exceeds(train, val, MaxDegradation) -> "train-val"
    [] ~Exceeds(train, val, MaxDegradation) /\ Exceeds(val, test, MaxDegradation) -> "val-test"
    [] OTHER -> "none"

\* validate_with_stability; perturbed results are compared with the validation's.
Judge(train, val, test, perturbed) ==
  /\ judged' = [train |-> train, val |-> val, test |-> test, perturbed |-> perturbed,
                reason |-> Reason(train, val, test),
                unstable |-> {l \in Labels : Deviates(val, perturbed[l])}]
  /\ UNCHANGED <<cut, share>>

NotJudged == [train |-> 0, val |-> 0, test |-> 0, perturbed |-> [l \in Labels |-> 0],
              reason |-> "none", unstable |-> {}]

VInit == share \in Percents /\ cut = <<>> /\ judged = NotJudged

VNext ==
  \/ \E n \in Rows : Split(n)
  \/ \E train, val, test \in Performances, perturbed \in [Labels -> Performances] :
       Judge(train, val, test, perturbed)

VSpec == VInit /\ [][VNext]_vvars

-----------------------------------------------------------------------------
(* Properties.                                                             *)

\* Every row is in one part, and none of the three is empty where each is to have
\* a tenth of ten rows or more, whatever the floats do
\* (walk_forward.py:272-281, 320-330).
NoPartEmpty ==
  cut # <<>> =>
    /\ cut[2] + cut[3] + cut[4] = cut[1]
    /\ cut[2] >= 1 /\ cut[3] >= 1
    /\ 100 - share[1] - share[2] >= 10 => cut[4] >= 1

\* A strategy that gets no worse from one part to the next is valid, unless it
\* begins at zero; one that loses more than the threshold between two parts is
\* not, whatever the signs (walk_forward.py:352-359, 417-441).
VerdictFollowsOrder ==
  LET j == judged IN
  /\ j.train <= j.val /\ j.val <= j.test /\ j.train # 0 /\ j.val # 0 => j.reason = "none"
  /\ (\/ 100 * (j.val - j.test) > MaxDegradation * Abs(j.val)
      \/ 100 * (j.train - j.val) > MaxDegradation * Abs(j.train))
     => j.reason # "none"

\* A stable strategy stays within the threshold on both sides of its result, for
\* every perturbation (walk_forward.py:509-521).
StableMeansClose ==
  judged.unstable = {} =>
    \A l \in Labels :
      100 * Abs(judged.perturbed[l] - judged.val) <= StabilityThreshold * Abs(judged.val)

\* A walk-forward validation cuts every sample into parts that hold something, and
\* its verdicts follow the performances whatever their signs (walk_forward.py:220-521).
ValidationSound == NoPartEmpty /\ VerdictFollowsOrder /\ StableMeansClose
=============================================================================
