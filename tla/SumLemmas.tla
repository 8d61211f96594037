----------------------------- MODULE SumLemmas ------------------------------
(***************************************************************************)
(* Sums over finite sets and folds over sequences.  The modules write      *)
(* these with MapThenSumSet and FoldLeft; the lemmas say what the proofs   *)
(* need of them, in terms of the function summed or folded: an operator    *)
(* cannot be the parameter of a lemma that is cited.  Induction on the     *)
(* size of a set is done with its least counterexample.                    *)
(***************************************************************************)
EXTENDS FiniteSetsExt, FiniteSetTheorems, SequenceTheorems, TLAPS

\* The sum of f over S.
Sum(f, S) == MapThenSumSet(LAMBDA x : f[x], S)

Pick(S) == CHOOSE x \in S : TRUE

\* One unfolding of the recursion of MapThenFoldSet.
Unfold(f, g, S) ==
  [s \in SUBSET S |-> IF s = {} THEN 0 ELSE f[Pick(s)] + g[s \ {Pick(s)}]]

Recursion(f, S) == CHOOSE g : g = Unfold(f, g, S)

LEMMA SumIsRecursion ==
  ASSUME NEW f, NEW S
  PROVE  Sum(f, S) = Recursion(f, S)[S]
  BY DEF Sum, Recursion, Unfold, Pick, MapThenSumSet, MapThenFoldSet

LEMMA PickIn == \A S : S # {} => Pick(S) \in S
  BY DEF Pick

LEMMA LeastOf ==
  ASSUME NEW T \in SUBSET Nat, T # {}
  PROVE  \E n \in T : \A m \in T : n <= m
<1> DEFINE R == {p \in Nat \X Nat : p[1] < p[2]}
<1>1. IsWellFoundedOn(R, Nat)
  BY NatLessThanWellFounded DEF OpToRel
<1>2. PICK n \in T : \A m \in T : ~(<<m, n>> \in R)
  <2> HIDE DEF R
  <2> QED BY <1>1, WFMin
<1>3. ASSUME NEW m \in T PROVE n <= m
  <2>1. m \in Nat /\ n \in Nat /\ <<m, n>> \in Nat \X Nat
    OBVIOUS
  <2>2. ~(m < n)
    BY <1>2, <2>1
  <2> QED BY <2>1, <2>2
<1> QED BY <1>3

\* Among the finite sets of a collection, one has no smaller one in it.
LEMMA SmallestOf ==
  ASSUME NEW C, C # {}, \A s \in C : IsFiniteSet(s)
  PROVE  \E s \in C : \A t \in C : Cardinality(s) <= Cardinality(t)
<1> DEFINE T == {Cardinality(s) : s \in C}
<1>1. T \in SUBSET Nat /\ T # {}
  BY FS_CardinalityType
<1>2. PICK n \in T : \A m \in T : n <= m
  <2> HIDE DEF T
  <2> QED BY <1>1, LeastOf
<1> QED BY <1>2

LEMMA SmallerSets ==
  ASSUME NEW S, IsFiniteSet(S), NEW x \in S
  PROVE  /\ IsFiniteSet(S \ {x})
         /\ Cardinality(S \ {x}) = Cardinality(S) - 1
         /\ Cardinality(S) \in Nat /\ Cardinality(S \ {x}) \in Nat
         /\ ~(Cardinality(S) <= Cardinality(S \ {x}))
<1>1. /\ IsFiniteSet(S \ {x})
      /\ Cardinality(S \ {x}) = Cardinality(S) - 1
  BY FS_RemoveElement
<1>2. Cardinality(S) \in Nat /\ Cardinality(S \ {x}) \in Nat
  BY <1>1, FS_CardinalityType
<1> QED BY <1>1, <1>2

\* Two unfoldings agree wherever both are defined.
LEMMA Agreement ==
  ASSUME NEW f, NEW S, IsFiniteSet(S), NEW T, IsFiniteSet(T),
         NEW g, g = Unfold(f, g, S), NEW h, h = Unfold(f, h, T)
  PROVE  \A s \in SUBSET (S \cap T) : g[s] = h[s]
<1> DEFINE C == {s \in SUBSET (S \cap T) : g[s] # h[s]}
<1>1. SUFFICES C = {}
  OBVIOUS
<1>2. SUFFICES ASSUME C # {} PROVE FALSE
  OBVIOUS
<1>3. \A s \in SUBSET (S \cap T) : IsFiniteSet(s)
  BY FS_Subset
<1>4. PICK s \in C : \A t \in C : Cardinality(s) <= Cardinality(t)
  BY <1>2, <1>3, SmallestOf
<1>5. s \in SUBSET S /\ s \in SUBSET T /\ g[s] # h[s]
  OBVIOUS
<1>6. /\ g[s] = IF s = {} THEN 0 ELSE f[Pick(s)] + g[s \ {Pick(s)}]
      /\ h[s] = IF s = {} THEN 0 ELSE f[Pick(s)] + h[s \ {Pick(s)}]
  BY <1>5 DEF Unfold
<1>7. s # {} /\ g[s \ {Pick(s)}] # h[s \ {Pick(s)}]
  BY <1>5, <1>6
<1>8. s \ {Pick(s)} \in C
  BY <1>7
<1>9. ~(Cardinality(s) <= Cardinality(s \ {Pick(s)}))
  BY <1>3, <1>7, PickIn, SmallerSets
<1> QED BY <1>4, <1>8, <1>9

\* The recursion is well-founded: it has a solution on every finite set.
LEMMA Existence ==
  ASSUME NEW f, NEW S, IsFiniteSet(S)
  PROVE  Recursion(f, S) = Unfold(f, Recursion(f, S), S)
<1> DEFINE Solved(s) == Recursion(f, s) = Unfold(f, Recursion(f, s), s)
           C == {s \in SUBSET S : ~Solved(s)}
<1> HIDE DEF Solved
<1>1. SUFFICES ASSUME C # {} PROVE FALSE
  BY DEF Solved
<1>2. \A s \in SUBSET S : IsFiniteSet(s)
  BY FS_Subset
<1>3. PICK s \in C : \A t \in C : Cardinality(s) <= Cardinality(t)
  BY <1>1, <1>2, SmallestOf
<1>4. ASSUME NEW t \in SUBSET s, t # s PROVE Solved(t)
  <2>1. IsFiniteSet(s) /\ t \in SUBSET S
    BY <1>2
  <2>2. Cardinality(t) <= Cardinality(s) /\ Cardinality(s) # Cardinality(t)
    BY <1>4, <2>1, FS_Subset
  <2>3. Cardinality(t) \in Nat /\ Cardinality(s) \in Nat
    BY <1>2, <2>1, FS_CardinalityType
  <2>4. ~(Cardinality(s) <= Cardinality(t))
    BY <2>2, <2>3
  <2> QED BY <1>3, <2>1, <2>4
<1> DEFINE below(t) == Recursion(f, t \ {Pick(t)})[t \ {Pick(t)}]
           g == [t \in SUBSET s |-> IF t = {} THEN 0 ELSE f[Pick(t)] + below(t)]
<1>5. ASSUME NEW t \in SUBSET s, t # {} PROVE g[t \ {Pick(t)}] = below(t)
  <2> DEFINE u == t \ {Pick(t)}
  <2>1. u \in SUBSET s /\ u # s /\ IsFiniteSet(u)
    BY <1>2, <1>5, PickIn
  <2>2. Solved(u)
    BY <1>4, <2>1
  <2>3. CASE u = {}
    <3>1. g[u] = 0
      BY <2>1, <2>3
    <3>2. Recursion(f, u)[u] = 0
      BY <2>2, <2>3 DEF Solved, Unfold
    <3> QED BY <3>1, <3>2
  <2>4. CASE u # {}
    <3> DEFINE v == u \ {Pick(u)}
    <3>1. v \in SUBSET u /\ v # u /\ v \in SUBSET s /\ v # s /\ IsFiniteSet(v)
      BY <1>2, <2>1, <2>4, PickIn
    <3>2. Solved(v)
      BY <1>4, <3>1
    <3>3. Recursion(f, u)[v] = Recursion(f, v)[v]
      <4>1. v \in SUBSET (u \cap v)
        BY <3>1
      <4> QED BY <2>1, <2>2, <3>1, <3>2, <4>1, Agreement DEF Solved
    <3>4. Recursion(f, u)[u] = f[Pick(u)] + Recursion(f, u)[v]
      <4> HIDE DEF u
      <4>1. u \in SUBSET u
        OBVIOUS
      <4> QED BY <2>2, <2>4, <4>1 DEF Solved, Unfold
    <3>5. g[u] = f[Pick(u)] + Recursion(f, v)[v]
      <4> HIDE DEF u
      <4> QED BY <2>1, <2>4
    <3> QED BY <3>3, <3>4, <3>5
  <2> QED BY <2>3, <2>4
<1>6. g = Unfold(f, g, s)
  <2> HIDE DEF below
  <2>1. \A t \in SUBSET s : g[t] = IF t = {} THEN 0 ELSE f[Pick(t)] + g[t \ {Pick(t)}]
    BY <1>5
  <2>2. g = [t \in SUBSET s |-> g[t]]
    OBVIOUS
  <2> HIDE DEF g
  <2> QED BY <2>1, <2>2 DEF Unfold
<1>7. Solved(s)
  BY <1>6 DEF Solved, Recursion
<1> QED BY <1>3, <1>7
-----------------------------------------------------------------------------
(* What the proofs use.                                                    *)

LEMMA SumEmpty == \A f : Sum(f, {}) = 0
<1> TAKE f
<1>1. Recursion(f, {}) = Unfold(f, Recursion(f, {}), {})
  BY Existence, FS_EmptySet
<1> QED BY <1>1, SumIsRecursion DEF Unfold

LEMMA SumPicked ==
  ASSUME NEW f, NEW S, IsFiniteSet(S), S # {}
  PROVE  Sum(f, S) = f[Pick(S)] + Sum(f, S \ {Pick(S)})
<1> DEFINE T == S \ {Pick(S)}
<1>1. IsFiniteSet(T) /\ T \in SUBSET S /\ T \in SUBSET (S \cap T) /\ S \in SUBSET S
  BY FS_Subset
<1>2. /\ Recursion(f, S) = Unfold(f, Recursion(f, S), S)
      /\ Recursion(f, T) = Unfold(f, Recursion(f, T), T)
  BY <1>1, Existence
<1>3. Recursion(f, S)[T] = Recursion(f, T)[T]
  <2> HIDE DEF T
  <2> QED BY <1>1, <1>2, Agreement
<1>4. Recursion(f, S)[S] = f[Pick(S)] + Recursion(f, S)[T]
  BY <1>1, <1>2 DEF Unfold
<1> QED BY <1>3, <1>4, SumIsRecursion

LEMMA SumType ==
  ASSUME NEW f, NEW S, IsFiniteSet(S), \A x \in S : f[x] \in Int
  PROVE  Sum(f, S) \in Int
<1> DEFINE C == {s \in SUBSET S : Sum(f, s) \notin Int}
<1>1. SUFFICES ASSUME C # {} PROVE FALSE
  OBVIOUS
<1>2. \A s \in SUBSET S : IsFiniteSet(s)
  BY FS_Subset
<1>3. PICK s \in C : \A t \in C : Cardinality(s) <= Cardinality(t)
  BY <1>1, <1>2, SmallestOf
<1>4. s # {}
  BY SumEmpty
<1> DEFINE p == Pick(s)
<1>5. p \in s /\ f[p] \in Int /\ s \ {p} \in SUBSET S /\ IsFiniteSet(s)
  BY <1>2, <1>4, PickIn
<1>6. Sum(f, s) = f[p] + Sum(f, s \ {p})
  BY <1>4, <1>5, SumPicked
<1>7. s \ {p} \in C
  BY <1>5, <1>6
<1>8. ~(Cardinality(s) <= Cardinality(s \ {p}))
  <2> HIDE DEF p
  <2> QED BY <1>5, SmallerSets
<1> QED BY <1>3, <1>7, <1>8

\* The order in which the elements are picked does not matter.
LEMMA SumRemove ==
  ASSUME NEW f, NEW S, IsFiniteSet(S), \A x \in S : f[x] \in Int
  PROVE  \A x \in S : Sum(f, S) = f[x] + Sum(f, S \ {x})
<1> DEFINE Bad(s) == \E x \in s : Sum(f, s) # f[x] + Sum(f, s \ {x})
           C == {s \in SUBSET S : Bad(s)}
<1>1. SUFFICES ASSUME C # {} PROVE FALSE
  <2>1. S \in SUBSET S
    OBVIOUS
  <2> QED BY <2>1
<1>2. \A s \in SUBSET S : IsFiniteSet(s)
  BY FS_Subset
<1>3. PICK s \in C : \A t \in C : Cardinality(s) <= Cardinality(t)
  <2>1. \A t \in C : IsFiniteSet(t)
    BY <1>2
  <2> HIDE DEF C
  <2> QED BY <1>1, <2>1, SmallestOf
<1>4. PICK x \in s : Sum(f, s) # f[x] + Sum(f, s \ {x})
  OBVIOUS
<1> DEFINE p == Pick(s)
<1>5. s \in SUBSET S /\ IsFiniteSet(s) /\ p \in s
  BY <1>2, <1>4, PickIn
<1>6. Sum(f, s) = f[p] + Sum(f, s \ {p})
  BY <1>5, SumPicked
<1>7. x # p
  BY <1>4, <1>6
<1> HIDE DEF p
<1>8. ASSUME NEW y \in s, NEW z \in s, y # z
      PROVE  Sum(f, s \ {y}) = f[z] + Sum(f, s \ {y, z})
  <2>1. ~(Cardinality(s) <= Cardinality(s \ {y}))
    BY <1>5, SmallerSets
  <2>2. s \ {y} \notin C /\ s \ {y} \in SUBSET S
    BY <1>3, <1>5, <2>1
  <2>3. z \in s \ {y} /\ (s \ {y}) \ {z} = s \ {y, z}
    BY <1>8
  <2> QED BY <2>2, <2>3
<1>9. /\ Sum(f, s \ {p}) = f[x] + Sum(f, s \ {p, x})
      /\ Sum(f, s \ {x}) = f[p] + Sum(f, s \ {x, p})
  BY <1>5, <1>7, <1>8
<1>10. /\ f[p] \in Int /\ f[x] \in Int
       /\ Sum(f, s \ {p, x}) \in Int /\ s \ {x, p} = s \ {p, x}
  <2>1. s \ {p, x} \in SUBSET S
    BY <1>5
  <2>2. IsFiniteSet(s \ {p, x})
    BY <1>2, <2>1
  <2> QED BY <1>5, <2>1, <2>2, SumType
<1>11. Sum(f, s) = f[x] + Sum(f, s \ {x})
  <2> DEFINE rest == Sum(f, s \ {p, x})
  <2>1. rest \in Int /\ Sum(f, s \ {p}) = f[x] + rest /\ Sum(f, s \ {x}) = f[p] + rest
    BY <1>9, <1>10
  <2>2. f[p] + (f[x] + rest) = f[x] + (f[p] + rest)
    <3> HIDE DEF rest
    <3> QED BY <1>10, <2>1
  <2> QED BY <1>6, <2>1, <2>2
<1> QED BY <1>4, <1>11

\* A sum grows with the set, by terms that are not negative, and with its terms.
LEMMA SumMonotone ==
  ASSUME NEW f, NEW g, NEW T, IsFiniteSet(T), NEW S \in SUBSET T,
         \A x \in T : f[x] \in Int /\ g[x] \in Int /\ g[x] >= 0,
         \A x \in S : f[x] <= g[x]
  PROVE  Sum(f, S) <= Sum(g, T)
<1> DEFINE Good(t) == Sum(f, S \cap t) <= Sum(g, t)
           C == {t \in SUBSET T : ~Good(t)}
<1> HIDE DEF Good
<1>1. SUFFICES ASSUME C # {} PROVE FALSE
  <2>1. Good(T)
    BY <1>1
  <2>2. S \cap T = S
    OBVIOUS
  <2> QED BY <2>1, <2>2 DEF Good
<1>2. \A t \in SUBSET T : IsFiniteSet(t)
  BY FS_Subset
<1>3. PICK t \in C : \A u \in C : Cardinality(t) <= Cardinality(u)
  BY <1>1, <1>2, SmallestOf
<1>4. t # {}
  <2>1. Good({})
    <3>1. S \cap {} = {}
      OBVIOUS
    <3> QED BY <3>1, SumEmpty DEF Good
  <2> QED BY <2>1
<1>5. PICK x \in t : TRUE
  BY <1>4
<1> DEFINE u == t \ {x}
<1>6. /\ IsFiniteSet(t) /\ IsFiniteSet(u) /\ u \in SUBSET T /\ t \in SUBSET T
      /\ IsFiniteSet(S \cap t) /\ IsFiniteSet(S \cap u)
      /\ S \cap t \in SUBSET T /\ S \cap u \in SUBSET T
  BY <1>2
<1>7. Good(u)
  <2>1. ~(Cardinality(t) <= Cardinality(u))
    BY <1>6, SmallerSets
  <2> QED BY <1>3, <1>6, <2>1
<1>8. Sum(g, t) = g[x] + Sum(g, u)
  BY <1>6, SumRemove
<1>9. /\ Sum(g, u) \in Int /\ Sum(f, S \cap u) \in Int
      /\ f[x] \in Int /\ g[x] \in Int /\ g[x] >= 0
  <2> HIDE DEF u
  <2> QED BY <1>6, SumType
<1>10. Good(t)
  <2>1. CASE x \in S
    <3>1. x \in S \cap t /\ (S \cap t) \ {x} = S \cap u
      BY <2>1
    <3>2. Sum(f, S \cap t) = f[x] + Sum(f, S \cap u)
      <4> HIDE DEF u
      <4> QED BY <1>6, <3>1, SumRemove
    <3>3. f[x] <= g[x]
      BY <2>1
    <3> HIDE DEF u
    <3> QED BY <1>7, <1>8, <1>9, <3>2, <3>3 DEF Good
  <2>2. CASE x \notin S
    <3>1. S \cap t = S \cap u
      BY <2>2
    <3> HIDE DEF u
    <3> QED BY <1>7, <1>8, <1>9, <3>1 DEF Good
  <2> QED BY <2>1, <2>2
<1> QED BY <1>3, <1>10

LEMMA SumNat ==
  ASSUME NEW f, NEW S, IsFiniteSet(S), \A x \in S : f[x] \in Nat
  PROVE  Sum(f, S) \in Nat
<1>1. Sum(f, S) \in Int
  BY SumType
<1>2. Sum(f, {}) <= Sum(f, S)
  <2>1. {} \in SUBSET S
    OBVIOUS
  <2>2. \A x \in S : f[x] \in Int /\ f[x] >= 0
    OBVIOUS
  <2> QED BY <2>1, <2>2, SumMonotone
<1> QED BY <1>1, <1>2, SumEmpty

\* Functions that agree on a set have the same sum over it.
LEMMA SumAgree ==
  ASSUME NEW f, NEW g, NEW S, IsFiniteSet(S), \A x \in S : f[x] = g[x]
  PROVE  Sum(f, S) = Sum(g, S)
<1> DEFINE C == {s \in SUBSET S : Sum(f, s) # Sum(g, s)}
<1>1. SUFFICES ASSUME C # {} PROVE FALSE
  OBVIOUS
<1>2. \A s \in SUBSET S : IsFiniteSet(s)
  BY FS_Subset
<1>3. PICK s \in C : \A t \in C : Cardinality(s) <= Cardinality(t)
  BY <1>1, <1>2, SmallestOf
<1>4. s # {}
  BY SumEmpty
<1> DEFINE p == Pick(s)
<1>5. p \in s /\ f[p] = g[p] /\ s \ {p} \in SUBSET S /\ IsFiniteSet(s)
  BY <1>2, <1>4, PickIn
<1>6. /\ Sum(f, s) = f[p] + Sum(f, s \ {p})
      /\ Sum(g, s) = g[p] + Sum(g, s \ {p})
  BY <1>4, <1>5, SumPicked
<1>7. s \ {p} \in C
  BY <1>5, <1>6
<1>8. ~(Cardinality(s) <= Cardinality(s \ {p}))
  <2> HIDE DEF p
  <2> QED BY <1>5, SmallerSets
<1> QED BY <1>3, <1>7, <1>8

\* A change of one term changes the sum by as much.
LEMMA SumChange ==
  ASSUME NEW f, NEW g, NEW S, IsFiniteSet(S),
         \A y \in S : f[y] \in Int /\ g[y] \in Int
  PROVE  \A x \in S : (\A y \in S : y # x => f[y] = g[y])
                      => Sum(g, S) = (Sum(f, S) - f[x]) + g[x]
<1> SUFFICES ASSUME NEW x \in S, \A y \in S : y # x => f[y] = g[y]
             PROVE  Sum(g, S) = (Sum(f, S) - f[x]) + g[x]
  OBVIOUS
<1>1. Sum(f, S) = f[x] + Sum(f, S \ {x}) /\ Sum(g, S) = g[x] + Sum(g, S \ {x})
  BY SumRemove
<1>2. IsFiniteSet(S \ {x}) /\ \A y \in S \ {x} : y \in S /\ f[y] = g[y]
  BY FS_RemoveElement
<1>3. Sum(f, S \ {x}) = Sum(g, S \ {x}) /\ Sum(f, S \ {x}) \in Int
  BY <1>2, SumAgree, SumType
<1> QED BY <1>1, <1>3

LEMMA SumZero ==
  ASSUME NEW f, NEW S, IsFiniteSet(S), \A x \in S : f[x] = 0
  PROVE  Sum(f, S) = 0
<1> DEFINE C == {s \in SUBSET S : Sum(f, s) # 0}
<1>1. SUFFICES ASSUME C # {} PROVE FALSE
  OBVIOUS
<1>2. \A s \in SUBSET S : IsFiniteSet(s)
  BY FS_Subset
<1>3. PICK s \in C : \A t \in C : Cardinality(s) <= Cardinality(t)
  BY <1>1, <1>2, SmallestOf
<1>4. s # {}
  BY SumEmpty
<1> DEFINE p == Pick(s)
<1>5. p \in s /\ f[p] = 0 /\ s \ {p} \in SUBSET S /\ IsFiniteSet(s)
  BY <1>2, <1>4, PickIn
<1>6. Sum(f, s) = 0 + Sum(f, s \ {p})
  BY <1>4, <1>5, SumPicked
<1>7. s \ {p} \in C
  BY <1>5, <1>6
<1>8. ~(Cardinality(s) <= Cardinality(s \ {p}))
  <2> HIDE DEF p
  <2> QED BY <1>5, SmallerSets
<1> QED BY <1>3, <1>7, <1>8

\* A part of a sum of naturals is no more than the whole.
LEMMA SumSubset ==
  ASSUME NEW f, NEW T, IsFiniteSet(T), NEW S \in SUBSET T, \A x \in T : f[x] \in Nat
  PROVE  /\ Sum(f, S) \in Nat /\ Sum(f, T) \in Nat
         /\ Sum(f, S) <= Sum(f, T)
<1>1. IsFiniteSet(S) /\ \A x \in S : f[x] \in Nat
  BY FS_Subset
<1>2. Sum(f, S) \in Nat /\ Sum(f, T) \in Nat
  BY <1>1, SumNat
<1>3. \A x \in T : f[x] \in Int /\ f[x] >= 0 /\ f[x] <= f[x]
  OBVIOUS
<1>4. Sum(f, S) <= Sum(f, T)
  BY <1>3, SumMonotone
<1> QED BY <1>2, <1>4

LEMMA SumOfOne == \A f, x : f[x] \in Int => Sum(f, {x}) = f[x]
<1> SUFFICES ASSUME NEW f, NEW x, f[x] \in Int PROVE Sum(f, {x}) = f[x]
  OBVIOUS
<1>1. IsFiniteSet({x}) /\ {x} \ {x} = {} /\ x \in {x} /\ \A y \in {x} : f[y] \in Int
  BY FS_Singleton
<1>2. Sum(f, {x}) = f[x] + Sum(f, {x} \ {x})
  BY <1>1, SumRemove
<1> QED BY <1>1, <1>2, SumEmpty

\* Of several addends only one is not zero.
LEMMA SumOfOneAddend ==
  ASSUME NEW f, NEW S, IsFiniteSet(S), NEW x \in S, f[x] \in Int,
         \A y \in S \ {x} : f[y] = 0
  PROVE  Sum(f, S) = f[x]
<1>1. \A y \in S : f[y] \in Int
  OBVIOUS
<1>2. Sum(f, S) = f[x] + Sum(f, S \ {x})
  BY <1>1, SumRemove
<1>3. IsFiniteSet(S \ {x})
  BY FS_RemoveElement
<1>4. Sum(f, S \ {x}) = 0
  BY <1>3, SumZero
<1> QED BY <1>2, <1>4

\* The terms may be summed group by group: those that g sends to each element of S, and
\* those that it sends nowhere in S.
Group(g, T, s) == {x \in T : g[x] = s}
GroupSums(f, g, T, S) == [s \in S |-> Sum(f, Group(g, T, s))]
Ungrouped(g, T, S) == {x \in T : g[x] \notin S}

LEMMA SumGroups ==
  ASSUME NEW f, NEW T, IsFiniteSet(T), \A x \in T : f[x] \in Int,
         NEW g, NEW S, IsFiniteSet(S)
  PROVE  Sum(f, T) = Sum(GroupSums(f, g, T, S), S) + Sum(f, Ungrouped(g, T, S))
<1> DEFINE Good(t) == Sum(f, t) = Sum(GroupSums(f, g, t, S), S) + Sum(f, Ungrouped(g, t, S))
           C == {t \in SUBSET T : ~Good(t)}
           In(t, s) == Group(g, t, s)
           Parts(t) == GroupSums(f, g, t, S)
           Rest(t) == Ungrouped(g, t, S)
<1> HIDE DEF Good
<1>1. SUFFICES ASSUME C # {} PROVE FALSE
  BY DEF Good
<1>2. \A t \in SUBSET T : IsFiniteSet(t)
  BY FS_Subset
<1>3. PICK t \in C : \A u \in C : Cardinality(t) <= Cardinality(u)
  BY <1>1, <1>2, SmallestOf
<1>4. t # {}
  <2>1. \A s \in S : In({}, s) = {}
    BY DEF Group
  <2>2. \A s \in S : Parts({})[s] = 0
    BY <2>1, SumEmpty DEF GroupSums
  <2>3. Sum(Parts({}), S) = 0
    BY <2>2, SumZero
  <2>4. Rest({}) = {}
    BY DEF Ungrouped
  <2>5. Good({})
    BY <2>3, <2>4, SumEmpty DEF Good
  <2> QED BY <2>5
<1>5. PICK x \in t : TRUE
  BY <1>4
<1> DEFINE u == t \ {x}
<1>6. /\ t \in SUBSET T /\ u \in SUBSET T /\ IsFiniteSet(t) /\ IsFiniteSet(u)
      /\ f[x] \in Int
  BY <1>2
<1>7. Good(u)
  <2>1. ~(Cardinality(t) <= Cardinality(u))
    BY <1>6, SmallerSets
  <2> QED BY <1>3, <1>6, <2>1
<1>8. Sum(f, t) = f[x] + Sum(f, u)
  BY <1>6, SumRemove
<1>9. \A v \in SUBSET T : /\ \A s \in S : Sum(f, In(v, s)) \in Int /\ Parts(v)[s] \in Int
                          /\ Sum(f, Rest(v)) \in Int /\ Sum(Parts(v), S) \in Int
  <2> TAKE v \in SUBSET T
  <2>1. ASSUME NEW s \in S PROVE Sum(f, In(v, s)) \in Int
    <3>1. In(v, s) \in SUBSET T /\ IsFiniteSet(In(v, s)) /\ \A y \in In(v, s) : f[y] \in Int
      BY <1>2 DEF Group
    <3> QED BY <3>1, SumType
  <2>2. Sum(f, Rest(v)) \in Int
    <3>1. Rest(v) \in SUBSET T /\ IsFiniteSet(Rest(v)) /\ \A y \in Rest(v) : f[y] \in Int
      BY <1>2 DEF Ungrouped
    <3> QED BY <3>1, SumType
  <2>3. \A s \in S : Parts(v)[s] \in Int
    BY <2>1 DEF GroupSums
  <2>4. Sum(Parts(v), S) \in Int
    BY <2>3, SumType
  <2> QED BY <2>1, <2>2, <2>3, <2>4
<1>10. CASE g[x] \in S
  <2> DEFINE e == g[x]
  <2>1. Rest(t) = Rest(u)
    BY <1>10 DEF Ungrouped
  <2>2. \A s \in S : s # e => In(t, s) = In(u, s)
    BY DEF Group
  <2>3. Sum(f, In(t, e)) = f[x] + Sum(f, In(u, e))
    <3>1. /\ In(t, e) \in SUBSET T /\ x \in In(t, e)
          /\ In(t, e) \ {x} = In(u, e) /\ \A y \in In(t, e) : f[y] \in Int
      BY <1>6 DEF Group
    <3>2. IsFiniteSet(In(t, e))
      BY <1>2, <3>1
    <3>3. Sum(f, In(t, e)) = f[x] + Sum(f, In(t, e) \ {x})
      <4> HIDE DEF e, u
      <4> QED BY <3>1, <3>2, SumRemove
    <3> QED BY <3>1, <3>3
  <2>4. /\ \A s \in S : s # e => Parts(u)[s] = Parts(t)[s]
        /\ Parts(t)[e] = f[x] + Parts(u)[e]
    BY <1>10, <2>2, <2>3 DEF GroupSums
  <2>5. Sum(Parts(t), S) = (Sum(Parts(u), S) - Parts(u)[e]) + Parts(t)[e]
    <3>1. \A s \in S : Parts(u)[s] \in Int /\ Parts(t)[s] \in Int
      BY <1>6, <1>9
    <3> HIDE DEF u
    <3> QED BY <1>10, <2>4, <3>1, SumChange
  <2>6. Parts(u)[e] \in Int /\ Sum(Parts(u), S) \in Int /\ Sum(f, Rest(u)) \in Int
    BY <1>6, <1>9, <1>10
  <2>7. Sum(f, u) = Sum(Parts(u), S) + Sum(f, Rest(u))
    BY <1>7 DEF Good
  <2>8. Sum(Parts(t), S) = Sum(Parts(u), S) + f[x]
    <3> HIDE DEF u, e
    <3> QED BY <1>6, <2>4, <2>5, <2>6
  <2>9. Sum(f, t) = Sum(Parts(t), S) + Sum(f, Rest(t))
    <3> HIDE DEF u
    <3> QED BY <1>6, <1>8, <2>1, <2>6, <2>7, <2>8
  <2> QED BY <2>9 DEF Good
<1>11. CASE g[x] \notin S
  <2>1. \A s \in S : In(t, s) = In(u, s)
    BY <1>11 DEF Group
  <2>2. Parts(t) = Parts(u)
    BY <2>1 DEF GroupSums
  <2>3. Sum(f, Rest(t)) = f[x] + Sum(f, Rest(u))
    <3>1. /\ Rest(t) \in SUBSET T /\ x \in Rest(t)
          /\ Rest(t) \ {x} = Rest(u) /\ \A y \in Rest(t) : f[y] \in Int
      BY <1>6, <1>11 DEF Ungrouped
    <3>2. IsFiniteSet(Rest(t))
      BY <1>2, <3>1
    <3>3. Sum(f, Rest(t)) = f[x] + Sum(f, Rest(t) \ {x})
      BY <3>1, <3>2, SumRemove
    <3> QED BY <3>1, <3>3
  <2>4. Sum(Parts(u), S) \in Int /\ Sum(f, Rest(u)) \in Int
    BY <1>6, <1>9
  <2>5. Sum(f, u) = Sum(Parts(u), S) + Sum(f, Rest(u))
    BY <1>7 DEF Good
  <2>6. Sum(f, t) = Sum(Parts(t), S) + Sum(f, Rest(t))
    <3> HIDE DEF u
    <3> QED BY <1>6, <1>8, <2>2, <2>3, <2>4, <2>5
  <2> QED BY <2>6 DEF Good
<1> QED BY <1>10, <1>11

\* A finite set of integers has a maximum.
LEMMA MaxIsIn ==
  ASSUME NEW S \in SUBSET Int, IsFiniteSet(S), S # {}
  PROVE  Max(S) \in S /\ \A x \in S : Max(S) >= x
<1> DEFINE Below(m) == {x \in S : x >= m}
           C == {Below(m) : m \in S}
<1>1. \A t \in C : IsFiniteSet(t)
  <2>1. \A m \in S : Below(m) \in SUBSET S
    OBVIOUS
  <2> HIDE DEF Below
  <2> QED BY <2>1, FS_Subset
<1>2. C # {}
  OBVIOUS
<1>3. PICK t \in C : \A u \in C : Cardinality(t) <= Cardinality(u)
  <2> HIDE DEF C
  <2> QED BY <1>1, <1>2, SmallestOf
<1>4. PICK m \in S : t = Below(m)
  BY <1>3
<1>5. ASSUME NEW x \in S, ~(m >= x) PROVE FALSE
  <2>1. m \in Int /\ x \in Int /\ m < x
    BY <1>5
  <2>2. m \in Below(m) /\ m \notin Below(x)
    BY <2>1
  <2>3. \A y \in Below(x) : y \in Below(m)
    BY <2>1
  <2>4. Below(x) \in SUBSET (Below(m) \ {m})
    <3> HIDE DEF Below
    <3> QED BY <2>2, <2>3
  <2>5. IsFiniteSet(Below(m)) /\ Below(x) \in C
    BY <1>1
  <2> HIDE DEF Below, C
  <2>6. /\ IsFiniteSet(Below(m) \ {m})
        /\ Cardinality(Below(x)) <= Cardinality(Below(m) \ {m})
    BY <2>2, <2>4, <2>5, FS_Subset, SmallerSets
  <2>7. Cardinality(Below(x)) \in Nat /\ Cardinality(Below(m)) \in Nat
    BY <1>1, <2>5, FS_CardinalityType
  <2>8. Cardinality(Below(m)) <= Cardinality(Below(x))
    BY <1>3, <1>4, <2>5
  <2> QED BY <2>2, <2>5, <2>6, <2>7, <2>8, SmallerSets
<1>6. m \in S /\ \A x \in S : m >= x
  BY <1>5
<1> QED BY <1>6 DEF Max

\* A sum to whose terms a set T contributes d each.
Raised(f, S, T, d) == [x \in S |-> f[x] + IF x \in T THEN d ELSE 0]

LEMMA SumRaised ==
  ASSUME NEW f, NEW S, IsFiniteSet(S), \A x \in S : f[x] \in Int,
         NEW T \in SUBSET S, NEW d \in Int
  PROVE  Sum(Raised(f, S, T, d), S) = Sum(f, S) + Cardinality(T) * d
<1> DEFINE Good(t) == Sum(Raised(f, S, t, d), S) = Sum(f, S) + Cardinality(t) * d
           C == {t \in SUBSET T : ~Good(t)}
<1> HIDE DEF Good
<1>1. SUFFICES ASSUME C # {} PROVE FALSE
  BY DEF Good
<1>2. \A t \in SUBSET T : IsFiniteSet(t)
  BY FS_Subset
<1>3. PICK t \in C : \A u \in C : Cardinality(t) <= Cardinality(u)
  BY <1>1, <1>2, SmallestOf
<1>4. \A u : \A x \in S : Raised(f, S, u, d)[x] \in Int
  BY DEF Raised
<1>5. Sum(f, S) \in Int
  BY SumType
<1>6. t # {}
  <2>1. \A x \in S : Raised(f, S, {}, d)[x] = f[x]
    BY DEF Raised
  <2>2. Sum(Raised(f, S, {}, d), S) = Sum(f, S)
    BY <2>1, SumAgree
  <2>3. Cardinality({}) = 0 /\ 0 * d = 0
    BY FS_EmptySet
  <2>4. Good({})
    BY <1>5, <2>2, <2>3 DEF Good
  <2> QED BY <2>4
<1>7. PICK x \in t : x \in S
  BY <1>6
<1> DEFINE u == t \ {x}
<1>8. /\ t \in SUBSET T /\ u \in SUBSET T /\ IsFiniteSet(t) /\ x \in t
      /\ Cardinality(u) \in Nat /\ Cardinality(t) = Cardinality(u) + 1
      /\ ~(Cardinality(t) <= Cardinality(u))
  <2>1. t \in SUBSET T /\ u \in SUBSET T /\ IsFiniteSet(t) /\ x \in t
    BY <1>2
  <2>2. /\ Cardinality(u) = Cardinality(t) - 1 /\ Cardinality(u) \in Nat
        /\ Cardinality(t) \in Nat /\ ~(Cardinality(t) <= Cardinality(u))
    BY <2>1, SmallerSets
  <2> QED BY <2>1, <2>2
<1>9. Good(u)
  BY <1>3, <1>8
<1>10. \A y \in S : y # x => Raised(f, S, u, d)[y] = Raised(f, S, t, d)[y]
  BY DEF Raised
<1>11. Raised(f, S, u, d)[x] = f[x] /\ Raised(f, S, t, d)[x] = f[x] + d /\ f[x] \in Int
  BY <1>7 DEF Raised
<1>12. PICK g, h : g = Raised(f, S, u, d) /\ h = Raised(f, S, t, d)
  OBVIOUS
<1>13. Sum(h, S) = (Sum(g, S) - g[x]) + h[x]
  <2>1. \A y \in S : g[y] \in Int /\ h[y] \in Int
    BY <1>4, <1>12
  <2>2. \A y \in S : y # x => g[y] = h[y]
    BY <1>10, <1>12
  <2> QED BY <1>7, <2>1, <2>2, SumChange
<1>14. PICK n \in Nat : n = Cardinality(u) /\ Cardinality(t) = n + 1
  BY <1>8
<1>15. Sum(g, S) = Sum(f, S) + n * d
  BY <1>9, <1>12, <1>14 DEF Good
<1>16. PICK nd \in Int : nd = n * d /\ (n + 1) * d = nd + d
  OBVIOUS
<1>17. Sum(h, S) = Sum(f, S) + (n + 1) * d
  BY <1>5, <1>11, <1>12, <1>13, <1>15, <1>16
<1>18. Good(t)
  BY <1>12, <1>14, <1>17 DEF Good
<1> QED BY <1>3, <1>18

-----------------------------------------------------------------------------
(* Folds over sequences.  A fold is a recursion over the sets of the       *)
(* indices: one with a solution on every sequence.                         *)

LEMMA PrefixMax ==
  ASSUME NEW n \in Nat, NEW s \in SUBSET (1 .. n), s # {}
  PROVE  Max(s) \in s /\ Max(s) \in 1 .. n /\ \A x \in s : Max(s) >= x
<1>1. IsFiniteSet(1 .. n)
  BY FS_Interval
<1>2. IsFiniteSet(s)
  BY <1>1, FS_Subset
<1>3. s \in SUBSET Int
  OBVIOUS
<1>4. Max(s) \in s /\ \A x \in s : Max(s) >= x
  BY <1>2, <1>3, MaxIsIn
<1> QED BY <1>4

LEMMA WholeMax ==
  ASSUME NEW n \in Nat
  PROVE  /\ Max(1 .. n + 1) = n + 1 /\ (1 .. n + 1) \ {n + 1} = 1 .. n
         /\ 1 .. n + 1 # {} /\ 1 .. n \in SUBSET (1 .. n + 1)
<1>1. 1 .. n + 1 \in SUBSET (1 .. n + 1) /\ n + 1 \in 1 .. n + 1
  OBVIOUS
<1>2. Max(1 .. n + 1) \in 1 .. n + 1 /\ Max(1 .. n + 1) >= n + 1
  <2>1. PICK m \in Nat : m = n + 1
    OBVIOUS
  <2>2. PICK s \in SUBSET (1 .. m) : s = 1 .. n + 1 /\ s # {}
    BY <1>1, <2>1
  <2>3. Max(s) \in s /\ \A x \in s : Max(s) >= x
    BY <2>2, PrefixMax
  <2> QED BY <1>1, <2>2, <2>3
<1>3. Max(1 .. n + 1) = n + 1
  BY <1>2
<1>4. (1 .. n + 1) \ {n + 1} = 1 .. n
  OBVIOUS
<1> QED BY <1>1, <1>3, <1>4

\* One step of the recursion, for a function f in the place of the operator.
FoldStep(f, base, seq, g, s) ==
  g[s] = IF s = {} THEN base ELSE f[g[s \ {Max(s)}], seq[Max(s)]]

LEMMA FoldExists ==
  ASSUME NEW X, NEW Y, NEW base \in X, NEW f \in [X \X Y -> X], NEW seq \in Seq(Y)
  PROVE  \E g \in [SUBSET (1 .. Len(seq)) -> X] :
           \A s \in SUBSET (1 .. Len(seq)) : FoldStep(f, base, seq, g, s)
<1>0. Len(seq) \in Nat /\ \A i \in 1 .. Len(seq) : seq[i] \in Y
  BY LenProperties, ElementOfSeq
<1> DEFINE Solved(n) == \E g \in [SUBSET (1 .. n) -> X] :
                          \A s \in SUBSET (1 .. n) : FoldStep(f, base, seq, g, s)
           C == {n \in 0 .. Len(seq) : ~Solved(n)}
<1> HIDE DEF Solved
<1>1. SUFFICES ASSUME C # {} PROVE FALSE
  <2>1. Len(seq) \in 0 .. Len(seq)
    BY <1>0
  <2>2. Solved(Len(seq))
    BY <1>1, <2>1
  <2> QED BY <2>2 DEF Solved
<1>2. C \in SUBSET Nat
  BY <1>0
<1>3. PICK n \in C : \A m \in C : n <= m
  <2> HIDE DEF C
  <2> QED BY <1>1, <1>2, LeastOf
<1>4. n \in 0 .. Len(seq) /\ n \in Nat /\ ~Solved(n)
  BY <1>0
<1>5. CASE n = 0
  <2>1. 1 .. 0 = {}
    OBVIOUS
  <2> DEFINE g == [s \in {{}} |-> base]
  <2>2. g \in [SUBSET (1 .. 0) -> X] /\ g[{}] = base /\ SUBSET (1 .. 0) = {{}}
    BY <2>1
  <2>3. \A s \in SUBSET (1 .. 0) : FoldStep(f, base, seq, g, s)
    BY <2>2 DEF FoldStep
  <2> HIDE DEF g
  <2>4. Solved(0)
    BY <2>2, <2>3 DEF Solved
  <2> QED BY <1>4, <1>5, <2>4
<1>6. CASE n # 0
  <2>1. PICK m \in Nat : n = m + 1 /\ m \in 0 .. Len(seq)
    <3>1. n - 1 \in Nat /\ n = (n - 1) + 1 /\ n - 1 \in 0 .. Len(seq)
      BY <1>4, <1>6
    <3> QED BY <3>1
  <2>2. Solved(m)
    BY <1>3, <1>4, <2>1
  <2>3. PICK h \in [SUBSET (1 .. m) -> X] :
          \A s \in SUBSET (1 .. m) : FoldStep(f, base, seq, h, s)
    BY <2>2 DEF Solved
  <2>4. /\ n \in 1 .. Len(seq) /\ seq[n] \in Y
        /\ \A s \in SUBSET (1 .. n) : n \notin s => s \in SUBSET (1 .. m)
        /\ \A s \in SUBSET (1 .. n) : s \ {n} \in SUBSET (1 .. m)
        /\ \A s \in SUBSET (1 .. m) : s \in SUBSET (1 .. n) /\ n \notin s
    BY <1>0, <1>4, <2>1
  <2> DEFINE g == [s \in SUBSET (1 .. n) |->
                     IF n \in s THEN f[h[s \ {n}], seq[n]] ELSE h[s]]
  <2>5. g \in [SUBSET (1 .. n) -> X]
    <3>1. ASSUME NEW s \in SUBSET (1 .. n)
          PROVE  (IF n \in s THEN f[h[s \ {n}], seq[n]] ELSE h[s]) \in X
      <4>1. n \notin s => h[s] \in X
        BY <2>4
      <4>2. h[s \ {n}] \in X
        BY <2>4
      <4>3. f[h[s \ {n}], seq[n]] \in X
        BY <2>4, <4>2
      <4> QED BY <4>1, <4>3
    <3> QED BY <3>1
  <2>6. ASSUME NEW s \in SUBSET (1 .. n) PROVE FoldStep(f, base, seq, g, s)
    <3>1. CASE n \in s
      <4>1. Max(s) \in s /\ Max(s) \in 1 .. n /\ Max(s) >= n
        BY <1>4, <3>1, PrefixMax
      <4>2. Max(s) = n /\ s # {}
        BY <1>4, <3>1, <4>1
      <4>3. g[s] = f[h[s \ {n}], seq[n]]
        BY <3>1
      <4>4. g[s \ {n}] = h[s \ {n}]
        <5>1. s \ {n} \in SUBSET (1 .. n) /\ n \notin s \ {n}
          OBVIOUS
        <5> QED BY <5>1
      <4> HIDE DEF g
      <4> QED BY <4>2, <4>3, <4>4 DEF FoldStep
    <3>2. CASE n \notin s
      <4>1. s \in SUBSET (1 .. m) /\ g[s] = h[s]
        BY <2>4, <3>2
      <4>2. FoldStep(f, base, seq, h, s)
        BY <2>3, <4>1
      <4>3. CASE s = {}
        <5> HIDE DEF g
        <5> QED BY <4>1, <4>2, <4>3 DEF FoldStep
      <4>4. CASE s # {}
        <5>1. Max(s) \in s
          BY <2>1, <4>1, <4>4, PrefixMax
        <5>2. s \ {Max(s)} \in SUBSET (1 .. m)
          BY <4>1
        <5>3. g[s \ {Max(s)}] = h[s \ {Max(s)}]
          BY <2>4, <5>2
        <5> HIDE DEF g
        <5> QED BY <4>1, <4>2, <4>4, <5>3 DEF FoldStep
      <4> QED BY <4>3, <4>4
    <3> QED BY <3>1, <3>2
  <2> HIDE DEF g
  <2>7. Solved(n)
    BY <2>5, <2>6 DEF Solved
  <2> QED BY <1>4, <2>7
<1> QED BY <1>5, <1>6
=============================================================================
