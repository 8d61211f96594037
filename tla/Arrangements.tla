---------------------------- MODULE Arrangements ----------------------------
(***************************************************************************)
(* What Python's sorted() and its comprehensions with a condition do to a  *)
(* collection, without a recursion: an element's place is the number of    *)
(* elements that do not come after it.  (The prover knows no definition of *)
(* SelectSeq and SortSeq.)                                                 *)
(***************************************************************************)
EXTENDS Naturals, Sequences, FiniteSets

\* The elements of a finite set in a total order, given as the set of its pairs.
InOrder(S, leq) ==
  [k \in 1 .. Cardinality(S) |->
     CHOOSE x \in S : Cardinality({y \in S : <<y, x>> \in leq}) = k]

\* A sequence at indices, in the order these are listed.
AtIndices(s, listed) == [k \in DOMAIN listed |-> s[listed[k]]]

Upwards(at) == {p \in at \X at : p[1] <= p[2]}

\* The elements a sequence has at the given indices, in its own order.
Kept(s, at) == AtIndices(s, InOrder(at, Upwards(at)))
=============================================================================
