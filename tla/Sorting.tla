-------------------------------- MODULE Sorting --------------------------------
(***************************************************************************)
(* Sorted sequences and filters.  SetToSortSeq and SelectSeq say the same, *)
(* but TLC has them from Java and the prover has them not at all; these    *)
(* are defined.                                                            *)
(***************************************************************************)
EXTENDS Integers, FiniteSets

\* The elements of S in the order of the pairs R.
Ordered(S, R) ==
  [k \in 1 .. Cardinality(S) |-> CHOOSE x \in S : Cardinality({y \in S : <<y, x>> \in R}) = k - 1]

\* The numbers of S, smallest first.
Ascending(S) == Ordered(S, {p \in S \X S : p[1] < p[2]})

\* What s has at the positions P.
At(s, P) == LET order == Ascending(P) IN [k \in DOMAIN order |-> s[order[k]]]
================================================================================
