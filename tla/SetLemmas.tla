------------------------------ MODULE SetLemmas -------------------------------
(*****************************************************************************)
(* What the proofs need of finite sets, whatever they are sets of: a first   *)
(* element, the best few, the order of their elements, and functions defined *)
(* by recursion over subsets; and of sequences: joins, flattening, stretches *)
(* of equal values, and the arithmetic of rows and groups.                   *)
(*****************************************************************************)
EXTENDS Integers, FiniteSets, SequencesExt, Sorting, FiniteSetTheorems, SequenceTheorems,
        FunctionTheorems, WellFoundedInduction, TLAPS

-------------------------------------------------------------------------------
(* A finite set that is not empty has a first element in any strict order. *)

LEMMA FiniteMinimum ==
  ASSUME NEW S, IsFiniteSet(S), S # {}, NEW R,
         \A d \in S : <<d, d>> \notin R,
         \A c, d, e \in S : <<c, d>> \in R /\ <<d, e>> \in R => <<c, e>> \in R
  PROVE  \E e \in S : \A d \in S : <<d, e>> \notin R
<1> DEFINE Before(e) == {d \in S : <<d, e>> \in R}
           T == {Before(e) : e \in S}
<1>1. IsWellFoundedOn(StrictSubsetOrdering(S), SUBSET S)
  BY FS_StrictSubsetOrderingWellFounded, FS_FiniteSubsetsOfFinite
<1>2. T \subseteq SUBSET S /\ T # {}
  <2>1. \A e \in S : Before(e) \in SUBSET S
    OBVIOUS
  <2>2. T \subseteq SUBSET S
    <3> SUFFICES ASSUME NEW y \in T  PROVE  y \in SUBSET S
      OBVIOUS
    <3>1. PICK e \in S : y = Before(e)
      OBVIOUS
    <3> QED
      BY <2>1, <3>1
  <2>3. PICK e \in S : TRUE
    OBVIOUS
  <2>4. Before(e) \in T
    BY <2>3
  <2> QED
    BY <2>2, <2>4
<1>3. \E x \in T : \A y \in T : <<y, x>> \notin StrictSubsetOrdering(S)
  <2> HIDE DEF T
  <2> QED  BY <1>1, <1>2, WFMin
<1>4. PICK e \in S : \A y \in T : <<y, Before(e)>> \notin StrictSubsetOrdering(S)
  BY <1>3
<1>5. ASSUME NEW d \in S, <<d, e>> \in R
      PROVE  FALSE
  <2>1. Before(d) \subseteq Before(e)
    BY <1>5
  <2>2. d \in Before(e) /\ d \notin Before(d)
    BY <1>5
  <2>3. <<Before(d), Before(e)>> \in StrictSubsetOrdering(S)
    BY <2>1, <2>2 DEF StrictSubsetOrdering
  <2> QED
    BY <1>4, <2>3
<1> QED
  BY <1>5

\* So it has a largest, if it is a set of numbers.
LEMMA FiniteMaximum ==
  ASSUME NEW S \in SUBSET Nat, IsFiniteSet(S), S # {}
  PROVE  \E e \in S : \A d \in S : e >= d
<1> DEFINE R == {p \in S \X S : p[1] > p[2]}
<1>1. \A d \in S : <<d, d>> \notin R
  OBVIOUS
<1>2. \A c, d, e \in S : <<c, d>> \in R /\ <<d, e>> \in R => <<c, e>> \in R
  OBVIOUS
<1>3. PICK e \in S : \A d \in S : <<d, e>> \notin R
  <2> HIDE DEF R
  <2> QED  BY <1>1, <1>2, FiniteMinimum
<1>4. \A d \in S : ~ (d > e)
  BY <1>3
<1> QED
  BY <1>4

\* And a least.
LEMMA FiniteLeast ==
  ASSUME NEW S \in SUBSET Int, IsFiniteSet(S), S # {}
  PROVE  \E e \in S : \A d \in S : e <= d
<1> DEFINE R == {p \in S \X S : p[1] < p[2]}
<1>1. \A d \in S : <<d, d>> \notin R
  OBVIOUS
<1>2. \A c, d, e \in S : <<c, d>> \in R /\ <<d, e>> \in R => <<c, e>> \in R
  OBVIOUS
<1>3. PICK e \in S : \A d \in S : <<d, e>> \notin R
  <2> HIDE DEF R
  <2> QED  BY <1>1, <1>2, FiniteMinimum
<1>4. \A d \in S : ~ (d < e)
  BY <1>3
<1> QED
  BY <1>4

\* The elements of S with fewer than k before them.
BestOf(S, R, k) == {e \in S : Cardinality({d \in S : <<d, e>> \in R}) < k}

\* There is one if there are any; and there are at least k of them if one is left out.
LEMMA BestAreEnough ==
  ASSUME NEW S, IsFiniteSet(S), NEW R, NEW k \in Nat \ {0},
         \A d \in S : <<d, d>> \notin R,
         \A c, d, e \in S : <<c, d>> \in R /\ <<d, e>> \in R => <<c, e>> \in R
  PROVE  /\ BestOf(S, R, k) \subseteq S /\ IsFiniteSet(BestOf(S, R, k))
         /\ S # {} => BestOf(S, R, k) # {}
         /\ S # BestOf(S, R, k) => Cardinality(BestOf(S, R, k)) >= k
<1> DEFINE B == BestOf(S, R, k)
<1>1. B \subseteq S /\ IsFiniteSet(B)
  BY FS_Subset DEF BestOf
<1>2. ASSUME S # {} PROVE B # {}
  <2>1. PICK e \in S : \A d \in S : <<d, e>> \notin R
    BY <1>2, FiniteMinimum
  <2>2. {d \in S : <<d, e>> \in R} = {}
    BY <2>1
  <2>3. Cardinality({d \in S : <<d, e>> \in R}) = 0
    BY <2>2, FS_EmptySet, Zenon
  <2> QED
    BY <2>3 DEF BestOf
<1>3. ASSUME S # B PROVE Cardinality(B) >= k
  <2>1. PICK e \in S \ B : \A d \in S \ B : <<d, e>> \notin R
    <3>1. IsFiniteSet(S \ B) /\ S \ B # {}
      BY <1>1, <1>3, FS_Subset
    <3> HIDE DEF B
    <3> QED
      BY <3>1, FiniteMinimum
  <2> DEFINE before == {d \in S : <<d, e>> \in R}
  <2>2. before \subseteq B
    BY <2>1
  <2>3. Cardinality(before) <= Cardinality(B) /\ IsFiniteSet(before)
    BY <1>1, <2>2, FS_Subset
  <2>4. ~ (Cardinality(before) < k)
    BY <2>1 DEF BestOf
  <2>5. Cardinality(before) \in Nat /\ Cardinality(B) \in Nat
    BY <1>1, <2>3, FS_CardinalityType
  <2> QED
    BY <2>3, <2>4, <2>5
<1> QED
  BY <1>1, <1>2, <1>3

\* And no more than k, if the order is total.
LEMMA BestAreNotMore ==
  ASSUME NEW S, IsFiniteSet(S), NEW R, NEW k \in Nat \ {0},
         \A d \in S : <<d, d>> \notin R,
         \A c, d, e \in S : <<c, d>> \in R /\ <<d, e>> \in R => <<c, e>> \in R,
         \A d, e \in S : d = e \/ <<d, e>> \in R \/ <<e, d>> \in R
  PROVE  Cardinality(BestOf(S, R, k)) <= k
<1> DEFINE B == BestOf(S, R, k)
           Q == {p \in S \X S : <<p[2], p[1]>> \in R}
<1>1. B \subseteq S /\ IsFiniteSet(B) /\ Cardinality(B) \in Nat
  BY BestAreEnough, FS_CardinalityType
<1>2. CASE B = {}
  BY <1>2, FS_EmptySet
<1>3. CASE B # {}
  \* The last of them has the others before it.
  <2>1. PICK e \in B : \A d \in B : <<d, e>> \notin Q
    <3>1. \A d \in B : <<d, d>> \notin Q
      BY <1>1
    <3>2. \A b, c, d \in B : <<b, c>> \in Q /\ <<c, d>> \in Q => <<b, d>> \in Q
      BY <1>1
    <3> HIDE DEF B, Q
    <3> QED
      BY <1>1, <1>3, <3>1, <3>2, FiniteMinimum
  <2> DEFINE before == {d \in S : <<d, e>> \in R}
  <2>2. B \ {e} \subseteq before
    BY <1>1, <2>1
  <2>3. IsFiniteSet(before)
    BY FS_Subset
  <2>4. Cardinality(B \ {e}) <= Cardinality(before)
    BY <2>2, <2>3, FS_Subset
  <2>5. Cardinality(B \ {e}) = Cardinality(B) - 1
    BY <1>1, <2>1, FS_RemoveElement
  <2>6. Cardinality(before) < k
    BY <2>1 DEF BestOf
  <2>7. Cardinality(before) \in Nat
    BY <2>3, FS_CardinalityType
  <2> QED
    BY <1>1, <2>4, <2>5, <2>6, <2>7
<1> QED
  BY <1>2, <1>3

-------------------------------------------------------------------------------
(* Recursion over the subsets of a finite set: pick[s] is taken out of s,   *)
(* and F makes of it, and of the value of what is left, the value of s.    *)
(* This is how the folds of the community modules are defined.             *)

Picks(pick, S) == \A s \in SUBSET S : s # {} => pick[s] \in s

\* What the definition of a fold takes that does not care.
Taken(s) == CHOOSE x \in s : TRUE

\* h solves the recursion on the subsets of T.
Solves(h, T, D, base, F, pick) ==
  /\ h \in [SUBSET T -> D]
  /\ \A s \in SUBSET T :
       h[s] = IF s = {} THEN base ELSE F[<<pick[s], h[s \ {pick[s]}]>>]

\* No more than one function does.
LEMMA OneSolution ==
  ASSUME NEW T, IsFiniteSet(T), NEW D, NEW base, NEW F, NEW pick, Picks(pick, T),
         NEW g, NEW h, Solves(g, T, D, base, F, pick), Solves(h, T, D, base, F, pick)
  PROVE  g = h
<1> DEFINE W == {s \in SUBSET T : g[s] # h[s]}
<1>1. IsWellFoundedOn(StrictSubsetOrdering(T), SUBSET T)
  BY FS_StrictSubsetOrderingWellFounded, FS_FiniteSubsetsOfFinite
<1>2. ASSUME W # {} PROVE FALSE
  <2>1. PICK s \in W : \A r \in W : <<r, s>> \notin StrictSubsetOrdering(T)
    <3>1. W \subseteq SUBSET T
      OBVIOUS
    <3> HIDE DEF W
    <3> QED
      BY <1>1, <1>2, <3>1, WFMin
  <2>2. s \in SUBSET T /\ g[s] # h[s]
    BY <2>1
  <2>3. s # {}
    BY <2>2 DEF Solves
  <2> DEFINE r == s \ {pick[s]}
  <2>4. pick[s] \in s /\ r \in SUBSET T
    BY <2>2, <2>3 DEF Picks
  <2>5. <<r, s>> \in StrictSubsetOrdering(T)
    BY <2>2, <2>4 DEF StrictSubsetOrdering
  <2>6. g[r] = h[r]
    BY <2>1, <2>4, <2>5
  <2>7. g[s] = F[<<pick[s], g[r]>>] /\ h[s] = F[<<pick[s], h[r]>>]
    BY <2>2, <2>3 DEF Solves
  <2> QED
    BY <2>2, <2>6, <2>7
<1>3. \A s \in SUBSET T : g[s] = h[s]
  BY <1>2
<1> QED
  BY <1>3 DEF Solves

\* One does.
LEMMA SomeSolution ==
  ASSUME NEW S, IsFiniteSet(S), NEW D, NEW base \in D, NEW F \in [S \X D -> D],
         NEW pick, Picks(pick, S)
  PROVE  \E h : Solves(h, S, D, base, F, pick)
<1> DEFINE Sol(h, T) == Solves(h, T, D, base, F, pick)
           W == {T \in SUBSET S : ~ \E h : Sol(h, T)}
<1>1. IsWellFoundedOn(StrictSubsetOrdering(S), SUBSET S)
  BY FS_StrictSubsetOrderingWellFounded, FS_FiniteSubsetsOfFinite
<1>2. ASSUME W # {} PROVE FALSE
  <2>1. PICK T \in W : \A r \in W : <<r, T>> \notin StrictSubsetOrdering(S)
    <3>1. W \subseteq SUBSET S
      OBVIOUS
    <3> HIDE DEF W
    <3> QED
      BY <1>1, <1>2, <3>1, WFMin
  <2>2. T \in SUBSET S /\ \A h : ~ Sol(h, T)
    BY <2>1
  \* The solutions on the smaller sets, and their values there.
  <2> DEFINE sol == [s \in SUBSET T |-> CHOOSE h : Sol(h, s)]
             val == [s \in SUBSET T |-> sol[s][s]]
  <2>3. ASSUME NEW s \in SUBSET T, s # T
        PROVE  Sol(sol[s], s)
    <3>1. s \in SUBSET S /\ <<s, T>> \in StrictSubsetOrdering(S)
      BY <2>2, <2>3 DEF StrictSubsetOrdering
    <3>2. \E h : Sol(h, s)
      BY <2>1, <3>1
    <3>3. sol[s] = CHOOSE h : Sol(h, s)
      OBVIOUS
    <3> HIDE DEF sol, Sol
    <3> QED
      BY <3>2, <3>3
  \* They agree with each other.
  <2>4. ASSUME NEW s \in SUBSET T, s # T, NEW r \in SUBSET s
        PROVE  sol[s][r] = val[r]
    <3> DEFINE part == [q \in SUBSET r |-> sol[s][q]]
    <3>1. Sol(sol[s], s)
      BY <2>3, <2>4
    <3>2. Sol(part, r)
      <4>1. SUBSET r \subseteq SUBSET s
        OBVIOUS
      <4>2. \A q \in SUBSET r : q \ {pick[q]} \in SUBSET r
        OBVIOUS
      <4> HIDE DEF sol
      <4> QED
        BY <3>1, <4>1, <4>2 DEF Solves
    <3>3. r \in SUBSET T /\ r # T /\ IsFiniteSet(r)
      BY <2>2, <2>4, FS_Subset
    <3>4. Sol(sol[r], r)
      BY <2>3, <3>3
    <3>5. part = sol[r]
      <4>1. Picks(pick, r)
        BY <2>2, <3>3 DEF Picks
      <4> HIDE DEF part, sol
      <4> QED
        BY <3>2, <3>3, <3>4, <4>1, OneSolution
    <3>6. part[r] = sol[s][r] /\ val[r] = sol[r][r]
      BY <3>3
    <3> HIDE DEF part, sol, val
    <3> QED
      BY <3>5, <3>6
  <2> DEFINE whole == [s \in SUBSET T |->
               IF s = T THEN IF T = {} THEN base ELSE F[<<pick[T], val[T \ {pick[T]}]>>]
               ELSE val[s]]
  <2>5. ASSUME NEW s \in SUBSET T, s # {}
        PROVE  pick[s] \in s /\ s \ {pick[s]} \in SUBSET T /\ s \ {pick[s]} # T
               /\ s \ {pick[s]} \in SUBSET s
    <3>1. pick[s] \in s
      BY <2>2, <2>5 DEF Picks
    <3> QED
      BY <3>1
  <2>6. ASSUME NEW s \in SUBSET T, s # T
        PROVE  /\ val[s] \in D
               /\ val[s] = IF s = {} THEN base ELSE F[<<pick[s], val[s \ {pick[s]}]>>]
    <3>1. Sol(sol[s], s)
      BY <2>3, <2>6
    <3>2. s \in SUBSET s /\ sol[s][s] = val[s]
      OBVIOUS
    <3>3. s # {} => sol[s][s \ {pick[s]}] = val[s \ {pick[s]}]
      <4> HIDE DEF sol, val
      <4> QED
        BY <2>4, <2>5, <2>6
    <3> HIDE DEF sol, val
    <3> QED
      BY <3>1, <3>2, <3>3 DEF Solves
  <2>7. Sol(whole, T)
    <3>1. ASSUME NEW s \in SUBSET T
          PROVE  /\ whole[s] \in D
                 /\ whole[s] = IF s = {} THEN base ELSE F[<<pick[s], whole[s \ {pick[s]}]>>]
      <4>1. s # {} => whole[s \ {pick[s]}] = val[s \ {pick[s]}] /\ val[s \ {pick[s]}] \in D
        <5> HIDE DEF val
        <5> QED
          BY <2>5, <2>6
      <4>2. CASE s = T
        <5>1. whole[s] = IF T = {} THEN base ELSE F[<<pick[T], val[T \ {pick[T]}]>>]
          BY <4>2
        <5>2. T # {} => pick[T] \in S
          BY <2>2, <2>5, <4>2
        <5> HIDE DEF whole, val
        <5> QED
          BY <4>1, <4>2, <5>1, <5>2
      <4>3. CASE s # T
        <5>1. whole[s] = val[s]
          BY <4>3
        <5> HIDE DEF whole, val
        <5> QED
          BY <2>6, <4>1, <4>3, <5>1
      <4> QED
        BY <4>2, <4>3
    <3>2. whole \in [SUBSET T -> D]
      <4>1. whole = [s \in SUBSET T |-> whole[s]]
        OBVIOUS
      <4> HIDE DEF whole
      <4> QED
        BY <3>1, <4>1
    <3> HIDE DEF whole
    <3> QED
      BY <3>1, <3>2 DEF Solves
  <2> HIDE DEF whole
  <2> QED
    BY <2>2, <2>7
<1>3. S \in SUBSET S
  OBVIOUS
<1> QED
  BY <1>2, <1>3

\* P, a set of pairs of a set and a value, holds of the next one if it held before
\* the last element was taken.
Keeps(P, S, D, F, pick) ==
  \A s \in SUBSET S, v \in D :
    s # {} /\ <<s \ {pick[s]}, v>> \in P => <<s, F[<<pick[s], v>>]>> \in P

\* What is kept holds of the value of S.
LEMMA SolutionKeeps ==
  ASSUME NEW S, IsFiniteSet(S), NEW D, NEW base, NEW F,
         NEW pick, Picks(pick, S), NEW h, Solves(h, S, D, base, F, pick),
         NEW P, <<{}, base>> \in P, Keeps(P, S, D, F, pick)
  PROVE  h[S] \in D /\ <<S, h[S]>> \in P
<1> DEFINE W == {s \in SUBSET S : <<s, h[s]>> \notin P}
<1>1. IsWellFoundedOn(StrictSubsetOrdering(S), SUBSET S)
  BY FS_StrictSubsetOrderingWellFounded, FS_FiniteSubsetsOfFinite
<1>2. ASSUME W # {} PROVE FALSE
  <2>1. PICK s \in W : \A r \in W : <<r, s>> \notin StrictSubsetOrdering(S)
    <3>1. W \subseteq SUBSET S
      OBVIOUS
    <3> HIDE DEF W
    <3> QED
      BY <1>1, <1>2, <3>1, WFMin
  <2>2. s \in SUBSET S /\ <<s, h[s]>> \notin P
    BY <2>1
  <2>3. s # {}
    BY <2>2 DEF Solves
  <2> DEFINE r == s \ {pick[s]}
  <2>4. pick[s] \in s /\ r \in SUBSET S
    BY <2>2, <2>3 DEF Picks
  <2>5. <<r, s>> \in StrictSubsetOrdering(S)
    BY <2>2, <2>4 DEF StrictSubsetOrdering
  <2>6. <<r, h[r]>> \in P
    BY <2>1, <2>4, <2>5
  <2>7. h[s] = F[<<pick[s], h[r]>>] /\ h[r] \in D
    BY <2>2, <2>3, <2>4 DEF Solves
  <2> QED
    BY <2>2, <2>3, <2>6, <2>7 DEF Keeps
<1>3. h[S] \in D
  BY DEF Solves
<1> QED
  BY <1>2, <1>3

LEMMA SmallerSets ==
  ASSUME NEW T, IsFiniteSet(T)
  PROVE  IsWellFoundedOn(StrictSubsetOrdering(T), SUBSET T)
BY FS_StrictSubsetOrderingWellFounded, FS_FiniteSubsetsOfFinite

\* Two that agree on a smaller set whenever they might not on a larger agree on all.
LEMMA Agreement ==
  ASSUME NEW T, IsFiniteSet(T), NEW g, NEW h,
         \A s \in SUBSET T :
           g[s] = h[s] \/ \E r \in SUBSET T : r \subseteq s /\ r # s /\ (g[r] = h[r] => g[s] = h[s])
  PROVE  g[T] = h[T]
<1> DEFINE W == {s \in SUBSET T : g[s] # h[s]}
<1>1. IsWellFoundedOn(StrictSubsetOrdering(T), SUBSET T)
  BY SmallerSets
<1>2. ASSUME W # {} PROVE FALSE
  <2>1. PICK s \in W : \A r \in W : <<r, s>> \notin StrictSubsetOrdering(T)
    <3>1. W \subseteq SUBSET T
      OBVIOUS
    <3> HIDE DEF W
    <3> QED
      BY <1>1, <1>2, <3>1, WFMin
  <2>2. PICK r \in SUBSET T : r \subseteq s /\ r # s /\ (g[r] = h[r] => g[s] = h[s])
    BY <2>1
  <2>3. <<r, s>> \in StrictSubsetOrdering(T)
    BY <2>1, <2>2 DEF StrictSubsetOrdering
  <2> QED
    BY <2>1, <2>2, <2>3
<1>3. T \in SUBSET T
  OBVIOUS
<1> QED
  BY <1>2, <1>3

-------------------------------------------------------------------------------
(* A set that has no part larger than that of another is not larger.       *)

\* The elements of A of key k.
PartOf(A, f, k) == {a \in A : f[a] = k}

LEMMA PartByPart ==
  ASSUME NEW A, IsFiniteSet(A), NEW B, IsFiniteSet(B), NEW f, NEW g,
         \A k : Cardinality(PartOf(A, f, k)) <= Cardinality(PartOf(B, g, k))
  PROVE  Cardinality(A) <= Cardinality(B)
<1> DEFINE Less(X, Y) == \A k : Cardinality(PartOf(X, f, k)) <= Cardinality(PartOf(Y, g, k))
           W == {X \in SUBSET A : \E Y \in SUBSET B : Less(X, Y) /\ Cardinality(X) > Cardinality(Y)}
<1>1. IsWellFoundedOn(StrictSubsetOrdering(A), SUBSET A)
  BY FS_StrictSubsetOrderingWellFounded, FS_FiniteSubsetsOfFinite
<1>2. ASSUME W # {} PROVE FALSE
  <2>1. PICK X \in W : \A Z \in W : <<Z, X>> \notin StrictSubsetOrdering(A)
    <3>1. W \subseteq SUBSET A
      OBVIOUS
    <3> HIDE DEF W
    <3> QED
      BY <1>1, <1>2, <3>1, WFMin
  <2>2. X \in SUBSET A
    OBVIOUS
  <2>3. PICK Y \in SUBSET B : Less(X, Y) /\ Cardinality(X) > Cardinality(Y)
    BY <2>1
  <2>4. /\ IsFiniteSet(X) /\ Cardinality(X) \in Nat /\ IsFiniteSet(Y) /\ Cardinality(Y) \in Nat
        /\ \A k : /\ IsFiniteSet(PartOf(X, f, k)) /\ Cardinality(PartOf(X, f, k)) \in Nat
                  /\ IsFiniteSet(PartOf(Y, g, k)) /\ Cardinality(PartOf(Y, g, k)) \in Nat
    BY <2>2, FS_Subset, FS_CardinalityType DEF PartOf
  <2>5. PICK a \in X : TRUE
    BY <2>3, <2>4, FS_EmptySet
  <2>6. PICK b \in Y : g[b] = f[a]
    <3>1. a \in PartOf(X, f, f[a])
      BY DEF PartOf
    <3>2. Cardinality(PartOf(X, f, f[a])) # 0
      BY <2>4, <3>1, FS_EmptySet
    <3>3. Cardinality(PartOf(Y, g, f[a])) # 0
      BY <2>3, <2>4, <3>2
    <3> QED
      BY <3>3, FS_EmptySet DEF PartOf
  <2> DEFINE Z == X \ {a}
             V == Y \ {b}
  <2>7. Cardinality(Z) = Cardinality(X) - 1 /\ Cardinality(V) = Cardinality(Y) - 1
    BY <2>4, <2>5, <2>6, FS_RemoveElement
  <2>8. ASSUME NEW k PROVE Cardinality(PartOf(Z, f, k)) <= Cardinality(PartOf(V, g, k))
    <3>1. Cardinality(PartOf(X, f, k)) <= Cardinality(PartOf(Y, g, k))
      BY <2>3
    <3>2. CASE k # f[a]
      <4>1. PartOf(Z, f, k) = PartOf(X, f, k) /\ PartOf(V, g, k) = PartOf(Y, g, k)
        BY <2>6, <3>2 DEF PartOf
      <4> QED
        BY <3>1, <4>1
    <3>3. CASE k = f[a]
      <4>1. /\ PartOf(Z, f, k) = PartOf(X, f, k) \ {a} /\ a \in PartOf(X, f, k)
            /\ PartOf(V, g, k) = PartOf(Y, g, k) \ {b} /\ b \in PartOf(Y, g, k)
        BY <2>5, <2>6, <3>3 DEF PartOf
      <4>2. /\ Cardinality(PartOf(Z, f, k)) = Cardinality(PartOf(X, f, k)) - 1
            /\ Cardinality(PartOf(V, g, k)) = Cardinality(PartOf(Y, g, k)) - 1
        <5>1. ASSUME NEW S, IsFiniteSet(S), NEW e \in S
              PROVE  Cardinality(S \ {e}) = Cardinality(S) - 1
          BY <5>1, FS_RemoveElement
        <5> HIDE DEF Z, V
        <5>2. IsFiniteSet(PartOf(X, f, k)) /\ IsFiniteSet(PartOf(Y, g, k))
          BY <2>4
        <5>3. Cardinality(PartOf(X, f, k) \ {a}) = Cardinality(PartOf(X, f, k)) - 1
          BY <4>1, <5>1, <5>2
        <5>4. Cardinality(PartOf(Y, g, k) \ {b}) = Cardinality(PartOf(Y, g, k)) - 1
          BY <4>1, <5>1, <5>2
        <5> QED
          BY <4>1, <5>3, <5>4
      <4> QED
        BY <2>4, <3>1, <4>2
    <3> QED
      BY <3>2, <3>3
  <2>9. Z \in SUBSET A /\ V \in SUBSET B /\ Cardinality(Z) > Cardinality(V)
    BY <2>2, <2>3, <2>4, <2>7
  <2>10. Z \in W
    BY <2>8, <2>9
  <2>11. <<Z, X>> \in StrictSubsetOrdering(A)
    BY <2>2, <2>5 DEF StrictSubsetOrdering
  <2> QED
    BY <2>1, <2>10, <2>11
<1>3. A \notin W
  BY <1>2
<1>4. ~ (Cardinality(A) > Cardinality(B))
  BY <1>3
<1> QED
  BY <1>4, FS_CardinalityType

-------------------------------------------------------------------------------
(* Numbers in order, sequences, and division.                                *)

\* What holds of the first number and is handed on holds of an interval.
LEMMA Upward ==
  ASSUME NEW m \in Int, NEW n \in Int, NEW S, m <= n => m \in S,
         \A k \in m .. n - 1 : k \in S => k + 1 \in S
  PROVE  m .. n \subseteq S
<1> DEFINE W == {d \in 0 .. n - m : m + d \notin S}
<1>1. IsFiniteSet(W)
  <2>1. W \in SUBSET (0 .. n - m) /\ IsFiniteSet(0 .. n - m)
    BY FS_Interval
  <2> QED  BY <2>1, FS_Subset
<1>2. ASSUME W # {} PROVE FALSE
  <2> DEFINE R == {p \in W \X W : p[1] < p[2]}
  <2>1. \A d \in W : <<d, d>> \notin R
    OBVIOUS
  <2>2. \A c, d, e \in W : <<c, d>> \in R /\ <<d, e>> \in R => <<c, e>> \in R
    OBVIOUS
  <2>3. PICK e \in W : \A d \in W : <<d, e>> \notin R
    <3> HIDE DEF R, W
    <3> QED  BY <1>1, <1>2, <2>1, <2>2, FiniteMinimum
  <2>4. e \in 0 .. n - m /\ m + e \notin S
    BY <2>3
  <2>5. e # 0
    BY <2>4
  <2>6. e - 1 \notin W
    <3>1. e - 1 \in W => <<e - 1, e>> \in R
      BY <2>3, <2>4
    <3> QED  BY <2>3, <3>1
  <2>7. m + (e - 1) \in S
    BY <2>4, <2>5, <2>6
  <2>8. m + (e - 1) \in m .. n - 1 /\ m + (e - 1) + 1 = m + e
    BY <2>4, <2>5
  <2>9. m + e \in S
    BY <2>7, <2>8
  <2> QED
    BY <2>4, <2>9
<1>3. ASSUME NEW k \in m .. n PROVE k \in S
  <2>1. k - m \in 0 .. n - m /\ m + (k - m) = k
    OBVIOUS
  <2> QED
    BY <1>2, <2>1
<1> QED
  BY <1>3

\* R puts the elements of S in one order.
Strict(S, R) ==
  /\ \A x \in S : <<x, x>> \notin R
  /\ \A x, y, z \in S : <<x, y>> \in R /\ <<y, z>> \in R => <<x, z>> \in R
  /\ \A x, y \in S : x = y \/ <<x, y>> \in R \/ <<y, x>> \in R

\* A finite set in its order: each element once, the earlier ones first.
LEMMA OrderedIs ==
  ASSUME NEW S, IsFiniteSet(S), NEW R, Strict(S, R)
  PROVE  /\ Cardinality(S) \in Nat
         /\ Ordered(S, R) \in [1 .. Cardinality(S) -> S]
         /\ \A k, l \in 1 .. Cardinality(S) : k < l => <<Ordered(S, R)[k], Ordered(S, R)[l]>> \in R
         /\ \A x \in S : \E k \in 1 .. Cardinality(S) : Ordered(S, R)[k] = x
<1> DEFINE n == Cardinality(S)
           below(x) == {y \in S : <<y, x>> \in R}
           place == [x \in S |-> Cardinality(below(x)) + 1]
<1>1. n \in Nat
  BY FS_CardinalityType
<1>2. ASSUME NEW x \in S
      PROVE  /\ IsFiniteSet(below(x)) /\ Cardinality(below(x)) \in 0 .. n - 1
  <2>1. below(x) \in SUBSET S /\ below(x) # S
    BY DEF Strict
  <2> HIDE DEF below
  <2> QED
    BY <1>1, <2>1, FS_Subset, FS_CardinalityType
<1>3. ASSUME NEW x \in S, NEW y \in S, <<x, y>> \in R
      PROVE  Cardinality(below(x)) < Cardinality(below(y))
  <2>1. below(x) \in SUBSET below(y) /\ x \in below(y) /\ x \notin below(x)
    BY <1>3 DEF Strict
  <2> HIDE DEF below
  <2> QED
    BY <1>2, <2>1, FS_Subset
<1>4. \A x \in S : place[x] \in 1 .. n /\ Cardinality(below(x)) = place[x] - 1
  <2>1. \A x \in S : place[x] = Cardinality(below(x)) + 1
    OBVIOUS
  <2> HIDE DEF place, below
  <2> QED
    BY <1>1, <1>2, <2>1
<1>5. \A x, y \in S : <<x, y>> \in R => place[x] < place[y]
  <2> HIDE DEF below
  <2> QED
    BY <1>1, <1>2, <1>3
<1>6. place = [x \in S |-> place[x]]
  OBVIOUS
<1> HIDE DEF place
<1>7. \A x, y \in S : place[x] = place[y] => x = y
  <2>1. \A x, y \in S : place[x] \in Int /\ (place[x] < place[y] => place[x] # place[y])
    <3>1. \A x \in S : place[x] \in 1 .. n
      BY <1>4
    <3>2. 1 .. n \subseteq Int /\ \A i, j \in Int : i < j => i # j
      BY <1>1
    <3> QED
      BY <3>1, <3>2
  <2> QED
    BY <1>5, <2>1 DEF Strict
<1>8. place \in Injection(S, 1 .. n)
  BY <1>4, <1>6, <1>7 DEF Injection, IsInjective
<1>9. place \in Surjection(S, 1 .. n)
  <2>1. IsFiniteSet(1 .. n) /\ Cardinality(1 .. n) = n
    BY <1>1, FS_Interval
  <2> QED
    BY <1>8, <2>1, FS_Injection
<1>10. \A k \in 1 .. n : \E x \in S : place[x] = k
  BY <1>9 DEF Surjection
<1>11. ASSUME NEW k \in 1 .. n
       PROVE  Ordered(S, R)[k] \in S /\ place[Ordered(S, R)[k]] = k
  <2>1. PICK z \in S : place[z] = k
    BY <1>10
  <2>2. Cardinality(below(z)) = k - 1
    BY <1>4, <2>1
  <2>3. Ordered(S, R)[k] = CHOOSE x \in S : Cardinality(below(x)) = k - 1
    BY DEF Ordered
  <2> HIDE DEF below
  <2>4. Ordered(S, R)[k] \in S /\ Cardinality(below(Ordered(S, R)[k])) = k - 1
    BY <2>2, <2>3
  <2> QED
    BY <1>4, <2>4
<1>12. Ordered(S, R) \in [1 .. n -> S]
  BY <1>11 DEF Ordered
<1>13. ASSUME NEW k \in 1 .. n, NEW l \in 1 .. n, k < l
       PROVE  <<Ordered(S, R)[k], Ordered(S, R)[l]>> \in R
  <2> DEFINE x == Ordered(S, R)[k]
             y == Ordered(S, R)[l]
  <2>1. x \in S /\ y \in S /\ place[x] = k /\ place[y] = l
    BY <1>11
  <2>2. ~ (l < k) /\ k # l
    BY <1>13
  <2>3. x # y /\ <<y, x>> \notin R
    BY <1>5, <2>1, <2>2
  <2> QED
    BY <2>1, <2>3 DEF Strict
<1>14. ASSUME NEW x \in S PROVE \E k \in 1 .. n : Ordered(S, R)[k] = x
  BY <1>4, <1>7, <1>11
<1> QED
  BY <1>1, <1>12, <1>13, <1>14

\* The same of numbers.
LEMMA AscendingIs ==
  ASSUME NEW S \in SUBSET Int, IsFiniteSet(S)
  PROVE  /\ Cardinality(S) \in Nat
         /\ Ascending(S) \in [1 .. Cardinality(S) -> S]
         /\ \A k, l \in 1 .. Cardinality(S) : k < l => Ascending(S)[k] < Ascending(S)[l]
         /\ \A x \in S : \E k \in 1 .. Cardinality(S) : Ascending(S)[k] = x
<1> DEFINE R == {p \in S \X S : p[1] < p[2]}
<1>1. Strict(S, R)
  BY DEF Strict
<1>2. \A x, y : <<x, y>> \in R => x < y
  OBVIOUS
<1>3. Ascending(S) = Ordered(S, R)
  BY DEF Ascending
<1> HIDE DEF R
<1>4. /\ Cardinality(S) \in Nat
      /\ Ordered(S, R) \in [1 .. Cardinality(S) -> S]
      /\ \A k, l \in 1 .. Cardinality(S) : k < l => <<Ordered(S, R)[k], Ordered(S, R)[l]>> \in R
      /\ \A x \in S : \E k \in 1 .. Cardinality(S) : Ordered(S, R)[k] = x
  BY <1>1, OrderedIs
<1> QED
  BY <1>2, <1>3, <1>4

\* What s with t after it has at each place.
LEMMA ConcatIs ==
  ASSUME NEW D, NEW s \in Seq(D), NEW t \in Seq(D)
  PROVE  /\ s \o t \in Seq(D) /\ Len(s) \in Nat /\ Len(t) \in Nat
         /\ Len(s \o t) = Len(s) + Len(t)
         /\ \A p \in 1 .. Len(s) : p \in 1 .. Len(s) + Len(t) /\ (s \o t)[p] = s[p]
         /\ \A p \in 1 .. Len(t) :
              Len(s) + p \in 1 .. Len(s) + Len(t) /\ (s \o t)[Len(s) + p] = t[p]
BY ConcatProperties, LenProperties

\* Quotient and remainder.
LEMMA Division ==
  ASSUME NEW a \in Nat, NEW b \in Nat \ {0}
  PROVE  /\ a \div b \in Nat /\ a % b \in 0 .. b - 1
         /\ a = b * (a \div b) + (a % b)
<1>1. a % b \in 0 .. b - 1 /\ a = b * (a \div b) + (a % b)
  OBVIOUS
<1>2. a \div b \in Int /\ a \div b >= 0
  OBVIOUS
<1> QED
  BY <1>1, <1>2

\* A quotient and a rest are those of the division.
LEMMA OneQuotient ==
  ASSUME NEW b \in Nat \ {0}, NEW q \in Int, NEW p \in Int,
         NEW i \in 0 .. b - 1, NEW j \in 0 .. b - 1, b * q + i = b * p + j
  PROVE  q = p /\ i = j
<1>1. ASSUME q < p PROVE FALSE
  <2>1. b * (p - q) >= b
    BY <1>1
  <2> QED
    BY <2>1
<1>2. ASSUME p < q PROVE FALSE
  <2>1. b * (q - p) >= b
    BY <1>2
  <2> QED
    BY <2>1
<1> QED
  BY <1>1, <1>2

\* The division of a multiple with a remainder.
LEMMA Quotient ==
  ASSUME NEW b \in Nat \ {0}, NEW q \in Nat, NEW i \in 0 .. b - 1
  PROVE  (b * q + i) \div b = q /\ (b * q + i) % b = i
<1>1. b * q + i \in Nat
  OBVIOUS
<1> QED
  BY <1>1, Division, OneQuotient

\* A greater number has no smaller quotient.
LEMMA DivisionGrows ==
  ASSUME NEW a \in Nat, NEW b \in Nat, a <= b, NEW c \in Nat \ {0}
  PROVE  a \div c <= b \div c
<1>1. PICK p, q, i, j : p = a \div c /\ q = b \div c /\ i = a % c /\ j = b % c
  OBVIOUS
<1>2. /\ p \in Nat /\ i \in 0 .. c - 1 /\ a = c * p + i
      /\ q \in Nat /\ j \in 0 .. c - 1 /\ b = c * q + j
  BY <1>1, Division
<1>3. ASSUME q < p PROVE FALSE
  <2>1. c * (p - q) >= c
    BY <1>1, <1>3
  <2> QED
    BY <1>1, <1>2, <2>1
<1> QED
  BY <1>1, <1>3

\* The numbers of an interval in order.
LEMMA AscendingRun ==
  ASSUME NEW a \in Int, NEW m \in Nat
  PROVE  Ascending(a .. a + m - 1) = [k \in 1 .. m |-> a + k - 1]
<1> DEFINE S == a .. a + m - 1
           R == {p \in S \X S : p[1] < p[2]}
           below(x) == {y \in S : <<y, x>> \in R}
<1>1. Cardinality(S) = m
  BY FS_Interval
<1>2. ASSUME NEW x \in S PROVE Cardinality(below(x)) = x - a
  <2>1. below(x) = a .. x - 1
    OBVIOUS
  <2> DEFINE b == x - 1
  <2>2. b \in Int /\ x \in Int /\ x >= a /\ b = x - 1
    OBVIOUS
  <2> HIDE DEF below, S, b
  <2>3. Cardinality(a .. b) = IF a <= b THEN (b - a) + 1 ELSE 0
    BY <2>2, FS_Interval
  <2>4. (IF a <= b THEN (b - a) + 1 ELSE 0) = x - a
    BY <2>2
  <2> QED
    BY <2>1, <2>3, <2>4 DEF b
<1>3. Ascending(S) = [k \in 1 .. m |-> CHOOSE x \in S : Cardinality(below(x)) = k - 1]
  BY <1>1, Zenon DEF Ascending, Ordered
<1>4. ASSUME NEW k \in 1 .. m PROVE (CHOOSE x \in S : Cardinality(below(x)) = k - 1) = a + k - 1
  <2>1. a + k - 1 \in S /\ (a + k - 1) - a = k - 1 /\ \A x \in S : x \in Int /\ (x - a = k - 1 => x = a + k - 1)
    OBVIOUS
  <2> HIDE DEF below, S
  <2> QED
    BY <1>2, <2>1
<1> HIDE DEF below, S
<1> QED
  BY <1>3, <1>4 DEF S

\* The numbers from 0 in order.
LEMMA AscendingFromNought ==
  ASSUME NEW m \in Nat
  PROVE  Ascending(0 .. m - 1) = [k \in 1 .. m |-> k - 1]
<1>1. 0 + m - 1 = m - 1 /\ \A k \in 1 .. m : 0 + k - 1 = k - 1
  OBVIOUS
<1> QED
  BY <1>1, AscendingRun, 0 \in Int

\* A place is in one block of m of the n there are.
LEMMA InABlock ==
  ASSUME NEW m \in Nat \ {0}, NEW n \in Nat, NEW t \in 1 .. m * n
  PROVE  \E i \in 1 .. n : \E j \in 1 .. m : t = m * (i - 1) + j
<1> DEFINE q == (t - 1) \div m
           r == (t - 1) % m
<1>1. t - 1 \in Nat
  OBVIOUS
<1>2. q \in Nat /\ r \in 0 .. m - 1 /\ t - 1 = m * q + r
  BY <1>1, Division
<1> HIDE DEF q, r
<1>3. q < n
  <2> SUFFICES ASSUME q >= n PROVE FALSE
    BY <1>2
  <2>1. m * q >= m * n
    BY <1>2
  <2>2. m * q \in Int /\ m * n \in Int /\ t <= m * n
    BY <1>2
  <2> QED
    BY <1>2, <2>1, <2>2
<1>4. q + 1 \in 1 .. n /\ r + 1 \in 1 .. m /\ m * ((q + 1) - 1) = m * q
  BY <1>2, <1>3
<1>5. m * q \in Int
  BY <1>2
<1>6. t = m * ((q + 1) - 1) + (r + 1)
  BY <1>2, <1>4, <1>5
<1> DEFINE i == q + 1
           j == r + 1
<1>7. i \in 1 .. n /\ j \in 1 .. m
  BY Zenon, <1>4
<1>8. t = m * (i - 1) + j
  BY Zenon, <1>6
<1> HIDE DEF i, j
<1> QED
  BY <1>7, <1>8

\* The place of the j-th of block i is one of the n * m places.
LEMMA BlockPlace ==
  ASSUME NEW m \in Nat \ {0}, NEW n \in Nat, NEW i \in 1 .. n, NEW j \in 1 .. m
  PROVE  m * (i - 1) \in Nat /\ m * (i - 1) + j \in 1 .. m * n
<1>1. i - 1 \in Nat /\ n - i \in Nat
  OBVIOUS
<1>2. m * (i - 1) \in Nat /\ m * (n - i) \in Nat
  BY <1>1
<1>3. m * n = m * (i - 1) + m + m * (n - i)
  BY <1>1
<1> QED
  BY <1>2, <1>3

\* It is in no other block.
LEMMA OneBlock ==
  ASSUME NEW m \in Nat \ {0}, NEW i \in Int, NEW k \in Int, NEW j \in 1 .. m, NEW l \in 1 .. m,
         m * (i - 1) + j = m * (k - 1) + l
  PROVE  i = k /\ j = l
<1>1. i - 1 \in Int /\ k - 1 \in Int /\ j - 1 \in 0 .. m - 1 /\ l - 1 \in 0 .. m - 1
  OBVIOUS
<1>2. m * (i - 1) \in Int /\ m * (k - 1) \in Int
  BY <1>1
<1>3. m * (i - 1) + (j - 1) = m * (k - 1) + (l - 1)
  BY <1>2
<1>4. i - 1 = k - 1 /\ j - 1 = l - 1
  BY <1>1, <1>3, OneQuotient
<1> QED
  BY <1>4

\* w is s with t after it.
IsJoin(w, s, t) ==
  /\ Len(s) \in Nat /\ Len(t) \in Nat /\ Len(w) = Len(s) + Len(t)
  /\ \A p \in 1 .. Len(s) : p \in 1 .. Len(w) /\ w[p] = s[p]
  /\ \A p \in 1 .. Len(t) : Len(s) + p \in 1 .. Len(w) /\ w[Len(s) + p] = t[p]

\* That is what the concatenation is.
LEMMA JoinIs ==
  ASSUME NEW D, NEW s \in Seq(D), NEW t \in Seq(D)
  PROVE  s \o t \in Seq(D) /\ IsJoin(s \o t, s, t)
BY ConcatProperties, LenProperties DEF IsJoin

\* off[i] is how many elements the first i sequences have.
Offsets(off, ss, n) ==
  /\ off \in [0 .. n -> Nat] /\ off[0] = 0
  /\ \A i \in 1 .. n : off[i] = off[i - 1] + Len(ss[i])

\* whole is the sequences one after the other: that of off[i - 1] + j is the j-th of the i-th.
Laid(whole, off, ss, n) ==
  /\ Offsets(off, ss, n)
  /\ Len(whole) = off[n]
  /\ \A i \in 1 .. n : \A j \in 1 .. Len(ss[i]) :
       off[i - 1] + j \in 1 .. off[n] /\ whole[off[i - 1] + j] = ss[i][j]

\* The flattened sequences lie one after the other, each at an offset.
LEMMA FlattenIs ==
  ASSUME NEW D, NEW n \in Nat, NEW ss \in [1 .. n -> Seq(D)]
  PROVE  /\ FlattenSeq(ss) \in Seq(D)
         /\ \E off : Laid(FlattenSeq(ss), off, ss, n)
<1> DEFINE Flat(f, k) == \A i \in 1 .. k : f[i] = IF i = 1 THEN ss[i] ELSE f[i - 1] \o ss[i]
           Some == {k \in 0 .. n : \E f \in [1 .. k -> Seq(D)] : Flat(f, k)}
<1>1. Len(ss) = n
  OBVIOUS
<1>2. CASE n = 0
  <2>1. ss = <<>>
    BY <1>2
  <2>2. FlattenSeq(ss) = <<>>
    BY <1>1, <1>2, <2>1 DEF FlattenSeq
  <2>3. Offsets([i \in 0 .. 0 |-> 0], ss, 0)
    BY DEF Offsets
  <2>4. Laid(<<>>, [i \in 0 .. 0 |-> 0], ss, 0)
    BY <2>3 DEF Laid
  <2> QED
    BY <1>2, <2>2, <2>4
<1>3. CASE n # 0
  <2>1. 0 \in Some
    <3>1. <<>> \in [1 .. 0 -> Seq(D)] /\ Flat(<<>>, 0) /\ 0 \in 0 .. n
      OBVIOUS
    <3> HIDE DEF Flat
    <3> QED
      BY <3>1
  <2>2. ASSUME NEW k \in 0 .. n - 1, k \in Some PROVE k + 1 \in Some
    <3>1. PICK f \in [1 .. k -> Seq(D)] : Flat(f, k)
      BY <2>2
    <3> DEFINE v == IF k = 0 THEN ss[k + 1] ELSE f[k] \o ss[k + 1]
               g == [i \in 1 .. k + 1 |-> IF i = k + 1 THEN v ELSE f[i]]
    <3>2. v \in Seq(D)
      BY ConcatProperties
    <3>3. g[k + 1] = v /\ \A i \in 1 .. k : g[i] = f[i]
      <4> HIDE DEF v
      <4> QED  OBVIOUS
    <3>4. g \in [1 .. k + 1 -> Seq(D)]
      <4> HIDE DEF v
      <4> QED  BY <3>2
    <3> HIDE DEF g
    <3>5. ASSUME NEW i \in 1 .. k
          PROVE  g[i] = IF i = 1 THEN ss[i] ELSE g[i - 1] \o ss[i]
      <4>1. i # 1 => i - 1 \in 1 .. k
        OBVIOUS
      <4>2. f[i] = IF i = 1 THEN ss[i] ELSE f[i - 1] \o ss[i]
        BY <3>1
      <4> HIDE DEF v
      <4> QED
        BY <3>3, <4>1, <4>2
    <3>6. g[k + 1] = IF k + 1 = 1 THEN ss[k + 1] ELSE g[k + 1 - 1] \o ss[k + 1]
      <4>1. k + 1 - 1 = k /\ (k + 1 = 1 <=> k = 0) /\ (k # 0 => k \in 1 .. k)
        OBVIOUS
      <4> QED
        BY <3>3, <4>1
    <3>7. Flat(g, k + 1)
      <4>1. \A i \in 1 .. k + 1 : i \in 1 .. k \/ i = k + 1
        OBVIOUS
      <4> QED
        BY <3>5, <3>6, <4>1
    <3>8. k + 1 \in 0 .. n
      OBVIOUS
    <3> HIDE DEF Flat
    <3> QED
      BY <3>4, <3>7, <3>8
  <2>3. n \in Some
    <3> HIDE DEF Some
    <3>1. \A k \in 0 .. n - 1 : k \in Some => k + 1 \in Some
      BY <2>2
    <3>2. 0 .. n \subseteq Some
      BY <2>1, <3>1, Upward, 0 \in Int, n \in Int
    <3> QED
      BY <3>2
  <2>4. PICK f \in [1 .. n -> Seq(D)] : Flat(f, n)
    BY <2>3
  <2> DEFINE Eq(h) == h = [i \in 1 .. n |-> IF i = 1 THEN ss[i] ELSE h[i - 1] \o ss[i]]
             g == CHOOSE h : Eq(h)
  <2>5. Eq(f)
    BY <2>4
  <2>6. Eq(g)
    <3> HIDE DEF Eq
    <3> QED  BY <2>5
  <2>7. FlattenSeq(ss) = g[n]
    BY <1>1, <1>3 DEF FlattenSeq
  <2>8. \A i \in 1 .. n : g[i] = IF i = 1 THEN ss[i] ELSE g[i - 1] \o ss[i]
    <3> HIDE DEF g
    <3> QED
      BY <2>6
  <2> HIDE DEF g, Eq
  <2> DEFINE off == [i \in 0 .. n |-> IF i = 0 THEN 0 ELSE Len(g[i])]
             Right(k) == /\ g[k] \in Seq(D)
                         /\ \A i \in 1 .. k : \A j \in 1 .. Len(ss[i]) :
                              off[i - 1] + j \in 1 .. off[k] /\ g[k][off[i - 1] + j] = ss[i][j]
             Good == {k \in 1 .. n : /\ \A i \in 1 .. k : off[i - 1] \in Nat /\ off[i] = off[i - 1] + Len(ss[i])
                                     /\ Right(k)}
  <2>9. off[0] = 0 /\ \A i \in 1 .. n : off[i] = Len(g[i])
    OBVIOUS
  <2>10. off = [i \in 0 .. n |-> off[i]]
    OBVIOUS
  <2> HIDE DEF off
  <2>11. 1 \in Good
    <3>1. g[1] = ss[1] /\ ss[1] \in Seq(D) /\ Len(ss[1]) \in Nat /\ 1 \in 1 .. n
      BY <1>3, <2>8
    <3>2. off[1 - 1] = 0 /\ off[1] = Len(ss[1])
      BY <2>9, <3>1
    <3> QED
      BY <3>1, <3>2
  <2>12. ASSUME NEW k \in 1 .. n - 1, k \in Good PROVE k + 1 \in Good
    <3> DEFINE l == k + 1
    <3>1. l \in 1 .. n /\ l # 1 /\ l - 1 = k /\ k \in 1 .. n
      OBVIOUS
    <3>2. Right(k) /\ \A i \in 1 .. k : off[i - 1] \in Nat /\ off[i] = off[i - 1] + Len(ss[i])
      <4> HIDE DEF Right
      <4> QED  BY <2>12
    <3>3. g[k] \in Seq(D) /\ ss[l] \in Seq(D)
      <4> HIDE DEF l
      <4> QED  BY <3>1, <3>2
    <3> HIDE DEF l
    <3>4. g[l] = g[k] \o ss[l]
      BY <2>8, <3>1
    <3>5. /\ g[l] \in Seq(D) /\ Len(g[k]) \in Nat /\ Len(ss[l]) \in Nat
          /\ Len(g[l]) = Len(g[k]) + Len(ss[l])
          /\ \A p \in 1 .. Len(g[k]) : p \in 1 .. Len(g[k]) + Len(ss[l]) /\ g[l][p] = g[k][p]
          /\ \A p \in 1 .. Len(ss[l]) :
               Len(g[k]) + p \in 1 .. Len(g[k]) + Len(ss[l]) /\ g[l][Len(g[k]) + p] = ss[l][p]
      <4> DEFINE a == g[k]
                 b == ss[l]
      <4>1. a \in Seq(D) /\ b \in Seq(D) /\ g[l] = a \o b
        BY <3>3, <3>4
      <4> HIDE DEF a, b
      <4>2. /\ a \o b \in Seq(D) /\ Len(a) \in Nat /\ Len(b) \in Nat
            /\ Len(a \o b) = Len(a) + Len(b)
            /\ \A p \in 1 .. Len(a) : p \in 1 .. Len(a) + Len(b) /\ (a \o b)[p] = a[p]
            /\ \A p \in 1 .. Len(b) :
                 Len(a) + p \in 1 .. Len(a) + Len(b) /\ (a \o b)[Len(a) + p] = b[p]
        BY <4>1, ConcatIs
      <4> QED
        BY <4>1, <4>2 DEF a, b
    <3>6. off[k] = Len(g[k]) /\ off[l] = off[k] + Len(ss[l]) /\ off[l - 1] = off[k]
      BY <2>9, <3>1, <3>5
    <3>7. off[k] + Len(ss[l]) = off[l] /\ off[k] \in Nat /\ Len(ss[l]) \in Nat
      BY <3>5, <3>6
    <3>8. ASSUME NEW i \in 1 .. k, NEW j \in 1 .. Len(ss[i])
          PROVE  off[i - 1] + j \in 1 .. off[l] /\ g[l][off[i - 1] + j] = ss[i][j]
      BY <3>2, <3>5, <3>6
    <3>9. ASSUME NEW j \in 1 .. Len(ss[l])
          PROVE  off[l - 1] + j \in 1 .. off[l] /\ g[l][off[l - 1] + j] = ss[l][j]
      BY <3>5, <3>6
    <3>10. \A i \in 1 .. l : i \in 1 .. k \/ i = l
      BY <3>1
    <3>11. Right(l)
      BY <3>5, <3>8, <3>9, <3>10
    <3>12. \A i \in 1 .. l : off[i - 1] \in Nat /\ off[i] = off[i - 1] + Len(ss[i])
      BY <3>2, <3>6, <3>7, <3>10
    <3>13. l \in Good
      <4> HIDE DEF Right
      <4> QED  BY <3>1, <3>11, <3>12
    <3> QED
      BY <3>13 DEF l
  <2>13. n \in Good
    <3> HIDE DEF Good
    <3>1. \A k \in 1 .. n - 1 : k \in Good => k + 1 \in Good
      BY <2>12
    <3>2. 1 .. n \subseteq Good
      BY <2>11, <3>1, Upward, 1 \in Int, n \in Int
    <3> QED
      BY <1>3, <3>2
  <2>14. Right(n) /\ \A i \in 1 .. n : off[i - 1] \in Nat /\ off[i] = off[i - 1] + Len(ss[i])
    <3> HIDE DEF Right
    <3> QED
      BY <2>13
  <2>15. n \in 1 .. n /\ off[n] = Len(g[n]) /\ off[n] \in Nat
    BY <1>3, <2>9, <2>14
  <2>16. \A i \in 0 .. n : off[i] \in Nat
    <3>1. \A i \in 0 .. n - 1 : off[i] \in Nat
      <4>1. \A i \in 0 .. n - 1 : i + 1 \in 1 .. n /\ (i + 1) - 1 = i
        OBVIOUS
      <4> QED
        BY <2>14, <4>1
    <3> QED
      BY <2>15, <3>1
  <2>17. Offsets(off, ss, n)
    BY <2>9, <2>10, <2>14, <2>16 DEF Offsets
  <2>18. Laid(g[n], off, ss, n)
    BY <2>14, <2>15, <2>17 DEF Laid
  <2> QED
    BY <2>7, <2>14, <2>18
<1> QED
  BY <1>2, <1>3

\* Every place of the whole lies in one of the sequences.
Covered(off, ss, n) ==
  \A p \in 1 .. off[n] : \E i \in 1 .. n : \E j \in 1 .. Len(ss[i]) : p = off[i - 1] + j

\* The offsets leave no gap.
LEMMA Located ==
  ASSUME NEW n \in Nat, NEW off, NEW ss, \A i \in 1 .. n : Len(ss[i]) \in Nat, Offsets(off, ss, n)
  PROVE  Covered(off, ss, n)
<1> DEFINE There(k) == \A p \in 1 .. off[k] : \E i \in 1 .. k : \E j \in 1 .. Len(ss[i]) : p = off[i - 1] + j
           W == {k \in 0 .. n : There(k)}
<1>1. 0 \in W
  BY DEF Offsets
<1>2. ASSUME NEW k \in 0 .. n - 1, k \in W PROVE k + 1 \in W
  <2> DEFINE l == k + 1
  <2>1. l \in 1 .. n /\ l - 1 = k /\ 1 .. l = 1 .. k \cup {l} /\ k \in 0 .. n
    OBVIOUS
  <2> HIDE DEF l
  <2>2. off[l] = off[k] + Len(ss[l]) /\ off[k] \in Nat /\ Len(ss[l]) \in Nat
    BY <2>1 DEF Offsets
  <2>3. ASSUME NEW p \in 1 .. off[l]
        PROVE  \E i \in 1 .. l : \E j \in 1 .. Len(ss[i]) : p = off[i - 1] + j
    <3>1. CASE p \in 1 .. off[k]
      BY <1>2, <2>1, <3>1
    <3>2. CASE p \notin 1 .. off[k]
      <4>1. p - off[k] \in 1 .. Len(ss[l]) /\ p = off[k] + (p - off[k])
        BY <2>2, <3>2
      <4> QED
        BY <2>1, <4>1
    <3> QED
      BY <3>1, <3>2
  <2>4. There(l) /\ l \in 0 .. n
    BY <2>1, <2>3
  <2> HIDE DEF There
  <2> QED
    BY <2>4 DEF l
<1> HIDE DEF W
<1>3. \A k \in 0 .. n - 1 : k \in W => k + 1 \in W
  BY <1>2
<1>4. 0 .. n \subseteq W
  BY <1>1, <1>3, Upward, 0 \in Int, n \in Int
<1> QED
  BY <1>4 DEF W, Covered

\* The sequences come in order.
LEMMA InOrder ==
  ASSUME NEW n \in Nat, NEW off, NEW ss, \A i \in 1 .. n : Len(ss[i]) \in Nat, Offsets(off, ss, n),
         NEW i \in 0 .. n, NEW j \in 0 .. n, i <= j
  PROVE  off[i] <= off[j]
<1> DEFINE W == {k \in i .. n : off[i] <= off[k]}
<1>0. off[i] \in Nat /\ \A k \in 0 .. n : off[k] \in Nat
  BY DEF Offsets
<1>1. i \in W
  BY <1>0
<1>2. ASSUME NEW k \in i .. n - 1, k \in W PROVE k + 1 \in W
  <2> DEFINE l == k + 1
  <2>1. l \in 1 .. n /\ l - 1 = k /\ k \in 0 .. n /\ l \in i .. n
    OBVIOUS
  <2> HIDE DEF l
  <2>2. off[l] = off[k] + Len(ss[l]) /\ Len(ss[l]) \in Nat
    BY <2>1 DEF Offsets
  <2>3. l \in W
    BY <1>0, <1>2, <2>1, <2>2
  <2> QED
    BY <2>3 DEF l
<1> HIDE DEF W
<1>3. \A k \in i .. n - 1 : k \in W => k + 1 \in W
  BY <1>2
<1>4. i .. n \subseteq W
  BY <1>1, <1>3, Upward, i \in Int, n \in Int
<1> QED
  BY <1>4 DEF W

\* whole is n sequences of m elements one after the other.
LaidEvenly(whole, ss, n, m) ==
  /\ Len(whole) = m * n
  /\ \A i \in 1 .. n : \A j \in 1 .. m :
       m * (i - 1) + j \in 1 .. m * n /\ whole[m * (i - 1) + j] = ss[i][j]

\* Of sequences of one length the offsets are multiples of it.
LEMMA FlattenEven ==
  ASSUME NEW D, NEW n \in Nat, NEW m \in Nat, NEW ss \in [1 .. n -> Seq(D)],
         \A i \in 1 .. n : Len(ss[i]) = m
  PROVE  FlattenSeq(ss) \in Seq(D) /\ LaidEvenly(FlattenSeq(ss), ss, n, m)
<1>0. PICK off : Laid(FlattenSeq(ss), off, ss, n)
  BY FlattenIs
<1> DEFINE whole == FlattenSeq(ss)
<1>1. /\ Offsets(off, ss, n) /\ Len(whole) = off[n]
      /\ \A i \in 1 .. n : \A j \in 1 .. m :
           off[i - 1] + j \in 1 .. off[n] /\ whole[off[i - 1] + j] = ss[i][j]
  BY <1>0 DEF Laid
<1> HIDE DEF whole
<1> DEFINE W == {k \in 0 .. n : off[k] = m * k}
<1>2. 0 \in W
  BY <1>1 DEF Offsets
<1>3. ASSUME NEW k \in 0 .. n - 1, k \in W PROVE k + 1 \in W
  <2> DEFINE l == k + 1
  <2>1. l \in 1 .. n /\ l - 1 = k /\ m * l = m * k + m /\ l \in 0 .. n
    OBVIOUS
  <2> HIDE DEF l
  <2>2. off[l] = off[k] + m
    BY <1>1, <2>1 DEF Offsets
  <2>3. l \in W
    BY <1>3, <2>1, <2>2
  <2> QED
    BY <2>3 DEF l
<1>4. 0 .. n \subseteq W
  <2> HIDE DEF W
  <2>1. \A k \in 0 .. n - 1 : k \in W => k + 1 \in W
    BY <1>3
  <2> QED
    BY <1>2, <2>1, Upward, 0 \in Int, n \in Int
<1>5. \A k \in 0 .. n : off[k] = m * k
  BY <1>4
<1>6. \A i \in 1 .. n : off[i - 1] = m * (i - 1)
  <2>1. \A i \in 1 .. n : i - 1 \in 0 .. n
    OBVIOUS
  <2> QED
    BY <1>5, <2>1
<1>7. whole \in Seq(D)
  BY FlattenIs DEF whole
<1>8. n \in 0 .. n
  OBVIOUS
<1>9. Len(whole) = m * n
  BY <1>1, <1>5, <1>8
<1>10. ASSUME NEW i \in 1 .. n, NEW j \in 1 .. m
       PROVE  m * (i - 1) + j \in 1 .. m * n /\ whole[m * (i - 1) + j] = ss[i][j]
  BY <1>1, <1>5, <1>6, <1>8
<1> QED
  BY <1>7, <1>9, <1>10 DEF whole, LaidEvenly

\* The stretches of equal values of F on a .. z - 1: the g-th is from st[g] up to the
\* number before st[g + 1].
Stretches(F, a, z, st, m) ==
  /\ m \in Nat \ {0} /\ st \in [1 .. m + 1 -> a .. z]
  /\ st[1] = a /\ st[m + 1] = z
  /\ \A g, h \in 1 .. m + 1 : g < h => st[g] < st[h]
  /\ \A g \in 1 .. m : \A i \in st[g] .. st[g + 1] - 1 : F[i] = F[st[g]]
  /\ \A i \in a + 1 .. z - 1 : F[i - 1] = F[i] => \A g \in 1 .. m + 1 : st[g] # i
  /\ Ascending({i \in a .. z - 1 : i = a \/ F[i - 1] # F[i]}) = [g \in 1 .. m |-> st[g]]

\* Every function on an interval has its stretches of equal values.
LEMMA StretchesAre ==
  ASSUME NEW F, NEW a \in Int, NEW z \in Int, a < z
  PROVE  \E m, st : Stretches(F, a, z, st, m)
<1> DEFINE S == {i \in a .. z - 1 : i = a \/ F[i - 1] # F[i]}
           starts == Ascending(S)
           m == Cardinality(S)
           st == [g \in 1 .. m + 1 |-> IF g = m + 1 THEN z ELSE starts[g]]
<1>1. S \subseteq a .. z - 1 /\ S \in SUBSET Int /\ a \in S
  OBVIOUS
<1>2. IsFiniteSet(S)
  <2> HIDE DEF S
  <2>1. IsFiniteSet(a .. z - 1)
    <3>1. z - 1 \in Int
      OBVIOUS
    <3> QED
      BY <3>1, FS_Interval
  <2> QED
    BY <1>1, <2>1, FS_Subset
<1>3. \A i \in a .. z - 1 : i \in S <=> i = a \/ F[i - 1] # F[i]
  OBVIOUS
<1> HIDE DEF S
<1>4. /\ m \in Nat /\ starts \in [1 .. m -> S]
      /\ \A k, l \in 1 .. m : k < l => starts[k] < starts[l]
      /\ \A x \in S : \E k \in 1 .. m : starts[k] = x
  BY <1>1, <1>2, AscendingIs
<1> HIDE DEF starts, m
<1>5. m # 0
  BY <1>1, <1>4
<1>6. \A k \in 1 .. m : starts[k] \in a .. z - 1
  BY <1>1, <1>4
<1>7. starts[1] = a
  <2>1. PICK k \in 1 .. m : starts[k] = a
    BY <1>1, <1>4
  <2>2. 1 \in 1 .. m
    BY <1>4, <1>5
  <2>3. k # 1 => 1 < k
    BY <2>1
  <2>4. starts[1] \in a .. z - 1
    BY <1>6, <2>2
  <2> QED
    BY <1>4, <2>1, <2>2, <2>3, <2>4
<1>8. /\ \A g \in 1 .. m : st[g] = starts[g]
      /\ st[m + 1] = z
      /\ st \in [1 .. m + 1 -> a .. z]
  <2>1. \A g \in 1 .. m : starts[g] \in a .. z
    BY <1>6
  <2>2. z \in a .. z
    OBVIOUS
  <2> QED
    BY <1>4, <2>1, <2>2
<1>9. starts = [g \in 1 .. m |-> st[g]]
  <2>1. starts = [g \in 1 .. m |-> starts[g]]
    BY <1>4
  <2> HIDE DEF st
  <2> QED
    BY <1>8, <2>1
<1> HIDE DEF st
<1>10. \A g \in 1 .. m : st[g] < st[g + 1]
  <2>1. \A g \in 1 .. m : g + 1 \in 1 .. m \/ g + 1 = m + 1
    BY <1>4
  <2>2. \A g \in 1 .. m : g + 1 \in 1 .. m => st[g] < st[g + 1]
    BY <1>4, <1>8
  <2>3. \A g \in 1 .. m : st[g] < z
    BY <1>6, <1>8
  <2> QED
    BY <1>8, <2>1, <2>2, <2>3
<1>11. ASSUME NEW g \in 1 .. m, NEW i \in a .. z - 1, st[g] < i, i < st[g + 1]
       PROVE  i \notin S
  <2> SUFFICES ASSUME i \in S PROVE FALSE
    OBVIOUS
  <2>1. PICK k \in 1 .. m : starts[k] = i
    BY <1>4
  <2>2. k <= g \/ (k >= g + 1 /\ g + 1 \in 1 .. m)
    BY <1>4
  <2>3. CASE k <= g
    <3>1. starts[k] <= starts[g]
      <4>1. starts[k] \in Int /\ starts[g] \in Int
        BY <1>6
      <4>2. k = g \/ k < g
        BY <2>3
      <4>3. k < g => starts[k] < starts[g]
        BY <1>4
      <4> QED
        BY <4>1, <4>2, <4>3
    <3> QED
      BY <1>6, <1>8, <1>11, <2>1, <3>1
  <2>4. CASE k >= g + 1 /\ g + 1 \in 1 .. m
    <3>1. starts[g + 1] <= starts[k]
      BY <1>4, <1>6, <2>4
    <3> QED
      BY <1>6, <1>8, <1>11, <2>1, <2>4, <3>1
  <2> QED
    BY <2>2, <2>3, <2>4
<1>12. ASSUME NEW g \in 1 .. m, NEW i \in st[g] .. st[g + 1] - 1
       PROVE  F[i] = F[st[g]]
  <2> DEFINE b == st[g]
             c == st[g + 1] - 1
             W == {j \in b .. c : F[j] = F[b]}
  <2>1. b \in a .. z - 1 /\ c \in a .. z - 1 /\ b <= c /\ st[g + 1] \in Int
    <3>1. g \in 1 .. m + 1 /\ g + 1 \in 1 .. m + 1
      BY <1>4
    <3>2. st[g] \in a .. z /\ st[g + 1] \in a .. z /\ st[g] < st[g + 1]
      BY <1>8, <1>10, <3>1
    <3> QED
      BY <3>2
  <2>2. b \in W
    BY <2>1
  <2>3. ASSUME NEW j \in b .. c - 1, j \in W PROVE j + 1 \in W
    <3>1. j + 1 \in a .. z - 1 /\ j + 1 \in b .. c /\ st[g] < j + 1 /\ j + 1 < st[g + 1] /\ j + 1 # a
            /\ (j + 1) - 1 = j
      BY <2>1
    <3>2. j + 1 \notin S
      BY <1>11, <3>1
    <3>3. F[j + 1] = F[j]
      BY <1>3, <3>1, <3>2
    <3> QED
      BY <2>3, <3>1, <3>3
  <2>4. b .. c \subseteq W
    <3>1. \A j \in b .. c - 1 : j \in W => j + 1 \in W
      BY <2>3
    <3>2. b \in Int /\ c \in Int
      BY <2>1
    <3> HIDE DEF W, b, c
    <3> QED
      BY <2>2, <3>1, <3>2, Upward
  <2> QED
    BY <2>4
<1>13. ASSUME NEW i \in a + 1 .. z - 1, F[i - 1] = F[i], NEW g \in 1 .. m + 1
       PROVE  st[g] # i
  <2>1. i \in a .. z - 1 /\ i # a /\ i # z
    OBVIOUS
  <2>2. i \notin S
    BY <1>3, <1>13, <2>1
  <2>3. g \in 1 .. m => st[g] \in S
    BY <1>4, <1>8
  <2>4. g \in 1 .. m \/ g = m + 1
    BY <1>4
  <2> QED
    BY <1>8, <2>1, <2>2, <2>3, <2>4
<1>14. st[1] = a /\ m \in Nat \ {0}
  <2>1. 1 \in 1 .. m
    BY <1>4, <1>5
  <2> QED
    BY <1>4, <1>5, <1>7, <1>8, <2>1
<1>15. \A g, h \in 1 .. m + 1 : g < h => st[g] < st[h]
  <2>1. \A g, h \in 1 .. m : g < h => st[g] < st[h]
    BY <1>4, <1>8
  <2>2. \A g \in 1 .. m : st[g] < z
    BY <1>6, <1>8
  <2>3. \A g \in 1 .. m + 1 : g \in 1 .. m \/ g = m + 1
    BY <1>4
  <2>4. \A g, h \in 1 .. m + 1 : g < h => g \in 1 .. m
    BY <1>4
  <2> QED
    BY <1>8, <2>1, <2>2, <2>3, <2>4
<1>16. Stretches(F, a, z, st, m)
  BY <1>8, <1>9, <1>15, <1>12, <1>13, <1>14 DEF Stretches, starts, S
<1> QED
  BY <1>16
===============================================================================
