----------------------------- MODULE SearchProofs -----------------------------
(*****************************************************************************)
(* What RunParts says of HF generation (part "hf"), for every catalogue,     *)
(* configuration and sequence of calls, and with BeamProofs of both beam     *)
(* searches.                                                                 *)
(*                                                                           *)
(* The invariant has the beams of a search at one length, apart from each    *)
(* other and each the beginning of an item, and none is lost: those that     *)
(* ended and those that go on are as many as the beams, or every item has    *)
(* one of them.                                                              *)
(*****************************************************************************)
EXTENDS BeamProofs

-------------------------------------------------------------------------------
(* HFGeneration: the items.                                                  *)

\* Finite sets are those of the model.
LEMMA HFCardinality ==
  ASSUME NEW S
  PROVE  HF!Cardinality(S) = Cardinality(S) /\ (HF!IsFiniteSet(S) <=> IsFiniteSet(S))
<1>1. HF!Cardinality(S) = Cardinality(S)
  BY Zenon DEF HF!Cardinality, Cardinality
<1>2. HF!IsFiniteSet(S) <=> IsFiniteSet(S)
  BY Zenon DEF HF!IsFiniteSet, IsFiniteSet
<1> QED
  BY <1>1, <1>2

\* What is known of the constants.
LEMMA HFConstants ==
  /\ IsFiniteSet(Items) /\ Items # {} /\ EOS \in Nat
  /\ \A item \in Items : item \in Seq(Nat \ {EOS}) /\ Len(item) \in Nat \ {0}
  /\ HFConfigs \subseteq [width : Nat \ {0}, valWidth : Nat \ {0}, train : Nat \ {0},
                          response : Nat \ {0}, micro : Nat \ {0}]
  /\ HFCalls \subseteq [validate : BOOLEAN, prompts : Seq(BOOLEAN)]
<1>1. PartsAssumption
  BY PartsAssumption
<1>2. HF!HFAssumption
  BY <1>1, Zenon DEF PartsAssumption
<1>3. \A s \in Seq(Nat \ {EOS}) : s # <<>> => Len(s) \in Nat \ {0}
  OBVIOUS
<1> QED
  BY <1>2, <1>3, HFCardinality DEF HF!HFAssumption

\* The lesser of two.
LEMMA HFLeast ==
  ASSUME NEW a \in Int, NEW c \in Int
  PROVE  HF!Min({a, c}) = IF a <= c THEN a ELSE c
<1> DEFINE S == {a, c}
           m == IF a <= c THEN a ELSE c
<1>1. m \in S /\ \A y \in S : m =< y
  OBVIOUS
<1>2. \A x \in S : (\A y \in S : x =< y) => x = m
  OBVIOUS
<1>3. HF!Min(S) = CHOOSE x \in S : \A y \in S : x =< y
  BY Zenon DEF HF!Min
<1> HIDE DEF S, m
<1>4. HF!Min(S) = m
  BY <1>1, <1>2, <1>3
<1> QED
  BY <1>4 DEF S, m

\* As many of S as there are, n at most.
MostOf(n, S, T) ==
  T \in SUBSET S /\ Cardinality(T) = IF n <= Cardinality(S) THEN n ELSE Cardinality(S)

\* That is what the model takes.
LEMMA HFUpTo ==
  ASSUME NEW n \in Nat, NEW S, IsFiniteSet(S), NEW T
  PROVE  T \in HF!UpTo(n, S) <=> MostOf(n, S, T)
<1>1. Cardinality(S) \in Nat
  BY FS_CardinalityType
<1>2. HF!Min({n, HF!Cardinality(S)}) = IF n <= Cardinality(S) THEN n ELSE Cardinality(S)
  BY <1>1, HFCardinality, HFLeast
<1>3. T \in HF!UpTo(n, S) <=>
        T \in SUBSET S /\ HF!Cardinality(T) = HF!Min({n, HF!Cardinality(S)})
  BY Zenon DEF HF!UpTo, HF!kSubset
<1> QED
  BY <1>2, <1>3, HFCardinality DEF MostOf

\* The first n tokens of an item and its EOS.
Beginning(item, n) == [i \in 1 .. n |-> IF i <= Len(item) THEN item[i] ELSE EOS]

\* It is a sequence of tokens, and the EOS is past the item.
LEMMA BeginningIs ==
  ASSUME NEW item \in Items, NEW n \in Nat
  PROVE  /\ Beginning(item, n) \in Seq(Nat) /\ Len(Beginning(item, n)) = n
         /\ \A i \in 1 .. n : Beginning(item, n)[i] = IF i <= Len(item) THEN item[i] ELSE EOS
         /\ \A i \in 1 .. n : Beginning(item, n)[i] = EOS <=> i > Len(item)
<1>1. item \in Seq(Nat \ {EOS}) /\ EOS \in Nat /\ Len(item) \in Nat
  BY HFConstants
<1>2. \A i \in 1 .. Len(item) : item[i] \in Nat /\ item[i] # EOS
  BY <1>1
<1> DEFINE v(i) == IF i <= Len(item) THEN item[i] ELSE EOS
<1>3. \A i \in 1 .. n : v(i) \in Nat /\ (v(i) = EOS <=> i > Len(item))
  BY <1>1, <1>2
<1>4. Beginning(item, n) = [i \in 1 .. n |-> v(i)]
  BY DEF Beginning
<1> HIDE DEF v
<1>5. Beginning(item, n) \in [1 .. n -> Nat] /\ \A i \in 1 .. n : Beginning(item, n)[i] = v(i)
  BY <1>3, <1>4
<1>6. Beginning(item, n) \in Seq(Nat) /\ Len(Beginning(item, n)) = n
  BY <1>5
<1> QED
  BY <1>3, <1>5, <1>6 DEF v

\* All of the item, and its EOS.
LEMMA WholeBeginning ==
  ASSUME NEW item \in Items
  PROVE  /\ HF!Ended(item) = Beginning(item, Len(item) + 1)
         /\ HF!Ended(item) = Append(item, EOS)
<1>1. item \in Seq(Nat) /\ EOS \in Nat /\ Len(item) \in Nat
  BY HFConstants, SeqMonotonic
<1>2. /\ Append(item, EOS) \in Seq(Nat) /\ Len(Append(item, EOS)) = Len(item) + 1
      /\ \A i \in 1 .. Len(item) : Append(item, EOS)[i] = item[i]
      /\ Append(item, EOS)[Len(item) + 1] = EOS
  BY <1>1
<1> DEFINE e == Append(item, EOS)
           b == Beginning(item, Len(item) + 1)
<1>3. b \in Seq(Nat) /\ Len(b) = Len(item) + 1
      /\ \A i \in 1 .. Len(item) + 1 : b[i] = IF i <= Len(item) THEN item[i] ELSE EOS
  BY <1>1, BeginningIs
<1>4. ASSUME NEW i \in 1 .. Len(item) + 1 PROVE e[i] = b[i]
  <2>1. i \in 1 .. Len(item) \/ (i = Len(item) + 1 /\ ~ i <= Len(item))
    BY <1>1
  <2> QED
    BY <1>2, <1>3, <2>1
<1> HIDE DEF b
<1>5. e = b
  BY <1>2, <1>3, <1>4, SeqEqual
<1>6. HF!Ended(item) = Append(item, EOS)
  BY DEF HF!Ended
<1> QED
  BY <1>5, <1>6 DEF b

\* The prefixes of an ended item are its beginnings.
LEMMA HFPrefix ==
  ASSUME NEW item \in Items, NEW s \in Seq(Nat)
  PROVE  HF!IsPrefix(s, Append(item, EOS)) <=>
           Len(s) <= Len(item) + 1 /\ s = Beginning(item, Len(s))
<1> DEFINE e == Append(item, EOS)
           n == Len(s)
           b == Beginning(item, Len(item) + 1)
<1>1. n \in Nat /\ Len(item) \in Nat
  BY HFConstants
<1>2. e = b
  BY WholeBeginning
<1>3. b \in Seq(Nat) /\ Len(b) = Len(item) + 1
      /\ \A i \in 1 .. Len(item) + 1 : b[i] = IF i <= Len(item) THEN item[i] ELSE EOS
  BY <1>1, BeginningIs
<1>4. HF!IsPrefix(s, e) <=> n <= Len(e) /\ SubSeq(s, 1, n) = SubSeq(e, 1, n)
  BY DEF HF!IsPrefix
<1>5. SubSeq(s, 1, n) = s
  BY <1>1
<1> HIDE DEF e, b, n
<1>6. ASSUME n <= Len(item) + 1 PROVE SubSeq(b, 1, n) = Beginning(item, n)
  <2>1. SubSeq(b, 1, n) = [i \in 1 .. n |-> b[i]]
    BY <1>1, <1>3, <1>6
  <2>2. \A i \in 1 .. n : b[i] = IF i <= Len(item) THEN item[i] ELSE EOS
    BY <1>1, <1>3, <1>6
  <2> QED
    BY <2>1, <2>2 DEF Beginning
<1>7. HF!IsPrefix(s, e) <=> n <= Len(item) + 1 /\ s = Beginning(item, n)
  BY <1>2, <1>3, <1>4, <1>5, <1>6
<1> QED
  BY <1>7 DEF e, n

\* One token more.
LEMMA OneTokenMore ==
  ASSUME NEW item \in Items, NEW n \in Nat
  PROVE  Append(Beginning(item, n), Beginning(item, n + 1)[n + 1]) = Beginning(item, n + 1)
<1> DEFINE s == Beginning(item, n)
           r == Beginning(item, n + 1)
           a == Append(s, r[n + 1])
<1>1. s \in Seq(Nat) /\ Len(s) = n
      /\ \A i \in 1 .. n : s[i] = IF i <= Len(item) THEN item[i] ELSE EOS
  BY BeginningIs
<1>2. r \in Seq(Nat) /\ Len(r) = n + 1
      /\ \A i \in 1 .. n + 1 : r[i] = IF i <= Len(item) THEN item[i] ELSE EOS
  BY BeginningIs
<1> HIDE DEF s, r
<1>3. a \in Seq(Nat) /\ Len(a) = n + 1 /\ (\A i \in 1 .. n : a[i] = s[i]) /\ a[n + 1] = r[n + 1]
  <2>1. r[n + 1] \in Nat
    BY <1>2
  <2> QED
    BY <1>1, <2>1
<1>4. ASSUME NEW i \in 1 .. n + 1 PROVE a[i] = r[i]
  <2>1. i \in 1 .. n \/ i = n + 1
    OBVIOUS
  <2> QED
    BY <1>1, <1>2, <1>3, <2>1
<1> HIDE DEF a
<1>5. a = r
  BY <1>2, <1>3, <1>4, SeqEqual
<1> QED
  BY <1>5 DEF a, r, s

\* What may follow a beginning: what follows it in an item.
LEMMA FollowingIs ==
  ASSUME NEW s \in Seq(Nat), NEW t
  PROVE  t \in HF!Following(s) <=>
           \E item \in Items : /\ Len(s) <= Len(item) /\ s = Beginning(item, Len(s))
                               /\ t = Beginning(item, Len(s) + 1)[Len(s) + 1]
<1> DEFINE n == Len(s)
           T == {EOS} \cup UNION {HF!Range(item) : item \in Items}
<1>1. n \in Nat /\ EOS \in Nat /\ \A item \in Items : Len(item) \in Nat
  BY HFConstants
<1>2. ASSUME NEW item \in Items, NEW k \in 1 .. Len(item)
      PROVE  item[k] \in HF!Range(item)
  <2>1. item \in Seq(Nat \ {EOS})
    BY HFConstants
  <2>2. k \in DOMAIN item
    BY <2>1
  <2> QED
    BY <2>2 DEF HF!Range
<1>3. ASSUME NEW x \in T PROVE x \in Nat
  <2>1. CASE x = EOS
    BY <1>1, <2>1
  <2>2. CASE x # EOS
    <3>1. PICK item \in Items : x \in HF!Range(item)
      BY <2>2
    <3>2. item \in Seq(Nat \ {EOS})
      BY HFConstants
    <3>3. PICK k \in DOMAIN item : x = item[k]
      BY <3>1 DEF HF!Range
    <3> QED
      BY <3>2, <3>3
  <2> QED
    BY <2>1, <2>2
<1>4. ASSUME NEW item \in Items PROVE Beginning(item, n + 1)[n + 1] \in T
  <2>1. Beginning(item, n + 1)[n + 1] = IF n + 1 <= Len(item) THEN item[n + 1] ELSE EOS
    BY <1>1, BeginningIs
  <2>2. CASE n + 1 <= Len(item)
    <3>1. item[n + 1] \in HF!Range(item)
      BY <1>1, <1>2, <2>2
    <3> QED
      BY <2>1, <2>2, <3>1
  <2> QED
    BY <2>1, <2>2
<1>5. t \in HF!Following(s) <=>
        t \in T /\ \E item \in Items : HF!IsPrefix(Append(s, t), Append(item, EOS))
  BY DEF HF!Following
<1> HIDE DEF T, n
<1>6. ASSUME NEW item \in Items, t \in Nat
      PROVE  HF!IsPrefix(Append(s, t), Append(item, EOS)) <=>
               n <= Len(item) /\ s = Beginning(item, n) /\ t = Beginning(item, n + 1)[n + 1]
  <2> DEFINE a == Append(s, t)
             r == Beginning(item, n + 1)
             b == Beginning(item, n)
  <2>1. a \in Seq(Nat) /\ Len(a) = n + 1 /\ (\A i \in 1 .. n : a[i] = s[i]) /\ a[n + 1] = t
    BY <1>6 DEF n
  <2>2. HF!IsPrefix(a, Append(item, EOS)) <=> n <= Len(item) /\ a = r
    <3>1. n + 1 <= Len(item) + 1 <=> n <= Len(item)
      BY <1>1
    <3>2. HF!IsPrefix(a, Append(item, EOS)) <=> Len(a) <= Len(item) + 1 /\ a = Beginning(item, Len(a))
      BY <2>1, HFPrefix
    <3> QED
      BY <2>1, <3>1, <3>2
  <2>3. Append(b, r[n + 1]) = r
    BY <1>1, OneTokenMore
  <2>4. a = r => s = b
    <3>1. b \in Seq(Nat) /\ Len(b) = n
          /\ \A i \in 1 .. n : b[i] = IF i <= Len(item) THEN item[i] ELSE EOS
      BY <1>1, BeginningIs
    <3>2. \A i \in 1 .. n + 1 : r[i] = IF i <= Len(item) THEN item[i] ELSE EOS
      BY <1>1, BeginningIs
    <3>3. ASSUME a = r, NEW i \in 1 .. n PROVE s[i] = b[i]
      <4>1. a[i] = r[i] /\ i \in 1 .. n + 1
        BY <1>1, <3>3
      <4> HIDE DEF a, b, r
      <4> QED
        BY <2>1, <3>1, <3>2, <4>1
    <3> HIDE DEF a, b, r
    <3> QED
      BY <3>1, <3>3, SeqEqual DEF n
  <2>5. s = b /\ t = r[n + 1] => a = r
    BY <2>3
  <2>6. a = r => t = r[n + 1]
    BY <2>1
  <2> HIDE DEF a
  <2>7. HF!IsPrefix(a, Append(item, EOS)) <=> n <= Len(item) /\ s = b /\ t = r[n + 1]
    BY <2>2, <2>4, <2>5, <2>6
  <2> QED
    BY <2>7 DEF a
<1>7. t \in HF!Following(s) <=>
        \E item \in Items : n <= Len(item) /\ s = Beginning(item, n)
                            /\ t = Beginning(item, n + 1)[n + 1]
  BY <1>3, <1>4, <1>5, <1>6
<1> QED
  BY <1>7 DEF n

\* A beginning of n tokens to which an item continues.
Opens(s, n) == \E item \in Items : n <= Len(item) /\ s = Beginning(item, n)

\* The beams that a search can go on with.
Candidates(k) == UNION {{Append(s, t) : t \in HF!AllowedTokens(k, s)} : s \in beams[k].live}

\* Such a beginning is in the tree.
LEMMA AllowedIsFollowing ==
  ASSUME NEW k, NEW s, count \in Nat, Opens(s, count), count = 0 => HF!Headed(k)
  PROVE  HF!AllowedTokens(k, s) = HF!Following(s)
<1>1. PICK item \in Items : count <= Len(item) /\ s = Beginning(item, count)
  BY DEF Opens
<1>2. s \in Seq(Nat) /\ Len(s) = count
  BY <1>1, BeginningIs
<1>3. SubSeq(s, Len(s) - count + 1, Len(s)) = s
  <2>1. Len(s) - count + 1 = 1
    BY <1>2
  <2>2. SubSeq(s, 1, Len(s)) = s
    BY <1>2
  <2> QED
    BY <2>1, <2>2
<1>4. HF!Following(s) # {}
  BY <1>1, <1>2, FollowingIs
<1> QED
  BY <1>3, <1>4 DEF HF!AllowedTokens

\* They are the beginnings with a token more.
LEMMA CandidatesAre ==
  ASSUME NEW k, count \in Nat, count = 0 => HF!Headed(k),
         \A s \in beams[k].live : Opens(s, count), NEW c
  PROVE  c \in Candidates(k) <=>
           \E item \in Items : /\ count <= Len(item) /\ Beginning(item, count) \in beams[k].live
                               /\ c = Beginning(item, count + 1)
<1>1. c \in Candidates(k) <=>
        \E s \in beams[k].live : \E t \in HF!AllowedTokens(k, s) : c = Append(s, t)
  BY DEF Candidates
<1>2. ASSUME NEW s \in beams[k].live
      PROVE  /\ HF!AllowedTokens(k, s) = HF!Following(s)
             /\ s \in Seq(Nat) /\ Len(s) = count
  <2>1. PICK item \in Items : count <= Len(item) /\ s = Beginning(item, count)
    BY DEF Opens
  <2> QED
    BY <2>1, AllowedIsFollowing, BeginningIs
<1>3. ASSUME NEW s \in beams[k].live, NEW t
      PROVE  t \in HF!AllowedTokens(k, s) <=>
               \E item \in Items : /\ count <= Len(item) /\ s = Beginning(item, count)
                                   /\ t = Beginning(item, count + 1)[count + 1]
  BY <1>2, FollowingIs
<1>4. \A item \in Items :
        Append(Beginning(item, count), Beginning(item, count + 1)[count + 1]) = Beginning(item, count + 1)
  BY OneTokenMore
<1>5. ASSUME c \in Candidates(k)
      PROVE  \E item \in Items : /\ count <= Len(item) /\ Beginning(item, count) \in beams[k].live
                                 /\ c = Beginning(item, count + 1)
  <2>1. PICK s \in beams[k].live : \E t \in HF!AllowedTokens(k, s) : c = Append(s, t)
    BY <1>1, <1>5
  <2>2. PICK t \in HF!AllowedTokens(k, s) : c = Append(s, t)
    BY <2>1
  <2>3. PICK item \in Items : /\ count <= Len(item) /\ s = Beginning(item, count)
                              /\ t = Beginning(item, count + 1)[count + 1]
    BY <1>3, <2>2
  <2> QED
    BY <1>4, <2>2, <2>3
<1>6. ASSUME NEW item \in Items, count <= Len(item), Beginning(item, count) \in beams[k].live,
             c = Beginning(item, count + 1)
      PROVE  c \in Candidates(k)
  <2>1. Beginning(item, count + 1)[count + 1] \in HF!AllowedTokens(k, Beginning(item, count))
    BY <1>3, <1>6
  <2> QED
    BY <1>1, <1>4, <1>6, <2>1
<1> QED
  BY <1>5, <1>6

-------------------------------------------------------------------------------
(* HFGeneration: a step of a search.                                         *)

\* Of the candidates, of which some are closed, those that are looked at, the best of these,
\* and those that live on; and what is kept of the ended ones.
Selected(n, cand, closed, looked, top, alive, ended, kept) ==
  /\ MostOf(2 * n, cand, looked) /\ MostOf(n, looked, top) /\ MostOf(n, looked \ closed, alive)
  /\ top \ closed \subseteq alive
  /\ MostOf(n, ended \cup (top \cap closed), kept)

\* Either all places are taken, or nothing is lost.
NothingLost(n, cand, closed, alive, ended, kept) ==
  /\ IsFiniteSet(kept) /\ IsFiniteSet(alive)
  /\ Cardinality(kept) \in Nat /\ Cardinality(alive) \in Nat /\ Cardinality(kept) <= n
  /\ kept \subseteq ended \cup (cand \cap closed) /\ alive \subseteq cand \ closed
  /\ \/ Cardinality(kept) + Cardinality(alive) >= n
     \/ /\ alive = cand \ closed /\ kept = ended \cup (cand \cap closed)
        /\ Cardinality(kept) + Cardinality(alive) = Cardinality(ended) + Cardinality(cand)

\* That is so, since twice as many are looked at as have a place.
LEMMA NoPlaceIsLost ==
  ASSUME NEW n \in Nat \ {0}, NEW cand, IsFiniteSet(cand), NEW closed, NEW ended, IsFiniteSet(ended),
         NEW looked, NEW top, NEW alive, NEW kept,
         Selected(n, cand, closed, looked, top, alive, ended, kept), ended \cap closed = {}
  PROVE  NothingLost(n, cand, closed, alive, ended, kept)
<1> DEFINE open == looked \ closed
           pool == ended \cup (top \cap closed)
<1>1. /\ looked \in SUBSET cand /\ top \in SUBSET looked /\ alive \in SUBSET open
      /\ kept \in SUBSET pool /\ top \ closed \in SUBSET alive /\ top \cap closed \in SUBSET top
      /\ open \in SUBSET looked
  BY DEF Selected, MostOf
<1>2. /\ IsFiniteSet(looked) /\ IsFiniteSet(top) /\ IsFiniteSet(open) /\ IsFiniteSet(alive)
      /\ IsFiniteSet(top \cap closed) /\ IsFiniteSet(top \ closed) /\ IsFiniteSet(pool)
      /\ IsFiniteSet(kept)
  <2>1. IsFiniteSet(looked)
    BY <1>1, FS_Subset
  <2>2. IsFiniteSet(top) /\ IsFiniteSet(open)
    BY <1>1, <2>1, FS_Subset
  <2>3. IsFiniteSet(alive) /\ IsFiniteSet(top \cap closed)
    BY <1>1, <2>2, FS_Subset
  <2>4. IsFiniteSet(top \ closed)
    BY <1>1, <2>3, FS_Subset
  <2>5. IsFiniteSet(pool)
    BY <2>3, FS_Union
  <2>6. IsFiniteSet(kept)
    BY <1>1, <2>5, FS_Subset
  <2> QED
    BY <2>1, <2>2, <2>3, <2>4, <2>5, <2>6
<1> DEFINE cc == Cardinality(cand)
           cl == Cardinality(looked)
           ct == Cardinality(top)
           co == Cardinality(open)
           ca == Cardinality(alive)
           ce == Cardinality(ended)
           cm == Cardinality(top \cap closed)
           cr == Cardinality(top \ closed)
           cp == Cardinality(pool)
           ck == Cardinality(kept)
<1>3. /\ cc \in Nat /\ cl \in Nat /\ ct \in Nat /\ co \in Nat /\ ca \in Nat
      /\ ce \in Nat /\ cm \in Nat /\ cr \in Nat /\ cp \in Nat /\ ck \in Nat
  BY <1>2, FS_CardinalityType
<1>4. /\ cl = (IF 2 * n <= cc THEN 2 * n ELSE cc) /\ ct = (IF n <= cl THEN n ELSE cl)
      /\ ca = (IF n <= co THEN n ELSE co) /\ ck = (IF n <= cp THEN n ELSE cp)
  BY Zenon DEF Selected, MostOf
<1>5. cr = ct - cm
  BY <1>2, FS_Difference
<1>6. cr <= ca
  BY <1>1, <1>2, FS_Subset
<1>7. cp = ce + cm
  <2>1. ended \cap (top \cap closed) = {}
    OBVIOUS
  <2>2. cp = ce + cm - Cardinality(ended \cap (top \cap closed))
    BY <1>2, FS_Union
  <2> DEFINE both == Cardinality(ended \cap (top \cap closed))
  <2>3. both = 0
    BY <2>1, FS_EmptySet
  <2>4. cp = ce + (cm - both)
    BY <2>2
  <2> HIDE DEF cp, ce, cm, both
  <2> QED
    BY <1>3, <2>3, <2>4
<1>8. ca = co => alive = open
  BY <1>1, <1>2, FS_Subset
<1>9. ck = cp => kept = pool
  BY <1>1, <1>2, FS_Subset
<1>10. cl = cc => looked = cand
  BY <1>1, FS_Subset
<1>11. ct = cl => top = looked
  BY <1>1, <1>2, FS_Subset
<1>12. co <= cl
  BY <1>1, <1>2, FS_Subset
<1>13. top = looked => cr = co
  OBVIOUS
<1> HIDE DEF cc, cl, ct, co, ca, ce, cm, cr, cp, ck
<1>14. ck <= n
  BY <1>3, <1>4
<1>15. ck + ca >= n \/ (alive = cand \ closed /\ kept = ended \cup (cand \cap closed) /\ ck + ca = ce + cc)
  <2>1. CASE n <= cl
    BY <1>3, <1>4, <1>5, <1>6, <1>7, <2>1
  <2>2. CASE ~ (n <= cl)
    <3>1. cl = cc /\ ct = cl /\ ca = co
      BY <1>3, <1>4, <1>12, <2>2
    <3>2. looked = cand /\ top = looked /\ alive = open /\ cr = co
      BY <1>8, <1>10, <1>11, <1>13, <3>1
    <3>3. CASE n <= cp
      BY <1>3, <1>4, <3>3
    <3>4. CASE ~ (n <= cp)
      <4>1. kept = pool /\ ck = cp
        BY <1>4, <1>9, <3>4
      <4>2. ck + ca = ce + cc
        BY <1>3, <1>5, <1>7, <3>1, <3>2, <4>1
      <4> QED
        BY <3>2, <4>1, <4>2
    <3> QED
      BY <3>3, <3>4
  <2> QED
    BY <2>1, <2>2
<1>16. kept \subseteq ended \cup (cand \cap closed) /\ alive \subseteq cand \ closed
  BY <1>1
<1> QED
  BY <1>2, <1>3, <1>14, <1>15, <1>16 DEF ck, ca, ce, cc, NothingLost

\* What a step makes of a search that is not done.
AfterChoice(n, cand, b, c) ==
  \E looked, top :
    /\ Selected(n, cand, HF!Closed(cand), looked, top, c.live, b.ended, c.ended)
    /\ c.done \in BOOLEAN
    /\ c.live = {} => c.done
    /\ c.done => c.live = {} \/ Cardinality(b.ended \cup (top \cap HF!Closed(cand))) >= n

\* What the model makes of one.
LEMMA AfterStepIs ==
  ASSUME NEW k, NEW n \in Nat \ {0}, HF!NumBeams = n, NEW c \in HF!AfterStep(k), ~beams[k].done,
         IsFiniteSet(Candidates(k)), IsFiniteSet(beams[k].ended)
  PROVE  AfterChoice(n, Candidates(k), beams[k], c)
<1> DEFINE b == beams[k]
           cand == Candidates(k)
           pool(o) == b.ended \cup HF!Closed(o.top)
           options == {o \in HF!Selections(cand) : o.top \ HF!Closed(o.top) \subseteq o.live}
           searches(o) ==
             {s \in [live : {o.live}, ended : HF!UpTo(HF!NumBeams, pool(o)), done : BOOLEAN] :
                /\ o.live = {} => s.done
                /\ s.done => o.live = {} \/ HF!Cardinality(pool(o)) >= HF!NumBeams}
<1>1. c \in UNION {searches(o) : o \in options}
  <2>1. HF!AfterStep(k) = IF b.done THEN {b} ELSE UNION {searches(o) : o \in options}
    BY Zenon DEF HF!AfterStep, Candidates
  <2> QED
    BY <2>1
<1>2. PICK o \in options : c \in searches(o)
  BY <1>1
<1>3. /\ c \in [live : {o.live}, ended : HF!UpTo(n, pool(o)), done : BOOLEAN]
      /\ o.live = {} => c.done
      /\ c.done => o.live = {} \/ HF!Cardinality(pool(o)) >= n
  BY <1>2
<1>4. o \in HF!Selections(cand) /\ o.top \ HF!Closed(o.top) \subseteq o.live
  BY <1>2
<1> DEFINE made(looked) == {[looked |-> looked, top |-> top, live |-> live] :
                              top \in HF!UpTo(HF!NumBeams, looked),
                              live \in HF!UpTo(HF!NumBeams, looked \ HF!Closed(looked))}
<1>5. PICK l \in HF!UpTo(2 * n, cand) : o \in made(l)
  <2>1. HF!Selections(cand) = UNION {made(looked) : looked \in HF!UpTo(2 * HF!NumBeams, cand)}
    BY DEF HF!Selections
  <2> QED
    BY <1>4, <2>1
<1>6. o.top \in HF!UpTo(n, l) /\ o.live \in HF!UpTo(n, l \ HF!Closed(l))
  BY <1>5
<1>7. c.live = o.live /\ c.ended \in HF!UpTo(n, pool(o)) /\ c.done \in BOOLEAN
  BY <1>3
<1>8. n \in Nat /\ 2 * n \in Nat
  OBVIOUS
<1> HIDE DEF cand, searches, options, made
<1>9. MostOf(2 * n, cand, l)
  BY <1>5, <1>8, HFUpTo DEF cand
<1>10. l \in SUBSET cand /\ IsFiniteSet(l)
  <2>1. l \in SUBSET cand
    BY <1>9 DEF MostOf
  <2> QED
    BY <2>1, FS_Subset DEF cand
<1>11. MostOf(n, l, o.top) /\ o.top \in SUBSET l /\ IsFiniteSet(o.top)
  <2>1. MostOf(n, l, o.top)
    BY <1>6, <1>8, <1>10, HFUpTo
  <2>2. o.top \in SUBSET l
    BY <2>1 DEF MostOf
  <2> QED
    BY <1>10, <2>1, <2>2, FS_Subset
<1>12. HF!Closed(o.top) = o.top \cap HF!Closed(cand) /\ l \ HF!Closed(l) = l \ HF!Closed(cand)
  BY <1>10, <1>11 DEF HF!Closed
<1>13. MostOf(n, l \ HF!Closed(cand), c.live)
  <2>1. IsFiniteSet(l \ HF!Closed(l))
    BY <1>10, FS_Difference
  <2> QED
    BY <1>6, <1>7, <1>8, <1>12, <2>1, HFUpTo
<1>14. pool(o) = b.ended \cup (o.top \cap HF!Closed(cand)) /\ IsFiniteSet(pool(o))
  <2>1. IsFiniteSet(HF!Closed(o.top))
    <3>1. HF!Closed(o.top) \in SUBSET o.top
      BY DEF HF!Closed
    <3> QED
      BY <1>11, <3>1, FS_Subset
  <2> QED
    BY <1>12, <2>1, FS_Union
<1>15. MostOf(n, pool(o), c.ended)
  BY <1>7, <1>8, <1>14, HFUpTo
<1>16. o.top \ HF!Closed(cand) \subseteq c.live
  BY <1>4, <1>7, <1>12
<1> HIDE DEF pool
<1>17. Selected(n, cand, HF!Closed(cand), l, o.top, c.live, b.ended, c.ended)
  BY <1>9, <1>11, <1>13, <1>14, <1>15, <1>16, Zenon DEF Selected
<1>18. c.done => c.live = {} \/ Cardinality(b.ended \cup (o.top \cap HF!Closed(cand))) >= n
  BY <1>3, <1>7, <1>14, HFCardinality
<1> QED
  BY <1>3, <1>7, <1>17, <1>18 DEF AfterChoice, cand

\* A search of a headed prompt after n steps: its live beams are beginnings of items, its
\* ended ones items; and no place is lost before every item has one.
PlaceForEach(b, n) ==
  \A item \in Items :
    \/ HF!Ended(item) \in b.ended
    \/ ~b.done /\ n <= Len(item) /\ Beginning(item, n) \in b.live

HeadedOk(b, n, w) ==
  /\ \A s \in b.ended : \E item \in Items : Len(item) + 1 <= n /\ s = HF!Ended(item)
  /\ ~b.done => \A s \in b.live : Opens(s, n)
  /\ Cardinality(b.ended) \in Nat /\ Cardinality(b.ended) <= w
  /\ b.done /\ Cardinality(Items) >= w => Cardinality(b.ended) = w
  /\ ~b.done => Cardinality(b.ended) + Cardinality(b.live) >= w \/ PlaceForEach(b, n)

\* The EOS is all that may follow another prompt.
BareOk(b, n) ==
  /\ b.ended \subseteq {<<EOS>>}
  /\ ~b.done => n = 0 /\ b.live = {<<>>} /\ b.ended = {}

SearchOk(b, n, headed, w) ==
  b.done \in BOOLEAN /\ IF headed THEN HeadedOk(b, n, w) ELSE BareOk(b, n)

\* Whatever is made of one item by one rule is finite.
LEMMA EndedAreFinite ==
  ASSUME NEW S, \A s \in S : \E item \in Items : s = HF!Ended(item)
  PROVE  IsFiniteSet(S)
<1> DEFINE T == {HF!Ended(item) : item \in Items}
           f == [item \in Items |-> HF!Ended(item)]
<1>1. f \in Surjection(Items, T)
  BY DEF Surjection
<1>2. IsFiniteSet(T)
  BY <1>1, FS_Surjection, HFConstants
<1>3. S \in SUBSET T
  OBVIOUS
<1> QED
  BY <1>2, <1>3, FS_Subset

\* So are beginnings of one length.
LEMMA BeginningsAreFinite ==
  ASSUME NEW n \in Nat, NEW S, \A s \in S : \E item \in Items : s = Beginning(item, n)
  PROVE  IsFiniteSet(S)
<1> DEFINE T == {Beginning(item, n) : item \in Items}
           f == [item \in Items |-> Beginning(item, n)]
<1>1. f \in Surjection(Items, T)
  BY DEF Surjection
<1>2. IsFiniteSet(T)
  BY <1>1, FS_Surjection, HFConstants
<1>3. S \in SUBSET T
  OBVIOUS
<1> QED
  BY <1>2, <1>3, FS_Subset

\* A candidate is closed if it is a whole item.
LEMMA ClosedAre ==
  ASSUME NEW item \in Items, NEW n \in Nat, n <= Len(item)
  PROVE  HF!Last(Beginning(item, n + 1)) = EOS <=> n = Len(item)
<1>1. Len(Beginning(item, n + 1)) = n + 1 /\ n + 1 \in 1 .. n + 1 /\ n + 1 \in Nat /\ Len(item) \in Nat
  BY BeginningIs, HFConstants
<1>2. Beginning(item, n + 1)[n + 1] = EOS <=> n + 1 > Len(item)
  BY <1>1, BeginningIs
<1>3. HF!Last(Beginning(item, n + 1)) = Beginning(item, n + 1)[n + 1]
  BY <1>1 DEF HF!Last
<1> QED
  BY <1>1, <1>2, <1>3

\* A prompt without the header gets a bare EOS in the first step.
LEMMA BareStep ==
  ASSUME NEW k, NEW w \in Nat \ {0}, HF!NumBeams = w, NEW c \in HF!AfterStep(k), count \in Nat,
         ~HF!Headed(k), ~beams[k].done, BareOk(beams[k], count)
  PROVE  c.done \in BOOLEAN /\ BareOk(c, count + 1)
<1>1. count = 0 /\ beams[k].live = {<<>>} /\ beams[k].ended = {}
  BY DEF BareOk
<1>2. HF!AllowedTokens(k, <<>>) = {EOS}
  BY <1>1 DEF HF!AllowedTokens
<1>3. Append(<<>>, EOS) = <<EOS>>
  OBVIOUS
<1>4. Candidates(k) = {<<EOS>>}
  BY <1>1, <1>2, <1>3 DEF Candidates
<1>5. HF!Closed({<<EOS>>}) = {<<EOS>>}
  BY DEF HF!Closed, HF!Last
<1>6. IsFiniteSet(Candidates(k)) /\ IsFiniteSet(beams[k].ended)
  <2>1. \A x : IsFiniteSet({x})
    BY FS_Singleton
  <2>2. IsFiniteSet({})
    BY FS_EmptySet
  <2> QED
    BY <1>1, <1>4, <2>1, <2>2, Zenon
<1>7. AfterChoice(w, Candidates(k), beams[k], c)
  BY <1>6, AfterStepIs
<1>8. PICK looked, top :
        /\ Selected(w, Candidates(k), HF!Closed(Candidates(k)), looked, top, c.live,
                   beams[k].ended, c.ended)
        /\ c.done \in BOOLEAN /\ (c.live = {} => c.done)
  BY <1>7, Zenon DEF AfterChoice
<1>9. Selected(w, {<<EOS>>}, {<<EOS>>}, looked, top, c.live, {}, c.ended)
  BY <1>1, <1>4, <1>5, <1>8
<1>10. c.live = {} /\ c.ended \subseteq {<<EOS>>}
  BY <1>9 DEF Selected, MostOf
<1> QED
  BY <1>8, <1>10 DEF BareOk

\* Sequences with different beginnings differ.
LEMMA SameBeginnings ==
  ASSUME NEW item \in Items, NEW other \in Items, NEW n \in Nat,
         Beginning(item, n + 1) = Beginning(other, n + 1)
  PROVE  Beginning(item, n) = Beginning(other, n)
<1>1. \A i \in 1 .. n : i \in 1 .. n + 1
  OBVIOUS
<1>2. \A i \in 1 .. n : Beginning(item, n)[i] = Beginning(item, n + 1)[i]
  BY <1>1 DEF Beginning
<1>3. \A i \in 1 .. n : Beginning(other, n)[i] = Beginning(other, n + 1)[i]
  BY <1>1 DEF Beginning
<1>4. \A i \in 1 .. n : Beginning(item, n)[i] = Beginning(other, n)[i]
  BY <1>2, <1>3
<1>5. /\ Beginning(item, n) \in Seq(Nat) /\ Len(Beginning(item, n)) = n
      /\ Beginning(other, n) \in Seq(Nat) /\ Len(Beginning(other, n)) = n
  BY BeginningIs
<1> QED
  BY <1>4, <1>5, SeqEqual

\* Each live beam has a candidate of its own.
LEMMA AsManyCandidates ==
  ASSUME NEW n \in Nat, NEW live, \A s \in live : Opens(s, n), NEW cand, IsFiniteSet(cand),
         \A item \in Items :
           n <= Len(item) /\ Beginning(item, n) \in live => Beginning(item, n + 1) \in cand
  PROVE  IsFiniteSet(live) /\ Cardinality(live) <= Cardinality(cand)
<1> DEFINE GrowsTo(s, c) == \E item \in Items : s = Beginning(item, n) /\ c = Beginning(item, n + 1)
           f == [s \in live |-> CHOOSE c \in cand : GrowsTo(s, c)]
<1>1. ASSUME NEW s \in live PROVE \E c \in cand : GrowsTo(s, c)
  BY DEF Opens
<1>2. ASSUME NEW s, NEW r, NEW c, GrowsTo(s, c), GrowsTo(r, c) PROVE s = r
  BY <1>2, SameBeginnings
<1> HIDE DEF GrowsTo
<1>3. \A s \in live : f[s] \in cand /\ GrowsTo(s, f[s])
  BY <1>1
<1>4. f \in Injection(live, cand)
  <2>1. f \in [live -> cand]
    BY <1>3
  <2>2. \A s, r \in live : f[s] = f[r] => s = r
    <3> HIDE DEF f
    <3> QED
      BY <1>2, <1>3
  <2> HIDE DEF f
  <2> QED
    BY <2>1, <2>2 DEF Injection, IsInjective
<1> QED
  BY <1>4, FS_Injection

\* Different items are different ended beams.
LEMMA AsManyEnded ==
  ASSUME NEW S, IsFiniteSet(S), \A item \in Items : HF!Ended(item) \in S
  PROVE  Cardinality(Items) <= Cardinality(S)
<1> DEFINE f == [item \in Items |-> HF!Ended(item)]
<1>1. ASSUME NEW item \in Items, NEW other \in Items, HF!Ended(item) = HF!Ended(other)
      PROVE  item = other
  <2>1. item \in Seq(Nat) /\ other \in Seq(Nat) /\ EOS \in Nat
    BY HFConstants, SeqMonotonic
  <2>2. Append(item, EOS) = Append(other, EOS)
    BY <1>1, WholeBeginning
  <2>3. Len(item) = Len(other)
    <3>1. Len(Append(item, EOS)) = Len(item) + 1 /\ Len(Append(other, EOS)) = Len(other) + 1
      BY <2>1
    <3>2. Len(item) \in Nat /\ Len(other) \in Nat
      BY <2>1
    <3> QED
      BY <2>2, <3>1, <3>2
  <2>4. \A i \in 1 .. Len(item) : item[i] = other[i]
    <3>1. \A i \in 1 .. Len(item) : Append(item, EOS)[i] = item[i]
      BY <2>1
    <3>2. \A i \in 1 .. Len(other) : Append(other, EOS)[i] = other[i]
      BY <2>1
    <3> QED
      BY <2>2, <2>3, <3>1, <3>2
  <2> QED
    BY <2>1, <2>3, <2>4, SeqEqual
<1>2. f \in Injection(Items, S)
  BY <1>1 DEF Injection, IsInjective
<1> QED
  BY <1>2, FS_Injection

\* What a step makes of the search of a headed prompt.
LEMMA HeadedStep ==
  ASSUME NEW k, NEW w \in Nat \ {0}, HF!NumBeams = w, NEW c \in HF!AfterStep(k), count \in Nat,
         HF!Headed(k), ~beams[k].done, HeadedOk(beams[k], count, w)
  PROVE  c.done \in BOOLEAN /\ HeadedOk(c, count + 1, w)
<1> DEFINE b == beams[k]
           n == count
           cand == Candidates(k)
           closed == HF!Closed(cand)
<1>1. /\ \A s \in b.ended : \E item \in Items : Len(item) + 1 <= n /\ s = HF!Ended(item)
      /\ \A s \in b.live : Opens(s, n)
      /\ Cardinality(b.ended) + Cardinality(b.live) >= w \/ PlaceForEach(b, n)
  BY DEF HeadedOk
<1>2. \A x : x \in cand <=> \E item \in Items : /\ n <= Len(item) /\ Beginning(item, n) \in b.live
                                                /\ x = Beginning(item, n + 1)
  BY <1>1, CandidatesAre
<1>3. n \in Nat /\ n + 1 \in Nat
  OBVIOUS
<1>4. IsFiniteSet(cand) /\ IsFiniteSet(b.ended)
  <2>1. \A x \in cand : \E item \in Items : x = Beginning(item, n + 1)
    BY <1>2
  <2>2. IsFiniteSet(cand)
    <3> HIDE DEF cand, n
    <3> QED
      BY <1>3, <2>1, BeginningsAreFinite
  <2>3. IsFiniteSet(b.ended)
    <3> HIDE DEF b
    <3> QED
      BY <1>1, EndedAreFinite
  <2> QED
    BY <2>2, <2>3
<1>5. AfterChoice(w, cand, b, c)
  BY <1>4, AfterStepIs
<1> HIDE DEF cand, b, n
<1>6. PICK looked, top :
        /\ Selected(w, cand, closed, looked, top, c.live, b.ended, c.ended)
        /\ c.done \in BOOLEAN
        /\ c.done => c.live = {} \/ Cardinality(b.ended \cup (top \cap closed)) >= w
  BY <1>5, Zenon DEF AfterChoice
<1>7. ASSUME NEW item \in Items, n <= Len(item), Beginning(item, n + 1) \in cand
      PROVE  /\ Beginning(item, n + 1) \in closed <=> n = Len(item)
             /\ n = Len(item) => Beginning(item, n + 1) = HF!Ended(item)
  <2>1. Beginning(item, n + 1) \in closed <=> HF!Last(Beginning(item, n + 1)) = EOS
    BY <1>7 DEF HF!Closed
  <2>2. HF!Last(Beginning(item, n + 1)) = EOS <=> n = Len(item)
    BY <1>3, <1>7, ClosedAre
  <2> QED
    BY <2>1, <2>2, WholeBeginning
<1>8. \A s \in closed : s \in cand
  BY DEF HF!Closed
<1>9. ASSUME NEW s \in closed
      PROVE  \E item \in Items : n = Len(item) /\ s = HF!Ended(item)
  <2>1. PICK item \in Items : n <= Len(item) /\ s = Beginning(item, n + 1)
    BY <1>2, <1>8
  <2> QED
    BY <1>7, <1>8, <2>1
<1>10. ASSUME NEW item \in Items
       PROVE  Len(HF!Ended(item)) = Len(item) + 1 /\ Len(item) \in Nat
  <2>1. Len(item) \in Nat
    BY HFConstants
  <2>2. Len(Beginning(item, Len(item) + 1)) = Len(item) + 1
    BY <2>1, BeginningIs
  <2> QED
    BY <2>1, <2>2, WholeBeginning
<1>11. b.ended \cap closed = {}
  <2> SUFFICES ASSUME NEW s \in b.ended, s \in closed PROVE FALSE
    OBVIOUS
  <2>1. PICK item \in Items : Len(item) + 1 <= n /\ s = HF!Ended(item)
    BY <1>1
  <2>2. PICK other \in Items : n = Len(other) /\ s = HF!Ended(other)
    BY <1>9
  <2>3. Len(item) + 1 = Len(other) + 1
    BY <1>10, <2>1, <2>2
  <2> QED
    BY <1>10, <2>1, <2>2, <2>3
<1> HIDE DEF closed
<1>12. /\ IsFiniteSet(c.ended) /\ IsFiniteSet(c.live)
       /\ Cardinality(c.ended) \in Nat /\ Cardinality(c.live) \in Nat /\ Cardinality(c.ended) <= w
       /\ c.ended \subseteq b.ended \cup (cand \cap closed) /\ c.live \subseteq cand \ closed
       /\ \/ Cardinality(c.ended) + Cardinality(c.live) >= w
          \/ /\ c.live = cand \ closed /\ c.ended = b.ended \cup (cand \cap closed)
             /\ Cardinality(c.ended) + Cardinality(c.live) = Cardinality(b.ended) + Cardinality(cand)
  <2>1. NothingLost(w, cand, closed, c.live, b.ended, c.ended)
    BY <1>4, <1>6, <1>11, NoPlaceIsLost
  <2> QED
    BY <2>1, Zenon DEF NothingLost
<1>13. ASSUME NEW s \in c.ended
       PROVE  \E item \in Items : Len(item) + 1 <= n + 1 /\ s = HF!Ended(item)
  <2>1. CASE s \in b.ended
    <3>1. PICK item \in Items : Len(item) + 1 <= n /\ s = HF!Ended(item)
      BY <1>1, <2>1
    <3> QED
      BY <1>3, <1>10, <3>1
  <2>2. CASE s \in closed
    <3>1. PICK item \in Items : n = Len(item) /\ s = HF!Ended(item)
      BY <1>9, <2>2
    <3> QED
      BY <1>3, <3>1
  <2> QED
    BY <1>12, <2>1, <2>2
<1>14. ASSUME NEW s \in c.live PROVE Opens(s, n + 1)
  <2>1. s \in cand /\ s \notin closed
    BY <1>12
  <2>2. PICK item \in Items : n <= Len(item) /\ s = Beginning(item, n + 1)
    BY <1>2, <2>1
  <2>3. n # Len(item)
    BY <1>7, <2>1, <2>2
  <2>4. n + 1 <= Len(item)
    BY <1>3, <1>10, <2>2, <2>3
  <2> QED
    BY <2>2, <2>4 DEF Opens
<1> DEFINE there(item) == \/ HF!Ended(item) \in c.ended
                          \/ n + 1 <= Len(item) /\ Beginning(item, n + 1) \in c.live
<1>15. Cardinality(c.ended) + Cardinality(c.live) >= w \/ \A item \in Items : there(item)
  <2> SUFFICES ASSUME c.live = cand \ closed, c.ended = b.ended \cup (cand \cap closed),
                      Cardinality(c.ended) + Cardinality(c.live) = Cardinality(b.ended) + Cardinality(cand)
               PROVE  Cardinality(c.ended) + Cardinality(c.live) >= w \/ \A item \in Items : there(item)
    BY <1>12
  <2>1. CASE PlaceForEach(b, n)
    <3> SUFFICES ASSUME NEW item \in Items PROVE there(item)
      OBVIOUS
    <3>1. HF!Ended(item) \in b.ended \/ (n <= Len(item) /\ Beginning(item, n) \in b.live)
      BY <2>1 DEF PlaceForEach
    <3>2. CASE HF!Ended(item) \in b.ended
      BY <3>2
    <3>3. CASE n <= Len(item) /\ Beginning(item, n) \in b.live
      <4>1. Beginning(item, n + 1) \in cand
        BY <1>2, <3>3
      <4>2. CASE n = Len(item)
        BY <1>7, <3>3, <4>1, <4>2
      <4>3. CASE n # Len(item)
        <5>1. n + 1 <= Len(item)
          BY <1>3, <1>10, <3>3, <4>3
        <5> QED
          BY <1>7, <3>3, <4>1, <4>3, <5>1
      <4> QED
        BY <4>2, <4>3
    <3> QED
      BY <3>1, <3>2, <3>3
  <2>2. CASE Cardinality(b.ended) + Cardinality(b.live) >= w
    <3>1. IsFiniteSet(b.live) /\ Cardinality(b.live) <= Cardinality(cand)
      BY <1>1, <1>2, <1>3, <1>4, AsManyCandidates
    <3>2. Cardinality(b.live) \in Nat /\ Cardinality(cand) \in Nat /\ Cardinality(b.ended) \in Nat
      BY <1>4, <3>1, FS_CardinalityType
    <3> DEFINE x == Cardinality(b.live)
               y == Cardinality(cand)
               z == Cardinality(b.ended)
               v == Cardinality(c.ended) + Cardinality(c.live)
    <3>3. v = z + y /\ z + x >= w
      BY <2>2
    <3> HIDE DEF x, y, z, v
    <3>4. x <= y /\ x \in Nat /\ y \in Nat /\ z \in Nat
      BY <3>1, <3>2 DEF x, y, z
    <3>5. v >= w
      BY <3>3, <3>4
    <3> QED
      BY <3>5 DEF v
  <2> QED
    BY <1>1, <2>1, <2>2
<1>16. ASSUME c.done, Cardinality(Items) >= w PROVE Cardinality(c.ended) = w
  <2>1. CASE Cardinality(b.ended \cup (top \cap closed)) >= w
    <3>1. MostOf(w, b.ended \cup (top \cap closed), c.ended)
      BY <1>6, Zenon DEF Selected
    <3>2. w <= Cardinality(b.ended \cup (top \cap closed))
      <4>1. IsFiniteSet(b.ended \cup (top \cap closed))
        <5>1. MostOf(2 * w, cand, looked) /\ MostOf(w, looked, top)
          BY <1>6, Zenon DEF Selected
        <5>2. top \cap closed \in SUBSET cand
          BY <5>1 DEF MostOf
        <5>3. IsFiniteSet(top \cap closed)
          BY <1>4, <5>2, FS_Subset
        <5> QED
          BY <1>4, <5>3, FS_Union
      <4>2. Cardinality(b.ended \cup (top \cap closed)) \in Nat
        BY <4>1, FS_CardinalityType
      <4> QED
        BY <2>1, <4>2
    <3> QED
      BY <3>1, <3>2, Zenon DEF MostOf
  <2>2. CASE c.live = {}
    <3>1. Cardinality(c.live) = 0
      BY <2>2, FS_EmptySet
    <3>2. CASE \A item \in Items : there(item)
      <4>1. \A item \in Items : HF!Ended(item) \in c.ended
        BY <2>2, <3>2
      <4>2. Cardinality(Items) <= Cardinality(c.ended)
        BY <1>12, <4>1, AsManyEnded
      <4>3. Cardinality(Items) \in Nat
        BY HFConstants, FS_CardinalityType
      <4> QED
        BY <1>12, <1>16, <4>2, <4>3
    <3>3. CASE Cardinality(c.ended) + Cardinality(c.live) >= w
      BY <1>12, <3>1, <3>3
    <3> QED
      BY <1>15, <3>2, <3>3
  <2> QED
    BY <1>6, <1>16, <2>1, <2>2
<1>17. ~c.done => Cardinality(c.ended) + Cardinality(c.live) >= w \/ PlaceForEach(c, n + 1)
  BY <1>15 DEF PlaceForEach
<1>18. HeadedOk(c, n + 1, w)
  <2> HIDE DEF there
  <2> QED
    BY <1>12, <1>13, <1>14, <1>16, <1>17 DEF HeadedOk
<1> QED
  BY <1>6, <1>18 DEF n

-------------------------------------------------------------------------------
(* HFGeneration: what is returned.                                           *)

\* What the answers are cleaned by.
LEMMA CleanIs ==
  ASSUME NEW s \in Seq(Nat)
  PROVE  LET ends == {i \in 1 .. Len(s) : s[i] = EOS} IN
           HF!Clean(s) = IF ends # {} /\ HF!Min(ends) # 0 THEN SubSeq(s, 1, HF!Min(ends)) ELSE s
BY DEF HF!Clean, HF!SelectInSeq

\* What is cleaned ends with its first EOS.
LEMMA CleanCuts ==
  ASSUME NEW s \in Seq(Nat), NEW m \in 1 .. Len(s), s[m] = EOS, \A i \in 1 .. m - 1 : s[i] # EOS
  PROVE  HF!Clean(s) = SubSeq(s, 1, m)
<1> DEFINE ends == {i \in 1 .. Len(s) : s[i] = EOS}
<1>0. Len(s) \in Nat
  OBVIOUS
<1>1. HF!Clean(s) = IF ends # {} /\ HF!Min(ends) # 0 THEN SubSeq(s, 1, HF!Min(ends)) ELSE s
  BY CleanIs
<1>2. m \in ends /\ \A y \in ends : m =< y
  BY <1>0
<1>3. \A x \in ends : (\A y \in ends : x =< y) => x = m
  BY <1>0, <1>2
<1>4. HF!Min(ends) = CHOOSE x \in ends : \A y \in ends : x =< y
  BY Zenon DEF HF!Min
<1>5. m # 0 /\ ends # {}
  BY <1>2
<1> HIDE DEF ends
<1>6. HF!Min(ends) = m
  BY <1>2, <1>3, <1>4
<1> QED
  BY <1>1, <1>5, <1>6

\* What has no EOS stays as it is.
LEMMA CleanKeeps ==
  ASSUME NEW s \in Seq(Nat), \A i \in 1 .. Len(s) : s[i] # EOS
  PROVE  HF!Clean(s) = s
<1>1. {i \in 1 .. Len(s) : s[i] = EOS} = {}
  OBVIOUS
<1> QED
  BY <1>1, CleanIs

\* Padding follows what was there.
LEMMA PaddedIs ==
  ASSUME NEW s \in Seq(Nat), NEW n \in Nat
  PROVE  /\ HF!PaddedTo(s, n) \in Seq(Nat) /\ Len(s) <= Len(HF!PaddedTo(s, n))
         /\ \A i \in 1 .. Len(s) : HF!PaddedTo(s, n)[i] = s[i]
         /\ n <= Len(s) => HF!PaddedTo(s, n) = s
<1> DEFINE e == [i \in 1 .. n - Len(s) |-> EOS]
<1>1. Len(s) \in Nat /\ EOS \in Nat
  BY HFConstants
<1>2. e \in Seq(Nat) /\ Len(e) \in Nat
  <2> DEFINE d == IF n <= Len(s) THEN 0 ELSE n - Len(s)
  <2>1. d \in Nat /\ 1 .. n - Len(s) = 1 .. d
    BY <1>1
  <2>2. e = [i \in 1 .. d |-> EOS]
    BY <2>1
  <2> HIDE DEF e, d
  <2>3. e \in [1 .. d -> Nat]
    BY <1>1, <2>2
  <2> QED
    BY <2>1, <2>3
<1>3. HF!PaddedTo(s, n) = s \o e
  BY DEF HF!PaddedTo
<1>4. n <= Len(s) => e = <<>>
  <2>1. n <= Len(s) => 1 .. n - Len(s) = {}
    BY <1>1
  <2> QED
    BY <2>1
<1> HIDE DEF e
<1>5. /\ s \o e \in Seq(Nat) /\ Len(s \o e) = Len(s) + Len(e)
      /\ \A i \in 1 .. Len(s) : (s \o e)[i] = s[i]
  BY <1>2, ConcatIs
<1>6. s \o <<>> = s
  OBVIOUS
<1> QED
  BY <1>1, <1>2, <1>3, <1>4, <1>5, <1>6

\* Cleaning takes off the padding.
LEMMA CleanPadded ==
  ASSUME NEW s \in Seq(Nat), Len(s) >= 1, s[Len(s)] = EOS, \A i \in 1 .. Len(s) - 1 : s[i] # EOS,
         NEW n \in Nat
  PROVE  HF!Clean(HF!PaddedTo(s, n)) = s
<1> DEFINE p == HF!PaddedTo(s, n)
           m == Len(s)
<1>1. p \in Seq(Nat) /\ m <= Len(p) /\ \A i \in 1 .. m : p[i] = s[i]
  BY PaddedIs
<1>2. m \in Nat /\ Len(p) \in Nat /\ m >= 1
  BY <1>1
<1> HIDE DEF p
<1>3. m \in 1 .. Len(p) /\ p[m] = EOS /\ \A i \in 1 .. m - 1 : p[i] # EOS
  <2>1. s[m] = EOS /\ \A i \in 1 .. m - 1 : s[i] # EOS
    OBVIOUS
  <2> HIDE DEF m
  <2>2. m \in 1 .. m /\ \A i \in 1 .. m - 1 : i \in 1 .. m
    BY <1>2
  <2>3. m \in 1 .. Len(p)
    BY <1>1, <1>2
  <2> QED
    BY <1>1, <2>1, <2>2, <2>3
<1>4. HF!Clean(p) = SubSeq(p, 1, m)
  BY <1>1, <1>3, CleanCuts
<1>5. SubSeq(p, 1, m) = s
  <2>1. SubSeq(p, 1, m) \in Seq(Nat) /\ Len(SubSeq(p, 1, m)) = m
        /\ \A i \in 1 .. m : SubSeq(p, 1, m)[i] = p[i]
    <3> HIDE DEF m
    <3> QED
      BY <1>1, <1>2
  <2> QED
    BY <1>1, <2>1, SeqEqual
<1> QED
  BY <1>4, <1>5 DEF p

\* An answer to a prompt.
AnswerOk(out, headed, w, tokens) ==
  /\ \A c \in out :
       IF ~headed THEN c = <<EOS>>
       ELSE \E item \in Items :
              c = HF!Ended(item) \/ (Len(c) = tokens /\ HF!IsStrictPrefix(c, HF!Ended(item)))
  /\ headed /\ Cardinality(Items) >= w /\ tokens > HF!Longest =>
       Cardinality(out) = w /\ \A c \in out : \E item \in Items : c = HF!Ended(item)

\* No item is longer than the longest.
LEMMA HFLongestIs ==
  /\ HF!Longest \in Nat
  /\ \A item \in Items : Len(item) <= HF!Longest
<1> DEFINE S == {Len(item) : item \in Items}
<1>1. IsFiniteSet(S)
  <2> DEFINE f == [item \in Items |-> Len(item)]
  <2>1. f \in Surjection(Items, S)
    BY DEF Surjection
  <2> QED
    BY <2>1, FS_Surjection, HFConstants
<1>2. S \in SUBSET Nat /\ S # {} /\ \A item \in Items : Len(item) \in S
  BY HFConstants
<1>3. PICK n \in S : \A d \in S : n >= d
  BY <1>1, <1>2, FiniteMaximum
<1>4. HF!Longest = CHOOSE x \in S : \A y \in S : x >= y
  BY Zenon DEF HF!Longest, HF!Max
<1> HIDE DEF S
<1>5. HF!Longest \in S /\ \A y \in S : HF!Longest >= y
  BY <1>3, <1>4
<1>6. \A item \in Items : Len(item) \in Nat /\ HF!Longest >= Len(item)
  BY <1>2, <1>5
<1> QED
  BY <1>2, <1>5, <1>6

\* What a search returns, cleaned, is an answer.
LEMMA EndedSequence ==
  ASSUME NEW item \in Items, NEW n \in Nat
  PROVE  /\ HF!Ended(item) \in Seq(Nat)
         /\ HF!Clean(HF!PaddedTo(HF!Ended(item), n)) = HF!Ended(item)
<1> DEFINE s == HF!Ended(item)
           m == Len(item) + 1
<1>1. Len(item) \in Nat
  BY HFConstants
<1>2. /\ s \in Seq(Nat) /\ Len(s) = m
      /\ \A i \in 1 .. m : s[i] = EOS <=> i > Len(item)
  <2>1. s = Beginning(item, m) /\ m \in Nat
    BY <1>1, WholeBeginning
  <2> HIDE DEF s, m
  <2> QED
    BY <2>1, BeginningIs
<1> HIDE DEF s
<1>3. Len(s) >= 1 /\ s[Len(s)] = EOS /\ \A i \in 1 .. Len(s) - 1 : s[i] # EOS
  BY <1>1, <1>2
<1>4. HF!Clean(HF!PaddedTo(s, n)) = s
  BY <1>2, <1>3, CleanPadded
<1> QED
  BY <1>2, <1>4 DEF s

\* So is what the length has cut,
LEMMA OpenSequence ==
  ASSUME NEW s, NEW n \in Nat, Opens(s, n)
  PROVE  /\ s \in Seq(Nat) /\ Len(s) = n
         /\ HF!Clean(HF!PaddedTo(s, n)) = s
         /\ \E item \in Items : n <= Len(item) /\ HF!IsStrictPrefix(s, HF!Ended(item))
<1>1. PICK item \in Items : n <= Len(item) /\ s = Beginning(item, n)
  BY DEF Opens
<1>2. Len(item) \in Nat
  BY HFConstants
<1>3. s \in Seq(Nat) /\ Len(s) = n /\ \A i \in 1 .. n : s[i] = EOS <=> i > Len(item)
  BY <1>1, BeginningIs
<1>4. \A i \in 1 .. Len(s) : s[i] # EOS
  BY <1>1, <1>2, <1>3
<1>5. HF!PaddedTo(s, n) = s
  BY <1>3, PaddedIs
<1>6. HF!Clean(s) = s
  BY <1>3, <1>4, CleanKeeps
<1>7. HF!IsPrefix(s, HF!Ended(item))
  <2>1. Len(s) <= Len(item) + 1 /\ s = Beginning(item, Len(s))
    BY <1>1, <1>2, <1>3
  <2> QED
    BY <1>3, <2>1, HFPrefix, WholeBeginning
<1>8. s # HF!Ended(item)
  <2>1. Len(HF!Ended(item)) = Len(item) + 1
    BY <1>2, WholeBeginning, BeginningIs
  <2> QED
    BY <1>1, <1>2, <1>3, <2>1
<1> QED
  BY <1>1, <1>3, <1>5, <1>6, <1>7, <1>8 DEF HF!IsStrictPrefix

\* and a bare EOS.
LEMMA BareSequence ==
  ASSUME NEW n \in Nat
  PROVE  <<EOS>> \in Seq(Nat) /\ HF!Clean(HF!PaddedTo(<<EOS>>, n)) = <<EOS>>
<1>1. EOS \in Nat
  BY HFConstants
<1> DEFINE s == <<EOS>>
<1>2. s \in Seq(Nat) /\ Len(s) = 1 /\ s[1] = EOS
  BY <1>1
<1> HIDE DEF s
<1>3. Len(s) >= 1 /\ s[Len(s)] = EOS /\ \A i \in 1 .. Len(s) - 1 : s[i] # EOS
  BY <1>2
<1> QED
  BY <1>2, <1>3, CleanPadded DEF s

\* Those of its beams that count.
Pool(b) == b.ended \cup IF b.done THEN {} ELSE b.live

\* The model returns the ended ones, or as many as there is place for.
LEMMA AnswersAre ==
  ASSUME NEW b, NEW A \in HF!Answers(b)
  PROVE  /\ A \subseteq Pool(b)
         /\ A = b.ended \/ Cardinality(A) = HF!Min({HF!NumBeams, Cardinality(Pool(b))})
<1> DEFINE pool == b.ended \cup IF b.done THEN {} ELSE b.live
<1>1. \/ A \in HF!kSubset(HF!Min({HF!NumBeams, HF!Cardinality(pool)}), pool)
      \/ A = b.ended
  BY DEF HF!Answers
<1>2. CASE A = b.ended
  BY <1>2 DEF Pool
<1>3. CASE A \in HF!kSubset(HF!Min({HF!NumBeams, HF!Cardinality(pool)}), pool)
  <2> HIDE DEF pool
  <2>1. A \in SUBSET pool /\ HF!Cardinality(A) = HF!Min({HF!NumBeams, HF!Cardinality(pool)})
    BY <1>3 DEF HF!kSubset
  <2>2. pool = Pool(b)
    BY Zenon DEF pool, Pool
  <2> QED
    BY <2>1, <2>2, HFCardinality
<1> QED
  BY <1>1, <1>2, <1>3

\* Cleaning the answers changes nothing, and they are right.
Answered(A, n, headed, w, tokens) ==
  /\ \A s \in A : s \in Seq(Nat) /\ HF!Clean(HF!PaddedTo(s, n)) = s
  /\ AnswerOk(A, headed, w, tokens)

\* So it is for a prompt with the header,
LEMMA HeadedAnswer ==
  ASSUME NEW b, NEW n \in Nat, NEW w \in Nat \ {0}, NEW tokens \in Nat \ {0}, HeadedOk(b, n, w),
         b.done \in BOOLEAN, n = tokens \/ b.done, HF!NumBeams = w, NEW A \in HF!Answers(b)
  PROVE  Answered(A, n, TRUE, w, tokens)
<1>1. /\ A \subseteq Pool(b)
      /\ A = b.ended \/ Cardinality(A) = HF!Min({w, Cardinality(Pool(b))})
  BY AnswersAre
<1>2. ASSUME NEW s \in b.ended
      PROVE  /\ s \in Seq(Nat) /\ HF!Clean(HF!PaddedTo(s, n)) = s
             /\ \E item \in Items : s = HF!Ended(item)
  BY EndedSequence DEF HeadedOk
<1>3. ASSUME NEW s \in b.live, ~b.done
      PROVE  /\ s \in Seq(Nat) /\ HF!Clean(HF!PaddedTo(s, n)) = s
             /\ Len(s) = tokens
             /\ \E item \in Items : tokens <= Len(item) /\ HF!IsStrictPrefix(s, HF!Ended(item))
  BY <1>3, OpenSequence DEF HeadedOk
<1>4. \A s \in A : s \in b.ended \/ (s \in b.live /\ ~b.done)
  BY <1>1 DEF Pool
<1>5. ASSUME NEW s \in A
      PROVE  \E item \in Items :
               s = HF!Ended(item) \/ (Len(s) = tokens /\ HF!IsStrictPrefix(s, HF!Ended(item)))
  BY <1>2, <1>3, <1>4
<1>6. ASSUME Cardinality(Items) >= w, tokens > HF!Longest
      PROVE  Cardinality(A) = w /\ \A s \in A : \E item \in Items : s = HF!Ended(item)
  <2>1. ~b.done => b.live = {}
    <3> SUFFICES ASSUME ~b.done, NEW s \in b.live PROVE FALSE
      OBVIOUS
    <3>1. PICK item \in Items : tokens <= Len(item)
      BY <1>3
    <3>2. Len(item) \in Nat /\ Len(item) <= HF!Longest /\ HF!Longest \in Nat
      BY HFConstants, HFLongestIs
    <3> QED
      BY <1>6, <3>1, <3>2
  <2>2. Pool(b) = b.ended
    BY <2>1 DEF Pool
  <2>3. IsFiniteSet(b.ended) /\ Cardinality(b.ended) \in Nat
    BY <1>2, EndedAreFinite, FS_CardinalityType
  <2>4. Cardinality(b.ended) = w
    <3>1. CASE b.done
      BY <1>6, <3>1 DEF HeadedOk
    <3>2. CASE ~b.done
      <4>1. Cardinality(b.live) = 0
        BY <2>1, <3>2, FS_EmptySet
      <4>2. Cardinality(b.ended) <= w
        BY DEF HeadedOk
      <4>3. Cardinality(b.ended) + 0 >= w \/ PlaceForEach(b, n)
        BY <3>2, <4>1 DEF HeadedOk
      <4>4. CASE PlaceForEach(b, n)
        <5>1. \A item \in Items : HF!Ended(item) \in b.ended
          BY <2>1, <3>2, <4>4 DEF PlaceForEach
        <5>2. Cardinality(Items) <= Cardinality(b.ended) /\ Cardinality(Items) \in Nat
          BY <2>3, <5>1, AsManyEnded, HFConstants, FS_CardinalityType
        <5> QED
          BY <1>6, <2>3, <4>2, <5>2
      <4> QED
        BY <2>3, <4>2, <4>3, <4>4
    <3> QED
      BY <3>1, <3>2
  <2>5. HF!Min({w, Cardinality(Pool(b))}) = w
    BY <2>2, <2>4, HFLeast
  <2> QED
    BY <1>1, <1>2, <2>2, <2>4, <2>5
<1>7. \A s \in A : s \in Seq(Nat) /\ HF!Clean(HF!PaddedTo(s, n)) = s
  BY <1>2, <1>3, <1>4
<1> QED
  BY <1>5, <1>6, <1>7 DEF AnswerOk, Answered

\* and for one without.
LEMMA BareAnswer ==
  ASSUME NEW b, NEW n \in Nat, NEW w, NEW tokens \in Nat \ {0}, BareOk(b, n),
         n = tokens \/ b.done, NEW A \in HF!Answers(b)
  PROVE  Answered(A, n, FALSE, w, tokens)
<1>1. A \subseteq Pool(b)
  BY AnswersAre
<1>2. \A s \in A : s = <<EOS>>
  <2>1. b.done
    BY DEF BareOk
  <2> QED
    BY <1>1, <2>1 DEF BareOk, Pool
<1> QED
  BY <1>2, BareSequence DEF AnswerOk, Answered

-------------------------------------------------------------------------------
(* HFGeneration: the invariant.                                              *)

\* A call is served with its own parameters, and what is answered is right.
HFCalling ==
  /\ hfCall \in HFCalls /\ gen = HF!Parameters(hfCall)
  /\ completions \in Seq(SUBSET Seq(Nat)) /\ Len(completions) <= Len(hfCall.prompts)
  /\ \A p \in 1 .. Len(completions) :
       AnswerOk(completions[p], hfCall.prompts[p], HF!Width, HF!Tokens)

\* The prompts of a micro-batch are the next ones, and their searches are under way.
HFSearching ==
  /\ count \in Nat /\ count <= HF!Tokens
  /\ \E m \in Nat : DOMAIN beams = 1 .. m /\ Len(completions) + m <= Len(hfCall.prompts)
  /\ \A k \in DOMAIN beams : SearchOk(beams[k], count, HF!Headed(k), HF!Width)

\* A generator has the parameters of some call, and its key tells it from others.
HFInv ==
  /\ hfConfig \in HFConfigs
  /\ \A g \in generators : \E c \in HFCalls : g = HF!Parameters(c)
  /\ hfAt \in {"idle", "chunk", "step", "done"}
  /\ hfAt # "idle" => HFCalling
  /\ hfAt = "step" => HFSearching
  /\ hfAt = "done" => Len(completions) = Len(hfCall.prompts)

\* What a call is.
LEMMA HFCallIs ==
  ASSUME hfConfig \in HFConfigs, NEW c \in HFCalls
  PROVE  /\ c.validate \in BOOLEAN /\ c.prompts \in Seq(BOOLEAN)
         /\ Len(c.prompts) \in Nat /\ \A p \in 1 .. Len(c.prompts) : c.prompts[p] \in BOOLEAN
         /\ HF!Parameters(c) \in [width : Nat \ {0}, valWidth : Nat \ {0}, micro : Nat \ {0},
                                  tokens : Nat \ {0}]
<1>1. /\ hfConfig \in [width : Nat \ {0}, valWidth : Nat \ {0}, train : Nat \ {0},
                       response : Nat \ {0}, micro : Nat \ {0}]
      /\ c \in [validate : BOOLEAN, prompts : Seq(BOOLEAN)]
  BY HFConstants
<1>2. c.validate \in BOOLEAN /\ c.prompts \in Seq(BOOLEAN)
  BY <1>1
<1>3. HF!Parameters(c) \in [width : Nat \ {0}, valWidth : Nat \ {0}, micro : Nat \ {0},
                            tokens : Nat \ {0}]
  BY <1>1 DEF HF!Parameters
<1> QED
  BY <1>2, <1>3

\* The generator at hand searches by the widths and the length of the call.
LEMMA HFWidths ==
  ASSUME hfConfig \in HFConfigs, HFCalling
  PROVE  /\ HF!NumBeams = HF!Width /\ HF!Width \in Nat \ {0}
         /\ gen.tokens = HF!Tokens /\ HF!Tokens \in Nat \ {0}
         /\ gen.micro \in Nat \ {0}
<1>1. hfCall \in HFCalls /\ gen = HF!Parameters(hfCall)
  BY DEF HFCalling
<1>2. hfCall.validate \in BOOLEAN
      /\ HF!Parameters(hfCall) \in [width : Nat \ {0}, valWidth : Nat \ {0}, micro : Nat \ {0},
                                    tokens : Nat \ {0}]
  BY <1>1, HFCallIs
<1>3. gen.width = hfConfig.width /\ gen.valWidth = hfConfig.valWidth
  BY <1>1 DEF HF!Parameters
<1>4. gen.width \in Nat \ {0} /\ gen.valWidth \in Nat \ {0} /\ gen.micro \in Nat \ {0}
      /\ gen.tokens \in Nat \ {0}
  BY <1>1, <1>2
<1>5. HF!NumBeams = HF!Width /\ HF!Width \in Nat \ {0}
  BY <1>3, <1>4 DEF HF!NumBeams, HF!Width
<1> QED
  BY <1>1, <1>4, <1>5 DEF HF!Tokens

\* A step of the searches.
LEMMA HFStepIs ==
  ASSUME NEW k, NEW w \in Nat \ {0}, HF!NumBeams = w, NEW c \in HF!AfterStep(k), count \in Nat,
         HF!Headed(k) \in BOOLEAN, SearchOk(beams[k], count, HF!Headed(k), w)
  PROVE  SearchOk(c, count + 1, HF!Headed(k), w)
<1>1. CASE beams[k].done
  <2>1. c = beams[k]
    BY <1>1 DEF HF!AfterStep
  <2>2. CASE HF!Headed(k)
    <3>1. HeadedOk(beams[k], count, w)
      BY <2>2 DEF SearchOk
    <3>2. \A item \in Items : Len(item) \in Nat
      BY HFConstants
    <3>3. HeadedOk(beams[k], count + 1, w)
      BY <1>1, <3>1, <3>2 DEF HeadedOk
    <3> QED
      BY <2>1, <2>2, <3>3 DEF SearchOk
  <2>3. CASE ~HF!Headed(k)
    BY <1>1, <2>1, <2>3 DEF SearchOk, BareOk
  <2> QED
    BY <2>2, <2>3
<1>2. CASE ~beams[k].done
  <2>1. CASE HF!Headed(k)
    <3>1. HeadedOk(beams[k], count, w)
      BY <2>1 DEF SearchOk
    <3>2. c.done \in BOOLEAN /\ HeadedOk(c, count + 1, w)
      BY <1>2, <2>1, <3>1, HeadedStep
    <3> QED
      BY <2>1, <3>2 DEF SearchOk
  <2>2. CASE ~HF!Headed(k)
    <3>1. BareOk(beams[k], count)
      BY <2>2 DEF SearchOk
    <3>2. c.done \in BOOLEAN /\ BareOk(c, count + 1)
      BY <1>2, <2>2, <3>1, BareStep
    <3> QED
      BY <2>2, <3>2 DEF SearchOk
  <2> QED
    BY <2>1, <2>2
<1> QED
  BY <1>1, <1>2

\* A search begins with the empty beam.
LEMMA NewSearchOk ==
  ASSUME NEW headed \in BOOLEAN, NEW w \in Nat \ {0}
  PROVE  SearchOk(HF!NewSearch, 0, headed, w)
<1> DEFINE b == HF!NewSearch
<1>1. b.live = {<<>>} /\ b.ended = {} /\ b.done = FALSE
  BY DEF HF!NewSearch
<1>2. ASSUME NEW item \in Items PROVE 0 <= Len(item) /\ Beginning(item, 0) = <<>>
  <2>1. Len(item) \in Nat
    BY HFConstants
  <2>2. Beginning(item, 0) \in Seq(Nat) /\ Len(Beginning(item, 0)) = 0
    BY BeginningIs
  <2> QED
    BY <2>1, <2>2
<1>3. Cardinality({}) = 0
  BY FS_EmptySet
<1> HIDE DEF b
<1>4. Opens(<<>>, 0)
  BY <1>2, HFConstants DEF Opens
<1>5. PlaceForEach(b, 0)
  BY <1>1, <1>2 DEF PlaceForEach
<1>6. HeadedOk(b, 0, w)
  BY <1>1, <1>3, <1>4, <1>5 DEF HeadedOk
<1>7. BareOk(b, 0)
  BY <1>1 DEF BareOk
<1> QED
  BY <1>1, <1>6, <1>7 DEF SearchOk, b

\* What the invariant reads.
LEMMA HFReads == ASSUME HFInv, UNCHANGED hfVars PROVE HFInv'
<1>1. /\ hfConfig' = hfConfig /\ generators' = generators /\ hfCall' = hfCall /\ gen' = gen
      /\ count' = count /\ beams' = beams /\ completions' = completions /\ hfAt' = hfAt
  BY DEF hfVars
<1>2. HF!Width' = HF!Width /\ HF!Tokens' = HF!Tokens
      /\ \A c : HF!Parameters(c)' = HF!Parameters(c)
  BY <1>1 DEF HF!Width, HF!Tokens, HF!Parameters
<1>3. \A k : HF!Headed(k)' = HF!Headed(k)
  BY <1>1 DEF HF!Headed
<1>4. HFCalling => HFCalling'
  BY <1>1, <1>2 DEF HFCalling
<1>5. HFSearching => HFSearching'
  BY <1>1, <1>2, <1>3 DEF HFSearching
<1> QED
  BY <1>1, <1>2, <1>4, <1>5 DEF HFInv

\* A call gets a generator with its own parameters, new or not.
LEMMA HFBegin == ASSUME HFInv, HF!Begin PROVE HFInv'
<1>1. PICK c \in HFCalls :
        LET same == {g \in generators : HF!CacheKey(g) = HF!CacheKey(HF!Parameters(c))} IN
        /\ hfCall' = c
        /\ gen' = IF same = {} THEN HF!Parameters(c) ELSE CHOOSE g \in same : TRUE
        /\ generators' = generators \cup {gen'}
  BY DEF HF!Begin
<1>2. hfConfig' = hfConfig /\ completions' = <<>> /\ hfAt' = "chunk" /\ hfConfig \in HFConfigs
  BY DEF HF!Begin, HFInv
<1>3. \A d : HF!Parameters(d)' = HF!Parameters(d)
  BY <1>2 DEF HF!Parameters
<1>4. ASSUME NEW g \in generators, HF!CacheKey(g) = HF!CacheKey(HF!Parameters(c))
      PROVE  g = HF!Parameters(c)
  <2>1. PICK d \in HFCalls : g = HF!Parameters(d)
    BY DEF HFInv
  <2>2. /\ g.width = HF!Parameters(c).width /\ g.valWidth = HF!Parameters(c).valWidth
        /\ g.tokens = HF!Parameters(c).tokens /\ g.micro = HF!Parameters(c).micro
    BY <1>4 DEF HF!CacheKey
  <2>3. \A d1, d2 : /\ HF!Parameters(d1).width = HF!Parameters(d2).width
                    /\ HF!Parameters(d1).tokens = HF!Parameters(d2).tokens
                    => HF!Parameters(d1) = HF!Parameters(d2)
    BY DEF HF!Parameters
  <2> QED
    BY <2>1, <2>2, <2>3
<1> DEFINE same == {g \in generators : HF!CacheKey(g) = HF!CacheKey(HF!Parameters(c))}
<1>5. gen' = HF!Parameters(c)
  <2>1. \A g \in same : g = HF!Parameters(c)
    BY <1>4
  <2>2. gen' = IF same = {} THEN HF!Parameters(c) ELSE CHOOSE g \in same : TRUE
    BY <1>1
  <2> HIDE DEF same
  <2> QED
    BY <2>1, <2>2
<1>6. HFCalling'
  <2>1. completions' \in Seq(SUBSET Seq(Nat)) /\ Len(completions') = 0
    BY <1>2
  <2>2. Len(c.prompts) \in Nat
    BY <1>2, HFCallIs
  <2>3. \A p \in 1 .. Len(completions') : FALSE
    BY <2>1
  <2> QED
    BY <1>1, <1>3, <1>5, <2>1, <2>2, <2>3 DEF HFCalling
<1>7. \A g \in generators' : \E d \in HFCalls : g = HF!Parameters(d)'
  <2>1. generators' = generators \cup {gen'}
    BY <1>1
  <2> QED
    BY <1>3, <1>5, <2>1 DEF HFInv
<1> QED
  BY <1>2, <1>6, <1>7 DEF HFInv

\* A micro-batch begins,
LEMMA HFStartChunk == ASSUME HFInv, HF!StartChunk PROVE HFInv'
<1>1. /\ hfAt = "chunk" /\ hfAt' = "step" /\ count' = 0 /\ Len(completions) < Len(hfCall.prompts)
      /\ beams' = [k \in 1 .. HF!Min({gen.micro, Len(hfCall.prompts) - Len(completions)}) |->
                     HF!NewSearch]
      /\ hfConfig' = hfConfig /\ generators' = generators /\ hfCall' = hfCall /\ gen' = gen
      /\ completions' = completions
  BY DEF HF!StartChunk
<1>2. HF!Width' = HF!Width /\ HF!Tokens' = HF!Tokens
      /\ (\A c : HF!Parameters(c)' = HF!Parameters(c)) /\ \A k : HF!Headed(k)' = HF!Headed(k)
  BY <1>1 DEF HF!Width, HF!Tokens, HF!Parameters, HF!Headed
<1>3. hfConfig \in HFConfigs /\ HFCalling
  BY <1>1 DEF HFInv
<1>4. HFCalling'
  BY <1>1, <1>2, <1>3 DEF HFCalling
<1>5. HF!Width \in Nat \ {0} /\ HF!Tokens \in Nat \ {0} /\ gen.micro \in Nat \ {0}
  BY <1>3, HFWidths
<1>6. /\ Len(completions) \in Nat /\ Len(hfCall.prompts) \in Nat
      /\ \A p \in 1 .. Len(hfCall.prompts) : hfCall.prompts[p] \in BOOLEAN
  <2>1. hfCall \in HFCalls /\ Len(completions) \in Nat
    BY <1>3 DEF HFCalling
  <2> QED
    BY <1>3, <2>1, HFCallIs
<1> DEFINE l == Len(completions)
           n == Len(hfCall.prompts)
           u == gen.micro
           m == HF!Min({u, n - l})
<1>7. m \in Nat /\ l + m <= n
  <2>1. u \in Nat /\ l \in Nat /\ n \in Nat /\ l < n
    BY <1>1, <1>5, <1>6
  <2> HIDE DEF u, l, n
  <2>2. n - l \in Nat /\ u \in Int /\ n - l \in Int
    BY <2>1
  <2>3. m = IF u <= n - l THEN u ELSE n - l
    BY <2>2, HFLeast
  <2> HIDE DEF m
  <2> QED
    BY <2>1, <2>2, <2>3
<1>8. ASSUME NEW k \in 1 .. m PROVE SearchOk(HF!NewSearch, 0, HF!Headed(k), HF!Width)
  <2>1. l + k \in 1 .. n
    <3>1. l \in Nat /\ n \in Nat
      BY <1>6
    <3> HIDE DEF m, l, n
    <3> QED
      BY <1>7, <3>1
  <2>2. HF!Headed(k) \in BOOLEAN
    BY <1>6, <2>1 DEF HF!Headed
  <2> QED
    BY <1>5, <2>2, NewSearchOk
<1>9. HFSearching'
  <2>1. beams' = [k \in 1 .. m |-> HF!NewSearch]
    BY <1>1
  <2> HIDE DEF m
  <2>2. DOMAIN beams' = 1 .. m /\ \A k \in DOMAIN beams' : beams'[k] = HF!NewSearch
    BY <2>1
  <2>3. \A k \in DOMAIN beams' : SearchOk(beams'[k], count', HF!Headed(k)', HF!Width')
    BY <1>1, <1>2, <1>8, <2>2
  <2>4. Len(completions') + m <= Len(hfCall'.prompts)
    BY <1>1, <1>7
  <2>5. count' \in Nat /\ count' <= HF!Tokens'
    BY <1>1, <1>2, <1>5
  <2> QED
    BY <1>7, <2>2, <2>3, <2>4, <2>5 DEF HFSearching
<1> QED
  BY <1>1, <1>2, <1>3, <1>4, <1>9 DEF HFInv

\* its searches go on,
LEMMA HFSearchStep == ASSUME HFInv, HF!Step PROVE HFInv'
<1>1. /\ hfAt = "step" /\ count < gen.tokens /\ count' = count + 1
      /\ hfConfig' = hfConfig /\ generators' = generators /\ hfCall' = hfCall /\ gen' = gen
      /\ completions' = completions /\ hfAt' = hfAt
  BY DEF HF!Step
<1>2. DOMAIN beams' = DOMAIN beams /\ \A k \in DOMAIN beams : beams'[k] \in HF!AfterStep(k)
  BY DEF HF!Step
<1>3. HF!Width' = HF!Width /\ HF!Tokens' = HF!Tokens
      /\ (\A c : HF!Parameters(c)' = HF!Parameters(c)) /\ \A k : HF!Headed(k)' = HF!Headed(k)
  BY <1>1 DEF HF!Width, HF!Tokens, HF!Parameters, HF!Headed
<1>4. hfConfig \in HFConfigs /\ HFCalling /\ HFSearching
  BY <1>1 DEF HFInv
<1>5. HFCalling'
  BY <1>1, <1>3, <1>4 DEF HFCalling
<1>6. /\ HF!NumBeams = HF!Width /\ HF!Width \in Nat \ {0}
      /\ gen.tokens = HF!Tokens /\ HF!Tokens \in Nat \ {0}
  BY <1>4, HFWidths
<1>7. /\ count \in Nat /\ count <= HF!Tokens
      /\ \A k \in DOMAIN beams : SearchOk(beams[k], count, HF!Headed(k), HF!Width)
  BY <1>4 DEF HFSearching
<1>8. PICK m \in Nat : DOMAIN beams = 1 .. m /\ Len(completions) + m <= Len(hfCall.prompts)
  BY <1>4 DEF HFSearching
<1>9. ASSUME NEW k \in DOMAIN beams PROVE HF!Headed(k) \in BOOLEAN
  <2>1. hfCall \in HFCalls /\ Len(completions) \in Nat
    BY <1>4 DEF HFCalling
  <2>2. /\ Len(hfCall.prompts) \in Nat
        /\ \A p \in 1 .. Len(hfCall.prompts) : hfCall.prompts[p] \in BOOLEAN
    BY <1>4, <2>1, HFCallIs
  <2>3. k \in 1 .. m
    BY <1>8
  <2>4. Len(completions) + k \in 1 .. Len(hfCall.prompts)
    BY <1>8, <2>1, <2>2, <2>3
  <2> QED
    BY <2>2, <2>4 DEF HF!Headed
<1>10. ASSUME NEW k \in DOMAIN beams
       PROVE  SearchOk(beams'[k], count + 1, HF!Headed(k), HF!Width)
  BY <1>2, <1>6, <1>7, <1>9, HFStepIs
<1>11. HFSearching'
  <2>1. count' \in Nat /\ count' <= HF!Tokens'
    BY <1>1, <1>3, <1>6, <1>7
  <2>2. \A k \in DOMAIN beams' : SearchOk(beams'[k], count', HF!Headed(k)', HF!Width')
    BY <1>1, <1>2, <1>3, <1>10
  <2>3. m \in Nat /\ DOMAIN beams' = 1 .. m /\ Len(completions') + m <= Len(hfCall'.prompts)
    BY <1>1, <1>2, <1>8
  <2> QED
    BY <2>1, <2>2, <2>3 DEF HFSearching
<1> QED
  BY <1>1, <1>3, <1>4, <1>5, <1>11 DEF HFInv

\* it is collected,
LEMMA HFCollect == ASSUME HFInv, HF!Collect PROVE HFInv'
<1>1. /\ hfAt = "step" /\ hfAt' = "chunk"
      /\ count = gen.tokens \/ \A k \in DOMAIN beams : beams[k].done
      /\ hfConfig' = hfConfig /\ generators' = generators /\ hfCall' = hfCall /\ gen' = gen
  BY DEF HF!Collect
<1>2. PICK answers :
        /\ \A k \in DOMAIN beams : answers[k] \in HF!Answers(beams[k])
        /\ completions' = completions \o
             [k \in DOMAIN beams |-> {HF!Clean(HF!PaddedTo(s, count)) : s \in answers[k]}]
  BY DEF HF!Collect
<1>3. HF!Width' = HF!Width /\ HF!Tokens' = HF!Tokens
      /\ \A c : HF!Parameters(c)' = HF!Parameters(c)
  BY <1>1 DEF HF!Width, HF!Tokens, HF!Parameters
<1>4. hfConfig \in HFConfigs /\ HFCalling /\ HFSearching
  BY <1>1 DEF HFInv
<1>5. /\ HF!NumBeams = HF!Width /\ HF!Width \in Nat \ {0}
      /\ gen.tokens = HF!Tokens /\ HF!Tokens \in Nat \ {0}
  BY <1>4, HFWidths
<1>6. /\ count \in Nat
      /\ \A k \in DOMAIN beams : SearchOk(beams[k], count, HF!Headed(k), HF!Width)
  BY <1>4 DEF HFSearching
<1>7. PICK m \in Nat : DOMAIN beams = 1 .. m /\ Len(completions) + m <= Len(hfCall.prompts)
  BY <1>4 DEF HFSearching
<1>8. /\ hfCall \in HFCalls /\ completions \in Seq(SUBSET Seq(Nat))
      /\ \A p \in 1 .. Len(completions) :
           AnswerOk(completions[p], hfCall.prompts[p], HF!Width, HF!Tokens)
  BY <1>4 DEF HFCalling
<1>9. ASSUME NEW k \in DOMAIN beams PROVE HF!Headed(k) \in BOOLEAN
  <2>1. Len(completions) \in Nat
    BY <1>8
  <2>2. /\ Len(hfCall.prompts) \in Nat
        /\ \A p \in 1 .. Len(hfCall.prompts) : hfCall.prompts[p] \in BOOLEAN
    BY <1>4, <1>8, HFCallIs
  <2>3. k \in 1 .. m
    BY <1>7
  <2>4. Len(completions) + k \in 1 .. Len(hfCall.prompts)
    BY <1>7, <2>1, <2>2, <2>3
  <2> QED
    BY <2>2, <2>4 DEF HF!Headed
<1>10. ASSUME NEW k \in DOMAIN beams
       PROVE  /\ {HF!Clean(HF!PaddedTo(s, count)) : s \in answers[k]} = answers[k]
              /\ answers[k] \in SUBSET Seq(Nat)
              /\ AnswerOk(answers[k], HF!Headed(k), HF!Width, HF!Tokens)
  <2>1. answers[k] \in HF!Answers(beams[k]) /\ (count = HF!Tokens \/ beams[k].done)
    BY <1>1, <1>2, <1>5
  <2>2. SearchOk(beams[k], count, HF!Headed(k), HF!Width)
    BY <1>6
  <2>3. /\ \A s \in answers[k] : s \in Seq(Nat) /\ HF!Clean(HF!PaddedTo(s, count)) = s
        /\ AnswerOk(answers[k], HF!Headed(k), HF!Width, HF!Tokens)
    <3>1. CASE HF!Headed(k)
      <4>1. HeadedOk(beams[k], count, HF!Width) /\ beams[k].done \in BOOLEAN
        BY <2>2, <3>1 DEF SearchOk
      <4>2. Answered(answers[k], count, TRUE, HF!Width, HF!Tokens)
        BY <1>5, <1>6, <2>1, <4>1, HeadedAnswer
      <4>3. HF!Headed(k) = TRUE
        BY <1>9, <3>1
      <4> QED
        BY <4>2, <4>3, Zenon DEF Answered
    <3>2. CASE ~HF!Headed(k)
      <4>1. BareOk(beams[k], count)
        BY <2>2, <3>2 DEF SearchOk
      <4>2. Answered(answers[k], count, FALSE, HF!Width, HF!Tokens)
        BY <1>5, <1>6, <2>1, <4>1, BareAnswer
      <4>3. HF!Headed(k) = FALSE
        BY <1>9, <3>2
      <4> QED
        BY <4>2, <4>3, Zenon DEF Answered
    <3> QED
      BY <3>1, <3>2
  <2>4. {HF!Clean(HF!PaddedTo(s, count)) : s \in answers[k]} = answers[k]
    BY <2>3
  <2> QED
    BY <2>3, <2>4
<1> DEFINE f == [k \in 1 .. m |-> answers[k]]
           l == Len(completions)
<1>11. completions' = completions \o f
  <2>1. [k \in DOMAIN beams |-> {HF!Clean(HF!PaddedTo(s, count)) : s \in answers[k]}] = f
    BY <1>7, <1>10
  <2> HIDE DEF f
  <2> QED
    BY <1>2, <2>1
<1>12. f \in Seq(SUBSET Seq(Nat)) /\ Len(f) = m
  <2>1. f \in [1 .. m -> SUBSET Seq(Nat)]
    BY <1>7, <1>10
  <2> HIDE DEF f
  <2> QED
    BY <2>1
<1>13. /\ completions' \in Seq(SUBSET Seq(Nat)) /\ l \in Nat /\ Len(completions') = l + m
       /\ \A p \in 1 .. l : completions'[p] = completions[p]
       /\ \A k \in 1 .. m : completions'[l + k] = f[k]
  <2> DEFINE D == SUBSET Seq(Nat)
  <2>1. completions \in Seq(D) /\ f \in Seq(D)
    BY <1>8, <1>12
  <2> HIDE DEF D, f
  <2>2. /\ completions \o f \in Seq(D) /\ Len(completions) \in Nat
        /\ Len(completions \o f) = Len(completions) + Len(f)
        /\ \A p \in 1 .. Len(completions) : (completions \o f)[p] = completions[p]
        /\ \A k \in 1 .. Len(f) : (completions \o f)[Len(completions) + k] = f[k]
    BY <2>1, ConcatIs
  <2> QED
    BY <1>11, <1>12, <2>2, Zenon DEF D
<1>14. ASSUME NEW p \in 1 .. Len(completions')
       PROVE  AnswerOk(completions'[p], hfCall.prompts[p], HF!Width, HF!Tokens)
  <2>1. CASE p <= l
    <3>1. p \in 1 .. l
      BY <1>13, <2>1
    <3> QED
      BY <1>8, <1>13, <3>1
  <2>2. CASE ~ (p <= l)
    <3> DEFINE k == p - l
    <3>1. k \in 1 .. m /\ p = l + k
      BY <1>13, <2>2
    <3>2. completions'[p] = answers[k]
      BY <1>13, <3>1
    <3>3. HF!Headed(k) = hfCall.prompts[p]
      BY <3>1 DEF HF!Headed
    <3>4. k \in DOMAIN beams
      BY <1>7, <3>1
    <3>5. AnswerOk(answers[k], HF!Headed(k), HF!Width, HF!Tokens)
      BY <1>10, <3>4
    <3> QED
      BY <3>2, <3>3, <3>5
  <2> QED
    BY <2>1, <2>2
<1>15. HFCalling'
  <2>1. Len(completions') <= Len(hfCall'.prompts)
    BY <1>1, <1>7, <1>13
  <2>2. hfCall' \in HFCalls /\ gen' = HF!Parameters(hfCall)'
    BY <1>1, <1>3, <1>4, <1>8 DEF HFCalling
  <2>3. \A p \in 1 .. Len(completions') :
          AnswerOk(completions'[p], hfCall'.prompts[p], HF!Width', HF!Tokens')
    BY <1>1, <1>3, <1>14
  <2> QED
    BY <1>13, <2>1, <2>2, <2>3 DEF HFCalling
<1> QED
  BY <1>1, <1>3, <1>4, <1>15 DEF HFInv

\* and the call returns.
LEMMA HFReturn == ASSUME HFInv, HF!Return PROVE HFInv'
<1>1. /\ hfAt = "chunk" /\ hfAt' = "done" /\ Len(completions) = Len(hfCall.prompts)
      /\ hfConfig' = hfConfig /\ generators' = generators /\ hfCall' = hfCall /\ gen' = gen
      /\ completions' = completions
  BY DEF HF!Return
<1>2. HF!Width' = HF!Width /\ HF!Tokens' = HF!Tokens
      /\ \A c : HF!Parameters(c)' = HF!Parameters(c)
  BY <1>1 DEF HF!Width, HF!Tokens, HF!Parameters
<1>3. HFCalling'
  BY <1>1, <1>2 DEF HFCalling, HFInv
<1> QED
  BY <1>1, <1>2, <1>3 DEF HFInv

\* The generator is left.
LEMMA HFLeave == ASSUME HFInv, HF!Leave PROVE HFInv'
<1>1. hfAt' = "idle" /\ hfConfig' = hfConfig /\ generators' = generators
  BY DEF HF!Leave
<1>2. \A c : HF!Parameters(c)' = HF!Parameters(c)
  BY <1>1 DEF HF!Parameters
<1> QED
  BY <1>1, <1>2 DEF HFInv

\* So what is returned is right.
LEMMA HFReturnsItems == HFInv => HF!CompletionsAreItems /\ HF!EveryBeamFilled
<1> SUFFICES ASSUME HFInv, hfAt = "done" PROVE HF!CompletionsAreItems /\ HF!EveryBeamFilled
  BY DEF HF!CompletionsAreItems, HF!EveryBeamFilled
<1>1. /\ hfConfig \in HFConfigs /\ HFCalling /\ Len(completions) = Len(hfCall.prompts)
  BY DEF HFInv
<1>2. /\ completions \in Seq(SUBSET Seq(Nat))
      /\ \A p \in 1 .. Len(completions) :
           AnswerOk(completions[p], hfCall.prompts[p], HF!Width, HF!Tokens)
  BY <1>1 DEF HFCalling
<1>3. DOMAIN completions = 1 .. Len(completions)
  BY <1>2
<1>4. HF!CompletionsAreItems
  BY <1>1, <1>2, <1>3 DEF HF!CompletionsAreItems, AnswerOk
<1>5. HF!EveryBeamFilled
  <2> SUFFICES ASSUME HF!Cardinality(Items) >= HF!Width, HF!Tokens > HF!Longest,
                      NEW p \in DOMAIN completions, hfCall.prompts[p]
               PROVE  /\ HF!Cardinality(completions[p]) = HF!Width
                      /\ completions[p] \subseteq {HF!Ended(item) : item \in Items}
    BY DEF HF!EveryBeamFilled
  <2>1. Cardinality(Items) >= HF!Width
    BY HFCardinality
  <2>2. /\ Cardinality(completions[p]) = HF!Width
        /\ \A c \in completions[p] : \E item \in Items : c = HF!Ended(item)
    BY <1>2, <1>3, <2>1 DEF AnswerOk
  <2> QED
    BY <2>2, HFCardinality
<1> QED
  BY <1>4, <1>5

\* A rank answers every prompt with items, or what the length cut of them, and with as many
\* as it is asked for if there are so many, whatever its generators and micro-batches served
\* before (minionerec_fsdp_workers.py:136-152, hf_constrained_generation.py:193-308).
THEOREM HFAlwaysReturnsItems ==
  Spec => [](part = "hf" => HF!CompletionsAreItems /\ HF!EveryBeamFilled)
<1>1. Init => (part = "hf" => HFInv)
  BY DEF Init, HF!Init, HFInv
<1>2. (part = "hf" => HFInv) /\ [Next]_vars => (part = "hf" => HFInv)'
  <2> SUFFICES ASSUME part = "hf" => HFInv, [Next]_vars, part' = "hf"
               PROVE  HFInv'
    OBVIOUS
  <2>1. part = "hf" /\ (HF!Next \/ UNCHANGED hfVars)
    BY Zenon DEF Next, vars, SetupStep, RowsStep, BeamStep, HFStep, LogpsStep, FitStep,
           RewardsStep, ScoresStep, EvalStep
  <2> QED
    BY <2>1, HFReads, HFBegin, HFStartChunk, HFSearchStep, HFCollect, HFReturn, HFLeave
       DEF HF!Next
<1>3. (part = "hf" => HFInv) => (part = "hf" => HF!CompletionsAreItems /\ HF!EveryBeamFilled)
  BY HFReturnsItems
<1> QED
  BY <1>1, <1>2, <1>3, PTL DEF Spec

-------------------------------------------------------------------------------
(* Both searches.                                                            *)

\* Neither search returns what is no item, and a deterministic one returns no sequence
\* twice (beam_backend.py:87-108, 159-163, 187-198, hf_constrained_generation.py:193-206,
\* 291-308).
THEOREM AlwaysReturnsDistinctItems == Spec => []ReturnsDistinctItems
<1>1. /\ (part = "beam" => Beam!ReturnsItems /\ Beam!DistinctBeams /\ Beam!FillsTheGroup)
      /\ (part = "hf" => HF!CompletionsAreItems /\ HF!EveryBeamFilled)
      => ReturnsDistinctItems
  BY DEF ReturnsDistinctItems
<1> QED
  BY <1>1, SearchAlwaysReturnsItems, HFAlwaysReturnsItems, PTL

\* A search with tokens enough fills the group that waits for its beams
\* (beam_backend.py:85, 154-185, hf_constrained_generation.py:144-167).
THEOREM GroupsAreAlwaysFilled == Spec => []FillsTheGroup
<1>1. /\ (part = "beam" => Beam!ReturnsItems /\ Beam!DistinctBeams /\ Beam!FillsTheGroup)
      /\ (part = "hf" => HF!CompletionsAreItems /\ HF!EveryBeamFilled)
      => FillsTheGroup
  BY DEF FillsTheGroup
<1> QED
  BY <1>1, SearchAlwaysReturnsItems, HFAlwaysReturnsItems, PTL
===============================================================================
