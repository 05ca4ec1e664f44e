------------------------------ MODULE DataProofs ------------------------------
(*****************************************************************************)
(* What RunParts says of the data on its way through a step, for all values  *)
(* of the constants that PartsAssumption allows:                             *)
(*   "rows"     the rows of an epoch, for every dataset and configuration;   *)
(*   "logps"    the log-probabilities of a micro-batch of two samples, for   *)
(*              all lengths of them;                                         *)
(*   "rewards"  the rewards of MiniOneRec's groups, for every batch;         *)
(*   "scores"   the scores of a validation, for every plan of it.            *)
(*****************************************************************************)
EXTENDS RunParts, SetLemmas

-------------------------------------------------------------------------------
(* The log-probabilities (CompletionLogprobs).                               *)

\* FlattenSeq is that of the model.
LEMMA SameFlatten == ASSUME NEW s PROVE Logps!FlattenSeq(s) = FlattenSeq(s)
BY Zenon DEF Logps!FlattenSeq, FlattenSeq

\* The assumption on the constants.
LEMMA Constants == PartsAssumption
BY PartsAssumption

\* What it says of the samples and the engines.
LEMMA SamplesAre ==
  /\ Samples \subseteq [prompt : Nat \ {0}, response : Nat]
  /\ Engines \subseteq [padded : BOOLEAN, tensors : BOOLEAN, mask : BOOLEAN, eosIsPad : BOOLEAN,
                        declared : BOOLEAN, width : Nat \ {0}]
  /\ \A s \in Samples, e \in Engines : s.response <= e.width
BY PartsAssumption DEF PartsAssumption, Logps!LogprobAssumption

\* Nothing is before the first sample.
LEMMA SumOfNone == Logps!Before(1) = 0
<1>1. 1 .. 1 - 1 = {}
  OBVIOUS
<1> DEFINE Is(h) == h = [s \in SUBSET {} |-> IF s = {} THEN 0 ELSE
              Logps!SeqLen(CHOOSE x \in s : TRUE) + h[s \ {CHOOSE x \in s : TRUE}]]
<1>2. Logps!Before(1) = (CHOOSE h : Is(h))[{}]
  BY <1>1, Zenon DEF Logps!Before, Logps!MapThenSumSet, Logps!MapThenFoldSet
<1>3. Is([s \in SUBSET {} |-> 0])
  OBVIOUS
<1>4. Is(CHOOSE h : Is(h))
  <2> HIDE DEF Is
  <2> QED BY <1>3
<1> QED BY <1>2, <1>4

\* The first sample is before the second.
LEMMA SumOfOne ==
  ASSUME Logps!SeqLen(1) \in Nat
  PROVE  Logps!Before(2) = Logps!SeqLen(1)
<1>1. 1 .. 2 - 1 = {1}
  OBVIOUS
<1> DEFINE Is(h) == h = [s \in SUBSET {1} |-> IF s = {} THEN 0 ELSE
              Logps!SeqLen(CHOOSE x \in s : TRUE) + h[s \ {CHOOSE x \in s : TRUE}]]
           h0 == [s \in SUBSET {1} |-> IF s = {} THEN 0 ELSE Logps!SeqLen(1)]
<1>2. Logps!Before(2) = (CHOOSE h : Is(h))[{1}]
  BY <1>1, Zenon DEF Logps!Before, Logps!MapThenSumSet, Logps!MapThenFoldSet
<1>3. ASSUME NEW s \in SUBSET {1}, s # {} PROVE s = {1} /\ (CHOOSE x \in s : TRUE) = 1 /\ s \ {1} = {}
  BY <1>3
<1>4. \A s \in SUBSET {1} : s = {} \/ s = {1}
  OBVIOUS
<1>5. h0[{}] = 0 /\ h0[{1}] = Logps!SeqLen(1)
  OBVIOUS
<1>6. Is(h0)
  <2>1. ASSUME NEW s \in SUBSET {1}
        PROVE  h0[s] = IF s = {} THEN 0 ELSE
                 Logps!SeqLen(CHOOSE x \in s : TRUE) + h0[s \ {CHOOSE x \in s : TRUE}]
    <3>1. CASE s = {}
      BY <3>1
    <3>2. CASE s # {}
      <4> HIDE DEF h0
      <4> QED
        BY <1>3, <1>5, <3>2
    <3> QED
      BY <3>1, <3>2
  <2>2. h0 = [s \in SUBSET {1} |-> h0[s]]
    OBVIOUS
  <2> HIDE DEF h0
  <2> QED
    BY <2>1, <2>2
<1> DEFINE g == CHOOSE h : Is(h)
<1>7. Is(g)
  <2> HIDE DEF Is
  <2> QED BY <1>6
<1> HIDE DEF g
<1>8. g[{}] = 0
  BY <1>7
<1>9. g[{1}] = Logps!SeqLen(1) + g[{}]
  <2>1. {1} \in SUBSET {1} /\ {1} # {} /\ {} \in SUBSET {1}
    OBVIOUS
  <2>2. g[{1}] = Logps!SeqLen(CHOOSE x \in {1} : TRUE) + g[{1} \ {CHOOSE x \in {1} : TRUE}]
    BY <1>7, <2>1
  <2> QED
    BY <1>3, <2>1, <2>2
<1> QED BY <1>2, <1>8, <1>9 DEF g

\* The same of the lengths as they are resolved.
LEMMA ResolvedSums ==
  ASSUME NEW m \in Nat, Logps!PromptLength(1) + Logps!ResponseLen(1) = m,
         Logps!PromptLength(1) \in Int, Logps!PromptLength(2) \in Int
  PROVE  /\ Logps!PackedFrom(1) = Logps!PromptLength(1)
         /\ Logps!PackedFrom(2) = m + Logps!PromptLength(2)
<1> DEFINE term(s) == Logps!PromptLength(CHOOSE x \in s : TRUE) + Logps!ResponseLen(CHOOSE x \in s : TRUE)
           Is(S, h) == h = [s \in SUBSET S |-> IF s = {} THEN 0 ELSE
              Logps!PromptLength(CHOOSE x \in s : TRUE) + Logps!ResponseLen(CHOOSE x \in s : TRUE)
              + h[s \ {CHOOSE x \in s : TRUE}]]
           g0 == CHOOSE h : Is({}, h)
           g1 == CHOOSE h : Is({1}, h)
           h0 == [s \in SUBSET {} |-> 0]
           h1 == [s \in SUBSET {1} |-> IF s = {} THEN 0 ELSE m]
<1>1. Logps!PackedFrom(1) = g0[{}] + Logps!PromptLength(1)
  <2>1. 1 .. 1 - 1 = {}
    OBVIOUS
  <2> QED
    BY <2>1, Zenon DEF Logps!PackedFrom, Logps!MapThenSumSet, Logps!MapThenFoldSet
<1>2. Logps!PackedFrom(2) = g1[{1}] + Logps!PromptLength(2)
  <2>1. 1 .. 2 - 1 = {1}
    OBVIOUS
  <2> QED
    BY <2>1, Zenon DEF Logps!PackedFrom, Logps!MapThenSumSet, Logps!MapThenFoldSet
<1>3. Is({}, h0)
  OBVIOUS
<1>4. Is({}, g0)
  <2> HIDE DEF Is, h0
  <2> QED BY <1>3
<1>5. g0[{}] = 0
  <2> HIDE DEF g0
  <2> QED BY <1>4
<1>6. ASSUME NEW s \in SUBSET {1}, s # {} PROVE s = {1} /\ (CHOOSE x \in s : TRUE) = 1 /\ s \ {1} = {}
  BY <1>6
<1>7. h1[{}] = 0 /\ h1[{1}] = m /\ h1 = [s \in SUBSET {1} |-> h1[s]]
  OBVIOUS
<1>8. Is({1}, h1)
  <2>1. ASSUME NEW s \in SUBSET {1}
        PROVE  h1[s] = IF s = {} THEN 0 ELSE
                 Logps!PromptLength(CHOOSE x \in s : TRUE) + Logps!ResponseLen(CHOOSE x \in s : TRUE)
                 + h1[s \ {CHOOSE x \in s : TRUE}]
    <3>1. CASE s = {}
      BY <3>1
    <3>2. CASE s # {}
      <4> HIDE DEF h1
      <4>0. s = {1}
        BY <1>6, <3>2
      <4>1. h1[s] = m /\ m = m + h1[{}]
        BY <1>7, <4>0
      <4> QED
        BY <1>6, <3>2, <4>1
    <3> QED
      BY <3>1, <3>2
  <2> HIDE DEF h1
  <2> QED
    BY <1>7, <2>1
<1>9. Is({1}, g1)
  <2> HIDE DEF Is, h1
  <2> QED BY <1>8
<1>10. g1[{1}] = m
  <2> HIDE DEF g1
  <2>1. {1} \in SUBSET {1} /\ {1} # {} /\ {} \in SUBSET {1}
    OBVIOUS
  <2>2. g1[{}] = 0
    BY <1>9, <2>1
  <2>3. g1[{1}] = Logps!PromptLength(CHOOSE x \in {1} : TRUE) + Logps!ResponseLen(CHOOSE x \in {1} : TRUE)
                  + g1[{1} \ {CHOOSE x \in {1} : TRUE}]
    BY <1>9, <2>1
  <2> QED
    BY <1>6, <2>1, <2>2, <2>3
<1> HIDE DEF g0, g1
<1> QED
  BY <1>1, <1>2, <1>5, <1>10

-----------------------------------------------------------------------------

\* The lengths of the samples.
Lens == [n \in 1 .. 2 |-> Logps!SeqLen(n)]

\* The micro-batch and the engine.
LogpsTypes == micro \in Samples \X Samples /\ engine \in Engines

\* There are two samples.
LEMMA MicroIs ==
  ASSUME LogpsTypes
  PROVE  /\ DOMAIN micro = {1, 2} /\ DOMAIN micro = 1 .. 2
         /\ \A i \in {1, 2} : /\ micro[i].prompt \in Nat \ {0} /\ micro[i].response \in Nat
                              /\ micro[i].response <= engine.width
                              /\ Logps!SeqLen(i) \in Nat \ {0}
                              /\ Logps!SeqLen(i) = micro[i].prompt + micro[i].response
         /\ engine.width \in Nat \ {0}
<1>1. micro = <<micro[1], micro[2]>> /\ micro[1] \in Samples /\ micro[2] \in Samples
  BY DEF LogpsTypes
<1>2. DOMAIN micro = {1, 2} /\ DOMAIN micro = 1 .. 2
  BY <1>1
<1>3. ASSUME NEW i \in {1, 2}
      PROVE  /\ micro[i].prompt \in Nat \ {0} /\ micro[i].response \in Nat
             /\ micro[i].response <= engine.width
  BY <1>1, SamplesAre DEF LogpsTypes
<1>4. engine.width \in Nat \ {0}
  BY SamplesAre DEF LogpsTypes
<1> QED
  BY <1>2, <1>3, <1>4 DEF Logps!SeqLen

\* Where the samples are in the packed tensors.
LEMMA PackedIs ==
  ASSUME LogpsTypes
  PROVE  /\ Logps!Packed \in Seq({1, 2} \X Nat)
         /\ Len(Logps!Packed) = Logps!SeqLen(1) + Logps!SeqLen(2)
         /\ Logps!Before(1) = 0 /\ Logps!Before(2) = Logps!SeqLen(1)
         /\ \A i \in {1, 2} : \A k \in 1 .. Logps!SeqLen(i) :
              /\ Logps!Before(i) + k \in 1 .. Len(Logps!Packed)
              /\ Logps!Packed[Logps!Before(i) + k] = <<i, k>>
<1> DEFINE ss == [i \in DOMAIN micro |-> [k \in 1 .. Logps!SeqLen(i) |-> <<i, k>>]]
<1>1. \A i \in {1, 2} : Logps!SeqLen(i) \in Nat
  BY MicroIs
<1>2. ss \in [1 .. 2 -> Seq({1, 2} \X Nat)] /\ \A i \in {1, 2} : Len(ss[i]) = Logps!SeqLen(i)
        /\ \A k \in 1 .. Logps!SeqLen(i) : ss[i][k] = <<i, k>>
  <2>1. \A i \in {1, 2} : ss[i] = [k \in 1 .. Logps!SeqLen(i) |-> <<i, k>>]
    BY MicroIs
  <2>2. ss = [i \in 1 .. 2 |-> ss[i]]
    BY MicroIs
  <2> HIDE DEF ss
  <2>3. ASSUME NEW i \in {1, 2}
        PROVE  /\ ss[i] \in Seq({1, 2} \X Nat) /\ Len(ss[i]) = Logps!SeqLen(i)
               /\ \A k \in 1 .. Logps!SeqLen(i) : ss[i][k] = <<i, k>>
    <3> DEFINE n == Logps!SeqLen(i)
    <3>1. n \in Nat /\ ss[i] = [k \in 1 .. n |-> <<i, k>>]
      BY <1>1, <2>1
    <3> HIDE DEF n
    <3>2. ss[i] \in [1 .. n -> {1, 2} \X Nat] /\ \A k \in 1 .. n : ss[i][k] = <<i, k>>
      BY <3>1
    <3>3. ss[i] \in Seq({1, 2} \X Nat) /\ Len(ss[i]) = n
      BY <3>1, <3>2
    <3> QED
      BY <3>2, <3>3 DEF n
  <2>4. \A i \in 1 .. 2 : i \in {1, 2}
    OBVIOUS
  <2> QED
    BY <2>2, <2>3, <2>4
<1>3. Logps!Packed = FlattenSeq(ss)
  BY SameFlatten DEF Logps!Packed
<1> HIDE DEF ss
<1>4. PICK off : Laid(FlattenSeq(ss), off, ss, 2)
  BY <1>2, FlattenIs, 2 \in Nat
<1>5. FlattenSeq(ss) \in Seq({1, 2} \X Nat)
  BY <1>2, FlattenIs, 2 \in Nat
<1>6. off[0] = 0 /\ off[1] = Logps!SeqLen(1) /\ off[2] = Logps!SeqLen(1) + Logps!SeqLen(2)
  <2>1. /\ off[0] = 0 /\ off[1] = off[1 - 1] + Len(ss[1]) /\ off[2] = off[2 - 1] + Len(ss[2])
    BY <1>4 DEF Laid, Offsets
  <2>2. 1 - 1 = 0 /\ 2 - 1 = 1
    OBVIOUS
  <2> QED
    BY <1>1, <1>2, <2>1, <2>2
<1>7. Logps!Before(1) = off[1 - 1] /\ Logps!Before(2) = off[2 - 1]
  BY <1>1, <1>6, SumOfNone, SumOfOne
<1>8. ASSUME NEW i \in {1, 2}, NEW k \in 1 .. Logps!SeqLen(i)
      PROVE  /\ Logps!Before(i) + k \in 1 .. off[2]
             /\ FlattenSeq(ss)[Logps!Before(i) + k] = <<i, k>>
  <2>1. off[i - 1] + k \in 1 .. off[2] /\ FlattenSeq(ss)[off[i - 1] + k] = ss[i][k]
    BY <1>2, <1>4 DEF Laid
  <2> QED
    BY <1>2, <1>7, <2>1
<1>9. Len(FlattenSeq(ss)) = off[2]
  BY <1>4 DEF Laid
<1> QED
  BY <1>3, <1>5, <1>6, <1>7, <1>8, <1>9

\* The lengths are the true ones where they are counted.
LEMMA CountedLens ==
  ASSUME LogpsTypes, Logps!Counted, NEW i \in {1, 2}
  PROVE  Logps!ResponseLen(i) = micro[i].response /\ Logps!PromptLength(i) = micro[i].prompt
<1>1. engine.mask \/ engine.eosIsPad = FALSE
  BY SamplesAre DEF LogpsTypes, Logps!Counted
<1>2. Logps!ResponseLen(i) = micro[i].response
  BY <1>1, MicroIs DEF Logps!ResponseLen, Logps!NotPad
<1> QED
  BY <1>1, <1>2, MicroIs DEF Logps!PromptLength

\* The positions that are picked.
LEMMA IndicesAre ==
  ASSUME LogpsTypes, Logps!Counted, NEW i \in {1, 2}, NEW k \in 1 .. Logps!SeqLen(i)
  PROVE  Logps!Before(i) + k \in Logps!ToSet(Logps!Indices) <=> k \in micro[i].prompt .. Logps!SeqLen(i) - 1
<1> DEFINE n(l) == micro[l].response
           first(l) == Logps!Before(l) + micro[l].prompt
           ss == [l \in DOMAIN micro |->
                    IF Logps!PromptLength(l) <= 0 THEN <<>>
                    ELSE [j \in 1 .. Logps!ResponseLen(l) |-> Logps!FirstIndex(l) + j - 1]]
<1>1. \A l \in {1, 2} : /\ n(l) \in Nat /\ first(l) \in Nat \ {0} /\ Logps!Before(l) \in Nat
                        /\ micro[l].prompt \in Nat \ {0} /\ Logps!SeqLen(l) = micro[l].prompt + n(l)
  <2>1. ASSUME NEW l \in {1, 2}
        PROVE  /\ n(l) \in Nat /\ micro[l].prompt \in Nat \ {0}
               /\ Logps!SeqLen(l) = micro[l].prompt + n(l) /\ Logps!SeqLen(l) \in Nat
    BY MicroIs
  <2>2. Logps!Before(1) = 0 /\ Logps!Before(2) = Logps!SeqLen(1)
    BY PackedIs
  <2>3. \A l \in {1, 2} : Logps!Before(l) \in Nat
    BY <2>1, <2>2
  <2> QED
    BY <2>1, <2>3
<1>2. ASSUME NEW l \in {1, 2} PROVE ss[l] = [j \in 1 .. n(l) |-> first(l) + j - 1]
  <2>1. ss[l] = IF Logps!PromptLength(l) <= 0 THEN <<>>
                ELSE [j \in 1 .. Logps!ResponseLen(l) |-> Logps!FirstIndex(l) + j - 1]
    BY MicroIs
  <2>2. Logps!FirstIndex(l) = first(l) /\ Logps!ResponseLen(l) = n(l) /\ ~ (Logps!PromptLength(l) <= 0)
    BY MicroIs, CountedLens DEF Logps!FirstIndex
  <2> HIDE DEF ss, first, n
  <2> QED
    BY <2>1, <2>2
<1>3. ss = [l \in 1 .. 2 |-> ss[l]]
  BY MicroIs
<1>4. Logps!Indices = FlattenSeq(ss)
  BY SameFlatten DEF Logps!Indices
<1> HIDE DEF ss
<1>5. ASSUME NEW l \in {1, 2}
      PROVE  /\ ss[l] \in Seq(Nat) /\ Len(ss[l]) = n(l)
             /\ \A j \in 1 .. n(l) : ss[l][j] = first(l) + j - 1
  <2> DEFINE m == n(l)
             b == first(l)
  <2>1. m \in Nat /\ b \in Nat \ {0} /\ ss[l] = [j \in 1 .. m |-> b + j - 1]
    BY <1>1, <1>2
  <2> HIDE DEF m, b
  <2>2. ss[l] \in [1 .. m -> Nat] /\ \A j \in 1 .. m : ss[l][j] = b + j - 1
    BY <2>1
  <2>3. ss[l] \in Seq(Nat) /\ Len(ss[l]) = m
    BY <2>1, <2>2
  <2> QED
    BY <2>2, <2>3 DEF m, b
<1>6. ss \in [1 .. 2 -> Seq(Nat)] /\ \A l \in 1 .. 2 : l \in {1, 2}
  BY <1>3, <1>5
<1>7. FlattenSeq(ss) \in Seq(Nat) /\ \E off : Laid(FlattenSeq(ss), off, ss, 2)
  BY <1>6, FlattenIs, 2 \in Nat
<1>8. PICK off : Laid(FlattenSeq(ss), off, ss, 2)
  BY <1>7
<1> DEFINE whole == FlattenSeq(ss)
           at0 == Logps!Before(i) + k
<1> HIDE DEF whole, n, first
<1>9. /\ Offsets(off, ss, 2) /\ Len(whole) = off[2]
      /\ \A l \in {1, 2} : \A j \in 1 .. n(l) :
           off[l - 1] + j \in 1 .. off[2] /\ whole[off[l - 1] + j] = first(l) + j - 1
  BY <1>5, <1>6, <1>8 DEF Laid, whole
<1>10. \A p \in 1 .. off[2] : \E l \in {1, 2} : \E j \in 1 .. n(l) : p = off[l - 1] + j
  <2>1. \A l \in 1 .. 2 : Len(ss[l]) \in Nat
    BY <1>1, <1>5, <1>6
  <2>2. \A p \in 1 .. off[2] : \E l \in 1 .. 2 : \E j \in 1 .. Len(ss[l]) : p = off[l - 1] + j
    <3>1. Offsets(off, ss, 2) /\ 2 \in Nat
      BY <1>9
    <3>2. Covered(off, ss, 2)
      BY <2>1, <3>1, Located
    <3> QED
      BY <3>2 DEF Covered
  <2> QED
    BY <1>5, <1>6, <2>2
<1>11. ToSet(whole) = {whole[p] : p \in 1 .. off[2]}
  BY <1>7, <1>9 DEF ToSet, whole
<1>12. at0 \in ToSet(whole) <=> \E l \in {1, 2} : \E j \in 1 .. n(l) : at0 = first(l) + j - 1
  <2> HIDE DEF at0
  <2>1. ASSUME NEW p \in 1 .. off[2], at0 = whole[p]
        PROVE  \E l \in {1, 2} : \E j \in 1 .. n(l) : at0 = first(l) + j - 1
    <3>1. PICK l \in {1, 2} : \E j \in 1 .. n(l) : p = off[l - 1] + j
      BY <1>10
    <3>2. PICK j \in 1 .. n(l) : p = off[l - 1] + j
      BY <3>1
    <3>3. whole[off[l - 1] + j] = first(l) + j - 1
      BY <1>9
    <3> QED
      BY <2>1, <3>2, <3>3
  <2>2. ASSUME NEW l \in {1, 2}, NEW j \in 1 .. n(l), at0 = first(l) + j - 1
        PROVE  at0 \in ToSet(whole)
    <3>1. off[l - 1] + j \in 1 .. off[2] /\ whole[off[l - 1] + j] = first(l) + j - 1
      BY <1>9
    <3> QED
      BY <1>11, <2>2, <3>1
  <2> QED
    BY <1>11, <2>1, <2>2
<1>13. (\E l \in {1, 2} : \E j \in 1 .. n(l) : at0 = first(l) + j - 1)
         <=> k \in micro[i].prompt .. Logps!SeqLen(i) - 1
  <2> DEFINE s1 == Logps!SeqLen(1)
             p1 == micro[1].prompt
             p2 == micro[2].prompt
  <2>1. /\ first(1) = p1 /\ first(2) = s1 + p2 /\ Logps!Before(1) = 0 /\ Logps!Before(2) = s1
        /\ s1 = p1 + n(1) /\ Logps!SeqLen(2) = p2 + n(2)
        /\ p1 \in Nat \ {0} /\ p2 \in Nat \ {0} /\ n(1) \in Nat /\ n(2) \in Nat
    BY <1>1, PackedIs DEF first
  <2>2. CASE i = 1
    <3>1. at0 = k /\ k \in 1 .. s1
      BY <2>1, <2>2
    <3>2. ASSUME NEW j \in 1 .. n(2) PROVE at0 # first(2) + j - 1
      BY <2>1, <3>1
    <3>3. (\E j \in 1 .. n(1) : k = p1 + j - 1) <=> k \in p1 .. s1 - 1
      <4>1. k \in p1 .. s1 - 1 => k - p1 + 1 \in 1 .. n(1) /\ k = p1 + (k - p1 + 1) - 1
        BY <2>1, <3>1
      <4> QED
        BY <2>1, <3>1, <4>1
    <3> QED
      BY <2>1, <2>2, <3>1, <3>2, <3>3
  <2>3. CASE i = 2
    <3>1. at0 = s1 + k /\ k \in 1 .. Logps!SeqLen(2)
      BY <2>1, <2>3
    <3>2. ASSUME NEW j \in 1 .. n(1) PROVE at0 # first(1) + j - 1
      BY <2>1, <3>1
    <3>3. (\E j \in 1 .. n(2) : s1 + k = s1 + p2 + j - 1) <=> k \in p2 .. Logps!SeqLen(2) - 1
      <4>1. k \in p2 .. Logps!SeqLen(2) - 1
              => k - p2 + 1 \in 1 .. n(2) /\ s1 + k = s1 + p2 + (k - p2 + 1) - 1
        BY <2>1, <3>1
      <4> QED
        BY <2>1, <3>1, <4>1
    <3> QED
      BY <2>1, <2>3, <3>1, <3>2, <3>3
  <2> QED
    BY <2>2, <2>3
<1>14. Logps!ToSet(Logps!Indices) = ToSet(whole)
  BY <1>4, Zenon DEF Logps!ToSet, ToSet, whole
<1> QED
  BY <1>12, <1>13, <1>14

\* The greater and the smaller of two numbers.
LEMMA MaxOfTwo ==
  ASSUME NEW a \in Int, NEW b \in Int
  PROVE  Logps!Max({a, b}) \in {a, b} /\ Logps!Max({a, b}) >= a /\ Logps!Max({a, b}) >= b
<1>1. \E x \in {a, b} : \A y \in {a, b} : x >= y
  OBVIOUS
<1> QED
  BY <1>1 DEF Logps!Max

\* The smaller one.
LEMMA MinOfTwo ==
  ASSUME NEW a \in Int, NEW b \in Int, a <= b
  PROVE  Logps!Min({a, b}) = a
<1>1. \A y \in {a, b} : a <= y
  OBVIOUS
<1>2. \A x \in {a, b} : (\A y \in {a, b} : x <= y) => x = a
  OBVIOUS
<1> QED
  BY <1>1, <1>2 DEF Logps!Min

\* A batch of the trainer, padded.
PaddedInputs == inputs = [i \in DOMAIN micro |-> Logps!Row(i)]

\* The last columns of a padded batch are the tokens of the responses.
LEMMA ColumnsAre ==
  ASSUME LogpsTypes, Logps!AsTrained, PaddedInputs
  PROVE  /\ Logps!MaxResponseLen = engine.width
         /\ ~ (engine.width >= Len(inputs[1]))
         /\ \A i \in {1, 2} : \A j \in 1 .. micro[i].response :
              Logps!LastColumns(i)[j] = <<<<i, micro[i].prompt + j - 1>>, <<i, micro[i].prompt + j>>>>
<1> DEFINE w == engine.width
           lp == Logps!LongestPrompt
<1>1. Logps!MaxResponseLen = w
  BY DEF Logps!AsTrained, Logps!MaxResponseLen
<1>2. w \in Nat \ {0} /\ DOMAIN micro = {1, 2}
  BY MicroIs
<1>3. lp \in Nat \ {0} /\ \A i \in {1, 2} : lp >= micro[i].prompt
  <2>1. micro[1].prompt \in Nat \ {0} /\ micro[2].prompt \in Nat \ {0}
    BY MicroIs
  <2>2. {micro[i].prompt : i \in DOMAIN micro} = {micro[1].prompt, micro[2].prompt}
    BY <1>2
  <2>3. lp = Logps!Max({micro[1].prompt, micro[2].prompt})
    BY <2>2 DEF Logps!LongestPrompt
  <2> DEFINE a == micro[1].prompt
             b == micro[2].prompt
  <2>4. a \in Nat \ {0} /\ b \in Nat \ {0} /\ lp = Logps!Max({a, b})
    BY <2>1, <2>3
  <2> HIDE DEF lp, a, b
  <2>5. lp \in {a, b} /\ lp >= a /\ lp >= b
    <3>1. a \in Int /\ b \in Int
      BY <2>4
    <3> QED
      BY <2>4, <3>1, MaxOfTwo
  <2>6. lp \in Nat \ {0}
    BY <2>4, <2>5
  <2> QED
    BY <2>5, <2>6 DEF a, b
<1>4. ASSUME NEW i \in {1, 2}
      PROVE  inputs[i] = [c \in 1 .. lp + w |->
                LET k == c - (lp - micro[i].prompt)
                IN  IF k \in 1 .. Logps!SeqLen(i) THEN <<i, k>> ELSE Null]
  <2>1. inputs[i] = Logps!Row(i)
    BY <1>2 DEF PaddedInputs
  <2> QED
    BY <2>1 DEF Logps!Row, Logps!AsTrained
<1> HIDE DEF lp, w
<1>5. ASSUME NEW i \in {1, 2} PROVE Len(inputs[i]) = lp + w
  BY <1>2, <1>3, <1>4
<1>6. ~ (w >= Len(inputs[1]))
  BY <1>2, <1>3, <1>5
<1>7. ASSUME NEW i \in {1, 2}, NEW j \in 1 .. micro[i].response
      PROVE  Logps!LastColumns(i)[j] = <<<<i, micro[i].prompt + j - 1>>, <<i, micro[i].prompt + j>>>>
  <2> DEFINE p == micro[i].prompt
             r == micro[i].response
             row == inputs[i]
  <2>1. p \in Nat \ {0} /\ r \in Nat /\ r <= w /\ Logps!SeqLen(i) = p + r /\ lp >= p
    BY <1>3, MicroIs DEF w
  <2>2. Logps!LastColumns(i) =
          [l \in 1 .. w |-> <<row[Len(row) - w + l - 1], row[Len(row) - w + l]>>]
    BY <1>1 DEF Logps!LastColumns
  <2>3. Len(row) = lp + w
    BY <1>5
  <2>4. \A c \in 1 .. lp + w : c - (lp - p) \in 1 .. p + r => row[c] = <<i, c - (lp - p)>>
    BY <1>4, <2>1
  <2> HIDE DEF row
  <2>5. j \in 1 .. r
    OBVIOUS
  <2> HIDE DEF p, r
  <2> DEFINE c == Len(row) - w + j - 1
             d == Len(row) - w + j
  <2>6. /\ c \in 1 .. lp + w /\ d \in 1 .. lp + w
        /\ c - (lp - p) = p + j - 1 /\ d - (lp - p) = p + j
        /\ p + j - 1 \in 1 .. p + r /\ p + j \in 1 .. p + r
    <3>1. \A P, L \in Nat \ {0}, R, W \in Nat : \A J \in 1 .. R :
            R <= W /\ L >= P =>
              /\ (L + W) - W + J - 1 \in 1 .. L + W /\ (L + W) - W + J \in 1 .. L + W
              /\ (L + W) - W + J - 1 - (L - P) = P + J - 1 /\ (L + W) - W + J - (L - P) = P + J
              /\ P + J - 1 \in 1 .. P + R /\ P + J \in 1 .. P + R
      OBVIOUS
    <3> HIDE DEF c, d
    <3>2. lp \in Nat \ {0} /\ w \in Nat
      BY <1>2, <1>3
    <3>3. c = (lp + w) - w + j - 1 /\ d = (lp + w) - w + j
      BY <2>3 DEF c, d
    <3> QED
      BY <2>1, <2>5, <3>1, <3>2, <3>3
  <2>7. row[c] = <<i, p + j - 1>> /\ row[d] = <<i, p + j>>
    <3> HIDE DEF c, d
    <3> QED
      BY <2>4, <2>6
  <2>8. j \in 1 .. w
    BY <1>2, <2>1, <2>5
  <2>9. Logps!LastColumns(i)[j] = <<<<i, p + j - 1>>, <<i, p + j>>>>
    BY <2>2, <2>7, <2>8
  <2> QED
    BY <2>9 DEF p
<1> QED
  BY <1>1, <1>6, <1>7 DEF w

\* What is put back into the packed tensors is in its place.
LEMMA PackedBackIs ==
  ASSUME LogpsTypes, Logps!Counted, Logps!AsTrained, PaddedInputs
  PROVE  /\ DOMAIN Logps!PackedBack = DOMAIN Logps!Packed
         /\ \A i \in {1, 2} : \A k \in 1 .. Logps!SeqLen(i) :
              Logps!PackedBack[Logps!Before(i) + k] =
                IF k \in micro[i].prompt .. Logps!SeqLen(i) - 1 THEN <<<<i, k>>, <<i, k + 1>>>> ELSE Null
<1> DEFINE taken(i) == Logps!Min({Logps!ResponseLen(i), Logps!MaxResponseLen})
           from(t) == {i \in DOMAIN micro : t - Logps!PackedFrom(i) \in 0 .. taken(i) - 1}
           p(i) == micro[i].prompt
           r(i) == micro[i].response
           s(i) == Logps!SeqLen(i)
<1>1. \A i \in {1, 2} : p(i) \in Nat \ {0} /\ r(i) \in Nat /\ r(i) <= engine.width /\ s(i) = p(i) + r(i)
  BY MicroIs
<1>2. \A i \in {1, 2} : taken(i) = r(i)
  <2>1. engine.width \in Nat
    BY MicroIs
  <2>2. \A i \in {1, 2} : taken(i) = Logps!Min({r(i), engine.width})
    BY ColumnsAre, CountedLens
  <2> HIDE DEF taken, r
  <2> QED
    BY <1>1, <2>1, <2>2, MinOfTwo
<1>3. Logps!PackedFrom(1) = p(1) /\ Logps!PackedFrom(2) = s(1) + p(2)
  <2>1. /\ Logps!PromptLength(1) = p(1) /\ Logps!PromptLength(2) = p(2)
        /\ Logps!PromptLength(1) + Logps!ResponseLen(1) = s(1) /\ s(1) \in Nat
    BY <1>1, CountedLens
  <2>2. p(1) \in Int /\ p(2) \in Int
    BY <1>1
  <2> HIDE DEF p, s
  <2> QED
    BY <2>1, <2>2, ResolvedSums
<1>4. DOMAIN micro = {1, 2} /\ Logps!Before(1) = 0 /\ Logps!Before(2) = s(1)
  BY MicroIs, PackedIs
<1>5. \A t \in DOMAIN Logps!Packed :
        Logps!PackedBack[t] =
          IF from(t) = {} THEN Null
          ELSE Logps!LastColumns(Logps!Max(from(t)))[t - Logps!PackedFrom(Logps!Max(from(t))) + 1]
  BY DEF Logps!PackedBack
<1>6. DOMAIN Logps!PackedBack = DOMAIN Logps!Packed
  BY DEF Logps!PackedBack
<1>7. \A t : \A i \in {1, 2} : i \in from(t) <=> t - Logps!PackedFrom(i) \in 0 .. r(i) - 1
  BY <1>2, <1>4
<1>8. \A t : from(t) \subseteq {1, 2}
  BY <1>4
<1> HIDE DEF from, taken, p, r, s
<1>9. ASSUME NEW i \in {1, 2}, NEW k \in 1 .. s(i)
      PROVE  Logps!PackedBack[Logps!Before(i) + k] =
               IF k \in p(i) .. s(i) - 1 THEN <<<<i, k>>, <<i, k + 1>>>> ELSE Null
  <2> DEFINE t == Logps!Before(i) + k
  <2>1. t \in DOMAIN Logps!Packed
    <3>1. t \in 1 .. Len(Logps!Packed) /\ Logps!Packed \in Seq({1, 2} \X Nat)
      BY PackedIs DEF s
    <3> QED
      BY <3>1
  <2>2. from(t) = IF k \in p(i) .. s(i) - 1 THEN {i} ELSE {}
    <3>1. CASE i = 1
      <4>1. t = k
        BY <1>4, <3>1
      <4>2. 2 \notin from(t)
        BY <1>1, <1>3, <1>7, <3>1, <4>1
      <4>3. 1 \in from(t) <=> k \in p(1) .. s(1) - 1
        BY <1>1, <1>3, <1>7, <3>1, <4>1
      <4> QED
        BY <1>8, <3>1, <4>2, <4>3
    <3>2. CASE i = 2
      <4>1. t = s(1) + k
        BY <1>4, <3>2
      <4>2. 1 \notin from(t)
        BY <1>1, <1>3, <1>7, <3>2, <4>1
      <4>3. 2 \in from(t) <=> k \in p(2) .. s(2) - 1
        BY <1>1, <1>3, <1>7, <3>2, <4>1
      <4> QED
        BY <1>8, <3>2, <4>2, <4>3
    <3> QED
      BY <3>1, <3>2
  <2>3. t - Logps!PackedFrom(i) = k - p(i)
    BY <1>1, <1>3, <1>4
  <2> HIDE DEF t
  <2>4. CASE k \in p(i) .. s(i) - 1
    <3>1. from(t) = {i} /\ from(t) # {}
      BY <2>2, <2>4
    <3>2. Logps!Max({i}) = i
      BY DEF Logps!Max
    <3>3. Logps!PackedBack[t] = Logps!LastColumns(i)[k - p(i) + 1]
      BY <1>5, <2>1, <2>3, <3>1, <3>2
    <3>4. k - p(i) + 1 \in 1 .. r(i) /\ p(i) + (k - p(i) + 1) - 1 = k /\ p(i) + (k - p(i) + 1) = k + 1
      BY <1>1, <2>4
    <3>5. \A j \in 1 .. r(i) : Logps!LastColumns(i)[j] = <<<<i, p(i) + j - 1>>, <<i, p(i) + j>>>>
      BY ColumnsAre DEF r, p
    <3> QED
      BY <2>4, <3>3, <3>4, <3>5 DEF t
  <2>5. CASE k \notin p(i) .. s(i) - 1
    <3>1. from(t) = {}
      BY <2>2, <2>5
    <3>2. Logps!PackedBack[t] = Null
      BY <1>5, <2>1, <3>1
    <3> QED
      BY <2>5, <3>2 DEF t
  <2> QED
    BY <2>4, <2>5
<1> QED
  BY <1>6, <1>9 DEF p, s

-----------------------------------------------------------------------------

\* The inductive invariant of the part "logps".
LogpsInv ==
  /\ LogpsTypes
  /\ logprobAt \in {"prepare", "forward", "done", "failed"}
  /\ logprobAt = "forward" =>
       inputs = IF engine.padded THEN [i \in DOMAIN micro |-> Logps!Row(i)] ELSE Logps!Indices
  /\ Logps!LogprobsOfCompletions

\* The two ways of Forward.
LEMMA ForwardIs ==
  ASSUME LogpsTypes, Logps!Counted, engine.padded => Logps!AsTrained,
         inputs = IF engine.padded THEN [i \in DOMAIN micro |-> Logps!Row(i)] ELSE Logps!Indices,
         Logps!Forward
  PROVE  /\ logprobAt' = "done"
         /\ DOMAIN logps' = DOMAIN Logps!Packed
         /\ \A i \in {1, 2} : \A k \in 1 .. Logps!SeqLen(i) :
              logps'[Logps!Before(i) + k] =
                IF k \in micro[i].prompt .. Logps!SeqLen(i) - 1 THEN <<<<i, k>>, <<i, k + 1>>>> ELSE Null
<1>1. engine.padded \in BOOLEAN
  BY SamplesAre DEF LogpsTypes
<1>2. CASE engine.padded
  <2>1. PaddedInputs /\ Logps!AsTrained
    BY <1>2 DEF PaddedInputs
  <2>2. ~ (engine.padded /\ Logps!MaxResponseLen >= Len(inputs[1]))
    BY <2>1, ColumnsAre
  <2>3. logprobAt' = "done" /\ logps' = Logps!PackedBack
    BY <1>2, <2>2 DEF Logps!Forward
  <2> QED
    BY <2>1, <2>3, PackedBackIs
<1>3. CASE ~ engine.padded
  <2>1. logprobAt' = "done" /\ logps' = Logps!Scattered /\ inputs = Logps!Indices
    BY <1>3 DEF Logps!Forward
  <2>2. /\ DOMAIN logps' = DOMAIN Logps!Packed
        /\ \A t \in DOMAIN Logps!Packed :
             logps'[t] = IF t \in Logps!ToSet(Logps!Indices) THEN <<Logps!Packed[t], Logps!Rolled(t)>> ELSE Null
    BY <2>1 DEF Logps!Scattered
  <2>3. ASSUME NEW i \in {1, 2}, NEW k \in 1 .. Logps!SeqLen(i)
        PROVE  logps'[Logps!Before(i) + k] =
                 IF k \in micro[i].prompt .. Logps!SeqLen(i) - 1 THEN <<<<i, k>>, <<i, k + 1>>>> ELSE Null
    <3> DEFINE t == Logps!Before(i) + k
               n == Len(Logps!Packed)
    <3>1. t \in 1 .. n /\ Logps!Packed[t] = <<i, k>> /\ Logps!Packed \in Seq({1, 2} \X Nat)
      BY PackedIs
    <3>2. t \in DOMAIN Logps!Packed
      BY <3>1
    <3>3. t \in Logps!ToSet(Logps!Indices) <=> k \in micro[i].prompt .. Logps!SeqLen(i) - 1
      BY IndicesAre
    <3>4. ASSUME k \in micro[i].prompt .. Logps!SeqLen(i) - 1
          PROVE  Logps!Rolled(t) = <<i, k + 1>>
      <4>1. micro[i].prompt \in Nat /\ Logps!SeqLen(i) \in Nat
        BY MicroIs
      <4>2. k + 1 \in 1 .. Logps!SeqLen(i)
        BY <3>4, <4>1
      <4>3. Logps!Before(i) + (k + 1) \in 1 .. n /\ Logps!Packed[Logps!Before(i) + (k + 1)] = <<i, k + 1>>
        BY <4>2, PackedIs
      <4>4. Logps!Before(i) \in Nat
        BY MicroIs, PackedIs
      <4>5. Logps!Before(i) + (k + 1) = t + 1
        BY <4>4
      <4>n. n \in Nat
        BY <3>1
      <4> HIDE DEF n
      <4>t. t \in 1 .. n /\ t + 1 \in 1 .. n
        BY <3>1, <4>3, <4>5
      <4> HIDE DEF t
      <4>6. n \in Nat /\ t \in Nat /\ t < n
        BY <4>n, <4>t
      <4>7. t % n = t
        BY <4>6
      <4>8. Logps!Packed[t + 1] = <<i, k + 1>>
        BY <4>3, <4>5
      <4> QED
        BY <4>7, <4>8 DEF Logps!Rolled, n
    <3> HIDE DEF t
    <3>5. logps'[t] = IF k \in micro[i].prompt .. Logps!SeqLen(i) - 1 THEN <<<<i, k>>, <<i, k + 1>>>> ELSE Null
      BY <2>2, <3>1, <3>2, <3>3, <3>4
    <3> QED
      BY <3>5 DEF t
  <2> QED
    BY <2>1, <2>2, <2>3
<1> QED
  BY <1>1, <1>2, <1>3

\* What is read of the micro-batch and the engine alone.
LEMMA LogpsReads ==
  ASSUME UNCHANGED <<micro, engine>>
  PROVE  /\ \A i : Logps!SeqLen(i)' = Logps!SeqLen(i) /\ Logps!Before(i)' = Logps!Before(i)
         /\ \A i : Logps!Row(i)' = Logps!Row(i)
         /\ Logps!Packed' = Logps!Packed
         /\ Logps!Indices' = Logps!Indices
<1>1. \A i : Logps!SeqLen(i)' = Logps!SeqLen(i) /\ Logps!Before(i)' = Logps!Before(i)
  BY Zenon DEF Logps!SeqLen, Logps!Before, Logps!MapThenSumSet, Logps!MapThenFoldSet
<1>2. \A i : Logps!Row(i)' = Logps!Row(i)
  BY DEF Logps!Row, Logps!LongestPrompt, Logps!SeqLen
<1>3. Logps!Packed' = Logps!Packed
  BY Zenon DEF Logps!Packed, Logps!SeqLen
<1>4. \A i : Logps!NotPad(i)' = Logps!NotPad(i)
  BY DEF Logps!NotPad
<1>5. \A i : Logps!ResponseLen(i)' = Logps!ResponseLen(i)
  BY <1>4 DEF Logps!ResponseLen
<1>6. \A i : Logps!PromptLength(i)' = Logps!PromptLength(i)
  BY <1>1, <1>5 DEF Logps!PromptLength
<1>7. \A i : Logps!FirstIndex(i)' = Logps!FirstIndex(i)
  BY <1>1, <1>6 DEF Logps!FirstIndex
<1>8. Logps!Indices' = Logps!Indices
  <2> DEFINE ss == [i \in DOMAIN micro |->
                      IF Logps!PromptLength(i) <= 0 THEN <<>>
                      ELSE [j \in 1 .. Logps!ResponseLen(i) |-> Logps!FirstIndex(i) + j - 1]]
  <2>1. ss' = ss
    BY <1>5, <1>6, <1>7
  <2>2. Logps!Indices = Logps!FlattenSeq(ss)
    BY DEF Logps!Indices
  <2>3. Logps!Indices' = Logps!FlattenSeq(ss')
    BY DEF Logps!Indices
  <2> HIDE DEF ss
  <2> QED
    BY <2>1, <2>2, <2>3
<1> QED
  BY <1>1, <1>2, <1>3, <1>8

\* A step keeps it.
LEMMA LogpsInvIsKept ==
  ASSUME LogpsInv, Logps!Next
  PROVE  LogpsInv'
<1>1. UNCHANGED <<micro, engine>> /\ LogpsTypes'
  BY DEF Logps!Next, Logps!Prepare, Logps!Forward, LogpsInv, LogpsTypes
<1>2. CASE Logps!Prepare
  <2>1. /\ logprobAt' = "forward"
        /\ inputs' = IF engine.padded THEN [i \in DOMAIN micro |-> Logps!Row(i)] ELSE Logps!Indices
    BY <1>2 DEF Logps!Prepare
  <2>2. Logps!Indices' = Logps!Indices /\ \A i : Logps!Row(i)' = Logps!Row(i)
    BY <1>1, LogpsReads
  <2>4. (IF engine.padded THEN [i \in DOMAIN micro |-> Logps!Row(i)] ELSE Logps!Indices)'
          = IF engine.padded THEN [i \in DOMAIN micro |-> Logps!Row(i)] ELSE Logps!Indices
    BY <1>1, <2>2
  <2>5. Logps!LogprobsOfCompletions'
    BY <2>1 DEF Logps!LogprobsOfCompletions
  <2> QED
    BY <1>1, <2>1, <2>4, <2>5 DEF LogpsInv
<1>3. CASE Logps!Forward
  <2>1. logprobAt' \in {"done", "failed"}
    BY <1>3 DEF Logps!Forward
  <2>2. Logps!LogprobsOfCompletions'
    <3> SUFFICES ASSUME Logps!Counted', (engine.padded => Logps!AsTrained)'
                 PROVE  /\ logprobAt' # "failed"
                        /\ (DOMAIN logps = DOMAIN Logps!Packed)'
                        /\ (\A i \in DOMAIN micro : \A k \in 1 .. Logps!SeqLen(i) :
                              logps[Logps!Before(i) + k] =
                                IF k \in micro[i].prompt .. Logps!SeqLen(i) - 1
                                THEN <<<<i, k>>, <<i, k + 1>>>> ELSE Null)'
      BY DEF Logps!LogprobsOfCompletions
    <3>1. Logps!Counted /\ (engine.padded => Logps!AsTrained) /\ LogpsTypes
      BY <1>1 DEF Logps!Counted, Logps!AsTrained, LogpsInv
    <3>2. inputs = IF engine.padded THEN [i \in DOMAIN micro |-> Logps!Row(i)] ELSE Logps!Indices
      BY <1>3 DEF LogpsInv, Logps!Forward
    <3>3. /\ logprobAt' = "done"
          /\ DOMAIN logps' = DOMAIN Logps!Packed
          /\ \A i \in {1, 2} : \A k \in 1 .. Logps!SeqLen(i) :
               logps'[Logps!Before(i) + k] =
                 IF k \in micro[i].prompt .. Logps!SeqLen(i) - 1 THEN <<<<i, k>>, <<i, k + 1>>>> ELSE Null
      BY <1>3, <3>1, <3>2, ForwardIs
    <3>4. Logps!Packed' = Logps!Packed
      BY <1>1, LogpsReads
    <3>5. \A i : Logps!SeqLen(i)' = Logps!SeqLen(i) /\ Logps!Before(i)' = Logps!Before(i)
      BY <1>1, LogpsReads
    <3>6. DOMAIN micro' = {1, 2}
      BY <1>1, <3>1, MicroIs
    <3> QED
      BY <1>1, <3>3, <3>4, <3>5, <3>6
  <2> QED
    BY <1>1, <2>1, <2>2 DEF LogpsInv
<1> QED
  BY <1>2, <1>3 DEF Logps!Next

\* Packed or padded, every token of a completion gets its own log-probability, at the
\* place from which the loss takes it, and no other place gets one, for all lengths
\* (completion_only_logprob.py:95-285, 442-497).
THEOREM AlwaysLogprobsOfCompletions == Spec => []LogprobsOfCompletions
<1>1. Init => (part = "logps" => LogpsInv)
  BY DEF Init, Logps!Init, LogpsInv, LogpsTypes, Logps!LogprobsOfCompletions
<1>2. (part = "logps" => LogpsInv) /\ [Next]_vars => (part = "logps" => LogpsInv)'
  <2> SUFFICES ASSUME part = "logps" => LogpsInv, [Next]_vars, part' = "logps"
               PROVE  LogpsInv'
    OBVIOUS
  <2>1. part = "logps" /\ LogpsInv
    BY DEF Next, vars, SetupStep, RowsStep, BeamStep, HFStep, LogpsStep, FitStep, RewardsStep,
           ScoresStep, EvalStep
  <2>2. CASE LogpsStep
    BY <2>1, <2>2, LogpsInvIsKept DEF LogpsStep
  <2>3. CASE UNCHANGED logpsVars
    <3>1. UNCHANGED <<micro, engine, inputs, logps, logprobAt>>
      BY <2>3 DEF logpsVars
    <3>2. LogpsTypes'
      BY <2>1, <3>1 DEF LogpsInv, LogpsTypes
    <3>3. /\ \A i : Logps!SeqLen(i)' = Logps!SeqLen(i) /\ Logps!Before(i)' = Logps!Before(i)
          /\ \A i : Logps!Row(i)' = Logps!Row(i)
          /\ Logps!Packed' = Logps!Packed /\ Logps!Indices' = Logps!Indices
      BY <3>1, LogpsReads
    <3>4. Logps!LogprobsOfCompletions'
      BY <2>1, <3>1, <3>3 DEF LogpsInv, Logps!LogprobsOfCompletions, Logps!Counted, Logps!AsTrained
    <3>5. (IF engine.padded THEN [i \in DOMAIN micro |-> Logps!Row(i)] ELSE Logps!Indices)'
            = IF engine.padded THEN [i \in DOMAIN micro |-> Logps!Row(i)] ELSE Logps!Indices
      BY <3>1, <3>3
    <3> QED
      BY <2>1, <3>1, <3>2, <3>4, <3>5 DEF LogpsInv
  <2> QED
    BY <2>1, <2>2, <2>3 DEF Next, vars, SetupStep, RowsStep, BeamStep, HFStep, FitStep,
                            RewardsStep, ScoresStep, EvalStep
<1>3. (part = "logps" => LogpsInv) => LogprobsOfCompletions
  BY DEF LogpsInv, LogprobsOfCompletions
<1> QED
  BY <1>1, <1>2, <1>3, PTL DEF Spec

-------------------------------------------------------------------------------
(* The rows of an epoch (DatasetRows).                                       *)

\* What is known of the constants.
LEMMA RowsConstants ==
  /\ Len(Lengths) \in Nat /\ DOMAIN Lengths = 1 .. Len(Lengths)
  /\ \A i \in DOMAIN Lengths : Lengths[i] \in Nat \ {0}
  /\ MaxLength \in Nat \ {0} /\ Slack \in Nat /\ Prefix \in Nat
  /\ \A d \in Datasets : d.max \in Int /\ d.sample \in Int
<1>1. Rows!RowsAssumption
  BY PartsAssumption DEF PartsAssumption
<1>2. Lengths \in Seq(Nat \ {0})
  BY <1>1 DEF Rows!RowsAssumption
<1>3. Len(Lengths) \in Nat /\ DOMAIN Lengths = 1 .. Len(Lengths)
  BY <1>2, LenProperties
<1>4. \A i \in DOMAIN Lengths : Lengths[i] \in Nat \ {0}
  BY <1>2, <1>3, ElementOfSeq
<1> QED
  BY <1>1, <1>3, <1>4 DEF Rows!RowsAssumption

\* What a frame can have.
ARow == {"sid", "seq", "title"} \X DOMAIN Lengths

\* The first elements of a sequence are a sequence.
LEMMA FirstOfIs ==
  ASSUME NEW D, NEW s \in Seq(D), NEW n \in Int
  PROVE  Rows!FirstOf(s, n) \in Seq(D)
<1>1. CASE 0 < n /\ n < Len(s)
  <2>1. \A i \in 1 .. n : s[i] \in D
    BY <1>1, LenProperties, ElementOfSeq
  <2>2. SubSeq(s, 1, n) \in Seq(D)
    BY <2>1, SubSeqProperties, 1 \in Int
  <2> QED
    BY <1>1, <2>2 DEF Rows!FirstOf
<1>2. CASE ~ (0 < n /\ n < Len(s))
  BY <1>2, Zenon DEF Rows!FirstOf
<1> QED
  BY <1>1, <1>2

\* So is a reversal.
LEMMA ReverseIs ==
  ASSUME NEW D, NEW s \in Seq(D)
  PROVE  Rows!Reverse(s) \in Seq(D)
<1>1. Len(s) \in Nat /\ \A i \in 1 .. Len(s) : s[i] \in D
  BY LenProperties, ElementOfSeq
<1>2. Rows!Reverse(s) = [i \in 1 .. Len(s) |-> s[(Len(s) - i) + 1]]
  BY DEF Rows!Reverse
<1>3. \A i \in 1 .. Len(s) : (Len(s) - i) + 1 \in 1 .. Len(s)
  BY <1>1
<1>4. Rows!Reverse(s) \in [1 .. Len(s) -> D]
  BY <1>1, <1>2, <1>3
<1> QED
  BY <1>1, <1>4 DEF Seq

\* So is a shuffle, of which there is one with a seed.
LEMMA ShuffledAre ==
  ASSUME NEW D, NEW s \in Seq(D)
  PROVE  /\ Rows!Shuffled(s) \subseteq Seq(D)
         /\ dataset.seeded => Rows!Shuffled(s) = {Rows!Reverse(s)}
<1>1. CASE dataset.seeded
  BY <1>1, ReverseIs DEF Rows!Shuffled
<1>2. CASE ~ dataset.seeded
  <2> DEFINE T == Rows!ToSet(s)
  <2>1. Len(s) \in Nat /\ DOMAIN s = 1 .. Len(s) /\ \A i \in 1 .. Len(s) : s[i] \in D
    BY LenProperties, ElementOfSeq
  <2>2. T = {s[i] : i \in 1 .. Len(s)}
    BY <2>1 DEF Rows!ToSet
  <2>3. IsFiniteSet(1 .. Len(s))
    BY <2>1, FS_Interval
  <2>4. s \in [1 .. Len(s) -> D]
    BY <2>1
  <2>5. IsFiniteSet(T)
    <3> HIDE DEF T
    <3>1. s \in [1 .. Len(s) -> T] /\ \A t \in T : \E i \in 1 .. Len(s) : s[i] = t
      BY <2>2, <2>4
    <3>2. s \in Surjection(1 .. Len(s), T)
      BY <3>1 DEF Surjection
    <3> QED
      BY <2>3, <3>2, FS_Surjection
  <2>6. Rows!Cardinality(T) \in Nat
    <3>1. Rows!Cardinality(T) = Cardinality(T)
      BY Zenon DEF Rows!Cardinality, Cardinality
    <3>2. Cardinality(T) \in Nat
      BY <2>5, FS_CardinalityType
    <3> QED
      BY <3>1, <3>2
  <2>7. T \subseteq D
    BY <2>1, <2>2
  <2>8. Rows!Shuffled(s) \subseteq [1 .. Rows!Cardinality(T) -> T]
    BY <1>2 DEF Rows!Shuffled, Rows!SetToSeqs
  <2> HIDE DEF T
  <2>9. [1 .. Rows!Cardinality(T) -> T] \subseteq Seq(D)
    BY <2>6, <2>7 DEF Seq
  <2> QED
    BY <1>2, <2>8, <2>9
<1> QED
  BY <1>1, <1>2

\* So is what the filter leaves, and it fits.
LEMMA FilteredAre ==
  ASSUME NEW D, NEW s \in Seq(D)
  PROVE  /\ Rows!Filtered(s) \in Seq(D)
         /\ \A k \in 1 .. Len(Rows!Filtered(s)) : Rows!Fits(Rows!Filtered(s)[k])
<1> DEFINE P == {i \in DOMAIN s : Rows!Fits(s[i])}
           o == Ascending(P)
           n == Cardinality(P)
<1>1. DOMAIN s = 1 .. Len(s) /\ Len(s) \in Nat /\ \A i \in DOMAIN s : s[i] \in D
  BY LenProperties, ElementOfSeq
<1>2. IsFiniteSet(DOMAIN s)
  BY <1>1, FS_Interval
<1>3. P \in SUBSET Int /\ IsFiniteSet(P)
  BY <1>1, <1>2, FS_Subset
<1>4. ASSUME NEW S PROVE Rows!Ascending(S) = Ascending(S)
  BY Zenon DEF Rows!Ascending, Ascending, Rows!Ordered, Ordered, Rows!Cardinality, Cardinality
<1>5. Rows!Filtered(s) = [k \in DOMAIN o |-> s[o[k]]]
  BY <1>4, Zenon DEF Rows!Filtered, Rows!At
<1>6. \A i \in P : s[i] \in D /\ Rows!Fits(s[i])
  BY <1>1
<1> HIDE DEF P
<1>7. n \in Nat /\ o \in [1 .. n -> P]
  BY <1>3, AscendingIs
<1> HIDE DEF o, n
<1>8. Rows!Filtered(s) \in [1 .. n -> D] /\ \A k \in 1 .. n : Rows!Fits(Rows!Filtered(s)[k])
  BY <1>5, <1>6, <1>7
<1>9. Rows!Filtered(s) \in Seq(D) /\ Len(Rows!Filtered(s)) = n
  <2> DEFINE f == Rows!Filtered(s)
  <2>1. f \in [1 .. n -> D]
    BY <1>8
  <2> HIDE DEF f
  <2>2. f \in Seq(D) /\ Len(f) = n
    BY <1>7, <2>1 DEF Seq
  <2> QED
    BY <2>2 DEF f
<1> QED
  BY <1>8, <1>9

\* The frames a dataset can be made into: one, where no lots are drawn, and where
\* prompts are filtered of those that the filter lets through.
LEMMA FramesAre ==
  ASSUME dataset \in Datasets
  PROVE  /\ Rows!Frames \subseteq Seq(ARow)
         /\ ~ Rows!DrawsLots => \E F \in Seq(ARow) : Rows!Frames = {F}
         /\ dataset.recipe # "minionerec" =>
              \A f \in Rows!Frames : \A k \in 1 .. Len(f) : Rows!Fits(f[k])
<1>0. dataset.max \in Int /\ dataset.sample \in Int /\ Len(Lengths) \in Nat
         /\ DOMAIN Lengths = 1 .. Len(Lengths)
  BY RowsConstants
<1>1. ASSUME NEW task \in {"sid", "seq", "title"}
      PROVE  [i \in DOMAIN Lengths |-> <<task, i>>] \in Seq(ARow)
  <2>1. [i \in DOMAIN Lengths |-> <<task, i>>] \in [1 .. Len(Lengths) -> ARow]
    BY <1>0 DEF ARow
  <2> QED
    BY <1>0, <2>1 DEF Seq
<1>2. Rows!Sources \in Seq(ARow)
  BY <1>1 DEF Rows!Sources
<1>3. CASE dataset.recipe # "minionerec"
  <2>1. Rows!Frames = {Rows!Filtered(s) : s \in Rows!Drawn}
    BY <1>3 DEF Rows!Frames
  <2>2. Rows!Drawn \subseteq Seq(ARow) /\ (~ Rows!DrawsLots => \E s : Rows!Drawn = {s})
    <3>1. CASE dataset.shuffle /\ 0 < dataset.max /\ dataset.max < Len(Rows!Sources)
      <4>1. Rows!Drawn = {Rows!FirstOf(s, dataset.max) : s \in Rows!Shuffled(Rows!Sources)}
        BY <3>1 DEF Rows!Drawn
      <4>2. Rows!Drawn \subseteq Seq(ARow)
        <5>1. ASSUME NEW s \in Rows!Shuffled(Rows!Sources) PROVE Rows!FirstOf(s, dataset.max) \in Seq(ARow)
          <6>1. s \in Seq(ARow)
            BY <1>2, ShuffledAre
          <6> QED
            BY <1>0, <6>1, FirstOfIs
        <5> QED
          BY <4>1, <5>1
      <4>3. ~ Rows!DrawsLots => dataset.seeded
        BY <1>3, <3>1 DEF Rows!DrawsLots
      <4>4. ~ Rows!DrawsLots => Rows!Drawn = {Rows!FirstOf(Rows!Reverse(Rows!Sources), dataset.max)}
        BY <1>2, <4>1, <4>3, ShuffledAre
      <4> QED
        BY <4>2, <4>4
    <3>2. CASE ~ (dataset.shuffle /\ 0 < dataset.max /\ dataset.max < Len(Rows!Sources))
      <4>1. Rows!Drawn = {Rows!FirstOf(Rows!Sources, dataset.max)}
        BY <3>2 DEF Rows!Drawn
      <4> QED
        BY <1>0, <1>2, <4>1, FirstOfIs
    <3> QED
      BY <3>1, <3>2
  <2>3. Rows!Frames \subseteq Seq(ARow) /\ \A f \in Rows!Frames : \A k \in 1 .. Len(f) : Rows!Fits(f[k])
    BY <2>1, <2>2, FilteredAre
  <2>4. ASSUME ~ Rows!DrawsLots PROVE \E F \in Seq(ARow) : Rows!Frames = {F}
    <3>1. PICK s : Rows!Drawn = {s}
      BY <2>2, <2>4
    <3>2. Rows!Frames = {Rows!Filtered(s)}
      BY <2>1, <3>1
    <3> QED
      BY <2>3, <3>2
  <2> QED
    BY <2>3, <2>4
<1>4. CASE dataset.recipe = "minionerec"
  <2> DEFINE seqs == [i \in DOMAIN Lengths |-> <<"seq", i>>]
             titles == [i \in DOMAIN Lengths |-> <<"title", i>>]
             histories == {Rows!FirstOf(s, dataset.sample) : s \in Rows!Shuffled(seqs)}
             orders == IF dataset.shuffle THEN UNION {Rows!Shuffled(r) : r \in Rows!Records} ELSE Rows!Records
  <2>1. seqs \in Seq(ARow) /\ titles \in Seq(ARow)
    BY <1>1
  <2>2. Rows!Records = IF dataset.alignment THEN {(Rows!Sources \o titles) \o h : h \in histories}
                       ELSE {Rows!Sources}
    BY Zenon DEF Rows!Records
  <2>3. Rows!Frames = {Rows!FirstOf(s, dataset.max) : s \in orders}
    BY <1>4 DEF Rows!Frames
  <2> HIDE DEF seqs, titles
  <2>4. histories \subseteq Seq(ARow)
    <3>1. ASSUME NEW s \in Rows!Shuffled(seqs) PROVE Rows!FirstOf(s, dataset.sample) \in Seq(ARow)
      <4>1. s \in Seq(ARow)
        BY <2>1, ShuffledAre
      <4> QED
        BY <1>0, <4>1, FirstOfIs
    <3> QED
      BY <3>1
  <2>5. ASSUME dataset.seeded PROVE \E h : histories = {h}
    <3>1. Rows!Shuffled(seqs) = {Rows!Reverse(seqs)}
      BY <2>1, <2>5, ShuffledAre
    <3>2. histories = {Rows!FirstOf(Rows!Reverse(seqs), dataset.sample)}
      BY <3>1
    <3> QED
      BY <3>2
  <2> HIDE DEF histories
  <2>6. Rows!Records \subseteq Seq(ARow)
    <3>1. ASSUME NEW h \in histories PROVE (Rows!Sources \o titles) \o h \in Seq(ARow)
      <4>1. h \in Seq(ARow)
        BY <2>4
      <4>2. Rows!Sources \o titles \in Seq(ARow)
        BY <1>2, <2>1, ConcatProperties
      <4> QED
        BY <4>1, <4>2, ConcatProperties
    <3> QED
      BY <1>2, <2>2, <3>1
  <2>7. ~ Rows!DrawsLots => \E r : Rows!Records = {r}
    <3>1. CASE dataset.alignment
      <4>1. ~ Rows!DrawsLots => dataset.seeded
        BY <1>4, <3>1 DEF Rows!DrawsLots
      <4>2. ASSUME ~ Rows!DrawsLots PROVE \E r : Rows!Records = {r}
        <5>1. PICK h : histories = {h}
          BY <2>5, <4>1, <4>2
        <5>2. Rows!Records = {(Rows!Sources \o titles) \o h}
          BY <2>2, <3>1, <5>1
        <5> QED
          BY <5>2
      <4> QED
        BY <4>2
    <3>2. CASE ~ dataset.alignment
      BY <2>2, <3>2
    <3> QED
      BY <3>1, <3>2
  <2>8. orders \subseteq Seq(ARow)
    BY <2>6, ShuffledAre
  <2>9. ASSUME ~ Rows!DrawsLots PROVE \E s : orders = {s}
    <3>1. PICK r : Rows!Records = {r}
      BY <2>7, <2>9
    <3>2. CASE dataset.shuffle
      <4>1. dataset.seeded
        BY <1>4, <2>9, <3>2 DEF Rows!DrawsLots
      <4>2. Rows!Shuffled(r) = {Rows!Reverse(r)}
        BY <2>6, <3>1, <4>1, ShuffledAre
      <4> QED
        BY <3>1, <3>2, <4>2
    <3>3. CASE ~ dataset.shuffle
      BY <3>1, <3>3
    <3> QED
      BY <3>2, <3>3
  <2> HIDE DEF orders
  <2>10. Rows!Frames \subseteq Seq(ARow)
    BY <1>0, <2>3, <2>8, FirstOfIs
  <2>11. ASSUME ~ Rows!DrawsLots PROVE \E F \in Seq(ARow) : Rows!Frames = {F}
    <3>1. PICK s : orders = {s}
      BY <2>9, <2>11
    <3>2. Rows!Frames = {Rows!FirstOf(s, dataset.max)}
      BY <2>3, <3>1
    <3> QED
      BY <2>10, <3>2
  <2> QED
    BY <1>4, <2>10, <2>11
<1> QED
  BY <1>3, <1>4

\* The first n elements of a sequence.
LEMMA FirstElements ==
  ASSUME NEW D, NEW s \in Seq(D), NEW n \in 0 .. Len(s)
  PROVE  SubSeq(s, 1, n) \in Seq(D) /\ Len(SubSeq(s, 1, n)) = n
         /\ \A i \in 1 .. n : i \in 1 .. Len(s) /\ SubSeq(s, 1, n)[i] = s[i] /\ s[i] \in D
<1>1. Len(s) \in Nat /\ \A i \in 1 .. Len(s) : s[i] \in D
  BY LenProperties, ElementOfSeq
<1> DEFINE l == Len(s)
<1>2. n \in Int /\ n \in Nat /\ \A i \in 1 .. n : i \in 1 .. l
  BY <1>1
<1>3. \A i \in 1 .. n : s[i] \in D
  BY <1>1, <1>2
<1>4. SubSeq(s, 1, n) \in Seq(D)
  BY <1>2, <1>3, SubSeqProperties, 1 \in Int
<1>5. Len(SubSeq(s, 1, n)) = n /\ \A i \in 1 .. n : SubSeq(s, 1, n)[i] = s[i]
  BY <1>2
<1> QED
  BY <1>2, <1>3, <1>4, <1>5

\* The first elements of the first elements.
LEMMA FirstOfFirst ==
  ASSUME NEW D, NEW s \in Seq(D), NEW n \in 0 .. Len(s), NEW m \in 0 .. n
  PROVE  SubSeq(SubSeq(s, 1, n), 1, m) = SubSeq(s, 1, m)
<1> DEFINE t == SubSeq(s, 1, n)
           u == SubSeq(t, 1, m)
           v == SubSeq(s, 1, m)
<1>0. Len(s) \in Nat
  BY LenProperties
<1>1. t \in Seq(D) /\ Len(t) = n /\ \A i \in 1 .. n : t[i] = s[i]
  BY FirstElements
<1> HIDE DEF t
<1>2. m \in 0 .. Len(s) /\ m \in 0 .. Len(t) /\ \A i \in 1 .. m : i \in 1 .. n
  BY <1>0, <1>1
<1>3. u \in Seq(D) /\ Len(u) = m /\ \A i \in 1 .. m : u[i] = t[i]
  BY <1>1, <1>2, FirstElements
<1>4. v \in Seq(D) /\ Len(v) = m /\ \A i \in 1 .. m : v[i] = s[i]
  BY <1>2, FirstElements
<1> HIDE DEF u, v
<1>5. \A i \in 1 .. m : u[i] = v[i]
  BY <1>1, <1>2, <1>3, <1>4
<1>6. u = v
  BY <1>3, <1>4, <1>5, SeqEqual
<1> QED
  BY <1>6 DEF t, u, v

\* The first elements and the next.
LEMMA OneMore ==
  ASSUME NEW D, NEW s \in Seq(D), NEW n \in 0 .. Len(s), n < Len(s)
  PROVE  Append(SubSeq(s, 1, n), s[n + 1]) = SubSeq(s, 1, n + 1)
<1> DEFINE t == SubSeq(s, 1, n)
           u == Append(t, s[n + 1])
           v == SubSeq(s, 1, n + 1)
<1>0. Len(s) \in Nat /\ n \in Nat /\ n + 1 \in 0 .. Len(s) /\ n + 1 \in 1 .. Len(s)
  BY LenProperties
<1>1. t \in Seq(D) /\ Len(t) = n /\ \A i \in 1 .. n : t[i] = s[i]
  BY FirstElements
<1>2. s[n + 1] \in D
  BY <1>0, ElementOfSeq
<1> HIDE DEF t
<1>3. u \in Seq(D) /\ Len(u) = n + 1 /\ u[n + 1] = s[n + 1] /\ \A i \in 1 .. n : u[i] = t[i]
  BY <1>1, <1>2, AppendProperties
<1>4. v \in Seq(D) /\ Len(v) = n + 1 /\ \A i \in 1 .. n + 1 : v[i] = s[i]
  BY <1>0, FirstElements
<1> HIDE DEF u, v
<1>5. \A i \in 1 .. n + 1 : u[i] = v[i]
  <2> TAKE i \in 1 .. n + 1
  <2>1. i = n + 1 \/ i \in 1 .. n
    BY <1>0
  <2> QED
    BY <1>1, <1>3, <1>4, <2>1
<1>6. u = v
  BY <1>3, <1>4, <1>5, SeqEqual
<1> QED
  BY <1>6 DEF t, u, v

\* All of them.
LEMMA AllElements == ASSUME NEW D, NEW s \in Seq(D) PROVE SubSeq(s, 1, Len(s)) = s
<1> DEFINE v == SubSeq(s, 1, Len(s))
<1>0. Len(s) \in 0 .. Len(s)
  BY LenProperties
<1>1. v \in Seq(D) /\ Len(v) = Len(s) /\ \A i \in 1 .. Len(s) : v[i] = s[i]
  BY <1>0, FirstElements
<1> HIDE DEF v
<1>2. v = s
  BY <1>1, SeqEqual
<1> QED
  BY <1>2 DEF v

\* The rows trained on are the first of the one frame that can be.
InOneEpoch ==
  ~ Rows!DrawsLots => \A F \in Rows!Frames : position <= Len(F) /\ used = SubSeq(F, 1, position)

\* A prompt that the filter lets through is neither refused nor cut.
LetThrough ==
  dataset.filter /\ dataset.recipe # "minionerec" =>
    serving # "failed" /\ given.ids \in {1 .. n : n \in 0 .. MaxLength}

\* The inductive invariant of the part "rows".
RowsInv ==
  /\ dataset \in Datasets
  /\ position \in Nat /\ rowsSaved \in 0 .. position
  /\ serving # "no" => frame \in Rows!Frames
  /\ serving = "ended" => position = Len(frame)
  /\ InOneEpoch
  /\ LetThrough
  /\ Rows!OnePrompt

\* It holds at first.
LEMMA RowsInit == ASSUME Rows!Init PROVE RowsInv
<1>1. /\ dataset \in Datasets /\ frame = <<>> /\ position = 0 /\ used = <<>> /\ rowsSaved = 0
      /\ serving = "no" /\ given = [ids |-> {}, server |-> {}]
  BY DEF Rows!Init, Rows!NotGiven
<1>2. InOneEpoch
  <2> SUFFICES ASSUME NEW F \in Rows!Frames PROVE 0 <= Len(F) /\ <<>> = SubSeq(F, 1, 0)
    BY <1>1 DEF InOneEpoch
  <2>1. F \in Seq(ARow)
    BY <1>1, FramesAre
  <2>2. Len(F) \in Nat /\ 0 \in 0 .. Len(F)
    BY <2>1, LenProperties
  <2>3. SubSeq(F, 1, 0) \in Seq(ARow) /\ Len(SubSeq(F, 1, 0)) = 0
    BY <2>1, <2>2, FirstElements
  <2> QED
    BY <2>2, <2>3, EmptySeq
<1>3. {} \in {1 .. n : n \in 0 .. MaxLength}
  <2>1. 0 \in 0 .. MaxLength /\ 1 .. 0 = {}
    BY RowsConstants
  <2> QED
    BY <2>1
<1>4. LetThrough /\ Rows!OnePrompt
  BY <1>1, <1>3 DEF LetThrough, Rows!OnePrompt
<1> QED
  BY <1>1, <1>2, <1>4 DEF RowsInv

\* The frames are those of the configuration.
LEMMA FramesReads ==
  ASSUME dataset' = dataset
  PROVE  Rows!Frames' = Rows!Frames /\ (Rows!DrawsLots' <=> Rows!DrawsLots)
<1>1. Rows!DrawsLots' <=> Rows!DrawsLots
  BY DEF Rows!DrawsLots, Rows!Sources
<1>2. \A s : Rows!Shuffled(s)' = Rows!Shuffled(s)
  BY DEF Rows!Shuffled
<1>3. \A s : Rows!Filtered(s)' = Rows!Filtered(s)
  <2>1. ASSUME NEW s PROVE {i \in DOMAIN s : Rows!Fits(s[i])'} = {i \in DOMAIN s : Rows!Fits(s[i])}
    BY DEF Rows!Fits
  <2> QED
    BY <2>1, Zenon DEF Rows!Filtered
<1>4. Rows!Drawn' = Rows!Drawn
  BY <1>2 DEF Rows!Drawn, Rows!Sources
<1>5. Rows!Records' = Rows!Records
  BY <1>2 DEF Rows!Records, Rows!Sources
<1> QED
  BY <1>1, <1>2, <1>3, <1>4, <1>5 DEF Rows!Frames

\* Serving a row keeps it, when the forced prefix fits in what the filter leaves free.
LEMMA RowsServe ==
  ASSUME Prefix <= Slack, RowsInv, Rows!Serve
  PROVE  RowsInv'
<1> DEFINE row == frame[position + 1]
           n == Rows!Length(row)
<1>1. /\ serving = "yes" /\ position < Len(frame)
      /\ dataset' = dataset /\ frame' = frame /\ rowsSaved' = rowsSaved
      /\ \/ /\ n > MaxLength /\ dataset.truncation = "error"
            /\ serving' = "failed" /\ position' = position /\ used' = used /\ given' = given
         \/ /\ ~ (n > MaxLength /\ dataset.truncation = "error")
            /\ given' = [ids |-> Rows!Kept(dataset.truncation, n), server |-> Rows!ServerIds(n)]
            /\ used' = Append(used, row) /\ position' = position + 1 /\ serving' = serving
  BY Zenon DEF Rows!Serve
<1>2. /\ frame \in Rows!Frames /\ dataset \in Datasets /\ position \in Nat /\ rowsSaved \in 0 .. position
      /\ InOneEpoch /\ LetThrough /\ Rows!OnePrompt
  BY <1>1 DEF RowsInv
<1>3. frame \in Seq(ARow) /\ Len(frame) \in Nat /\ position \in 0 .. Len(frame)
         /\ position + 1 \in 1 .. Len(frame)
  <2>1. frame \in Seq(ARow)
    BY <1>2, FramesAre
  <2>2. Len(frame) \in Nat
    BY <2>1, LenProperties
  <2> QED
    BY <1>1, <1>2, <2>1, <2>2
<1>4. row \in ARow
  BY <1>3, ElementOfSeq
<1>5. Rows!Frames' = Rows!Frames /\ (Rows!DrawsLots' <=> Rows!DrawsLots)
  BY <1>1, FramesReads
<1>6. n \in Nat /\ (dataset.filter /\ dataset.recipe # "minionerec" => n <= MaxLength)
  <2>1. row[2] \in DOMAIN Lengths
    BY <1>4 DEF ARow
  <2> DEFINE l == Lengths[row[2]]
             add == IF dataset.recipe = "openonerec" /\ dataset.prefixed THEN Prefix ELSE 0
  <2>2. l \in Nat /\ add \in Nat /\ add <= Slack /\ MaxLength \in Nat /\ Slack \in Nat
    BY <2>1, RowsConstants
  <2>3. n = l + add
    BY Zenon DEF Rows!Length
  <2>4. ASSUME dataset.filter, dataset.recipe # "minionerec" PROVE l <= MaxLength - Slack
    <3>1. Rows!Fits(row)
      BY <1>2, <1>3, <2>4, FramesAre
    <3> QED
      BY <2>4, <3>1 DEF Rows!Fits
  <2> HIDE DEF l, add, n
  <2> QED
    BY <2>2, <2>3, <2>4
<1> HIDE DEF n
<1>7. n <= MaxLength => \A t : Rows!Kept(t, n) = 1 .. n
  BY DEF Rows!Kept
<1>8. InOneEpoch'
  <2> SUFFICES ASSUME ~ Rows!DrawsLots, NEW F \in Rows!Frames
               PROVE  position' <= Len(F) /\ used' = SubSeq(F, 1, position')
    BY <1>5 DEF InOneEpoch
  <2>1. position <= Len(F) /\ used = SubSeq(F, 1, position)
    BY <1>2 DEF InOneEpoch
  <2>2. F = frame
    BY <1>2, FramesAre
  <2>3. Append(SubSeq(frame, 1, position), row) = SubSeq(frame, 1, position + 1)
    BY <1>1, <1>3, OneMore
  <2>4. position + 1 <= Len(frame)
    BY <1>3
  <2> HIDE DEF row
  <2> QED
    BY <1>1, <2>1, <2>2, <2>3, <2>4
<1>9. LetThrough'
  <2> SUFFICES ASSUME dataset.filter, dataset.recipe # "minionerec"
               PROVE  serving' # "failed" /\ given'.ids \in {1 .. k : k \in 0 .. MaxLength}
    BY <1>1 DEF LetThrough
  <2>1. n <= MaxLength /\ n \in 0 .. MaxLength /\ ~ (n > MaxLength)
    BY <1>6, RowsConstants
  <2>2. serving' = "yes" /\ given'.ids = 1 .. n
    BY <1>1, <1>7, <2>1
  <2> QED
    BY <2>1, <2>2
<1>10. Rows!OnePrompt'
  <2> SUFFICES ASSUME dataset.recipe = "openonerec" \/ dataset.truncation \in {"left", "error"}
               PROVE  given'.ids = given'.server
    BY <1>1 DEF Rows!OnePrompt
  <2>1. CASE given' = given
    BY <1>2, <2>1 DEF Rows!OnePrompt
  <2>2. CASE ~ (n > MaxLength /\ dataset.truncation = "error")
             /\ given' = [ids |-> Rows!Kept(dataset.truncation, n), server |-> Rows!ServerIds(n)]
    <3>1. Rows!Kept(dataset.truncation, n) = Rows!ServerIds(n)
      <4>1. CASE dataset.recipe = "openonerec" \/ dataset.truncation = "left"
        BY <4>1 DEF Rows!ServerIds
      <4>2. CASE n <= MaxLength
        BY <1>7, <4>2 DEF Rows!ServerIds
      <4>3. n <= MaxLength \/ n > MaxLength
        BY <1>6, RowsConstants
      <4> QED
        BY <2>2, <4>1, <4>2, <4>3
    <3> QED
      BY <2>2, <3>1
  <2> QED
    BY <1>1, <2>1, <2>2
<1>11. position' \in Nat /\ rowsSaved' \in 0 .. position' /\ serving' # "ended"
  BY <1>1, <1>2
<1> QED
  BY <1>1, <1>2, <1>5, <1>8, <1>9, <1>10, <1>11 DEF RowsInv

\* So does every step.
LEMMA RowsNext ==
  ASSUME Prefix <= Slack, RowsInv, Rows!Next
  PROVE  RowsInv'
<1>0. /\ dataset \in Datasets /\ position \in Nat /\ rowsSaved \in 0 .. position
      /\ serving # "no" => frame \in Rows!Frames
      /\ InOneEpoch /\ LetThrough /\ Rows!OnePrompt
  BY DEF RowsInv
<1>1. CASE Rows!Build
  <2>1. /\ dataset' = dataset /\ position' = position /\ used' = used /\ given' = given
        /\ rowsSaved' = rowsSaved /\ frame' \in Rows!Frames /\ serving' = "yes"
    BY <1>1 DEF Rows!Build
  <2>2. Rows!Frames' = Rows!Frames /\ (Rows!DrawsLots' <=> Rows!DrawsLots)
    BY <2>1, FramesReads
  <2>3. InOneEpoch' /\ LetThrough' /\ Rows!OnePrompt'
    BY <1>0, <2>1, <2>2 DEF InOneEpoch, LetThrough, Rows!OnePrompt
  <2> QED
    BY <1>0, <2>1, <2>2, <2>3 DEF RowsInv
<1>2. CASE Rows!Serve
  BY <1>2, RowsServe
<1>3. CASE Rows!Save
  <2>1. /\ dataset' = dataset /\ position' = position /\ used' = used /\ given' = given
        /\ rowsSaved' = position /\ frame' = frame /\ serving' = serving /\ serving = "yes"
    BY <1>3 DEF Rows!Save
  <2>2. Rows!Frames' = Rows!Frames /\ (Rows!DrawsLots' <=> Rows!DrawsLots)
    BY <2>1, FramesReads
  <2>3. InOneEpoch' /\ LetThrough' /\ Rows!OnePrompt'
    BY <1>0, <2>1, <2>2 DEF InOneEpoch, LetThrough, Rows!OnePrompt
  <2> QED
    BY <1>0, <2>1, <2>2, <2>3 DEF RowsInv
<1>4. CASE Rows!Restart
  <2>1. /\ dataset' = dataset /\ position' = rowsSaved /\ used' = SubSeq(used, 1, rowsSaved)
        /\ given' = given /\ rowsSaved' = rowsSaved /\ serving' = "no"
    BY <1>4 DEF Rows!Restart
  <2>2. Rows!Frames' = Rows!Frames /\ (Rows!DrawsLots' <=> Rows!DrawsLots)
    BY <2>1, FramesReads
  <2>3. InOneEpoch'
    <3> SUFFICES ASSUME ~ Rows!DrawsLots, NEW F \in Rows!Frames
                 PROVE  rowsSaved <= Len(F) /\ SubSeq(used, 1, rowsSaved) = SubSeq(F, 1, rowsSaved)
      BY <2>1, <2>2 DEF InOneEpoch
    <3>1. position <= Len(F) /\ used = SubSeq(F, 1, position)
      BY <1>0 DEF InOneEpoch
    <3>2. F \in Seq(ARow)
      BY <1>0, FramesAre
    <3>3. Len(F) \in Nat
      BY <3>2, LenProperties
    <3>4. position \in 0 .. Len(F) /\ rowsSaved <= Len(F)
      BY <1>0, <3>1, <3>3
    <3> QED
      BY <1>0, <3>1, <3>2, <3>4, FirstOfFirst
  <2>4. LetThrough' /\ Rows!OnePrompt'
    BY <1>0, <2>1 DEF LetThrough, Rows!OnePrompt
  <2>5. position' \in Nat /\ rowsSaved' \in 0 .. position'
    BY <1>0, <2>1
  <2> QED
    BY <1>0, <2>1, <2>3, <2>4, <2>5 DEF RowsInv
<1>5. CASE Rows!EndEpoch
  <2>1. /\ dataset' = dataset /\ position' = position /\ used' = used /\ given' = given
        /\ rowsSaved' = rowsSaved /\ frame' = frame /\ serving' = "ended" /\ serving = "yes"
        /\ position = Len(frame)
    BY <1>5 DEF Rows!EndEpoch
  <2>2. Rows!Frames' = Rows!Frames /\ (Rows!DrawsLots' <=> Rows!DrawsLots)
    BY <2>1, FramesReads
  <2>3. InOneEpoch' /\ LetThrough' /\ Rows!OnePrompt'
    BY <1>0, <2>1, <2>2 DEF InOneEpoch, LetThrough, Rows!OnePrompt
  <2> QED
    BY <1>0, <2>1, <2>2, <2>3 DEF RowsInv
<1> QED
  BY <1>1, <1>2, <1>3, <1>4, <1>5 DEF Rows!Next

\* An epoch trains on every row once, when the forced prefix fits in what the filter
\* leaves free, as the one of the code does (onerec_recipe.py:130, 233).
THEOREM EveryRowAlwaysOnce ==
  ASSUME Prefix <= Slack
  PROVE  Spec => []EveryRowOnce
<1>1. Init => (part = "rows" => RowsInv)
  BY RowsInit DEF Init
<1>2. (part = "rows" => RowsInv) /\ [Next]_vars => (part = "rows" => RowsInv)'
  <2> SUFFICES ASSUME part = "rows" => RowsInv, [Next]_vars, part' = "rows"
               PROVE  RowsInv'
    OBVIOUS
  <2>1. part = "rows" /\ (Rows!Next \/ UNCHANGED <<dataset, frame, position, used, given, rowsSaved, serving>>)
    BY Zenon DEF Next, vars, rowsVars, SetupStep, RowsStep, BeamStep, HFStep, LogpsStep, FitStep,
           RewardsStep, ScoresStep, EvalStep
  <2>2. CASE UNCHANGED <<dataset, frame, position, used, given, rowsSaved, serving>>
    <3>1. Rows!Frames' = Rows!Frames /\ (Rows!DrawsLots' <=> Rows!DrawsLots)
      BY <2>2, FramesReads
    <3>2. InOneEpoch' <=> InOneEpoch
      BY <2>2, <3>1 DEF InOneEpoch
    <3>3. (LetThrough' <=> LetThrough) /\ (Rows!OnePrompt' <=> Rows!OnePrompt)
      BY <2>2 DEF LetThrough, Rows!OnePrompt
    <3> QED
      BY <2>1, <2>2, <3>1, <3>2, <3>3 DEF RowsInv
  <2> QED
    BY <2>1, <2>2, RowsNext
<1>3. (part = "rows" => RowsInv) => EveryRowOnce
  <2> SUFFICES ASSUME part = "rows", RowsInv PROVE Rows!EveryRowOnce
    BY DEF EveryRowOnce
  <2>1. ASSUME serving = "ended", ~ Rows!DrawsLots PROVE used = frame
    <3>1. frame \in Rows!Frames /\ position = Len(frame) /\ used = SubSeq(frame, 1, position)
      BY <2>1 DEF RowsInv, InOneEpoch
    <3>2. frame \in Seq(ARow)
      BY <3>1, FramesAre DEF RowsInv
    <3> QED
      BY <3>1, <3>2, AllElements
  <2> QED
    BY <2>1, Zenon DEF RowsInv, Rows!EveryRowOnce, LetThrough
<1> QED
  BY <1>1, <1>2, <1>3, PTL DEF Spec

-------------------------------------------------------------------------------
(* The rewards of a group (GroupRewards).                                    *)

\* Batches are sequences.
LEMMA BatchesAre == \A b \in Batches : Len(b) \in Nat /\ DOMAIN b = 1 .. Len(b)
<1>1. PartsAssumption
  BY PartsAssumption
<1>2. \A b \in Batches : Rewards!Len(b) \in Nat /\ DOMAIN b = 1 .. Rewards!Len(b)
  BY <1>1 DEF PartsAssumption, Rewards!RewardsAssumption
<1> QED
  BY <1>2

\* Cardinality is that of the model.
LEMMA RewardsCardinality == ASSUME NEW S PROVE Rewards!Cardinality(S) = Cardinality(S)
BY Zenon DEF Rewards!Cardinality, Cardinality

\* A greater part of a finite set has more members.
LEMMA FewerMembers ==
  ASSUME NEW T, NEW S \in SUBSET T, IsFiniteSet(T)
  PROVE  /\ Cardinality(S) \in Nat /\ Cardinality(T) \in Nat /\ Cardinality(S) <= Cardinality(T)
         /\ S # T => Cardinality(S) < Cardinality(T)
<1>1. IsFiniteSet(S) /\ Cardinality(S) <= Cardinality(T) /\ (Cardinality(S) = Cardinality(T) => S = T)
  BY FS_Subset
<1>2. Cardinality(S) \in Nat /\ Cardinality(T) \in Nat
  BY <1>1, FS_CardinalityType
<1> QED
  BY <1>1, <1>2

\* A later beam of a prompt is on a later row.
LaterBeamsFollow ==
  \A i, j \in Rewards!Rows :
    order[i].prompt = order[j].prompt /\ order[i].beam < order[j].beam => i < j

\* The inductive invariant of the part "rewards".
RewardsInv ==
  /\ rewardsAt \in {"generated", "balanced", "rewarded"}
  /\ \E n \in Nat : Rewards!Rows = 1 .. n
  /\ rewardsAt = "generated" \/ ~ training.balanced => LaterBeamsFollow
  /\ Rewards!RewardsStayInTheGroup

\* The beams are numbered in the order of the rows.
LEMMA BeamsCount ==
  ASSUME NEW n \in Nat, NEW b, NEW i \in 1 .. n, NEW j \in 1 .. n, b[i] = b[j], j <= i
  PROVE  Rewards!BeamOf(b, j) <= Rewards!BeamOf(b, i)
<1> DEFINE T == {k \in 1 .. i : b[k] = b[i]}
           S == {k \in 1 .. j : b[k] = b[j]}
<1>1. S \in SUBSET T
  OBVIOUS
<1>2. IsFiniteSet(1 .. i)
  BY FS_Interval
<1>3. IsFiniteSet(T)
  BY <1>2, FS_Subset
<1>4. Cardinality(S) <= Cardinality(T)
  <2> HIDE DEF S, T
  <2> QED
    BY <1>1, <1>3, FewerMembers
<1> QED
  BY <1>4, RewardsCardinality DEF Rewards!BeamOf

\* It holds at first.
LEMMA RewardsInit == ASSUME Rewards!Init PROVE RewardsInv
<1>1. PICK b \in Batches : \E kinds \in [DOMAIN b -> Kinds] :
        order = [i \in DOMAIN b |-> [prompt |-> b[i], beam |-> Rewards!BeamOf(b, i), kind |-> kinds[i]]]
  BY DEF Rewards!Init
<1>2. PICK kinds \in [DOMAIN b -> Kinds] :
        order = [i \in DOMAIN b |-> [prompt |-> b[i], beam |-> Rewards!BeamOf(b, i), kind |-> kinds[i]]]
  BY <1>1
<1> DEFINE n == Len(b)
<1>3. n \in Nat /\ DOMAIN b = 1 .. n
  BY BatchesAre
<1> HIDE DEF n
<1>4. Rewards!Rows = 1 .. n
  BY <1>2, <1>3 DEF Rewards!Rows
<1>5. ASSUME NEW i \in 1 .. n
      PROVE  order[i].prompt = b[i] /\ order[i].beam = Rewards!BeamOf(b, i)
  BY <1>2, <1>3
<1>6. ASSUME NEW i \in 1 .. n
      PROVE  Rewards!BeamOf(b, i) \in Nat
  <2>1. IsFiniteSet(1 .. i)
    BY FS_Interval
  <2>2. IsFiniteSet({k \in 1 .. i : b[k] = b[i]})
    BY <2>1, FS_Subset
  <2>3. Cardinality({k \in 1 .. i : b[k] = b[i]}) \in Nat
    BY <2>2, FS_CardinalityType
  <2> QED
    BY <2>3, RewardsCardinality DEF Rewards!BeamOf
<1>7. LaterBeamsFollow
  <2> SUFFICES ASSUME NEW i \in 1 .. n, NEW j \in 1 .. n, order[i].prompt = order[j].prompt,
                      order[i].beam < order[j].beam, ~ (i < j)
               PROVE  FALSE
    BY <1>4 DEF LaterBeamsFollow
  <2>1. j <= i
    BY <1>3
  <2>2. Rewards!BeamOf(b, j) <= Rewards!BeamOf(b, i)
    BY <1>3, <1>5, <2>1, BeamsCount
  <2> QED
    BY <1>5, <1>6, <2>2
<1> QED
  BY <1>3, <1>4, <1>7 DEF Rewards!Init, RewardsInv, Rewards!RewardsStayInTheGroup

\* The places of the rows of a group, in a batch of n rows.
LEMMA PlacesGrow ==
  ASSUME NEW n \in Nat, Rewards!Rows = 1 .. n, NEW i \in 1 .. n
  PROVE  /\ Rewards!LocalRank(i) \in Nat /\ Rewards!Cardinality(Rewards!GroupOf(i)) \in Nat
         /\ Rewards!LocalRank(i) <= Rewards!Cardinality(Rewards!GroupOf(i))
         /\ \A j \in Rewards!GroupOf(i) : i < j => Rewards!LocalRank(i) < Rewards!LocalRank(j)
<1> DEFINE G == Rewards!GroupOf(i)
           P(j) == {k \in G : k <= j}
<1>1. G \subseteq 1 .. n /\ i \in G
  BY DEF Rewards!GroupOf, Rewards!GroupKey
<1>2. IsFiniteSet(G)
  BY <1>1, FS_Interval, FS_Subset
<1>3. \A j \in G : Rewards!GroupOf(j) = G
  BY DEF Rewards!GroupOf, Rewards!GroupKey
<1>4. \A j \in G : Rewards!LocalRank(j) = Cardinality(P(j))
  BY <1>3, RewardsCardinality DEF Rewards!LocalRank
<1> HIDE DEF G
<1>5. ASSUME NEW j \in G PROVE P(j) \in SUBSET G /\ IsFiniteSet(P(j))
  BY <1>2, FS_Subset
<1>6. Cardinality(P(i)) \in Nat /\ Cardinality(G) \in Nat /\ Cardinality(P(i)) <= Cardinality(G)
  BY <1>1, <1>2, <1>5, FewerMembers
<1>7. ASSUME NEW j \in G, i < j PROVE Cardinality(P(i)) < Cardinality(P(j))
  <2>0. \A k \in G : k <= i => k <= j
    BY <1>1, <1>7
  <2>1. P(i) \in SUBSET P(j)
    BY <2>0
  <2>2. j \in P(j) /\ j \notin P(i)
    BY <1>1, <1>7
  <2>3. IsFiniteSet(P(j))
    BY <1>5
  <2> HIDE DEF P
  <2> QED
    BY <2>1, <2>2, <2>3, FewerMembers
<1> HIDE DEF P
<1> QED
  BY <1>1, <1>4, <1>6, <1>7, RewardsCardinality DEF G

\* Every step keeps it.
LEMMA RewardsNext ==
  ASSUME RewardsInv, Rewards!Next
  PROVE  RewardsInv'
<1>1. PICK n \in Nat : Rewards!Rows = 1 .. n
  BY DEF RewardsInv
<1>2. CASE Rewards!Balance
  <2>1. rewardsAt = "generated" /\ rewardsAt' = "balanced" /\ training' = training /\ LaterBeamsFollow
    BY <1>2 DEF Rewards!Balance, RewardsInv
  <2>2. Rewards!RewardsStayInTheGroup'
    BY <2>1 DEF Rewards!RewardsStayInTheGroup
  <2>3. CASE training.balanced
    <3>1. Rewards!Rows' = 1 .. n
      BY <1>1, <1>2, <2>3 DEF Rewards!Balance, Rewards!Rows
    <3> QED
      BY <2>1, <2>2, <2>3, <3>1 DEF RewardsInv
  <2>4. CASE ~ training.balanced
    <3>1. order' = order
      BY <1>2, <2>4 DEF Rewards!Balance
    <3>2. Rewards!Rows' = 1 .. n
      BY <1>1, <3>1 DEF Rewards!Rows
    <3>3. LaterBeamsFollow'
      BY <2>1, <3>1 DEF LaterBeamsFollow, Rewards!Rows
    <3> QED
      BY <2>1, <2>2, <3>2, <3>3 DEF RewardsInv
  <2> QED
    BY <2>3, <2>4
<1>3. CASE Rewards!Reward
  <2>1. /\ rewardsAt = "balanced" /\ rewardsAt' = "rewarded" /\ training' = training /\ order' = order
        /\ \A i \in 1 .. n : /\ rewards'[i].ranking = Rewards!Ranking(i)
                             /\ rewards'[i].token = Rewards!LastToken(i)
    BY <1>1, <1>3 DEF Rewards!Reward
  <2>2. Rewards!Rows' = 1 .. n
    BY <1>1, <2>1 DEF Rewards!Rows
  <2>3. ~ training.balanced => LaterBeamsFollow
    BY DEF RewardsInv
  <2>4. ~ training'.balanced => LaterBeamsFollow'
    BY <2>1, <2>3 DEF LaterBeamsFollow, Rewards!Rows
  <2>5. ASSUME training.keyed, NEW i \in 1 .. n
        PROVE  LET mates == {j \in 1 .. n : order[j].prompt = order[i].prompt}
                   won == \E j \in mates : order[j].kind = "hit"
               IN /\ rewards'[i].ranking < 0 <=> won /\ order[i].kind # "hit"
                  /\ rewards'[i].ranking <= 0
                  /\ \A j \in mates \ {i} :
                       rewards'[i].ranking < 0 /\ rewards'[j].ranking < 0 =>
                         /\ rewards'[i].ranking # rewards'[j].ranking
                         /\ ~training.balanced /\ order[i].beam < order[j].beam =>
                              rewards'[i].ranking < rewards'[j].ranking
                  /\ rewards'[i].token \in 1 .. Rewards!Tokens(i)
    <3> DEFINE mates == {j \in 1 .. n : order[j].prompt = order[i].prompt}
               won == \E j \in mates : order[j].kind = "hit"
               size == Rewards!Cardinality(Rewards!GroupOf(i))
    <3>1. mates = Rewards!GroupOf(i) /\ i \in mates
      BY <1>1, <2>5 DEF Rewards!GroupOf, Rewards!GroupKey
    <3>2. ASSUME NEW j \in mates
          PROVE  /\ j \in 1 .. n /\ Rewards!GroupOf(j) = mates
                 /\ Rewards!HasHit(j) <=> won
      <4>1. j \in 1 .. n /\ Rewards!GroupOf(j) = mates
        BY <1>1, <2>5 DEF Rewards!GroupOf, Rewards!GroupKey
      <4> QED
        BY <4>1 DEF Rewards!HasHit, Rewards!Rule
    <3> HIDE DEF won
    <3>3. ASSUME NEW j \in mates
          PROVE  rewards'[j].ranking =
                   IF won /\ order[j].kind # "hit" THEN Rewards!LocalRank(j) - size - 1 ELSE 0
      <4>1. Rewards!GroupOf(j) = Rewards!GroupOf(i) /\ j \in 1 .. n /\ (Rewards!HasHit(j) <=> won)
        BY <3>1, <3>2
      <4> QED
        BY <2>1, <4>1 DEF Rewards!Ranking, Rewards!NdcgPenalty, Rewards!Rule
    <3>4. ASSUME NEW j \in mates
          PROVE  /\ Rewards!LocalRank(j) \in Nat /\ size \in Nat /\ Rewards!LocalRank(j) <= size
                 /\ \A k \in mates : j < k => Rewards!LocalRank(j) < Rewards!LocalRank(k)
      <4>1. Rewards!GroupOf(j) = Rewards!GroupOf(i) /\ j \in 1 .. n /\ Rewards!GroupOf(j) = mates
        BY <3>1, <3>2
      <4> HIDE DEF mates
      <4> QED
        BY <1>1, <4>1, PlacesGrow
    <3>5. mates \subseteq 1 .. n
      OBVIOUS
    <3>6. ASSUME ~ training.balanced, NEW j \in mates, order[i].beam < order[j].beam
          PROVE  i < j
      <4>1. order[i].prompt = order[j].prompt /\ j \in Rewards!Rows /\ i \in Rewards!Rows
        BY <1>1
      <4> QED
        BY <2>3, <3>6, <4>1 DEF LaterBeamsFollow
    <3> HIDE DEF mates, size
    <3>7. ASSUME NEW j \in mates
          PROVE  /\ rewards'[j].ranking <= 0
                 /\ rewards'[j].ranking < 0 <=> won /\ order[j].kind # "hit"
                 /\ rewards'[j].ranking < 0 => rewards'[j].ranking = Rewards!LocalRank(j) - size - 1
      BY <3>3, <3>4
    <3>8. ASSUME NEW j \in mates \ {i}, rewards'[i].ranking < 0, rewards'[j].ranking < 0
          PROVE  /\ rewards'[i].ranking # rewards'[j].ranking
                 /\ ~training.balanced /\ order[i].beam < order[j].beam =>
                      rewards'[i].ranking < rewards'[j].ranking
      <4>1. /\ rewards'[i].ranking = Rewards!LocalRank(i) - size - 1
            /\ rewards'[j].ranking = Rewards!LocalRank(j) - size - 1
            /\ Rewards!LocalRank(i) \in Nat /\ Rewards!LocalRank(j) \in Nat /\ size \in Nat
        BY <3>1, <3>4, <3>7, <3>8
      <4>2. i < j => Rewards!LocalRank(i) < Rewards!LocalRank(j)
        BY <3>1, <3>4
      <4>3. j < i => Rewards!LocalRank(j) < Rewards!LocalRank(i)
        BY <3>1, <3>4
      <4>4. i < j \/ j < i
        BY <3>5
      <4> HIDE DEF size
      <4>5. /\ Rewards!LocalRank(i) # Rewards!LocalRank(j)
            /\ i < j => rewards'[i].ranking < rewards'[j].ranking
        BY <4>1, <4>2, <4>3, <4>4
      <4>6. rewards'[i].ranking # rewards'[j].ranking
        BY <4>1, <4>5
      <4> QED
        BY <3>6, <4>5, <4>6
    <3>9. rewards'[i].token \in 1 .. Rewards!Tokens(i)
      <4> DEFINE u == Rewards!Unpadded(i)
                 T == Rewards!Tokens(i)
      <4>1. T \in 1 .. 3 /\ u \in {T, T - 1}
        BY DEF Rewards!Unpadded, Rewards!Tokens
      <4>2. Rewards!Max({1, u}) = CHOOSE x \in {1, u} : \A y \in {1, u} : x >= y
        BY Zenon DEF Rewards!Max
      <4> HIDE DEF u, T
      <4>3. \E x \in {1, u} : \A y \in {1, u} : x >= y
        BY <4>1
      <4>4. Rewards!Max({1, u}) \in {1, u} /\ Rewards!Max({1, u}) >= 1
        BY <4>2, <4>3
      <4>5. Rewards!Max({1, u}) \in 1 .. T
        BY <4>1, <4>4
      <4> QED
        BY <2>1, <4>5 DEF Rewards!LastToken, u, T
    <3> QED
      BY <3>1, <3>7, <3>8, <3>9 DEF won, mates
  <2>6. Rewards!RewardsStayInTheGroup'
    <3>1. \A i : Rewards!Tokens(i)' = Rewards!Tokens(i)
      BY <2>1 DEF Rewards!Tokens
    <3> QED
      BY <2>1, <2>2, <2>5, <3>1 DEF Rewards!RewardsStayInTheGroup
  <2> QED
    BY <2>1, <2>2, <2>4, <2>6 DEF RewardsInv
<1> QED
  BY <1>2, <1>3 DEF Rewards!Next

\* What the beams of a prompt are paid is decided by these beams alone.
THEOREM RewardsAlwaysStayInTheGroup ==
  Spec => [](part = "rewards" => Rewards!RewardsStayInTheGroup)
<1>1. Init => (part = "rewards" => RewardsInv)
  BY RewardsInit DEF Init
<1>2. (part = "rewards" => RewardsInv) /\ [Next]_vars => (part = "rewards" => RewardsInv)'
  <2> SUFFICES ASSUME part = "rewards" => RewardsInv, [Next]_vars, part' = "rewards"
               PROVE  RewardsInv'
    OBVIOUS
  <2>1. part = "rewards" /\ (Rewards!Next \/ UNCHANGED <<training, order, rewards, rewardsAt>>)
    BY Zenon DEF Next, vars, rewardsVars, SetupStep, RowsStep, BeamStep, HFStep, LogpsStep, FitStep,
           RewardsStep, ScoresStep, EvalStep
  <2>2. CASE UNCHANGED <<training, order, rewards, rewardsAt>>
    <3>1. Rewards!Rows' = Rewards!Rows /\ (LaterBeamsFollow' <=> LaterBeamsFollow)
      BY <2>2 DEF LaterBeamsFollow, Rewards!Rows
    <3>2. Rewards!RewardsStayInTheGroup' <=> Rewards!RewardsStayInTheGroup
      BY <2>2 DEF Rewards!RewardsStayInTheGroup, Rewards!Rows, Rewards!Tokens
    <3> QED
      BY <2>1, <2>2, <3>1, <3>2 DEF RewardsInv
  <2> QED
    BY <2>1, <2>2, RewardsNext
<1>3. (part = "rewards" => RewardsInv) => (part = "rewards" => Rewards!RewardsStayInTheGroup)
  BY DEF RewardsInv
<1> QED
  BY <1>1, <1>2, <1>3, PTL DEF Spec

-------------------------------------------------------------------------------
(* The scores of a validation (ValidationScores).                            *)

\* x has G times b[1], then G times b[2], up to b[n].
EachTimes(x, b, G, n) ==
  \A q \in 1 .. n : \A k \in 1 .. G :
    /\ G * (q - 1) \in Nat /\ G * (q - 1) + k \in 1 .. G * n
    /\ x[G * (q - 1) + k] = b[q]

\* What repeat_interleave returns.
LEMMA RepeatedIs ==
  ASSUME NEW D, NEW s \in Seq(D), NEW n \in Nat \ {0}
  PROVE  /\ Scores!Repeated(s, n) \in Seq(D) /\ Len(Scores!Repeated(s, n)) = n * Len(s)
         /\ EachTimes(Scores!Repeated(s, n), s, n, Len(s))
<1> DEFINE l == Len(s)
           ss == [i \in DOMAIN s |-> [j \in 1 .. n |-> s[i]]]
<1>1. l \in Nat /\ DOMAIN s = 1 .. l /\ \A i \in 1 .. l : s[i] \in D
  OBVIOUS
<1>2. ss \in [1 .. l -> Seq(D)] /\ \A i \in 1 .. l : Len(ss[i]) = n /\ \A j \in 1 .. n : ss[i][j] = s[i]
  <2>1. ASSUME NEW i \in 1 .. l
        PROVE  [j \in 1 .. n |-> s[i]] \in Seq(D) /\ Len([j \in 1 .. n |-> s[i]]) = n
    BY <1>1
  <2> QED
    BY <1>1, <2>1
<1>3. Scores!Repeated(s, n) = FlattenSeq(ss)
  <2>1. ASSUME NEW w PROVE Scores!FlattenSeq(w) = FlattenSeq(w)
    BY Zenon DEF Scores!FlattenSeq, FlattenSeq
  <2> QED
    BY <2>1 DEF Scores!Repeated
<1> HIDE DEF ss, l
<1>4. FlattenSeq(ss) \in Seq(D) /\ LaidEvenly(FlattenSeq(ss), ss, l, n)
  BY <1>1, <1>2, FlattenEven
<1>5. \A q \in 1 .. l : \A k \in 1 .. n : n * (q - 1) \in Nat
  BY <1>1, BlockPlace
<1> QED
  BY <1>2, <1>3, <1>4, <1>5 DEF LaidEvenly, EachTimes, l

\* A sequence that begins with the R times repeated b, repeated E times, begins with
\* the R * E times repeated b.
LEMMA RepeatedTwice ==
  ASSUME NEW D, NEW R \in Nat \ {0}, NEW E \in Nat \ {0}, NEW n \in Nat, NEW b,
         NEW x, EachTimes(x, b, R, n), NEW w \in Seq(D), R * n <= Len(w),
         \A i \in 1 .. R * n : w[i] = x[i]
  PROVE  EachTimes(Scores!Repeated(w, E), b, R * E, n)
<1> DEFINE y == Scores!Repeated(w, E)
           G == R * E
<1>1. EachTimes(y, w, E, Len(w)) /\ Len(w) \in Nat
  BY RepeatedIs
<1>0. G \in Nat \ {0}
  OBVIOUS
<1> HIDE DEF y
<1>2. ASSUME NEW q \in 1 .. n, NEW k \in 1 .. G
      PROVE  y[G * (q - 1) + k] = b[q]
  <2>1. G = E * R
    OBVIOUS
  <2>0. k \in 1 .. E * R
    BY <2>1
  <2>2. PICK r \in 1 .. R : \E e \in 1 .. E : k = E * (r - 1) + e
    BY <2>0, InABlock, R \in Nat, E \in Nat \ {0}
  <2>7. PICK e \in 1 .. E : k = E * (r - 1) + e
    BY <2>2
  <2> DEFINE i == R * (q - 1) + r
  <2>3. i \in 1 .. R * n /\ x[i] = b[q]
    BY DEF EachTimes
  <2>4. i \in 1 .. Len(w) /\ w[i] = b[q]
    <3>1. R * n \in Nat
      OBVIOUS
    <3> QED
      BY <1>1, <2>3, <3>1
  <2>5. y[E * (i - 1) + e] = b[q]
    <3> HIDE DEF i
    <3> QED
      BY <1>1, <2>4 DEF EachTimes
  <2>6. E * (i - 1) + e = G * (q - 1) + k
    <3>1. q \in Int /\ r \in Int /\ e \in Int
      OBVIOUS
    <3>2. E * ((R * (q - 1) + r) - 1) + e = (R * E) * (q - 1) + (E * (r - 1) + e)
      BY <3>1
    <3> QED
      BY <2>7, <3>2
  <2> QED
    BY <2>5, <2>6
<1>3. \A q \in 1 .. n : \A k \in 1 .. G : G * (q - 1) \in Nat /\ G * (q - 1) + k \in 1 .. G * n
  <2> HIDE DEF G
  <2> QED
    BY <1>0, BlockPlace
<1> QED
  BY Zenon, <1>2, <1>3 DEF EachTimes, y

\* Of different b, the k-th that was generated for one is the k-th of its own.
LEMMA SlotIs ==
  ASSUME NEW G \in Nat \ {0}, NEW n \in Nat, NEW b, NEW x, EachTimes(x, b, G, n),
         \A i, j \in 1 .. n : b[i] = b[j] => i = j,
         NEW q \in 1 .. n, NEW k \in 1 .. G, NEW T,
         \A j : j \in T <=> j \in 1 .. G * (q - 1) + k /\ x[j] = x[G * (q - 1) + k]
  PROVE  Cardinality(T) = k
<1> DEFINE a == G * (q - 1)
           t == a + k
           lo == a + 1
<1>0. \A j : j \in T <=> j \in 1 .. t /\ x[j] = x[t]
  OBVIOUS
<1>7. G * n \in Nat /\ k \in Nat \ {0} /\ k <= G
  OBVIOUS
<1>8. a \in Nat /\ t \in 1 .. G * n /\ x[t] = b[q]
  BY DEF EachTimes
<1>1. a \in Nat /\ t \in 1 .. G * n /\ x[t] = b[q] /\ G * n \in Nat /\ k \in Nat \ {0} /\ k <= G
  BY <1>7, <1>8
<1>2. lo \in Int /\ t \in Int /\ lo <= t /\ (t - lo) + 1 = k
  <2> HIDE DEF a
  <2> QED
    BY <1>1
<1>3. ASSUME NEW j \in T PROVE j \in lo .. t
  <2>1. j \in 1 .. G * n /\ x[j] = b[q] /\ j <= t
    <3> HIDE DEF a, t
    <3> QED
      BY <1>0, <1>1
  <2>2. PICK p \in 1 .. n, l \in 1 .. G : j = G * (p - 1) + l
    BY <2>1, InABlock
  <2>3. x[j] = b[p]
    BY <2>2 DEF EachTimes
  <2>4. p = q
    BY <2>1, <2>3
  <2> HIDE DEF a
  <2>5. j = a + l
    BY <2>2, <2>4 DEF a
  <2> QED
    BY <1>1, <2>1, <2>5
<1>4. ASSUME NEW j \in lo .. t PROVE j \in T
  <2> DEFINE l == j - a
  <2>1. l \in 1 .. G /\ j = a + l /\ j \in 1 .. t
    <3> HIDE DEF a
    <3> QED
      BY <1>1
  <2> HIDE DEF l
  <2>2. x[j] = b[q]
    BY <2>1 DEF EachTimes
  <2> HIDE DEF t
  <2> QED
    BY <1>0, <1>1, <2>1, <2>2
<1>5. T = lo .. t
  <2> HIDE DEF lo, t
  <2>1. T \subseteq lo .. t
    BY <1>3
  <2>2. lo .. t \subseteq T
    BY <1>4
  <2> QED
    BY <2>1, <2>2
<1> HIDE DEF lo
<1>6. Cardinality(lo .. t) = k
  <2> HIDE DEF t
  <2>1. Cardinality(lo .. t) = IF lo <= t THEN (t - lo) + 1 ELSE 0
    BY <1>2, FS_Interval
  <2> QED
    BY <1>2, <2>1
<1> QED
  BY <1>5, <1>6

\* The prompts of all the batches, and how many the first of them have.
Whole == FlattenSeq(plan.batches)
Before == CHOOSE off : Laid(Whole, off, plan.batches, Len(plan.batches))

\* What is assumed of a validation, and what it says of its counts.
PlanIs ==
  /\ plan.recipe \in {"openonerec", "minionerec", "rankgrpo"}
  /\ plan.divisor \in Nat \ {0}
  /\ Scores!Repeats \in Nat \ {0} /\ Scores!EngineRows \in Nat \ {0}
  /\ Scores!BeamsOfRow = Scores!EngineRows
  /\ plan.search \/ plan.twoStage \/ Scores!EngineRows = 1
  /\ Scores!Generated \in Nat \ {0}
  /\ Scores!Generated = Scores!Repeats * Scores!EngineRows

BatchesIs ==
  /\ Len(plan.batches) \in Nat \ {0}
  /\ \A i \in 1 .. Len(plan.batches) :
       plan.batches[i] \in Seq(Scores!Prompts) /\ Len(plan.batches[i]) \in Nat \ {0}
  /\ Whole \in Seq(Scores!Prompts)
  /\ Laid(Whole, Before, plan.batches, Len(plan.batches))
  /\ \A i, j \in 1 .. Len(Whole) : Whole[i] = Whole[j] => i = j

\* What the assumption says of a plan.
LEMMA PlanHolds == ASSUME plan \in Plans PROVE PlanIs
<1>1. PartsAssumption
  BY PartsAssumption
<1>2. /\ plan.recipe \in {"openonerec", "minionerec", "rankgrpo"}
      /\ plan.engine \in {"sync", "async"}
      /\ plan.n \in Nat \ {0} /\ plan.width \in Nat \ {0} /\ plan.divisor \in Nat \ {0}
      /\ plan.search => ~plan.twoStage /\ plan.engine = "sync"
  BY <1>1 DEF PartsAssumption, Scores!ScoresAssumption
<1>3. Scores!Repeats \in Nat \ {0} /\ Scores!EngineRows \in Nat \ {0}
  BY <1>2 DEF Scores!Repeats, Scores!EngineRows
<1>4. Scores!BeamsOfRow = Scores!EngineRows
  <2>1. CASE plan.twoStage /\ plan.engine = "async"
    BY <1>2, <2>1 DEF Scores!BeamsOfRow, Scores!EngineRows
  <2>2. CASE plan.twoStage /\ plan.engine = "sync"
    BY <1>2, <2>2 DEF Scores!BeamsOfRow, Scores!EngineRows
  <2>3. CASE ~ plan.twoStage /\ plan.search
    BY <1>2, <2>3 DEF Scores!BeamsOfRow, Scores!EngineRows
  <2>4. CASE ~ plan.twoStage /\ ~ plan.search
    BY <1>2, <2>4 DEF Scores!BeamsOfRow, Scores!EngineRows
  <2> QED
    BY <1>2, <2>1, <2>2, <2>3, <2>4
<1>5. plan.search \/ plan.twoStage \/ Scores!EngineRows = 1
  BY DEF Scores!EngineRows
<1>6. Scores!Generated = Scores!Repeats * Scores!EngineRows
  BY DEF Scores!Generated
<1>7. Scores!Repeats * Scores!EngineRows \in Nat \ {0}
  BY <1>3
<1> QED
  BY <1>2, <1>3, <1>4, <1>5, <1>6, <1>7 DEF PlanIs

\* And of its batches.
LEMMA BatchesHold == ASSUME plan \in Plans PROVE BatchesIs
<1>1. PartsAssumption
  BY PartsAssumption
<1> DEFINE P == Scores!Prompts
           n == Len(plan.batches)
<1>2. plan.batches \in Seq(Seq(P) \ {<<>>}) /\ plan.batches # <<>>
  BY <1>1 DEF PartsAssumption, Scores!ScoresAssumption
<1>3. Scores!IsInjective(Scores!FlattenSeq(plan.batches))
  BY <1>1 DEF PartsAssumption, Scores!ScoresAssumption
<1>4. Scores!FlattenSeq(plan.batches) = Whole
  BY Zenon DEF Scores!FlattenSeq, FlattenSeq, Whole
<1>5. n \in Nat \ {0} /\ plan.batches \in [1 .. n -> Seq(P) \ {<<>>}]
  <2> HIDE DEF P
  <2> QED
    BY <1>2
<1>6. \A i \in 1 .. n : plan.batches[i] \in Seq(P) /\ Len(plan.batches[i]) \in Nat \ {0}
  <2> HIDE DEF P
  <2>1. \A s \in Seq(P) : s # <<>> => Len(s) \in Nat \ {0}
    OBVIOUS
  <2> QED
    BY <1>5, <2>1
<1>7. plan.batches \in [1 .. n -> Seq(P)] /\ n \in Nat
  BY <1>5
<1>8. Whole \in Seq(P) /\ \E off : Laid(Whole, off, plan.batches, n)
  <2> HIDE DEF P, n
  <2> QED
    BY <1>7, FlattenIs DEF Whole
<1>9. Laid(Whole, Before, plan.batches, n)
  BY <1>8, Zenon DEF Before
<1>10. \A i, j \in DOMAIN Whole : Whole[i] = Whole[j] => i = j
  BY <1>3, <1>4 DEF Scores!IsInjective
<1>11. DOMAIN Whole = 1 .. Len(Whole)
  BY <1>8
<1> QED
  BY <1>5, <1>6, <1>8, <1>9, <1>10, <1>11 DEF BatchesIs

\* The k-th that was generated for p.
OutOf(p, k) == <<p, k, Scores!Item(p, k)>>

\* What was generated and cut back for the prompts b.
OutputsOf(x, b) ==
  \A q \in 1 .. Len(b) : \A k \in 1 .. Scores!Generated :
    /\ Scores!Generated * (q - 1) \in Nat
    /\ Scores!Generated * (q - 1) + k \in 1 .. Scores!Generated * Len(b)
    /\ x[Scores!Generated * (q - 1) + k] = OutOf(b[q], k)

\* The batch at hand, repeated and padded.
RowsAre ==
  /\ rows = Scores!Repeated(plan.batches[batch], Scores!Repeats)
  /\ padded = Scores!PaddedTo(rows, plan.divisor)

\* The outputs of the batch.
OutsAre ==
  /\ outs = [i \in 1 .. Scores!EngineRows * Len(padded) |-> outs[i]]
  /\ OutputsOf(outs, plan.batches[batch])

\* The rows of the first m prompts were collected.
Collected(m) ==
  /\ \E D : samples \in Seq(D)
  /\ Len(samples) = Scores!Generated * m
  /\ \A q \in 1 .. m : \A k \in 1 .. Scores!Generated :
       LET i == Scores!Generated * (q - 1) + k IN
         /\ samples[i].prompt = Whole[q]
         /\ samples[i].out = OutOf(Whole[q], k)
         /\ (plan.recipe = "minionerec" => plan.keyed) => samples[i].key = Whole[q]

\* The scores of the groups scored so far.
SumsAre ==
  /\ plan.recipe # "rankgrpo" => sums = -1
  /\ plan.recipe = "rankgrpo" /\ plan.reward =>
       \/ sums = -1 /\ Len(samples) = 0
       \/ sums = Len(samples)

\* The inductive invariant of the part "scores".
ScoresInv ==
  /\ plan \in Plans /\ correct \in [Scores!Prompts -> 0 .. 3]
  /\ batch \in 1 .. Len(plan.batches)
  /\ scoresAt \in {"repeat", "generate", "collect", "score", "done", "failed"}
  /\ scoresAt \in {"repeat", "generate", "collect"} => Collected(Before[batch - 1])
  /\ scoresAt \in {"generate", "collect"} => RowsAre
  /\ scoresAt = "collect" => OutsAre
  /\ scoresAt = "score" => Collected(Len(Whole))
  /\ SumsAre
  /\ scoresAt \in {"done", "failed"} => Scores!ScoresBelongToPrompts

\* A padded batch is the batch and some of its rows once more.
LEMMA PaddedIs ==
  ASSUME NEW D, NEW s \in Seq(D), NEW d \in Nat \ {0}, s # <<>>
  PROVE  /\ Scores!PaddedTo(s, d) \in Seq(D)
         /\ Len(s) <= Len(Scores!PaddedTo(s, d))
         /\ \A i \in 1 .. Len(s) : Scores!PaddedTo(s, d)[i] = s[i]
<1> DEFINE l == Len(s)
           missing == (d - (l % d)) % d
           t == [i \in 1 .. missing |-> s[((i - 1) % l) + 1]]
<1>1. l \in Nat \ {0} /\ \A i \in 1 .. l : s[i] \in D
  OBVIOUS
<1>2. missing \in Nat
  <2>1. l % d \in 0 .. d - 1
    BY <1>1, Division
  <2> DEFINE r == d - (l % d)
  <2>2. r \in Nat
    BY <2>1
  <2> HIDE DEF r
  <2>3. r % d \in 0 .. d - 1
    BY <2>2, Division
  <2> QED
    BY <2>3 DEF r
<1>3. Scores!PaddedTo(s, d) = s \o t
  BY DEF Scores!PaddedTo
<1> HIDE DEF l, missing
<1>4. ASSUME NEW i \in 1 .. missing PROVE s[((i - 1) % l) + 1] \in D
  <2>1. i - 1 \in Nat
    BY <1>2
  <2> DEFINE j == (i - 1) % l
  <2>2. j \in 0 .. l - 1
    BY <1>1, <2>1, Division
  <2> HIDE DEF j
  <2>3. j + 1 \in 1 .. l
    BY <1>1, <2>2
  <2> QED
    BY <1>1, <2>3 DEF j
<1>5. t \in Seq(D)
  BY <1>2, <1>4
<1> HIDE DEF t
<1>6. /\ s \o t \in Seq(D) /\ Len(s) \in Nat /\ Len(t) \in Nat
      /\ Len(s \o t) = Len(s) + Len(t)
      /\ \A i \in 1 .. Len(s) : (s \o t)[i] = s[i]
  BY <1>5, ConcatIs
<1> QED
  BY <1>3, <1>6

\* It holds at first.
LEMMA ScoresInit == ASSUME Scores!Init PROVE ScoresInv
<1>1. plan \in Plans /\ correct \in [Scores!Prompts -> 0 .. 3] /\ batch = 1
      /\ samples = <<>> /\ sums = -1 /\ scoresAt = "repeat"
  BY DEF Scores!Init
<1>2. BatchesIs
  BY <1>1, BatchesHold
<1>3. PlanIs
  BY <1>1, PlanHolds
<1>4. batch \in 1 .. Len(plan.batches) /\ batch - 1 = 0
  BY <1>1, <1>2 DEF BatchesIs
<1>5. Before[0] = 0
  BY <1>2 DEF BatchesIs, Laid, Offsets
<1>6. Collected(0)
  <2>1. samples \in Seq({}) /\ Len(samples) = 0
    BY <1>1
  <2>2. Scores!Generated * 0 = 0
    BY <1>3 DEF PlanIs
  <2> QED
    BY <2>1, <2>2 DEF Collected
<1>7. SumsAre
  BY <1>1 DEF SumsAre
<1> QED
  BY <1>1, <1>4, <1>5, <1>6, <1>7 DEF ScoresInv

\* The rows of the batch at hand: the batch repeated, and what it is padded to.
BatchRows(b) ==
  /\ b \in Seq(Scores!Prompts) /\ Len(b) \in Nat \ {0}
  /\ \A i, j \in 1 .. Len(b) : b[i] = b[j] => i = j
  /\ rows \in Seq(Scores!Prompts) /\ Len(rows) = Scores!Repeats * Len(b)
  /\ EachTimes(rows, b, Scores!Repeats, Len(b))
  /\ padded \in Seq(Scores!Prompts) /\ Len(rows) <= Len(padded)
  /\ \A i \in 1 .. Len(rows) : padded[i] = rows[i]

\* A batch is a part of the whole.
LEMMA BatchIs ==
  ASSUME BatchesIs, batch \in 1 .. Len(plan.batches)
  PROVE  LET b == plan.batches[batch]
             m == Before[batch - 1]
         IN  /\ b \in Seq(Scores!Prompts) /\ Len(b) \in Nat \ {0} /\ m \in Nat
             /\ Before[batch] = m + Len(b)
             /\ \A i \in 1 .. Len(b) : m + i \in 1 .. Len(Whole) /\ Whole[m + i] = b[i]
             /\ \A i, j \in 1 .. Len(b) : b[i] = b[j] => i = j
<1> DEFINE b == plan.batches[batch]
           m == Before[batch - 1]
<1>1. b \in Seq(Scores!Prompts) /\ Len(b) \in Nat \ {0}
  BY DEF BatchesIs
<1>2. Laid(Whole, Before, plan.batches, Len(plan.batches))
  BY DEF BatchesIs
<1>3. batch - 1 \in 0 .. Len(plan.batches)
  BY DEF BatchesIs
<1>4. m \in Nat /\ Before[batch] = m + Len(b)
  BY <1>2, <1>3 DEF Laid, Offsets
<1>5. \A i \in 1 .. Len(b) : m + i \in 1 .. Len(Whole) /\ Whole[m + i] = b[i]
  BY <1>2 DEF Laid
<1>6. ASSUME NEW i \in 1 .. Len(b), NEW j \in 1 .. Len(b), b[i] = b[j] PROVE i = j
  <2> HIDE DEF b, m
  <2>1. m + i = m + j
    BY <1>5, <1>6 DEF BatchesIs
  <2> QED
    BY <1>1, <1>4, <2>1
<1> QED
  BY <1>1, <1>4, <1>5, <1>6

\* The rows of a batch repeated and padded.
LEMMA RowsOfBatch ==
  ASSUME plan \in Plans, batch \in 1 .. Len(plan.batches), RowsAre
  PROVE  BatchRows(plan.batches[batch])
<1> DEFINE b == plan.batches[batch]
           R == Scores!Repeats
<1>0. PlanIs /\ BatchesIs
  BY PlanHolds, BatchesHold
<1>1. b \in Seq(Scores!Prompts) /\ Len(b) \in Nat \ {0} /\ \A i, j \in 1 .. Len(b) : b[i] = b[j] => i = j
  BY <1>0, BatchIs
<1>2. R \in Nat \ {0} /\ plan.divisor \in Nat \ {0}
  BY <1>0 DEF PlanIs
<1>3. rows = Scores!Repeated(b, R) /\ padded = Scores!PaddedTo(rows, plan.divisor)
  BY DEF RowsAre
<1> HIDE DEF b, R
<1>4. rows \in Seq(Scores!Prompts) /\ Len(rows) = R * Len(b) /\ EachTimes(rows, b, R, Len(b))
  BY <1>1, <1>2, <1>3, RepeatedIs
<1>5. rows # <<>>
  <2>1. R * Len(b) # 0
    BY <1>1, <1>2
  <2> QED
    BY <1>4, <2>1
<1>6. /\ padded \in Seq(Scores!Prompts) /\ Len(rows) <= Len(padded)
      /\ \A i \in 1 .. Len(rows) : padded[i] = rows[i]
  BY <1>2, <1>3, <1>4, <1>5, PaddedIs
<1> QED
  BY <1>1, <1>4, <1>6 DEF BatchRows, b, R

\* What was collected does not change.
LEMMA CollectedStays ==
  ASSUME UNCHANGED <<plan, correct, batch, samples>>, Collected(Before[batch - 1])
  PROVE  Collected(Before[batch - 1])'
<1>1. Whole' = Whole
  BY DEF Whole
<1>2. Before' = Before
  BY <1>1 DEF Before
<1>3. Scores!Generated' = Scores!Generated
  BY DEF Scores!Generated, Scores!Repeats, Scores!EngineRows
<1>4. ASSUME NEW p, NEW k PROVE OutOf(p, k)' = OutOf(p, k)
  BY DEF OutOf, Scores!Item
<1> QED
  BY <1>1, <1>2, <1>3, <1>4 DEF Collected

\* Each step keeps the invariant: the batch is repeated,
LEMMA ScoresRepeat == ASSUME ScoresInv, Scores!Repeat PROVE ScoresInv'
<1>1. /\ scoresAt = "repeat" /\ scoresAt' = "generate"
      /\ UNCHANGED <<plan, correct, batch, outs, samples, sums, scores>>
  BY DEF Scores!Repeat
<1>2. RowsAre'
  <2>1. rows' = Scores!Repeated(plan.batches[batch], Scores!Repeats)
        /\ padded' = Scores!PaddedTo(rows', plan.divisor)
    BY DEF Scores!Repeat
  <2>2. Scores!Repeats' = Scores!Repeats
    BY <1>1 DEF Scores!Repeats
  <2> QED
    BY <1>1, <2>1, <2>2 DEF RowsAre, Scores!Repeated, Scores!PaddedTo
<1>3. Collected(Before[batch - 1])
  BY <1>1 DEF ScoresInv
<1>4. Collected(Before[batch - 1])'
  BY <1>1, <1>3, CollectedStays
<1>5. SumsAre'
  BY <1>1 DEF ScoresInv, SumsAre
<1> QED
  BY <1>1, <1>2, <1>4, <1>5 DEF ScoresInv

\* The outputs for the rows w.
Generation(w) ==
  LET x == Scores!Repeated(w, Scores!EngineRows)
      Slot(i) == Cardinality({j \in 1 .. i : x[j] = x[i]})
  IN  [i \in DOMAIN x |-> <<x[i], Slot(i), Scores!Item(x[i], Slot(i))>>]

\* What a generation returns for the rows.
LEMMA GenerationIs ==
  ASSUME PlanIs, NEW b, BatchRows(b)
  PROVE  /\ Generation(padded) = [i \in 1 .. Scores!EngineRows * Len(padded) |-> Generation(padded)[i]]
         /\ OutputsOf(Generation(padded), b)
<1> DEFINE R == Scores!Repeats
           E == Scores!EngineRows
           G == Scores!Generated
           n == Len(b)
           x == Scores!Repeated(padded, E)
           Slot(i) == Cardinality({j \in 1 .. i : x[j] = x[i]})
           y == Generation(padded)
<1>1. /\ R \in Nat \ {0} /\ E \in Nat \ {0} /\ G = R * E /\ G \in Nat \ {0} /\ n \in Nat
      /\ EachTimes(rows, b, R, n) /\ padded \in Seq(Scores!Prompts) /\ R * n <= Len(padded)
      /\ \A i \in 1 .. R * n : padded[i] = rows[i]
      /\ \A i, j \in 1 .. n : b[i] = b[j] => i = j
  BY DEF PlanIs, BatchRows
<1>2. y = [i \in DOMAIN x |-> <<x[i], Slot(i), Scores!Item(x[i], Slot(i))>>]
  BY DEF Generation
<1>3. x \in Seq(Scores!Prompts) /\ Len(x) = E * Len(padded)
  <2> HIDE DEF E
  <2> QED
    BY <1>1, RepeatedIs
<1>4. EachTimes(x, b, G, n)
  <2> HIDE DEF R, E, G, n
  <2>1. EachTimes(x, b, R * E, n)
    BY <1>1, RepeatedTwice
  <2> QED
    BY <1>1, <2>1, Zenon
<1>5. DOMAIN x = 1 .. E * Len(padded)
  BY <1>3
<1> HIDE DEF x, E, G, R, n
<1>6. ASSUME NEW q \in 1 .. n, NEW k \in 1 .. G
      PROVE  /\ G * (q - 1) \in Nat /\ G * (q - 1) + k \in 1 .. G * n
             /\ y[G * (q - 1) + k] = OutOf(b[q], k)
  <2> DEFINE t == G * (q - 1) + k
  <2>1. G * (q - 1) \in Nat /\ t \in 1 .. G * n /\ x[t] = b[q]
    BY <1>4 DEF EachTimes
  <2>2. t \in DOMAIN x
    <3>1. G * n \in Nat /\ E * Len(padded) \in Nat /\ G * n <= E * Len(padded)
      <4>1. Len(padded) \in Nat
        BY <1>1
      <4>2. R * n \in Nat
        BY <1>1
      <4>3. E * (R * n) <= E * Len(padded)
        BY <1>1, <4>1, <4>2
      <4>4. G * n = E * (R * n)
        BY <1>1
      <4>5. E * Len(padded) \in Nat /\ E * (R * n) \in Nat
        BY <1>1, <4>1, <4>2
      <4> QED
        BY <4>3, <4>4, <4>5
    <3> HIDE DEF t
    <3> QED
      BY <1>5, <2>1, <3>1
  <2>3. Slot(t) = k
    <3>1. (\A i, j \in 1 .. n : b[i] = b[j] => i = j) /\ G \in Nat \ {0} /\ n \in Nat
      BY <1>1
    <3> DEFINE T == {j \in 1 .. t : x[j] = x[t]}
    <3>2. \A j : j \in T <=> j \in 1 .. t /\ x[j] = x[t]
      OBVIOUS
    <3> HIDE DEF T
    <3>3. Cardinality(T) = k
      BY <1>4, <3>1, <3>2, SlotIs
    <3> QED
      BY <3>3 DEF T
  <2> HIDE DEF t, Slot
  <2>4. y[t] = <<x[t], Slot(t), Scores!Item(x[t], Slot(t))>>
    BY <1>2, <2>2
  <2> QED
    BY <2>1, <2>3, <2>4 DEF OutOf, t
<1>7. OutputsOf(y, b)
  BY <1>6 DEF OutputsOf, G, n
<1>8. y = [i \in 1 .. E * Len(padded) |-> y[i]]
  <2> HIDE DEF Slot
  <2> QED
    BY <1>2, <1>5
<1> QED
  BY <1>7, <1>8 DEF E

\* its outputs are generated,
LEMMA ScoresGenerate == ASSUME ScoresInv, Scores!Generate PROVE ScoresInv'
<1>1. /\ scoresAt = "generate" /\ scoresAt' = "collect"
      /\ UNCHANGED <<plan, correct, batch, rows, padded, samples, sums, scores>>
  BY DEF Scores!Generate
<1>2. outs' = Generation(padded)
  <2>1. ASSUME NEW S PROVE Scores!Cardinality(S) = Cardinality(S)
    BY Zenon DEF Scores!Cardinality, Cardinality
  <2> QED
    BY <2>1, Zenon DEF Scores!Generate, Generation
<1>3. plan \in Plans /\ batch \in 1 .. Len(plan.batches) /\ RowsAre /\ Collected(Before[batch - 1])
  BY <1>1 DEF ScoresInv
<1>4. PlanIs /\ BatchRows(plan.batches[batch])
  BY <1>3, PlanHolds, RowsOfBatch
<1>5. OutsAre'
  <2>1. /\ outs' = [i \in 1 .. Scores!EngineRows * Len(padded) |-> outs'[i]]
        /\ OutputsOf(outs', plan.batches[batch])
    BY <1>2, <1>4, GenerationIs
  <2>2. Scores!EngineRows' = Scores!EngineRows /\ Scores!Generated' = Scores!Generated
    BY <1>1 DEF Scores!EngineRows, Scores!Generated, Scores!Repeats
  <2> QED
    BY <1>1, <2>1, <2>2 DEF OutsAre, OutputsOf, OutOf, Scores!Item
<1>6. RowsAre'
  BY <1>1, <1>3 DEF RowsAre, Scores!Repeats, Scores!Repeated, Scores!PaddedTo
<1>7. Collected(Before[batch - 1])'
  BY <1>1, <1>3, CollectedStays
<1>8. SumsAre'
  BY <1>1 DEF ScoresInv, SumsAre
<1> QED
  BY <1>1, <1>5, <1>6, <1>7, <1>8 DEF ScoresInv

\* What is cut back and what it is lined up with are as long and in the same order.
LEMMA CutBack ==
  ASSUME PlanIs, NEW b, BatchRows(b), OutputsOf(outs, b),
         outs = [i \in 1 .. Scores!EngineRows * Len(padded) |-> outs[i]]
  PROVE  /\ Len(Scores!Unpadded) = Scores!Generated * Len(b) /\ OutputsOf(Scores!Unpadded, b)
         /\ Len(Scores!Inputs) = Scores!Generated * Len(b)
         /\ DOMAIN Scores!Inputs = 1 .. Scores!Generated * Len(b)
         /\ EachTimes(Scores!Inputs, b, Scores!Generated, Len(b))
<1> DEFINE R == Scores!Repeats
           E == Scores!EngineRows
           G == Scores!Generated
           n == Len(b)
           lp == Len(padded)
           D == {outs[i] : i \in 1 .. E * lp}
<1>1. /\ R \in Nat \ {0} /\ E \in Nat \ {0} /\ G = R * E /\ G \in Nat \ {0} /\ n \in Nat \ {0}
      /\ EachTimes(rows, b, R, n) /\ padded \in Seq(Scores!Prompts) /\ lp \in Nat
      /\ rows \in Seq(Scores!Prompts) /\ Len(rows) = R * n /\ R * n <= lp
      /\ Scores!BeamsOfRow = E /\ (plan.search \/ plan.twoStage \/ E = 1)
  BY DEF PlanIs, BatchRows
<1>2. E * lp \in Nat /\ outs \in Seq(D) /\ Len(outs) = E * lp
  <2>1. E * lp \in Nat
    BY <1>1
  <2> DEFINE N == E * lp
  <2>2. outs = [i \in 1 .. N |-> outs[i]] /\ N \in Nat /\ \A i \in 1 .. N : outs[i] \in D
    BY <2>1
  <2> HIDE DEF N, D
  <2>3. outs \in [1 .. N -> D]
    BY <2>2
  <2>5. N \in Nat
    BY <2>1 DEF N
  <2>6. \A M \in Nat : \A f \in [1 .. M -> D] : f \in Seq(D) /\ Len(f) = M
    OBVIOUS
  <2>4. outs \in Seq(D) /\ Len(outs) = N
    BY Zenon, <2>3, <2>5, <2>6
  <2> QED
    BY <2>1, <2>4 DEF N
<1>3. Scores!Pad * Scores!BeamsOfRow = (lp - R * n) * E
  BY <1>1 DEF Scores!Pad
<1>4. E * lp - (lp - R * n) * E = G * n /\ G * n \in Nat \ {0} /\ G * n <= E * lp
  <2> HIDE DEF R, E, G, n, lp
  <2>1. R * n \in Nat \ {0}
    BY <1>1
  <2> DEFINE r == R * n
  <2>2. E * r <= E * lp /\ E * r \in Nat \ {0} /\ E * lp - (lp - r) * E = E * r
    <3>1. r \in Nat \ {0} /\ r <= lp
      BY <1>1, <2>1
    <3> HIDE DEF r
    <3> DEFINE z == lp - r
    <3>2. z \in Nat /\ lp = r + z
      BY <1>1, <3>1
    <3> HIDE DEF z
    <3>3. \A e, x, y \in Nat : e * x \in Nat /\ e * y \in Nat /\ e * (x + y) = e * x + e * y /\ y * e = e * y
      OBVIOUS
    <3>4. E * (r + z) = E * r + E * z /\ z * E = E * z /\ E * r \in Nat /\ E * z \in Nat
      <4>1. E \in Nat /\ r \in Nat /\ z \in Nat
        BY <1>1, <3>1, <3>2
      <4> QED
        BY Zenon, <4>1, <3>3
    <3>6. E * r # 0
      BY <1>1, <3>1
    <3>5. E * lp = E * r + E * z
      BY <3>2, <3>4
    <3> QED
      BY <3>4, <3>5, <3>6 DEF z
  <2>3. G * n = E * r
    BY <1>1
  <2> QED
    BY <2>2, <2>3
<1>5. Scores!Unpadded = SubSeq(outs, 1, G * n)
  BY <1>2, <1>3, <1>4 DEF Scores!Unpadded
<1>6. Len(Scores!Unpadded) = G * n /\ \A i \in 1 .. G * n : Scores!Unpadded[i] = outs[i]
  <2> DEFINE c == G * n
  <2>1. c \in Nat /\ c <= Len(outs) /\ outs \in Seq(D)
    BY <1>2, <1>4
  <2>2. Scores!Unpadded = SubSeq(outs, 1, c)
    BY <1>5
  <2> HIDE DEF c, D
  <2>3. Len(SubSeq(outs, 1, c)) = c /\ \A i \in 1 .. c : SubSeq(outs, 1, c)[i] = outs[i]
    BY <2>1
  <2> QED
    BY <2>2, <2>3 DEF c
<1>7. OutputsOf(Scores!Unpadded, b)
  BY <1>6 DEF OutputsOf
<1>8. CASE E = 1
  <2>1. G = R /\ G * n = R * n
    BY <1>1, <1>8
  <2>2. Scores!Inputs = rows
    BY <1>1, <1>6, <2>1 DEF Scores!Inputs
  <2>3. DOMAIN rows = 1 .. R * n
    BY <1>1
  <2> QED
    BY <1>1, <1>6, <1>7, <2>1, <2>2, <2>3
<1>9. CASE E # 1
  <2>1. R * n \in Nat \ {0} /\ G * n > R * n /\ G * n = (R * n) * E + 0
    <3> HIDE DEF R, E, G, n
    <3>1. R * n \in Nat \ {0}
      BY <1>1
    <3> DEFINE r == R * n
    <3>2. G * n = E * r
      BY <1>1
    <3>3. r \in Nat \ {0} /\ E >= 2
      BY <1>1, <1>9, <3>1
    <3>4. E * r > r /\ E * r = r * E + 0
      <4> HIDE DEF r
      <4>1. E - 1 \in Nat \ {0} /\ E = (E - 1) + 1 /\ r \in Nat \ {0}
        BY <1>1, <3>3
      <4>2. \A e, x \in Nat : e * x \in Nat /\ (e + 1) * x = e * x + x /\ e * x = x * e
        OBVIOUS
      <4>6. (E - 1) * r # 0
        BY <4>1
      <4>3. (E - 1) * r \in Nat \ {0} /\ ((E - 1) + 1) * r = (E - 1) * r + r
        BY <4>1, <4>2, <4>6
      <4>4. E * r = (E - 1) * r + r /\ E * r = r * E
        BY <1>1, <4>1, <4>2, <4>3
      <4>5. r * E \in Nat
        BY <1>1, <4>1
      <4> QED
        BY <4>1, <4>3, <4>4, <4>5
    <3> QED
      BY <3>1, <3>2, <3>4
  <2>2. (G * n) \div (R * n) = E
    <3> DEFINE r == R * n
    <3>1. 0 \in 0 .. r - 1 /\ r \in Nat \ {0} /\ E \in Nat
      BY <1>1, <2>1
    <3> HIDE DEF r, E, G
    <3>2. (r * E + 0) \div r = E
      BY <3>1, Quotient
    <3> QED
      BY <2>1, <3>2 DEF r
  <2>3. Scores!Inputs = Scores!Repeated(rows, E)
    BY <1>1, <1>6, <1>9, <2>1, <2>2 DEF Scores!Inputs
  <2> HIDE DEF E, G, R, n
  <2>4. EachTimes(Scores!Repeated(rows, E), b, G, n)
    <3>1. n \in Nat /\ R * n <= Len(rows) /\ \A i \in 1 .. R * n : rows[i] = rows[i]
      BY <1>1, <2>1
    <3>2. EachTimes(Scores!Repeated(rows, E), b, R * E, n)
      BY <1>1, <3>1, RepeatedTwice
    <3> QED
      BY <1>1, <3>2, Zenon
  <2>5. Scores!Repeated(rows, E) \in Seq(Scores!Prompts) /\ Len(Scores!Repeated(rows, E)) = E * Len(rows)
    BY <1>1, RepeatedIs
  <2>6. E * Len(rows) = G * n
    BY <1>1, <2>1
  <2>7. DOMAIN Scores!Repeated(rows, E) = 1 .. G * n
    BY <2>5, <2>6
  <2> QED
    BY <1>6, <1>7, <2>3, <2>4, <2>5, <2>6, <2>7 DEF G, n
<1> QED
  BY <1>8, <1>9

\* What a row says that was collected for the k-th output for p.
RowOf(r, p, k) ==
  /\ r.prompt = p /\ r.out = OutOf(p, k)
  /\ (plan.recipe = "minionerec" => plan.keyed) => r.key = p

\* So do the first m rows.
Rowed(s, v, m) ==
  \A q \in 1 .. m : \A k \in 1 .. Scores!Generated : RowOf(s[Scores!Generated * (q - 1) + k], v[q], k)

\* What was collected, with the rows of one more batch.
LEMMA JoinRows ==
  ASSUME PlanIs, NEW D, NEW s \in Seq(D), NEW f \in Seq(D), NEW m \in Nat, NEW n \in Nat, NEW v, NEW b,
         Len(s) = Scores!Generated * m, Len(f) = Scores!Generated * n,
         Rowed(s, v, m), Rowed(f, b, n), \A i \in 1 .. n : v[m + i] = b[i]
  PROVE  /\ s \o f \in Seq(D) /\ Len(s \o f) = Scores!Generated * (m + n)
         /\ Rowed(s \o f, v, m + n)
<1> DEFINE G == Scores!Generated
<1>1. G \in Nat \ {0}
  BY DEF PlanIs
<1>2. /\ s \o f \in Seq(D) /\ Len(s \o f) = G * m + G * n
      /\ \A p \in 1 .. G * m : (s \o f)[p] = s[p]
      /\ \A p \in 1 .. G * n : (s \o f)[G * m + p] = f[p]
  <2>1. /\ s \o f \in Seq(D) /\ Len(s \o f) = Len(s) + Len(f)
        /\ \A p \in 1 .. Len(s) : (s \o f)[p] = s[p]
        /\ \A p \in 1 .. Len(f) : (s \o f)[Len(s) + p] = f[p]
    <3>1. s \o f \in Seq(D) /\ IsJoin(s \o f, s, f)
      BY JoinIs
    <3> QED
      BY <3>1, Zenon DEF IsJoin
  <2>2. Len(s) = G * m /\ Len(f) = G * n
    OBVIOUS
  <2> HIDE DEF G
  <2> QED
    BY <2>1, <2>2, Zenon
<1>3. G * m + G * n = G * (m + n)
  BY <1>1
<1>4. Rowed(s, v, m) <=> \A q \in 1 .. m : \A k \in 1 .. G : RowOf(s[G * (q - 1) + k], v[q], k)
  BY DEF Rowed
<1>5. Rowed(f, b, n) <=> \A q \in 1 .. n : \A k \in 1 .. G : RowOf(f[G * (q - 1) + k], b[q], k)
  BY DEF Rowed
<1> HIDE DEF G
<1>6. ASSUME NEW q \in 1 .. m + n, NEW k \in 1 .. G
      PROVE  RowOf((s \o f)[G * (q - 1) + k], v[q], k)
  <2>1. CASE q <= m
    <3>1. q \in 1 .. m
      BY <2>1
    <3>2. G * (q - 1) + k \in 1 .. G * m
      BY <1>1, <3>1, BlockPlace
    <3> QED
      BY <1>2, <1>4, <3>1, <3>2
  <2>2. CASE q > m
    <3> DEFINE l == q - m
    <3>1. l \in 1 .. n /\ q = m + l
      BY <2>2
    <3> HIDE DEF l
    <3>2. G * (l - 1) \in Nat /\ G * (l - 1) + k \in 1 .. G * n
      BY <1>1, <3>1, BlockPlace
    <3>3. G * (q - 1) + k = G * m + (G * (l - 1) + k)
      BY <1>1, <3>1, <3>2
    <3>4. v[q] = b[l]
      BY <3>1
    <3> QED
      BY <1>2, <1>5, <3>1, <3>2, <3>3, <3>4
  <2>3. q <= m \/ q > m
    OBVIOUS
  <2> QED
    BY Zenon, <2>1, <2>2, <2>3
<1> QED
  BY <1>2, <1>3, <1>6 DEF Rowed, G

\* The rows collected are rows of the prompts.
LEMMA CollectedRows ==
  ASSUME NEW m
  PROVE  Collected(m) <=> /\ \E D : samples \in Seq(D)
                          /\ Len(samples) = Scores!Generated * m
                          /\ Rowed(samples, Whole, m)
BY DEF Collected, Rowed, RowOf

\* cut back and collected,
LEMMA ScoresCollect == ASSUME ScoresInv, Scores!Collect PROVE ScoresInv'
<1> DEFINE G == Scores!Generated
           b == plan.batches[batch]
           n == Len(b)
           m == Before[batch - 1]
           f == [i \in DOMAIN Scores!Inputs |->
                   [prompt |-> Scores!Inputs[i], key |-> Scores!GroupKey(Scores!Inputs[i], i),
                    out |-> Scores!Unpadded[i]]]
<1>1. /\ scoresAt = "collect" /\ plan \in Plans /\ correct \in [Scores!Prompts -> 0 .. 3]
      /\ batch \in 1 .. Len(plan.batches)
      /\ Collected(m) /\ RowsAre /\ OutsAre /\ SumsAre
  BY DEF ScoresInv, Scores!Collect
<1>2. PlanIs /\ BatchesIs /\ BatchRows(b)
  BY <1>1, PlanHolds, BatchesHold, RowsOfBatch
<1>3. /\ Len(Scores!Unpadded) = G * n /\ OutputsOf(Scores!Unpadded, b)
      /\ Len(Scores!Inputs) = G * n /\ DOMAIN Scores!Inputs = 1 .. G * n
      /\ EachTimes(Scores!Inputs, b, G, n)
  <2>1. OutputsOf(outs, b) /\ outs = [i \in 1 .. Scores!EngineRows * Len(padded) |-> outs[i]]
    BY <1>1 DEF OutsAre
  <2> HIDE DEF b
  <2> QED
    BY <1>2, <2>1, CutBack
<1>4. /\ n \in Nat \ {0} /\ m \in Nat /\ Before[batch] = m + n
      /\ \A i \in 1 .. n : Whole[m + i] = b[i]
  BY <1>1, <1>2, BatchIs
<1>5. /\ samples' = samples \o f
      /\ sums' = Scores!SumsAfter(G * n)
      /\ IF batch < Len(plan.batches)
         THEN batch' = batch + 1 /\ scoresAt' = "repeat"
         ELSE UNCHANGED batch /\ scoresAt' = "score"
      /\ UNCHANGED <<plan, correct, rows, padded, outs, scores>>
  <2>1. ~ (Len(Scores!Unpadded) # Len(Scores!Inputs))
    BY <1>3
  <2> HIDE DEF G, n
  <2> QED
    BY <1>3, <2>1 DEF Scores!Collect
<1>6. G \in Nat \ {0} /\ G * n \in Nat
  <2>1. G \in Nat \ {0}
    BY <1>2 DEF PlanIs
  <2> HIDE DEF G, n
  <2> QED
    BY <1>4, <2>1
<1>7. ASSUME NEW q \in 1 .. n, NEW k \in 1 .. G
      PROVE  RowOf(f[G * (q - 1) + k], b[q], k)
  <2> DEFINE t == G * (q - 1) + k
  <2>1. t \in DOMAIN Scores!Inputs /\ Scores!Inputs[t] = b[q] /\ Scores!Unpadded[t] = OutOf(b[q], k)
    BY <1>3 DEF EachTimes, OutputsOf
  <2> HIDE DEF t
  <2>2. f[t] = [prompt |-> b[q], key |-> Scores!GroupKey(b[q], t), out |-> OutOf(b[q], k)]
    BY <2>1
  <2>3. (plan.recipe = "minionerec" => plan.keyed) => Scores!GroupKey(b[q], t) = b[q]
    BY DEF Scores!GroupKey
  <2> HIDE DEF f
  <2>4. f[t].prompt = b[q] /\ f[t].key = Scores!GroupKey(b[q], t) /\ f[t].out = OutOf(b[q], k)
    BY <2>2
  <2> QED
    BY <2>3, <2>4 DEF RowOf, t
<1>8. PICK D : samples \in Seq(D)
  BY <1>1 DEF Collected
<1> DEFINE D2 == D \cup {f[i] : i \in 1 .. G * n}
<1>9. samples \in Seq(D2) /\ f \in Seq(D2) /\ Len(f) = G * n
  <2> DEFINE N == G * n
  <2>1. N \in Nat /\ DOMAIN f = 1 .. N /\ f = [i \in DOMAIN f |-> f[i]]
    BY <1>3, <1>6
  <2>2. D \subseteq D2 /\ \A i \in 1 .. N : f[i] \in D2
    OBVIOUS
  <2> HIDE DEF N, f, D2
  <2>3. f \in [1 .. N -> D2]
    BY <2>1, <2>2
  <2>4. \A M \in Nat : \A g \in [1 .. M -> D2] : g \in Seq(D2) /\ Len(g) = M
    OBVIOUS
  <2>5. f \in Seq(D2) /\ Len(f) = N
    BY Zenon, <2>1, <2>3, <2>4
  <2>6. samples \in Seq(D2)
    BY <1>8, <2>2
  <2> QED
    BY <2>5, <2>6 DEF N
<1>10. Len(samples) = G * m /\ Rowed(samples, Whole, m)
  BY <1>1, CollectedRows DEF Collected
<1>11. Rowed(f, b, n)
  <2> HIDE DEF f, b
  <2> QED
    BY <1>7 DEF Rowed
<1> HIDE DEF f, D2, b, m, n
<1>12. /\ samples' \in Seq(D2) /\ Len(samples') = G * (m + n)
       /\ Rowed(samples', Whole, m + n)
  <2>1. n \in Nat
    BY <1>4
  <2> QED
    BY <1>2, <1>4, <1>5, <1>9, <1>10, <1>11, <2>1, JoinRows
<1>13. Whole' = Whole /\ Before' = Before /\ G' = G
  <2>1. Whole' = Whole
    BY <1>5 DEF Whole
  <2> QED
    BY <1>5, <2>1 DEF Before, Scores!Generated, Scores!Repeats, Scores!EngineRows
<1>14. PICK c : c = m + n
  OBVIOUS
<1>15. Collected(c)'
  <2>1. ASSUME NEW p, NEW k PROVE OutOf(p, k)' = OutOf(p, k)
    BY <1>5 DEF OutOf, Scores!Item
  <2>2. (plan.recipe = "minionerec" => plan.keyed)' <=> (plan.recipe = "minionerec" => plan.keyed)
    BY <1>5
  <2>3. \A q \in 1 .. c : \A k \in 1 .. G :
           LET i == G * (q - 1) + k IN
             /\ samples'[i].prompt = Whole[q] /\ samples'[i].out = OutOf(Whole[q], k)
             /\ (plan.recipe = "minionerec" => plan.keyed) => samples'[i].key = Whole[q]
    BY <1>12, <1>14 DEF Rowed, RowOf
  <2>4. (\E S : samples' \in Seq(S)) /\ Len(samples') = G * c
    BY <1>12, <1>14
  <2> HIDE DEF G
  <2> QED
    BY <1>5, <1>13, <2>1, <2>3, <2>4 DEF Collected, G
<1>16. SumsAre'
  <2>1. Len(samples') = Len(samples) + G * n /\ Len(samples) \in Nat
    <3>1. Len(samples) = G * m /\ G * (m + n) = G * m + G * n /\ G * m \in Nat
      BY <1>4, <1>6, <1>10
    <3> QED
      BY <1>12, <3>1
  <2> DEFINE l == G * n
  <2>2. l \in Nat /\ sums' = Scores!SumsAfter(l) /\ Len(samples') = Len(samples) + l
    BY <1>5, <1>6, <2>1
  <2> HIDE DEF l
  <2>3. CASE plan.recipe # "rankgrpo"
    BY <1>1, <1>5, <2>2, <2>3 DEF SumsAre, Scores!SumsAfter
  <2>4. CASE plan.recipe = "rankgrpo" /\ ~ plan.reward
    BY <1>5, <2>4 DEF SumsAre
  <2>5. CASE plan.recipe = "rankgrpo" /\ plan.reward
    <3>1. sums' = (IF sums = -1 THEN 0 ELSE sums) + l
      BY <2>2, <2>5 DEF Scores!SumsAfter
    <3>2. \/ sums = -1 /\ Len(samples) = 0
          \/ sums = Len(samples)
      BY <1>1, <2>5 DEF SumsAre
    <3>3. sums' = Len(samples')
      BY <2>1, <2>2, <3>1, <3>2
    <3> QED
      BY <1>5, <2>5, <3>3 DEF SumsAre
  <2> QED
    BY <2>3, <2>4, <2>5
<1>17. Len(plan'.batches) = Len(plan.batches) /\ Len(plan.batches) \in Nat
  BY <1>2, <1>5 DEF BatchesIs
<1>18. plan' \in Plans /\ correct' \in [Scores!Prompts -> 0 .. 3]
  BY <1>1, <1>5
<1>19. CASE batch < Len(plan.batches)
  <2>1. batch' = batch + 1 /\ scoresAt' = "repeat"
    BY <1>5, <1>19
  <2>2. batch' \in 1 .. Len(plan.batches) /\ batch' - 1 = batch
    BY <1>1, <1>17, <1>19, <2>1
  <2>3. Before'[batch' - 1] = c
    BY <1>4, <1>13, <1>14, <2>2
  <2>4. Collected(Before[batch - 1])'
    BY <1>15, <2>3 DEF Collected
  <2> QED
    BY <1>16, <1>17, <1>18, <2>1, <2>2, <2>4 DEF ScoresInv
<1>20. CASE ~ (batch < Len(plan.batches))
  <2>1. batch' = batch /\ scoresAt' = "score"
    BY <1>5, <1>20
  <2>2. batch = Len(plan.batches)
    BY <1>1, <1>17, <1>20
  <2>3. Len(Whole) = Before[batch]
    BY <1>2, <2>2 DEF BatchesIs, Laid
  <2>4. Len(Whole') = c
    BY <1>4, <1>13, <1>14, <2>3
  <2>5. Collected(Len(Whole))'
    BY <1>15, <2>4 DEF Collected
  <2> QED
    BY <1>1, <1>16, <1>17, <1>18, <2>1, <2>5 DEF ScoresInv
<1> QED
  BY <1>19, <1>20

\* The rows of a group are those of its prompt, in the order they were generated.
LEMMA MembersAre ==
  ASSUME PlanIs, BatchesIs, Collected(Len(Whole)), plan.recipe = "minionerec" => plan.keyed,
         NEW q \in 1 .. Len(Whole)
  PROVE  Scores!Members(<<Source[Whole[q]], Whole[q]>>)
           = [k \in 1 .. Scores!Generated |-> Scores!Generated * (q - 1) + k]
<1> DEFINE G == Scores!Generated
           N == Len(Whole)
           a == G * (q - 1)
           lo == a + 1
           g == <<Source[Whole[q]], Whole[q]>>
           T == {i \in DOMAIN samples : Scores!GroupOf(i) = g}
<1>1. G \in Nat \ {0} /\ N \in Nat
  BY DEF PlanIs, BatchesIs
<1>2. DOMAIN samples = 1 .. G * N
  BY DEF Collected
<1>3. ASSUME NEW p \in 1 .. N, NEW k \in 1 .. G
      PROVE  Scores!GroupOf(G * (p - 1) + k) = <<Source[Whole[p]], Whole[p]>>
  BY DEF Collected, Scores!GroupOf
<1>4. \A i, j \in 1 .. N : Whole[i] = Whole[j] => i = j
  BY DEF BatchesIs
<1>5. a \in Nat
  <2> HIDE DEF G
  <2> QED
    BY <1>1
<1> HIDE DEF G, N
<1>6. ASSUME NEW i \in T PROVE i \in lo .. lo + G - 1
  <2>1. i \in 1 .. G * N /\ Scores!GroupOf(i) = g
    BY <1>2
  <2>2. PICK p \in 1 .. N, k \in 1 .. G : i = G * (p - 1) + k
    BY <1>1, <2>1, InABlock
  <2>3. Whole[p] = Whole[q]
    BY <1>3, <2>1, <2>2
  <2>4. p = q
    BY <1>4, <2>3 DEF N
  <2>5. i = a + k /\ k \in 1 .. G
    BY <2>2, <2>4
  <2> HIDE DEF a
  <2> QED
    BY <1>1, <1>5, <2>5
<1>7. ASSUME NEW i \in lo .. lo + G - 1 PROVE i \in T
  <2> DEFINE k == i - a
  <2>1. k \in 1 .. G /\ i = a + k
    <3> HIDE DEF a
    <3> QED
      BY <1>1, <1>5
  <2> HIDE DEF k
  <2>2. q \in 1 .. N
    BY DEF N
  <2>3. G * (q - 1) + k \in 1 .. G * N
    BY <1>1, <2>1, <2>2, BlockPlace
  <2>4. Scores!GroupOf(G * (q - 1) + k) = g
    BY <1>3, <2>1, <2>2
  <2> QED
    BY <1>2, <2>1, <2>3, <2>4
<1>8. T = lo .. lo + G - 1
  <2> HIDE DEF T, lo
  <2>1. T \subseteq lo .. lo + G - 1
    BY <1>6
  <2>2. lo .. lo + G - 1 \subseteq T
    BY <1>7
  <2> QED
    BY <2>1, <2>2
<1>9. Scores!Members(g) = Ascending(T)
  <2>1. ASSUME NEW S PROVE Scores!Ascending(S) = Ascending(S)
    BY Zenon DEF Scores!Ascending, Ascending, Scores!Ordered, Ordered, Scores!Cardinality, Cardinality
  <2> HIDE DEF g
  <2> QED
    BY <2>1 DEF Scores!Members
<1> HIDE DEF T, g
<1>10. Ascending(lo .. lo + G - 1) = [k \in 1 .. G |-> lo + k - 1]
  <2>1. lo \in Int /\ G \in Nat
    BY <1>1, <1>5
  <2> HIDE DEF lo
  <2> QED
    BY <2>1, AscendingRun
<1>11. \A k \in 1 .. G : lo + k - 1 = a + k
  <2> HIDE DEF a
  <2> QED
    BY <1>1, <1>5
<1>12. Scores!Members(g) = [k \in 1 .. G |-> a + k]
  <2> HIDE DEF lo, a
  <2> QED
    BY <1>8, <1>9, <1>10, <1>11
<1> QED
  BY <1>12 DEF g, G

\* What a group scores is what its prompt deserves.
LEMMA ScoreIs ==
  ASSUME PlanIs, BatchesIs, Collected(Len(Whole)), plan.recipe = "minionerec" => plan.keyed,
         correct \in [Scores!Prompts -> 0 .. 3], NEW q \in 1 .. Len(Whole)
  PROVE  Scores!ScoreOf(<<Source[Whole[q]], Whole[q]>>) = Scores!Deserved(Whole[q])
<1> DEFINE G == Scores!Generated
           p == Whole[q]
           c == correct[p]
           members == Scores!Members(<<Source[p], p>>)
           hits == Scores!Hits(members)
<1>1. G \in Nat \ {0} /\ p \in Scores!Prompts /\ c \in 0 .. 3
  BY DEF PlanIs, BatchesIs
<1>2. members = [k \in 1 .. G |-> G * (q - 1) + k]
  BY MembersAre
<1>3. Truth[p] # Other[p]
  <2>1. PartsAssumption
    BY PartsAssumption
  <2> QED
    BY <1>1, <2>1 DEF PartsAssumption, Scores!ScoresAssumption
<1> HIDE DEF members
<1>4. ASSUME NEW k \in 1 .. G
      PROVE  /\ samples[members[k]].out[3] = Truth[samples[members[1]].prompt] <=> k = c
  <2>1. members[k] = G * (q - 1) + k /\ members[1] = G * (q - 1) + 1 /\ 1 \in 1 .. G
    <3> HIDE DEF G
    <3> QED
      BY <1>1, <1>2
  <2>2. samples[members[1]].prompt = p /\ samples[members[k]].out = OutOf(p, k)
    BY <2>1 DEF Collected
  <2>3. OutOf(p, k)[3] = Scores!Item(p, k)
    BY DEF OutOf
  <2> HIDE DEF p
  <2> QED
    BY <1>3, <2>2, <2>3 DEF Scores!Item
<1>5. hits = {k \in 1 .. G : k = c}
  <2>1. DOMAIN members = 1 .. G
    BY <1>2
  <2> HIDE DEF G, c
  <2> QED
    BY <1>4, <2>1 DEF Scores!Hits
<1>6. /\ Scores!ScoreOf(<<Source[p], p>>) =
           CASE plan.recipe = "openonerec" -> hits \cap 1 .. Cut # {}
             [] plan.recipe = "minionerec" -> Scores!FirstHit(hits)
             [] plan.recipe = "rankgrpo" -> hits
      /\ Scores!Deserved(p) =
           CASE plan.recipe = "openonerec" -> c \in 1 .. G /\ c <= Cut
             [] plan.recipe = "minionerec" -> IF c \in 1 .. G THEN c ELSE 0
             [] plan.recipe = "rankgrpo" -> IF c \in 1 .. G THEN {c} ELSE {}
  BY Zenon DEF Scores!ScoreOf, Scores!Deserved, members
<1> HIDE DEF hits, G, c, p
<1>7. c \in Nat /\ G \in Nat /\ hits = IF c \in 1 .. G THEN {c} ELSE {}
  BY <1>1, <1>5
<1>8. CASE plan.recipe = "openonerec"
  <2>1. (hits \cap 1 .. Cut # {}) <=> (c \in 1 .. G /\ c <= Cut)
    <3>1. PartsAssumption
      BY PartsAssumption
    <3>2. Cut \in Nat
      BY <3>1 DEF PartsAssumption, Scores!ScoresAssumption
    <3> QED
      BY <1>7, <3>2
  <2> QED
    BY <1>6, <1>8, <2>1 DEF p
<1>9. CASE plan.recipe = "minionerec"
  <2>1. Scores!FirstHit(hits) = IF c \in 1 .. G THEN c ELSE 0
    BY <1>7 DEF Scores!FirstHit
  <2> QED
    BY <1>6, <1>9, <2>1 DEF p
<1>10. CASE plan.recipe = "rankgrpo"
  BY <1>6, <1>7, <1>10 DEF p
<1> QED
  BY <1>8, <1>9, <1>10 DEF PlanIs

\* and the groups are scored.
LEMMA ScoresScore == ASSUME ScoresInv, Scores!Score PROVE ScoresInv'
<1>1. /\ scoresAt = "score" /\ plan \in Plans /\ correct \in [Scores!Prompts -> 0 .. 3]
      /\ batch \in 1 .. Len(plan.batches) /\ Collected(Len(Whole)) /\ SumsAre
  BY DEF ScoresInv, Scores!Score
<1>2. PlanIs /\ BatchesIs
  BY <1>1, PlanHolds, BatchesHold
<1>3. UNCHANGED <<plan, correct, batch, samples, sums>> /\ scoresAt' \in {"done", "failed"}
  BY DEF Scores!Score, Scores!Fail
<1>4. SumsAre'
  BY <1>1, <1>3 DEF SumsAre
<1>5. CASE sums \notin {-1, 0, Len(samples)}
  <2>1. scoresAt' = "failed"
    BY <1>5 DEF Scores!Score, Scores!Fail
  <2>2. plan.recipe = "rankgrpo" /\ ~ plan.reward
    BY <1>1, <1>5 DEF SumsAre
  <2>3. Scores!ScoresBelongToPrompts'
    BY <1>3, <2>1, <2>2 DEF Scores!ScoresBelongToPrompts
  <2> QED
    BY <1>1, <1>3, <1>4, <2>1, <2>3 DEF ScoresInv
<1>6. CASE ~ (sums \notin {-1, 0, Len(samples)})
  <2>1. /\ scoresAt' = "done"
        /\ scores' = [g \in {Scores!GroupOf(i) : i \in DOMAIN samples} |-> Scores!ScoreOf(g)]
    BY <1>6 DEF Scores!Score
  <2>2. ASSUME plan.recipe = "minionerec" => plan.keyed
        PROVE  /\ DOMAIN scores' = {<<Source[p], p>> : p \in Scores!Validated}
               /\ \A p \in Scores!Validated : scores'[<<Source[p], p>>] = Scores!Deserved(p)
               /\ \A i \in DOMAIN samples : samples[i].out[1] = samples[i].prompt
    <3> DEFINE G == Scores!Generated
               N == Len(Whole)
    <3>1. G \in Nat \ {0} /\ N \in Nat /\ DOMAIN samples = 1 .. G * N
      BY <1>1, <1>2 DEF PlanIs, BatchesIs, Collected
    <3>2. \A p : p \in Scores!Validated <=> \E q \in 1 .. N : p = Whole[q]
      <4>1. Scores!Validated = {Whole[q] : q \in DOMAIN Whole}
        <5>1. Scores!FlattenSeq(plan.batches) = Whole
          BY Zenon DEF Scores!FlattenSeq, FlattenSeq, Whole
        <5> QED
          BY <5>1 DEF Scores!Validated, Scores!ToSet
      <4>2. DOMAIN Whole = 1 .. N
        BY <1>2 DEF BatchesIs
      <4> QED
        BY <4>1, <4>2
    <3>3. ASSUME NEW q \in 1 .. N, NEW k \in 1 .. G
          PROVE  LET i == G * (q - 1) + k IN
                   /\ i \in DOMAIN samples
                   /\ Scores!GroupOf(i) = <<Source[Whole[q]], Whole[q]>>
                   /\ samples[i].out[1] = samples[i].prompt
      <4> DEFINE i == G * (q - 1) + k
      <4>1. samples[i].prompt = Whole[q] /\ samples[i].key = Whole[q] /\ samples[i].out = OutOf(Whole[q], k)
        BY <1>1, <2>2 DEF Collected
      <4>2. i \in DOMAIN samples
        <5> HIDE DEF G, N
        <5> QED
          BY <3>1, BlockPlace
      <4>3. OutOf(Whole[q], k)[1] = Whole[q]
        BY DEF OutOf
      <4> HIDE DEF i
      <4>4. Scores!GroupOf(i) = <<Source[Whole[q]], Whole[q]>>
        BY <4>1 DEF Scores!GroupOf
      <4> QED
        BY <4>1, <4>2, <4>3, <4>4 DEF i
    <3> HIDE DEF G, N
    <3>4. ASSUME NEW i \in DOMAIN samples
          PROVE  \E q \in 1 .. N : \E k \in 1 .. G : i = G * (q - 1) + k
      <4>1. i \in 1 .. G * N
        BY <3>1
      <4> QED
        BY <3>1, <4>1, InABlock
    <3>5. ASSUME NEW i \in DOMAIN samples
          PROVE  /\ \E p \in Scores!Validated : Scores!GroupOf(i) = <<Source[p], p>>
                 /\ samples[i].out[1] = samples[i].prompt
      <4>1. PICK q \in 1 .. N, k \in 1 .. G : i = G * (q - 1) + k
        BY <3>4
      <4> QED
        BY <3>2, <3>3, <4>1
    <3>6. ASSUME NEW p \in Scores!Validated
          PROVE  /\ <<Source[p], p>> \in DOMAIN scores'
                 /\ scores'[<<Source[p], p>>] = Scores!Deserved(p)
      <4>1. PICK q \in 1 .. N : p = Whole[q]
        BY <3>2
      <4>2. 1 \in 1 .. G
        BY <3>1
      <4>3. \E i \in DOMAIN samples : Scores!GroupOf(i) = <<Source[p], p>>
        BY <3>3, <4>1, <4>2
      <4>4. Scores!ScoreOf(<<Source[p], p>>) = Scores!Deserved(p)
        BY <1>1, <1>2, <2>2, <4>1, ScoreIs DEF N
      <4> QED
        BY <2>1, <4>3, <4>4
    <3>7. DOMAIN scores' = {Scores!GroupOf(i) : i \in DOMAIN samples}
      BY <2>1
    <3>8. DOMAIN scores' = {<<Source[p], p>> : p \in Scores!Validated}
      BY <3>5, <3>6, <3>7
    <3> QED
      BY <3>5, <3>6, <3>8
  <2>3. Scores!Validated' = Scores!Validated
    BY <1>3 DEF Scores!Validated
  <2>4. ASSUME NEW p PROVE Scores!Deserved(p)' = Scores!Deserved(p)
    BY <1>3 DEF Scores!Deserved, Scores!Generated, Scores!Repeats, Scores!EngineRows
  <2>5. Scores!ScoresBelongToPrompts'
    BY <1>3, <2>1, <2>2, <2>3, <2>4 DEF Scores!ScoresBelongToPrompts
  <2> QED
    BY <1>1, <1>3, <1>4, <2>1, <2>5 DEF ScoresInv
<1> QED
  BY <1>5, <1>6

\* A step of another part changes none of it.
LEMMA ScoresReads == ASSUME ScoresInv, UNCHANGED scoresVars PROVE ScoresInv'
<1>1. UNCHANGED <<plan, correct, batch, rows, padded, outs, samples, sums, scores, scoresAt>>
  BY DEF scoresVars
<1>2. Whole' = Whole /\ Scores!Generated' = Scores!Generated /\ Scores!Repeats' = Scores!Repeats
      /\ Scores!EngineRows' = Scores!EngineRows
  BY <1>1 DEF Whole, Scores!Generated, Scores!Repeats, Scores!EngineRows
<1>3. Before' = Before
  BY <1>1, <1>2 DEF Before
<1>4. ASSUME NEW p, NEW k PROVE OutOf(p, k)' = OutOf(p, k)
  BY <1>1 DEF OutOf, Scores!Item
<1>5. Collected(Before[batch - 1])' <=> Collected(Before[batch - 1])
  BY <1>1, <1>2, <1>3, <1>4 DEF Collected
<1>6. Collected(Len(Whole))' <=> Collected(Len(Whole))
  BY <1>1, <1>2, <1>3, <1>4 DEF Collected
<1>7. (RowsAre' <=> RowsAre) /\ (OutsAre' <=> OutsAre)
  BY <1>1, <1>2, <1>4 DEF RowsAre, OutsAre, OutputsOf, Scores!Repeated, Scores!PaddedTo
<1>8. (SumsAre' <=> SumsAre)
  BY <1>1 DEF SumsAre
<1>9. ASSUME NEW p PROVE Scores!Deserved(p)' = Scores!Deserved(p)
  BY <1>1, <1>2 DEF Scores!Deserved
<1>10. Scores!Validated' = Scores!Validated
  BY <1>1 DEF Scores!Validated
<1>11. Scores!ScoresBelongToPrompts' <=> Scores!ScoresBelongToPrompts
  BY <1>1, <1>9, <1>10 DEF Scores!ScoresBelongToPrompts
<1> QED
  BY <1>1, <1>5, <1>6, <1>7, <1>8, <1>11 DEF ScoresInv

\* So every step keeps it.
LEMMA ScoresNext == ASSUME ScoresInv, Scores!Next PROVE ScoresInv'
BY ScoresRepeat, ScoresGenerate, ScoresCollect, ScoresScore DEF Scores!Next

\* In every validation a prompt is scored by what was generated from it, by all of it
\* and in its order, and in training the beams of a prompt are paid by these alone.
THEOREM ScoresAlwaysBelongToPrompts == Spec => []ScoresBelongToPrompts
<1>1. Init => (part = "scores" => ScoresInv)
  BY ScoresInit DEF Init
<1>2. (part = "scores" => ScoresInv) /\ [Next]_vars => (part = "scores" => ScoresInv)'
  <2> SUFFICES ASSUME part = "scores" => ScoresInv, [Next]_vars, part' = "scores"
               PROVE  ScoresInv'
    OBVIOUS
  <2>1. part = "scores" /\ (Scores!Next \/ UNCHANGED scoresVars)
    BY Zenon DEF Next, vars, SetupStep, RowsStep, BeamStep, HFStep, LogpsStep, FitStep,
           RewardsStep, ScoresStep, EvalStep
  <2>2. CASE UNCHANGED scoresVars
    BY <2>1, <2>2, ScoresReads
  <2> QED
    BY <2>1, <2>2, ScoresNext
<1>3. (part = "scores" => ScoresInv) => (part = "scores" => Scores!ScoresBelongToPrompts)
  <2> SUFFICES ASSUME part = "scores", ScoresInv PROVE Scores!ScoresBelongToPrompts
    OBVIOUS
  <2>1. CASE scoresAt \in {"done", "failed"}
    BY <2>1 DEF ScoresInv
  <2>2. CASE scoresAt \notin {"done", "failed"}
    BY <2>2 DEF Scores!ScoresBelongToPrompts
  <2> QED
    BY <2>1, <2>2
<1>4. Spec => [](part = "scores" => Scores!ScoresBelongToPrompts)
  BY <1>1, <1>2, <1>3, PTL DEF Spec
<1>5. ScoresBelongToPrompts <=>
        /\ part = "scores" => Scores!ScoresBelongToPrompts
        /\ part = "rewards" => Rewards!RewardsStayInTheGroup
  BY DEF ScoresBelongToPrompts
<1> QED
  BY <1>4, <1>5, RewardsAlwaysStayInTheGroup, PTL
===============================================================================
