------------------------------ MODULE BeamProofs ------------------------------
(*****************************************************************************)
(* What RunParts says of the asynchronous beam search of the native servers  *)
(* (part "beam"), for every catalogue, engine, mode, width and number of     *)
(* tokens.                                                                   *)
(*                                                                           *)
(* The invariant has the beams of a step at one length, apart from each      *)
(* other, and under a constraint in the tree: each follows the tokens of an  *)
(* item.  No beam is lost: those that ended, those that are expanded and     *)
(* those that wait are at least as many as the width, or every item still    *)
(* has one of them.                                                          *)
(*****************************************************************************)
EXTENDS RunParts, SetLemmas

-------------------------------------------------------------------------------
(* Parts of sequences.                                                       *)

\* t has what s has at the places P, each once and in order.
HasPlaces(t, s, P) ==
  /\ Len(t) \in Nat /\ Len(t) = Cardinality(P)
  /\ \E o \in [1 .. Len(t) -> P] :
       /\ \A k \in 1 .. Len(t) : t[k] = s[o[k]]
       /\ \A k, l \in 1 .. Len(t) : o[k] = o[l] => k = l
       /\ \A p \in P : \E k \in 1 .. Len(t) : o[k] = p

\* Places of a sequence are finitely many.
LEMMA PlacesAreFinite ==
  ASSUME NEW n \in Nat, NEW P \in SUBSET (1 .. n)
  PROVE  P \in SUBSET Int /\ IsFiniteSet(P) /\ Cardinality(P) \in Nat /\ Cardinality(P) <= n
<1>1. IsFiniteSet(1 .. n) /\ Cardinality(1 .. n) = n
  BY FS_Interval
<1>2. IsFiniteSet(P) /\ Cardinality(P) <= Cardinality(1 .. n)
  BY <1>1, FS_Subset
<1> QED
  BY <1>1, <1>2, FS_CardinalityType

\* At takes those places.
LEMMA AtHasPlaces ==
  ASSUME NEW D, NEW s \in Seq(D), NEW P \in SUBSET (1 .. Len(s))
  PROVE  At(s, P) \in Seq(D) /\ HasPlaces(At(s, P), s, P)
<1> DEFINE o == Ascending(P)
           n == Cardinality(P)
           t == At(s, P)
<1>1. P \in SUBSET Int /\ IsFiniteSet(P) /\ \A p \in P : s[p] \in D
  <2>1. Len(s) \in Nat
    OBVIOUS
  <2> QED
    BY <2>1, PlacesAreFinite
<1>2. /\ n \in Nat /\ o \in [1 .. n -> P]
      /\ \A k, l \in 1 .. n : k < l => o[k] < o[l]
      /\ \A x \in P : \E k \in 1 .. n : o[k] = x
  BY <1>1, AscendingIs
<1>3. t = [k \in DOMAIN o |-> s[o[k]]]
  BY DEF At
<1> HIDE DEF o, n, t
<1>4. t \in [1 .. n -> D] /\ \A k \in 1 .. n : t[k] = s[o[k]]
  BY <1>1, <1>2, <1>3
<1>5. t \in Seq(D) /\ Len(t) = n
  BY <1>2, <1>4
<1>6. ASSUME NEW k \in 1 .. n, NEW l \in 1 .. n, o[k] = o[l] PROVE k = l
  <2>1. o[k] \in Int
    BY <1>1, <1>2
  <2>2. ~ (k < l) /\ ~ (l < k)
    BY <1>2, <1>6, <2>1
  <2> QED
    BY <1>2, <2>2
<1>7. HasPlaces(t, s, P)
  BY <1>2, <1>4, <1>5, <1>6 DEF HasPlaces, n
<1> QED
  BY <1>5, <1>7 DEF t

\* t has w of what s has, or all if that is less, each once.
Chosen(t, s, w) ==
  /\ Len(t) \in Nat /\ Len(t) <= w /\ Len(t) <= Len(s) /\ (Len(t) = w \/ Len(t) = Len(s))
  /\ \E o \in [1 .. Len(t) -> 1 .. Len(s)] :
       /\ \A k \in 1 .. Len(t) : t[k] = s[o[k]]
       /\ \A k, l \in 1 .. Len(t) : o[k] = o[l] => k = l

\* o gives each of n places a number of its own, up to n.
Places(o, n) == /\ o \in [1 .. n -> 1 .. n]
                /\ \A k, l \in 1 .. n : o[k] = o[l] => k = l

\* Then every number is given.
LEMMA AllPlaces ==
  \A n \in Nat : \A o : Places(o, n) => \A i \in 1 .. n : \E k \in 1 .. n : o[k] = i
<1>1. SUFFICES ASSUME NEW n \in Nat, NEW o, Places(o, n)
               PROVE  \A i \in 1 .. n : \E k \in 1 .. n : o[k] = i
  OBVIOUS
<1>2. o \in Injection(1 .. n, 1 .. n)
  BY <1>1 DEF Injection, IsInjective, Places
<1>3. IsFiniteSet(1 .. n)
  BY FS_Interval
<1>4. o \in Surjection(1 .. n, 1 .. n)
  BY <1>2, <1>3, FS_Injection
<1> QED
  BY <1>4 DEF Surjection

\* So what is chosen of no more than w are all.
LEMMA AllAreChosen ==
  ASSUME NEW t, NEW s, NEW w \in Nat, Len(s) \in Nat, Chosen(t, s, w), Len(s) <= w
  PROVE  Len(t) = Len(s) /\ \A i \in 1 .. Len(s) : \E k \in 1 .. Len(t) : t[k] = s[i]
<1>1. Len(t) = Len(s)
  BY DEF Chosen
<1>2. PICK o \in [1 .. Len(t) -> 1 .. Len(s)] :
        /\ \A k \in 1 .. Len(t) : t[k] = s[o[k]]
        /\ \A k, l \in 1 .. Len(t) : o[k] = o[l] => k = l
  BY DEF Chosen
<1>3. ASSUME NEW i \in 1 .. Len(s) PROVE \E k \in 1 .. Len(t) : t[k] = s[i]
  <2>0. Places(o, Len(s))
    BY <1>1, <1>2 DEF Places
  <2>1. \A j \in 1 .. Len(s) : \E k \in 1 .. Len(s) : o[k] = j
    BY <2>0, AllPlaces
  <2> PICK k \in 1 .. Len(s) : o[k] = i
    BY <2>1
  <2>2. k \in 1 .. Len(t)
    BY <1>1
  <2>3. t[k] = s[o[k]]
    BY <1>2, <2>2, Zenon
  <2> QED
    BY <2>2, <2>3, Zenon
<1> QED
  BY <1>1, <1>3

-------------------------------------------------------------------------------
(* BeamSearch: the catalogue and the constraint.                             *)

\* What is assumed of the constants.
LEMMA BeamAssumption ==
  /\ IsFiniteSet(Catalogue) /\ Catalogue # {} /\ EOS \in Nat
  /\ \A item \in Catalogue : item \in Seq(0 .. EOS - 1) /\ Len(item) \in Nat \ {0}
  /\ Logprob \subseteq Int /\ PromptLen \in Nat /\ Divisor \in Seq(Nat \ {0})
  /\ Calls \subseteq Beam!Call /\ \A c \in Calls : PromptLen + c.budget < Len(Divisor)
<1>1. PartsAssumption
  BY PartsAssumption
<1>2. Beam!ConstantsAssumption
  BY <1>1, Zenon DEF PartsAssumption
<1>3. Beam!IsFiniteSet(Catalogue) <=> IsFiniteSet(Catalogue)
  BY Zenon DEF Beam!IsFiniteSet, IsFiniteSet
<1>4. \A s \in Seq(0 .. EOS - 1) : s # <<>> => Len(s) \in Nat \ {0}
  OBVIOUS
<1> QED
  BY <1>2, <1>3, <1>4 DEF Beam!ConstantsAssumption

\* s begins like the item and then has EOS only.
Follows(s, item) ==
  \A i \in 1 .. Len(s) : s[i] = IF i <= Len(item) THEN item[i] ELSE EOS

\* The EOS are where the item has ended.
LEMMA WhereEOSIs ==
  ASSUME NEW item \in Catalogue, NEW s, Follows(s, item), NEW i \in 1 .. Len(s), Len(s) \in Nat
  PROVE  s[i] = EOS <=> i > Len(item)
<1>1. item \in Seq(0 .. EOS - 1) /\ Len(item) \in Nat /\ EOS \in Nat
  BY BeamAssumption
<1>2. \A j \in 1 .. Len(item) : item[j] \in 0 .. EOS - 1
  BY <1>1
<1>3. s[i] = IF i <= Len(item) THEN item[i] ELSE EOS
  BY DEF Follows
<1> QED
  BY <1>1, <1>2, <1>3

\* An item and its EOS.
LEMMA EndedIs ==
  ASSUME NEW item \in Catalogue
  PROVE  /\ Len(Append(item, EOS)) = Len(item) + 1
         /\ \A i \in 1 .. Len(item) : Append(item, EOS)[i] = item[i]
         /\ Append(item, EOS)[Len(item) + 1] = EOS
         /\ Append(item, EOS) \in Seq(0 .. EOS)
<1>1. item \in Seq(0 .. EOS - 1) /\ EOS \in Nat
  BY BeamAssumption
<1>2. item \in Seq(0 .. EOS) /\ EOS \in 0 .. EOS
  <2>1. 0 .. EOS - 1 \subseteq 0 .. EOS
    BY <1>1
  <2> QED
    BY <1>1, <2>1
<1> QED
  BY <1>2

\* The tokens are numbers up to the EOS.
LEMMA TokenIs ==
  /\ Beam!Token \in SUBSET (0 .. EOS) /\ EOS \in Beam!Token
  /\ \A item \in Catalogue : item \in Seq(Beam!Token)
  /\ IsFiniteSet(Beam!Token)
<1>0. EOS \in Nat
  BY BeamAssumption
<1>1. EOS \in Nat /\ EOS \in Beam!Token
  BY <1>0 DEF Beam!Token
<1>2. ASSUME NEW item \in Catalogue
      PROVE  item \in Seq(Beam!Token) /\ Beam!Range(item) \in SUBSET (0 .. EOS)
  <2>1. item \in Seq(0 .. EOS - 1)
    BY BeamAssumption
  <2>2. item \in [1 .. Len(item) -> 0 .. EOS - 1] /\ Len(item) \in Nat
    BY <2>1, LenProperties
  <2>3. \A i \in 1 .. Len(item) : item[i] \in Beam!Range(item)
    BY <2>2 DEF Beam!Range
  <2>4. Beam!Range(item) \in SUBSET (0 .. EOS)
    BY <1>1, <2>2 DEF Beam!Range
  <2>5. Beam!Range(item) \subseteq Beam!Token
    BY DEF Beam!Token
  <2>6. item \in [1 .. Len(item) -> Beam!Token]
    <3> HIDE DEF Beam!Token, Beam!Range
    <3> QED
      BY <2>2, <2>3, <2>5
  <2> QED
    BY <2>2, <2>4, <2>6
<1>3. Beam!Token \in SUBSET (0 .. EOS)
  <2> SUFFICES ASSUME NEW t \in Beam!Token PROVE t \in 0 .. EOS
    OBVIOUS
  <2>1. CASE t = EOS
    BY <1>1, <2>1
  <2>2. CASE t # EOS
    <3>1. PICK item \in Catalogue : t \in Beam!Range(item)
      BY <2>2 DEF Beam!Token
    <3> QED
      BY <1>2, <3>1
  <2> QED
    BY <2>1, <2>2
<1>4. IsFiniteSet(0 .. EOS)
  BY <1>1, FS_Interval
<1> QED
  BY <1>1, <1>2, <1>3, <1>4, FS_Subset

\* What is a prefix of an ended item follows the item.
LEMMA PrefixIs ==
  ASSUME NEW item \in Catalogue, NEW s \in Seq(0 .. EOS)
  PROVE  /\ Beam!IsPrefix(s, Append(item, EOS)) <=> Len(s) <= Len(item) + 1 /\ Follows(s, item)
         /\ Beam!IsStrictPrefix(s, Append(item, EOS)) <=> Len(s) <= Len(item) /\ Follows(s, item)
<1> DEFINE e == Append(item, EOS)
           n == Len(s)
           m == Len(item)
<1>1. /\ Len(e) = m + 1 /\ \A i \in 1 .. m : e[i] = item[i]
      /\ e[m + 1] = EOS /\ e \in Seq(0 .. EOS)
  BY EndedIs
<1>2. n \in Nat /\ m \in Nat
  BY BeamAssumption
<1> HIDE DEF e, n, m
<1>3. Follows(s, item) <=> \A i \in 1 .. n : s[i] = IF i <= m THEN item[i] ELSE EOS
  BY DEF Follows, n, m
<1>4. n <= m + 1 => (Follows(s, item) <=> \A i \in 1 .. n : s[i] = e[i])
  <2>1. ASSUME NEW i \in 1 .. n, n <= m + 1 PROVE e[i] = IF i <= m THEN item[i] ELSE EOS
    <3>1. i \in 1 .. m \/ i = m + 1
      BY <1>2, <2>1
    <3> QED
      BY <1>1, <1>2, <3>1
  <2> QED
    BY <1>3, <2>1
<1>5. ASSUME n <= m + 1
      PROVE  SubSeq(s, 1, n) = SubSeq(e, 1, n) <=> \A i \in 1 .. n : s[i] = e[i]
  <2>1. SubSeq(s, 1, n) = [i \in 1 .. n |-> s[i]]
    BY <1>2 DEF n
  <2>2. SubSeq(e, 1, n) = [i \in 1 .. n |-> e[i]]
    BY <1>1, <1>2, <1>5
  <2> QED
    BY <2>1, <2>2
<1>6. Beam!IsPrefix(s, e) <=> n <= m + 1 /\ Follows(s, item)
  BY <1>1, <1>2, <1>4, <1>5 DEF Beam!IsPrefix, n
<1>7. ASSUME n <= m + 1, \A i \in 1 .. n : s[i] = e[i] PROVE s = e <=> n = m + 1
  <2>1. s = e => n = m + 1
    BY <1>1 DEF n
  <2>2. n = m + 1 => s = e
    BY <1>1, <1>7, SeqEqual DEF n
  <2> QED
    BY <2>1, <2>2
<1>8. Beam!IsStrictPrefix(s, e) <=> n <= m /\ Follows(s, item)
  BY <1>2, <1>4, <1>6, <1>7 DEF Beam!IsStrictPrefix
<1> QED
  BY <1>6, <1>8 DEF e, n, m

\* The beginnings of an item are open: they have no EOS.
NextOf(s) == {t[Len(s) + 1] : t \in {u \in Beam!Spelled : Beam!IsStrictPrefix(s, u)}}

\* What may follow a sequence.
LEMMA NextIs ==
  ASSUME NEW s \in Seq(0 .. EOS)
  PROVE  /\ Beam!Allowed(s) = IF NextOf(s) = {} THEN {EOS} ELSE NextOf(s)
         /\ \A t : t \in NextOf(s) <=>
              \E item \in Catalogue : Len(s) <= Len(item) /\ Follows(s, item)
                                      /\ t = Append(item, EOS)[Len(s) + 1]
<1>1. Beam!Allowed(s) = IF NextOf(s) = {} THEN {EOS} ELSE NextOf(s)
  BY Zenon DEF Beam!Allowed, NextOf
<1>2. \A t : t \in NextOf(s) <=>
        \E item \in Catalogue : Beam!IsStrictPrefix(s, Append(item, EOS)) /\ t = Append(item, EOS)[Len(s) + 1]
  BY DEF NextOf, Beam!Spelled
<1> QED
  BY <1>1, <1>2, PrefixIs

\* A sequence with t after it.
LEMMA ExtendedFollows ==
  ASSUME NEW item \in Catalogue, NEW s \in Seq(0 .. EOS), NEW t
  PROVE  Follows(Append(s, t), item) <=>
           Follows(s, item) /\ t = IF Len(s) + 1 <= Len(item) THEN item[Len(s) + 1] ELSE EOS
<1> DEFINE n == Len(s)
<1>1. n \in Nat
  OBVIOUS
<1>2. Len(Append(s, t)) = n + 1 /\ (\A i \in 1 .. n : Append(s, t)[i] = s[i]) /\ Append(s, t)[n + 1] = t
  <2> DEFINE D == 0 .. EOS \cup {t}
  <2>1. s \in Seq(D) /\ t \in D
    BY SeqMonotonic
  <2> HIDE DEF D
  <2> QED
    BY <2>1
<1> HIDE DEF n
<1>3. 1 .. n + 1 = 1 .. n \cup {n + 1}
  BY <1>1
<1> QED
  BY <1>1, <1>2, <1>3 DEF Follows, n

\* An allowed token leads on to an item.
LEMMA AllowedLeads ==
  ASSUME NEW item \in Catalogue, NEW s \in Seq(0 .. EOS), Follows(s, item), NEW t \in Beam!Allowed(s)
  PROVE  \E other \in Catalogue :
           Follows(Append(s, t), other) /\ (Len(s) <= Len(item) => Len(s) <= Len(other))
<1>1. Len(s) \in Nat /\ \A i \in Catalogue : Len(i) \in Nat
  BY BeamAssumption
<1>2. CASE NextOf(s) # {}
  <2>1. PICK other \in Catalogue : Len(s) <= Len(other) /\ Follows(s, other)
                                   /\ t = Append(other, EOS)[Len(s) + 1]
    BY <1>2, NextIs
  <2>2. t = IF Len(s) + 1 <= Len(other) THEN other[Len(s) + 1] ELSE EOS
    <3>1. Len(s) + 1 \in 1 .. Len(other) \/ Len(s) + 1 = Len(other) + 1
      BY <1>1, <2>1
    <3> QED
      BY <1>1, <2>1, <3>1, EndedIs
  <2> QED
    BY <2>1, <2>2, ExtendedFollows
<1>3. CASE NextOf(s) = {}
  <2>1. t = EOS
    BY <1>3, NextIs
  <2>2. ~ (Len(s) <= Len(item))
    BY <1>3, NextIs
  <2>3. ~ (Len(s) + 1 <= Len(item))
    BY <1>1, <2>2
  <2> QED
    BY <2>1, <2>2, <2>3, ExtendedFollows
<1> QED
  BY <1>2, <1>3

\* The tokens of every item the sequence follows are allowed.
LEMMA AllowedHasAll ==
  ASSUME NEW item \in Catalogue, NEW s \in Seq(0 .. EOS), Follows(s, item)
  PROVE  \E t \in Beam!Allowed(s) : Follows(Append(s, t), item)
<1>1. Len(s) \in Nat /\ \A i \in Catalogue : Len(i) \in Nat
  BY BeamAssumption
<1>2. CASE Len(s) <= Len(item)
  <2> DEFINE t == Append(item, EOS)[Len(s) + 1]
  <2>1. t \in NextOf(s)
    BY <1>2, NextIs
  <2>2. t \in Beam!Allowed(s)
    BY <2>1, NextIs
  <2>3. t = IF Len(s) + 1 <= Len(item) THEN item[Len(s) + 1] ELSE EOS
    <3>1. Len(s) + 1 \in 1 .. Len(item) \/ Len(s) + 1 = Len(item) + 1
      BY <1>1, <1>2
    <3> QED
      BY <1>1, <3>1, EndedIs
  <2> HIDE DEF t
  <2> QED
    BY <2>2, <2>3, ExtendedFollows
<1>3. CASE ~ (Len(s) <= Len(item))
  <2>1. ASSUME NEW t \in NextOf(s) PROVE FALSE
    <3>1. PICK other \in Catalogue : Len(s) <= Len(other) /\ Follows(s, other)
      BY NextIs
    <3>2. Len(item) + 1 \in 1 .. Len(s)
      BY <1>1, <1>3
    <3>3. s[Len(item) + 1] = EOS
      BY <1>1, <3>2, WhereEOSIs
    <3>4. Len(item) + 1 > Len(other)
      BY <1>1, <3>1, <3>2, <3>3, WhereEOSIs
    <3> QED
      BY <1>1, <3>1, <3>2, <3>4
  <2>2. Beam!Allowed(s) = {EOS}
    BY <2>1, NextIs
  <2>3. EOS = IF Len(s) + 1 <= Len(item) THEN item[Len(s) + 1] ELSE EOS
    BY <1>1, <1>3
  <2> QED
    BY <2>2, <2>3, ExtendedFollows
<1> QED
  BY <1>2, <1>3

\* Some token is always allowed.
LEMMA AllowedIs ==
  ASSUME NEW s \in Seq(0 .. EOS)
  PROVE  Beam!Allowed(s) \in SUBSET Beam!Token /\ Beam!Allowed(s) # {}
<1>1. ASSUME NEW t \in NextOf(s) PROVE t \in Beam!Token
  <2>1. PICK item \in Catalogue : Len(s) <= Len(item) /\ t = Append(item, EOS)[Len(s) + 1]
    BY NextIs
  <2>2. Len(s) \in Nat /\ Len(item) \in Nat /\ item \in Seq(Beam!Token)
    BY BeamAssumption, TokenIs
  <2>3. Len(s) + 1 \in 1 .. Len(item) \/ Len(s) + 1 = Len(item) + 1
    BY <2>1, <2>2
  <2>4. \A i \in 1 .. Len(item) : item[i] \in Beam!Token
    BY <2>2
  <2> QED
    BY <2>1, <2>2, <2>3, <2>4, EndedIs, TokenIs
<1> QED
  BY <1>1, NextIs, TokenIs

-------------------------------------------------------------------------------
(* BeamSearch: the scores.                                                   *)

\* Products of integers, and what may be cancelled.
LEMMA Product == \A a, b \in Int : a * b \in Int
OBVIOUS

\* A positive factor keeps the order.
LEMMA Cancelled ==
  ASSUME NEW p \in Int, NEW q \in Int, NEW y \in Nat \ {0}
  PROVE  /\ p * y >= q * y => p >= q
         /\ p * y > q * y => p > q
         /\ p >= q => p * y >= q * y
         /\ p > q => p * y > q * y
<1>1. p >= q => p * y >= q * y
  <2>1. \A d \in Nat : (q + d) * y = q * y + d * y /\ d * y \in Nat
    OBVIOUS
  <2>2. p >= q => p - q \in Nat /\ p = q + (p - q)
    OBVIOUS
  <2>3. p >= q => p * y = q * y + (p - q) * y /\ (p - q) * y \in Nat
    BY <2>1, <2>2
  <2> QED
    BY <2>3, Product
<1>2. p > q => p * y > q * y
  <2>1. \A d \in Nat \ {0} : (q + d) * y = q * y + d * y
    OBVIOUS
  <2>4. \A d \in Nat \ {0} : d * y \in Nat \ {0}
    OBVIOUS
  <2>2. p > q => p - q \in Nat \ {0} /\ p = q + (p - q)
    OBVIOUS
  <2>3. p > q => p * y = q * y + (p - q) * y /\ (p - q) * y \in Nat \ {0}
    BY <2>1, <2>2, <2>4
  <2> QED
    BY <2>3, Product
<1>3. q > p => q * y > p * y
  <2>1. \A d \in Nat \ {0} : (p + d) * y = p * y + d * y
    OBVIOUS
  <2>4. \A d \in Nat \ {0} : d * y \in Nat \ {0}
    OBVIOUS
  <2>2. q > p => q - p \in Nat \ {0} /\ q = p + (q - p)
    OBVIOUS
  <2>3. q > p => q * y = p * y + (q - p) * y /\ (q - p) * y \in Nat \ {0}
    BY <2>1, <2>2, <2>4
  <2> QED
    BY <2>3, Product
<1>4. p * y \in Int /\ q * y \in Int
  BY Product
<1>5. p = q => p * y = q * y
  OBVIOUS
<1> QED
  BY <1>1, <1>2, <1>3, <1>4, <1>5

\* A quotient that is larger than one is larger than what this is larger than.
LEMMA Quotients ==
  ASSUME NEW a \in Int, NEW b \in Int, NEW c \in Int,
         NEW x \in Nat \ {0}, NEW y \in Nat \ {0}, NEW z \in Nat \ {0},
         a * y >= b * x, b * z >= c * y
  PROVE  /\ a * z >= c * x
         /\ a * y > b * x \/ b * z > c * y => a * z > c * x
<1>1. a * y \in Int /\ b * x \in Int /\ b * z \in Int /\ c * y \in Int /\ a * z \in Int /\ c * x \in Int
  BY Product
<1>2. (a * y) * z >= (b * x) * z /\ (b * z) * x >= (c * y) * x
      /\ (a * y > b * x => (a * y) * z > (b * x) * z) /\ (b * z > c * y => (b * z) * x > (c * y) * x)
  BY <1>1, Cancelled
<1>3. (a * y) * z = (a * z) * y /\ (b * x) * z = (b * z) * x /\ (c * y) * x = (c * x) * y
  OBVIOUS
<1>4. (a * z) * y \in Int /\ (b * z) * x \in Int /\ (c * x) * y \in Int
  BY <1>1, Product
<1>5. /\ (a * z) * y >= (c * x) * y
      /\ a * y > b * x \/ b * z > c * y => (a * z) * y > (c * x) * y
  BY <1>2, <1>3, <1>4
<1> QED
  BY <1>1, <1>5, Cancelled

\* The beams of the search.
Beams == [tokens : Seq(Beam!Token), total : Int]

\* Beams whose lengths have a divisor.
Scored(bs) ==
  \A i \in 1 .. Len(bs) : Divisor[Beam!Length(bs[i])] \in Nat \ {0}

\* The length of a beam within the budget has a divisor.
LEMMA LengthIs ==
  ASSUME call \in Calls, NEW b \in Beams, Len(b.tokens) <= call.budget
  PROVE  Divisor[Beam!Length(b)] \in Nat \ {0}
<1>1. call.budget \in Nat /\ PromptLen \in Nat /\ PromptLen + call.budget < Len(Divisor)
      /\ Divisor \in Seq(Nat \ {0})
  BY BeamAssumption DEF Beam!Call
<1>2. Len(b.tokens) \in Nat
  BY DEF Beams
<1>3. Beam!Length(b) \in 1 .. Len(Divisor)
  <2>1. Beam!EndsInEOS(b) => Len(b.tokens) >= 1
    BY DEF Beam!EndsInEOS, Beams
  <2>2. Len(Divisor) \in Nat
    BY <1>1
  <2>3. \A D, l, P, B \in Nat : P + B < D /\ l <= B =>
          /\ P + l - 0 \in Int
          /\ (IF P + l - 0 < 1 THEN 1 ELSE P + l - 0) \in 1 .. D
          /\ l >= 1 => P + l - 1 \in Int
                       /\ (IF P + l - 1 < 1 THEN 1 ELSE P + l - 1) \in 1 .. D
    OBVIOUS
  <2>4. CASE Beam!EndsInEOS(b)
    <3>1. Beam!Length(b) = IF PromptLen + Len(b.tokens) - 1 < 1 THEN 1 ELSE PromptLen + Len(b.tokens) - 1
      BY <2>4, Zenon DEF Beam!Length
    <3> QED
      BY <1>1, <1>2, <2>1, <2>2, <2>3, <2>4, <3>1
  <2>5. CASE ~Beam!EndsInEOS(b)
    <3>1. Beam!Length(b) = IF PromptLen + Len(b.tokens) - 0 < 1 THEN 1 ELSE PromptLen + Len(b.tokens) - 0
      BY <2>5, Zenon DEF Beam!Length
    <3> QED
      BY <1>1, <1>2, <2>2, <2>3, <3>1
  <2> QED
    BY <2>4, <2>5
<1> QED
  BY <1>1, <1>3

\* The order of the stable sort.
Earlier(bs) ==
  {p \in (DOMAIN bs) \X (DOMAIN bs) :
     \/ Beam!Outscores(bs[p[1]], bs[p[2]])
     \/ ~Beam!Outscores(bs[p[2]], bs[p[1]]) /\ p[1] < p[2]}

\* It is one.
LEMMA EarlierIsStrict ==
  ASSUME NEW bs \in Seq(Beams), Scored(bs)
  PROVE  Strict(DOMAIN bs, Earlier(bs))
<1> DEFINE v(i) == bs[i].total
           w(i) == Divisor[Beam!Length(bs[i])]
           n == Len(bs)
<1>1. n \in Nat /\ DOMAIN bs = 1 .. n
  OBVIOUS
<1>2. ASSUME NEW i \in 1 .. n PROVE v(i) \in Int /\ w(i) \in Nat \ {0}
  <2>1. bs[i] \in Beams
    OBVIOUS
  <2> QED
    BY <2>1 DEF Scored, Beams
<1>3. ASSUME NEW i \in 1 .. n, NEW j \in 1 .. n
      PROVE  Beam!Outscores(bs[i], bs[j]) <=> v(i) * w(j) > v(j) * w(i)
  BY DEF Beam!Outscores
<1>4. \A i, j \in 1 .. n :
        <<i, j>> \in Earlier(bs) <=>
          \/ v(i) * w(j) > v(j) * w(i)
          \/ ~(v(j) * w(i) > v(i) * w(j)) /\ i < j
  BY <1>1, <1>3 DEF Earlier
<1> HIDE DEF v, w, n
<1>5. \A i, j \in 1 .. n : v(i) * w(j) \in Int
  <2>1. \A i \in 1 .. n : v(i) \in Int /\ w(i) \in Int
    BY <1>2
  <2> QED
    BY <2>1, Product
<1>6. \A i \in 1 .. n : <<i, i>> \notin Earlier(bs)
  BY <1>1, <1>4, <1>5
<1>7. ASSUME NEW i \in 1 .. n, NEW j \in 1 .. n
      PROVE  i = j \/ <<i, j>> \in Earlier(bs) \/ <<j, i>> \in Earlier(bs)
  <2>1. i = j \/ i < j \/ j < i
    BY <1>1
  <2>2. \A a, b \in Int : a > b \/ b > a \/ (~ (a > b) /\ ~ (b > a))
    OBVIOUS
  <2>3. \/ v(i) * w(j) > v(j) * w(i) \/ v(j) * w(i) > v(i) * w(j)
        \/ ~ (v(i) * w(j) > v(j) * w(i)) /\ ~ (v(j) * w(i) > v(i) * w(j))
    BY <1>5, <2>2
  <2> QED
    BY <1>4, <2>1, <2>3, Zenon
<1>8. ASSUME NEW i \in 1 .. n, NEW j \in 1 .. n, NEW k \in 1 .. n,
             <<i, j>> \in Earlier(bs), <<j, k>> \in Earlier(bs)
      PROVE  <<i, k>> \in Earlier(bs)
  <2>1. v(i) * w(j) >= v(j) * w(i) /\ v(j) * w(k) >= v(k) * w(j)
    BY <1>4, <1>5, <1>8
  <2>2. /\ v(i) * w(k) >= v(k) * w(i)
        /\ v(i) * w(j) > v(j) * w(i) \/ v(j) * w(k) > v(k) * w(j) => v(i) * w(k) > v(k) * w(i)
    BY <1>2, <2>1, Quotients
  <2>3. CASE v(i) * w(j) > v(j) * w(i) \/ v(j) * w(k) > v(k) * w(j)
    BY <1>4, <2>2, <2>3
  <2>4. CASE ~ (v(i) * w(j) > v(j) * w(i) \/ v(j) * w(k) > v(k) * w(j))
    <3>1. i < j /\ j < k
      BY <1>4, <1>8, <2>4
    <3>2. i < k
      BY <1>1, <3>1
    <3>3. ~ (v(k) * w(i) > v(i) * w(k))
      BY <1>5, <2>2
    <3> QED
      BY <1>4, <3>2, <3>3
  <2> QED
    BY <2>3, <2>4
<1> QED
  BY <1>1, <1>6, <1>7, <1>8 DEF Strict

\* The lesser of two.
LEMMA BeamLeast ==
  ASSUME NEW a \in Int, NEW c \in Int
  PROVE  Beam!Min({a, c}) = IF a <= c THEN a ELSE c
<1> DEFINE S == {a, c}
           m == IF a <= c THEN a ELSE c
<1>1. m \in S /\ \A y \in S : m =< y
  OBVIOUS
<1>2. \A x \in S : (\A y \in S : x =< y) => x = m
  OBVIOUS
<1>3. Beam!Min(S) = CHOOSE x \in S : \A y \in S : x =< y
  BY Zenon DEF Beam!Min
<1> HIDE DEF S, m
<1>4. Beam!Min(S) = m
  BY <1>1, <1>2, <1>3
<1> QED
  BY <1>4 DEF S, m

\* What is returned or goes on is the best, each once.
LEMMA TopIs ==
  ASSUME call \in Calls, NEW bs \in Seq(Beams), Scored(bs)
  PROVE  Beam!Top(bs) \in Seq(Beams) /\ Chosen(Beam!Top(bs), bs, call.width)
<1> DEFINE n == Len(bs)
           R == Earlier(bs)
           o == Ordered(DOMAIN bs, R)
           sorted == Beam!Sorted(bs)
           w == Beam!Min({call.width, n})
<1>1. n \in Nat /\ DOMAIN bs = 1 .. n /\ IsFiniteSet(1 .. n) /\ Cardinality(1 .. n) = n
  <2>1. n \in Nat /\ DOMAIN bs = 1 .. n
    OBVIOUS
  <2> HIDE DEF n
  <2> QED
    BY <2>1, FS_Interval
<1>2. call.width \in Nat \ {0}
  BY BeamAssumption DEF Beam!Call
<1>3. sorted = [k \in DOMAIN o |-> bs[o[k]]]
  <2>1. ASSUME NEW S, NEW Q PROVE Beam!Ordered(S, Q) = Ordered(S, Q)
    BY Zenon DEF Beam!Ordered, Ordered, Beam!Cardinality, Cardinality
  <2> QED
    BY <2>1, Zenon DEF Beam!Sorted, Earlier
<1>4. /\ o \in [1 .. n -> 1 .. n]
      /\ \A k, l \in 1 .. n : k < l => <<o[k], o[l]>> \in R
  <2>1. Strict(DOMAIN bs, R)
    BY EarlierIsStrict
  <2>2. IsFiniteSet(DOMAIN bs) /\ Cardinality(DOMAIN bs) = n
    BY <1>1
  <2> HIDE DEF R, n
  <2>3. /\ o \in [1 .. Cardinality(DOMAIN bs) -> DOMAIN bs]
        /\ \A k, l \in 1 .. Cardinality(DOMAIN bs) : k < l => <<o[k], o[l]>> \in R
    BY <2>1, <2>2, OrderedIs, Zenon
  <2> QED
    BY <1>1, <2>2, <2>3
<1>5. \A i \in 1 .. n : <<i, i>> \notin R
  BY <1>1, EarlierIsStrict DEF Strict
<1>6. \A i \in 1 .. n : bs[i] \in Beams
  OBVIOUS
<1>7. w \in Nat /\ w <= n /\ w <= call.width /\ (w = n \/ w = call.width)
  <2> DEFINE v == call.width
  <2>1. n \in Int /\ v \in Int
    BY <1>1, <1>2
  <2> HIDE DEF n, v
  <2>2. Beam!Min({v, n}) = IF v <= n THEN v ELSE n
    BY <2>1, BeamLeast
  <2>3. w = IF v <= n THEN v ELSE n
    BY <2>2, Zenon DEF v
  <2>4. n \in Nat /\ v \in Nat
    BY <1>1, <1>2 DEF v
  <2>5. w \in Nat /\ w <= n /\ w <= v /\ (w = n \/ w = v)
    <3> HIDE DEF w
    <3> QED
      BY <2>3, <2>4
  <2> QED
    BY <2>5, Zenon DEF v
<1>8. Beam!Top(bs) = SubSeq(sorted, 1, w)
  BY DEF Beam!Top
<1> HIDE DEF n, o, R, sorted, w
<1>9. sorted \in [1 .. n -> Beams] /\ \A k \in 1 .. n : sorted[k] = bs[o[k]]
  BY <1>3, <1>4, <1>6
<1>10. ASSUME NEW k \in 1 .. n, NEW l \in 1 .. n, o[k] = o[l] PROVE k = l
  <2>1. ~ (k < l) /\ ~ (l < k)
    BY <1>4, <1>5, <1>10
  <2> QED
    BY <1>1, <2>1
<1> DEFINE t == SubSeq(sorted, 1, w)
<1>11. t \in Seq(Beams) /\ Len(t) = w /\ \A k \in 1 .. w : t[k] = bs[o[k]]
  <2>1. sorted \in Seq(Beams) /\ Len(sorted) = n
    BY <1>1, <1>9
  <2>2. t \in Seq(Beams) /\ Len(t) = w /\ \A k \in 1 .. w : t[k] = sorted[k]
    BY <1>1, <1>7, <2>1
  <2>3. \A k \in 1 .. w : k \in 1 .. n
    BY <1>1, <1>7
  <2> QED
    BY <1>9, <2>2, <2>3
<1> DEFINE q == [k \in 1 .. w |-> o[k]]
<1>12. /\ q \in [1 .. w -> 1 .. n] /\ \A k \in 1 .. w : q[k] = o[k]
       /\ \A k, l \in 1 .. w : q[k] = q[l] => k = l
  <2>1. \A k \in 1 .. w : k \in 1 .. n
    BY <1>1, <1>7
  <2> QED
    BY <1>4, <1>10, <2>1
<1> HIDE DEF t, q
<1>13. Chosen(t, bs, call.width)
  <2>1. /\ q \in [1 .. Len(t) -> 1 .. Len(bs)] /\ \A k \in 1 .. Len(t) : t[k] = bs[q[k]]
        /\ \A k, l \in 1 .. Len(t) : q[k] = q[l] => k = l
    BY <1>11, <1>12 DEF n
  <2>2. /\ Len(t) \in Nat /\ Len(t) <= call.width /\ Len(t) <= Len(bs)
        /\ (Len(t) = call.width \/ Len(t) = Len(bs))
    BY <1>7, <1>11 DEF n
  <2> QED
    BY <2>1, <2>2, Zenon DEF Chosen
<1> QED
  BY <1>8, <1>11, <1>13 DEF t

-------------------------------------------------------------------------------
(* BeamSearch: the continuations of a beam.                                  *)

\* t is s and then what c has at the places P.
Joined(t, s, c, P) ==
  /\ Len(t) \in Nat /\ Len(t) = Len(s) + Cardinality(P)
  /\ \A k \in 1 .. Len(s) : k \in 1 .. Len(t) /\ t[k] = s[k]
  /\ \A k \in 1 .. Len(t) : k \in 1 .. Len(s) \/ (\E p \in P : t[k] = c[p])
  /\ \A p \in P : \E k \in 1 .. Len(t) : t[k] = c[p]
  /\ \A k, l \in 1 .. Len(t) :
       k # l => k \in 1 .. Len(s) \/ l \in 1 .. Len(s)
                \/ \E p, q \in P : p # q /\ t[k] = c[p] /\ t[l] = c[q]

\* That is what appending them gives.
LEMMA JoinedIs ==
  ASSUME NEW D, NEW s \in Seq(D), NEW c \in Seq(D), NEW P \in SUBSET (1 .. Len(c))
  PROVE  s \o At(c, P) \in Seq(D) /\ Joined(s \o At(c, P), s, c, P)
<1> DEFINE a == At(c, P)
           t == s \o At(c, P)
           n == Len(s)
<1>1. a \in Seq(D) /\ HasPlaces(a, c, P)
  BY AtHasPlaces
<1>2. PICK o \in [1 .. Len(a) -> P] :
        /\ \A k \in 1 .. Len(a) : a[k] = c[o[k]]
        /\ \A k, l \in 1 .. Len(a) : o[k] = o[l] => k = l
        /\ \A p \in P : \E k \in 1 .. Len(a) : o[k] = p
  BY <1>1 DEF HasPlaces
<1>3. Len(a) \in Nat /\ Len(a) = Cardinality(P)
  BY <1>1 DEF HasPlaces
<1>4. /\ t \in Seq(D) /\ n \in Nat /\ Len(t) = n + Len(a)
      /\ \A k \in 1 .. n : k \in 1 .. n + Len(a) /\ t[k] = s[k]
      /\ \A k \in 1 .. Len(a) : n + k \in 1 .. n + Len(a) /\ t[n + k] = a[k]
  BY <1>1, ConcatIs
<1> HIDE DEF a, t, n
<1>5. \A k \in 1 .. Len(t) : k \in 1 .. n \/ (k - n \in 1 .. Len(a) /\ k = n + (k - n))
  BY <1>3, <1>4
<1>6. ASSUME NEW k \in 1 .. Len(t), k \notin 1 .. n
      PROVE  k - n \in 1 .. Len(a) /\ o[k - n] \in P /\ t[k] = c[o[k - n]]
  BY <1>2, <1>4, <1>5, <1>6
<1>7. ASSUME NEW p \in P PROVE \E k \in 1 .. Len(t) : t[k] = c[p]
  <2>1. PICK k \in 1 .. Len(a) : o[k] = p
    BY <1>2
  <2>2. n + k \in 1 .. Len(t) /\ t[n + k] = c[p]
    BY <1>2, <1>4, <2>1
  <2> QED
    BY <2>2
<1>8. ASSUME NEW k \in 1 .. Len(t), NEW l \in 1 .. Len(t), k # l, k \notin 1 .. n, l \notin 1 .. n
      PROVE  \E p, q \in P : p # q /\ t[k] = c[p] /\ t[l] = c[q]
  <2>1. k - n # l - n
    BY <1>4, <1>8
  <2>2. o[k - n] # o[l - n]
    BY <1>2, <1>6, <1>8, <2>1
  <2> QED
    BY <1>6, <1>8, <2>2
<1>9. Joined(t, s, c, P)
  <2>1. Len(t) \in Nat /\ Len(t) = Len(s) + Cardinality(P)
    BY <1>3, <1>4 DEF n
  <2>2. \A k \in 1 .. Len(s) : k \in 1 .. Len(t) /\ t[k] = s[k]
    BY <1>4 DEF n
  <2>3. \A k \in 1 .. Len(t) : k \in 1 .. Len(s) \/ (\E p \in P : t[k] = c[p])
    BY <1>6 DEF n
  <2>4. \A k, l \in 1 .. Len(t) :
          k # l => k \in 1 .. Len(s) \/ l \in 1 .. Len(s)
                   \/ \E p, q \in P : p # q /\ t[k] = c[p] /\ t[l] = c[q]
    BY <1>8 DEF n
  <2> QED
    BY <1>7, <2>1, <2>2, <2>3, <2>4 DEF Joined
<1> QED
  BY <1>4, <1>9 DEF a, t

\* At is that of the model.
LEMMA BeamAt == ASSUME NEW s, NEW P PROVE Beam!At(s, P) = At(s, P)
<1>1. ASSUME NEW S, NEW Q PROVE Beam!Ordered(S, Q) = Ordered(S, Q)
  BY Zenon DEF Beam!Ordered, Ordered, Beam!Cardinality, Cardinality
<1>2. ASSUME NEW S PROVE Beam!Ascending(S) = Ascending(S)
  BY <1>1, Zenon DEF Beam!Ascending, Ascending
<1> QED
  BY <1>2, Zenon DEF Beam!At, At

\* A continuation is completed if it ends, or else expanded; a bare token is expanded.
Added(c, ends) ==
  /\ ends \in SUBSET (1 .. Len(c))
  /\ \A k \in ends : Beam!EndsInEOS(c[k]) /\ ~call.ignoreEos
  /\ ~strayed' => \A k \in 1 .. Len(c) : Beam!EndsInEOS(c[k]) /\ ~call.ignoreEos => k \in ends
  /\ expanded' \in Seq(Beams) /\ Joined(expanded', expanded, c, (1 .. Len(c)) \ ends)
  /\ completed' \in Seq(Beams) /\ Joined(completed', completed, c, ends)
  /\ Len(expanded') + Len(completed') = Len(expanded) + Len(completed) + Len(c)

\* So Add does.
LEMMA AddIs ==
  ASSUME NEW c \in Seq(Beams), expanded \in Seq(Beams), completed \in Seq(Beams), Beam!Add(c)
  PROVE  \E ends : Added(c, ends)
<1> DEFINE ends == {k \in DOMAIN c : Beam!EndsInEOS(c[k]) /\ ~call.ignoreEos}
           rest == (1 .. Len(c)) \ ends
<1>1. DOMAIN c = 1 .. Len(c) /\ Len(c) \in Nat /\ Len(expanded) \in Nat /\ Len(completed) \in Nat
  OBVIOUS
<1>2. expanded' = expanded \o At(c, DOMAIN c \ ends) /\ completed' = completed \o At(c, ends)
  BY BeamAt, Zenon DEF Beam!Add
<1>3. /\ ends \in SUBSET (1 .. Len(c)) /\ rest \in SUBSET (1 .. Len(c))
      /\ \A k \in 1 .. Len(c) : k \in ends <=> Beam!EndsInEOS(c[k]) /\ ~call.ignoreEos
  BY <1>1
<1>4. expanded' = expanded \o At(c, rest)
  BY <1>1, <1>2
<1>5. Cardinality(ends) \in Nat /\ Cardinality(rest) = Len(c) - Cardinality(ends)
  <2>0. \A n \in Nat : IsFiniteSet(1 .. n) /\ Cardinality(1 .. n) = n
    BY FS_Interval
  <2>1. IsFiniteSet(1 .. Len(c)) /\ Cardinality(1 .. Len(c)) = Len(c)
    BY <1>1, <2>0
  <2>2. (1 .. Len(c)) \cap ends = ends
    BY <1>3
  <2>3. Cardinality(rest) = Cardinality(1 .. Len(c)) - Cardinality(ends)
    <3> DEFINE S == 1 .. Len(c)
    <3> HIDE DEF S, ends
    <3>1. IsFiniteSet(S)
      BY <2>1 DEF S
    <3>2. Cardinality(S \ ends) = Cardinality(S) - Cardinality(S \cap ends)
      BY <3>1, FS_Difference
    <3> QED
      BY <2>2, <3>2, Zenon DEF S
  <2>4. Cardinality(ends) \in Nat
    <3> HIDE DEF ends
    <3> QED
      BY <1>1, <1>3, PlacesAreFinite
  <2> QED
    BY <1>1, <2>1, <2>3, <2>4
<1> HIDE DEF ends, rest
<1>6. /\ expanded' \in Seq(Beams) /\ Joined(expanded', expanded, c, rest)
      /\ completed' \in Seq(Beams) /\ Joined(completed', completed, c, ends)
  BY <1>2, <1>3, <1>4, JoinedIs
<1>7. Len(expanded') + Len(completed') = Len(expanded) + Len(completed) + Len(c)
  <2>1. Len(expanded') = Len(expanded) + Cardinality(rest) /\ Len(completed') = Len(completed) + Cardinality(ends)
    BY <1>6 DEF Joined
  <2> QED
    BY <1>1, <1>5, <2>1
<1> QED
  BY <1>3, <1>6, <1>7 DEF Added, rest

-------------------------------------------------------------------------------
(* BeamSearch: the invariant.                                                *)

\* What the variables are.
BeamTypes ==
  /\ call \in Calls /\ beamPhase \in {"search", "done", "failed"}
  /\ beamStep \in Nat /\ beamStep <= call.budget
  /\ active \in Seq(Beams) /\ expanded \in Seq(Beams) /\ completed \in Seq(Beams)
  /\ beamIdx \in Nat /\ beamIdx >= 1 /\ beamIdx <= Len(active) + 1
  /\ obeyed \in BOOLEAN /\ strayed \in BOOLEAN

\* How long the beams are; and the completed ones have ended.
Sized ==
  /\ \A i \in 1 .. Len(active) : Len(active[i].tokens) = beamStep
  /\ \A i \in 1 .. Len(expanded) : Len(expanded[i].tokens) = beamStep + 1
  /\ \A i \in 1 .. Len(completed) :
       ~call.ignoreEos /\ Len(completed[i].tokens) <= call.budget /\ Beam!EndsInEOS(completed[i])
  /\ beamStep = call.budget => Len(expanded) = 0 /\ beamIdx = 1

Different(bs) == \A i, j \in 1 .. Len(bs) : i # j => bs[i].tokens # bs[j].tokens

\* A beam that continues one that was handled in this step.
Continued(b) == \E j \in 1 .. beamIdx - 1, t \in Beam!Token : b.tokens = Append(active[j].tokens, t)

\* No tokens twice: what is new in a step continues different beams.
Apart ==
  /\ Different(active) /\ Different(expanded) /\ Different(completed)
  /\ \A i \in 1 .. Len(expanded) : Continued(expanded[i])
  /\ \A i \in 1 .. Len(completed) : Len(completed[i].tokens) <= beamStep \/ Continued(completed[i])

\* The beginning of an item, or, if the EOS is ignored, an item and EOS.
Within(b) ==
  \E item \in Catalogue :
    Follows(b.tokens, item) /\ (call.ignoreEos \/ Len(b.tokens) <= Len(item))

InTree ==
  /\ \A i \in 1 .. Len(active) : Within(active[i])
  /\ \A i \in 1 .. Len(expanded) : Within(expanded[i])
  /\ \A i \in 1 .. Len(completed) :
       \E item \in Catalogue :
         Follows(completed[i].tokens, item) /\ Len(completed[i].tokens) = Len(item) + 1

\* The beams there are: completed, expanded, or not yet handled.
Sum == (Len(completed) + Len(expanded) + Len(active) + 1) - beamIdx

Represented(item) ==
  \/ \E i \in 1 .. Len(completed) : Follows(completed[i].tokens, item)
  \/ \E i \in 1 .. Len(expanded) : Follows(expanded[i].tokens, item)
  \/ \E i \in 1 .. Len(active) : i >= beamIdx /\ Follows(active[i].tokens, item)

\* No place is lost before every item has a beam.
Counted ==
  /\ Sum >= 1
  /\ Beam!Stochastic => Sum = call.width
  /\ ~Beam!Stochastic /\ obeyed => Sum >= call.width \/ \A item \in Catalogue : Represented(item)

\* While it searches.
Searching ==
  /\ Sized
  /\ ~Beam!Stochastic => Apart
  /\ call.constrained /\ ~strayed => InTree /\ Counted

\* The inductive invariant of the part "beam".
BeamInv ==
  /\ BeamTypes
  /\ beamPhase = "search" => Searching
  /\ Beam!ReturnsItems /\ Beam!DistinctBeams /\ Beam!FillsTheGroup

-------------------------------------------------------------------------------
(* BeamSearch: an output is handled.                                         *)

\* What a call is.
LEMMA CallIs ==
  ASSUME call \in Calls
  PROVE  /\ call.budget \in Nat /\ call.width \in Nat \ {0} /\ call \in Beam!Call
         /\ call.constrained \in BOOLEAN /\ call.ignoreEos \in BOOLEAN
BY BeamAssumption DEF Beam!Call

\* A sequence of tokens, and one more.
LEMMA OneMoreToken ==
  ASSUME NEW s \in Seq(Beam!Token), NEW t \in Beam!Token
  PROVE  /\ Append(s, t) \in Seq(Beam!Token) /\ Len(Append(s, t)) = Len(s) + 1 /\ Len(s) \in Nat
         /\ Append(s, t)[Len(s) + 1] = t
         /\ \A r \in Seq(Beam!Token), u \in Beam!Token : Append(s, t) = Append(r, u) => s = r /\ t = u
         /\ \A x : Beam!EndsInEOS([tokens |-> Append(s, t), total |-> x]) <=> t = EOS
<1>1. /\ Append(s, t) \in Seq(Beam!Token) /\ Len(Append(s, t)) = Len(s) + 1 /\ Len(s) \in Nat
      /\ Append(s, t)[Len(s) + 1] = t
      /\ \A i \in 1 .. Len(s) : Append(s, t)[i] = s[i]
  OBVIOUS
<1>2. ASSUME NEW r \in Seq(Beam!Token), NEW u \in Beam!Token, Append(s, t) = Append(r, u)
      PROVE  s = r /\ t = u
  <2>1. /\ Len(Append(r, u)) = Len(r) + 1 /\ Len(r) \in Nat /\ Append(r, u)[Len(r) + 1] = u
        /\ \A i \in 1 .. Len(r) : Append(r, u)[i] = r[i]
    OBVIOUS
  <2>2. Len(s) = Len(r) /\ t = u
    BY <1>1, <1>2, <2>1
  <2>3. \A i \in 1 .. Len(s) : s[i] = r[i]
    BY <1>1, <1>2, <2>1, <2>2
  <2> QED
    BY <2>2, <2>3, SeqEqual
<1>3. ASSUME NEW x PROVE Beam!EndsInEOS([tokens |-> Append(s, t), total |-> x]) <=> t = EOS
  <2>1. Beam!Last(Append(s, t)) = t
    BY <1>1 DEF Beam!Last
  <2>2. Append(s, t) # <<>>
    BY <1>1
  <2>3. [tokens |-> Append(s, t), total |-> x].tokens = Append(s, t)
    OBVIOUS
  <2> QED
    BY <2>1, <2>2, <2>3, Zenon DEF Beam!EndsInEOS
<1> QED
  BY <1>1, <1>2, <1>3

\* Sequences that are the same with a token more are the same.
LEMMA SameBeginning ==
  ASSUME NEW s \in Seq(Beam!Token), NEW t \in Beam!Token, NEW r \in Seq(Beam!Token), NEW u \in Beam!Token,
         Append(s, t) = Append(r, u)
  PROVE  s = r
BY OneMoreToken

\* Sequences of tokens are sequences of numbers.
LEMMA TokensAreNumbers ==
  ASSUME NEW s \in Seq(Beam!Token) PROVE s \in Seq(0 .. EOS)
BY TokenIs, SeqMonotonic

\* What a beam is.
LEMMA BeamIs ==
  ASSUME NEW b \in Beams
  PROVE  b.tokens \in Seq(Beam!Token) /\ b.total \in Int /\ Len(b.tokens) \in Nat
         /\ b = [tokens |-> b.tokens, total |-> b.total]
BY DEF Beams

\* The beam at hand.
LEMMA CurrentIs ==
  ASSUME BeamTypes, Sized, Beam!Handling
  PROVE  /\ beamIdx \in 1 .. Len(active) /\ active[beamIdx] \in Beams /\ beamPhase = "search"
         /\ active[beamIdx].tokens \in Seq(Beam!Token) /\ Len(active[beamIdx].tokens) = beamStep
         /\ beamStep < call.budget /\ Len(active) \in Nat
<1>1. beamIdx \in 1 .. Len(active) /\ beamStep < call.budget /\ beamPhase = "search"
  BY DEF BeamTypes, Beam!Handling, Beam!InStep
<1>2. active[beamIdx] \in Beams /\ Len(active) \in Nat
  BY <1>1 DEF BeamTypes
<1> QED
  BY <1>1, <1>2, BeamIs DEF Sized

\* The continuations of the beam at hand.
Continues(c) ==
  /\ c \in Seq(Beams)
  /\ \A k \in 1 .. Len(c) : \E t \in Beam!Token :
       /\ c[k].tokens = Append(active[beamIdx].tokens, t)
       /\ call.constrained /\ ~strayed' => t \in Beam!Allowed(active[beamIdx].tokens)
  /\ Different(c)
  /\ call.constrained => Len(c) >= 1
  /\ Beam!Stochastic => Len(c) <= 1
  /\ call.constrained /\ ~strayed' /\ ~Beam!Stochastic /\ obeyed' =>
       \/ Len(c) >= call.width
       \/ \A t \in Beam!Allowed(active[beamIdx].tokens) :
            \E k \in 1 .. Len(c) : c[k].tokens = Append(active[beamIdx].tokens, t)

\* An output is handled.
Handled(c, ends) ==
  /\ Beam!Handling /\ Beam!NextOutput /\ Continues(c) /\ Added(c, ends)
  /\ strayed' \in BOOLEAN /\ (strayed => strayed') /\ obeyed' \in BOOLEAN /\ (obeyed' => obeyed)

\* A continuation has one token more.
LEMMA ContinuationIs ==
  ASSUME BeamTypes, Sized, NEW c, NEW ends, Handled(c, ends), NEW k \in 1 .. Len(c)
  PROVE  /\ c[k] \in Beams /\ Len(c[k].tokens) = beamStep + 1
         /\ \E t \in Beam!Token :
              /\ c[k].tokens = Append(active[beamIdx].tokens, t)
              /\ call.constrained /\ ~strayed' => t \in Beam!Allowed(active[beamIdx].tokens)
              /\ Beam!EndsInEOS(c[k]) <=> t = EOS
<1>1. Beam!Handling /\ c \in Seq(Beams)
  BY DEF Handled, Continues
<1>2. c[k] \in Beams
  BY <1>1
<1>3. PICK t \in Beam!Token :
        /\ c[k].tokens = Append(active[beamIdx].tokens, t)
        /\ call.constrained /\ ~strayed' => t \in Beam!Allowed(active[beamIdx].tokens)
  BY DEF Handled, Continues
<1>4. active[beamIdx].tokens \in Seq(Beam!Token) /\ Len(active[beamIdx].tokens) = beamStep
  BY <1>1, CurrentIs
<1>5. Len(c[k].tokens) = beamStep + 1
  BY <1>3, <1>4, OneMoreToken
<1>6. Beam!EndsInEOS(c[k]) <=> t = EOS
  <2>1. c[k] = [tokens |-> Append(active[beamIdx].tokens, t), total |-> c[k].total]
    BY <1>2, <1>3, BeamIs
  <2>2. Beam!EndsInEOS([tokens |-> Append(active[beamIdx].tokens, t), total |-> c[k].total]) <=> t = EOS
    BY <1>4, OneMoreToken
  <2> QED
    BY <2>1, <2>2
<1> QED
  BY <1>2, <1>3, <1>5, <1>6

\* Handling keeps the types,
LEMMA HandledTypes ==
  ASSUME BeamTypes, Sized, NEW c, NEW ends, Handled(c, ends) PROVE BeamTypes'
<1>1. /\ beamIdx' = beamIdx + 1 /\ call' = call /\ beamPhase' = beamPhase /\ beamStep' = beamStep
      /\ active' = active /\ expanded' \in Seq(Beams) /\ completed' \in Seq(Beams)
      /\ strayed' \in BOOLEAN /\ obeyed' \in BOOLEAN
  BY DEF Handled, Beam!NextOutput, Added
<1>2. beamIdx \in 1 .. Len(active) /\ Len(active) \in Nat
  BY CurrentIs DEF Handled
<1> QED
  BY <1>1, <1>2 DEF BeamTypes

\* the lengths,
LEMMA HandledSized ==
  ASSUME BeamTypes, Sized, NEW c, NEW ends, Handled(c, ends) PROVE Sized'
<1>1. /\ beamIdx' = beamIdx + 1 /\ call' = call /\ beamStep' = beamStep /\ active' = active
      /\ ends \in SUBSET (1 .. Len(c))
      /\ \A k \in ends : Beam!EndsInEOS(c[k]) /\ ~call.ignoreEos
      /\ Joined(expanded', expanded, c, (1 .. Len(c)) \ ends) /\ Joined(completed', completed, c, ends)
  BY DEF Handled, Beam!NextOutput, Added
<1>2. beamStep < call.budget /\ beamStep \in Nat /\ call.budget \in Nat
  BY CurrentIs, CallIs DEF Handled, BeamTypes
<1>3. \A k \in 1 .. Len(c) : Len(c[k].tokens) = beamStep + 1
  BY ContinuationIs
<1>4. ASSUME NEW i \in 1 .. Len(expanded') PROVE Len(expanded'[i].tokens) = beamStep + 1
  <2>1. i \in 1 .. Len(expanded) => expanded'[i] = expanded[i]
    BY <1>1 DEF Joined
  <2>2. i \in 1 .. Len(expanded) \/ \E p \in (1 .. Len(c)) \ ends : expanded'[i] = c[p]
    BY <1>1 DEF Joined
  <2> QED
    BY <1>3, <2>1, <2>2 DEF Sized
<1>5. ASSUME NEW i \in 1 .. Len(completed')
      PROVE  ~call.ignoreEos /\ Len(completed'[i].tokens) <= call.budget /\ Beam!EndsInEOS(completed'[i])
  <2>1. i \in 1 .. Len(completed) => completed'[i] = completed[i]
    BY <1>1 DEF Joined
  <2>2. i \in 1 .. Len(completed) \/ \E p \in ends : completed'[i] = c[p]
    BY <1>1 DEF Joined
  <2>3. CASE i \in 1 .. Len(completed)
    BY <2>1, <2>3 DEF Sized
  <2>4. ASSUME NEW p \in ends, completed'[i] = c[p]
        PROVE  ~call.ignoreEos /\ Len(completed'[i].tokens) <= call.budget /\ Beam!EndsInEOS(completed'[i])
    <3>1. p \in 1 .. Len(c)
      BY <1>1
    <3>2. ~call.ignoreEos /\ Beam!EndsInEOS(c[p]) /\ Len(c[p].tokens) = beamStep + 1
      BY <1>1, <1>3, <3>1
    <3> QED
      BY <1>2, <2>4, <3>2
  <2> QED
    BY <2>2, <2>3, <2>4
<1>6. \A b : Beam!EndsInEOS(b)' <=> Beam!EndsInEOS(b)
  BY DEF Beam!EndsInEOS
<1>7. \A i \in 1 .. Len(active') : Len(active'[i].tokens) = beamStep'
  BY <1>1 DEF Sized
<1>8. beamStep' # call'.budget
  BY <1>1, <1>2
<1>9. \A i \in 1 .. Len(completed') :
        ~call'.ignoreEos /\ Len(completed'[i].tokens) <= call'.budget /\ Beam!EndsInEOS(completed'[i])
  BY <1>1, <1>5
<1>10. \A i \in 1 .. Len(expanded') : Len(expanded'[i].tokens) = beamStep' + 1
  BY <1>1, <1>4
<1> QED
  BY <1>7, <1>8, <1>9, <1>10, Zenon DEF Sized, Beam!EndsInEOS, Beam!Last

\* Beams joined with others that differ from them.
LEMMA JoinedDifferent ==
  ASSUME NEW t, NEW s, NEW c, NEW P \in SUBSET (1 .. Len(c)), Joined(t, s, c, P),
         Different(s), Different(c),
         \A i \in 1 .. Len(s), p \in P : s[i].tokens # c[p].tokens
  PROVE  Different(t)
<1> SUFFICES ASSUME NEW i \in 1 .. Len(t), NEW j \in 1 .. Len(t), i # j
             PROVE  t[i].tokens # t[j].tokens
  BY DEF Different
<1>1. \A k \in 1 .. Len(s) : t[k] = s[k]
  BY DEF Joined
<1>2. \A k \in 1 .. Len(t) : k \in 1 .. Len(s) \/ (\E p \in P : t[k] = c[p])
  BY DEF Joined
<1>3. CASE i \in 1 .. Len(s) /\ j \in 1 .. Len(s)
  BY <1>1, <1>3 DEF Different
<1>4. CASE i \in 1 .. Len(s) /\ j \notin 1 .. Len(s)
  BY <1>1, <1>2, <1>4
<1>5. CASE i \notin 1 .. Len(s) /\ j \in 1 .. Len(s)
  BY <1>1, <1>2, <1>5
<1>6. CASE i \notin 1 .. Len(s) /\ j \notin 1 .. Len(s)
  <2>1. \E p, q \in P : p # q /\ t[i] = c[p] /\ t[j] = c[q]
    BY <1>6, Zenon DEF Joined
  <2>2. \A p \in P : p \in 1 .. Len(c)
    OBVIOUS
  <2> QED
    BY <2>1, <2>2 DEF Different
<1> QED
  BY <1>3, <1>4, <1>5, <1>6

\* the beams apart,
LEMMA HandledApart ==
  ASSUME BeamTypes, Sized, Apart, NEW c, NEW ends, Handled(c, ends) PROVE Apart'
<1>1. /\ beamIdx' = beamIdx + 1 /\ beamStep' = beamStep /\ active' = active
      /\ ends \in SUBSET (1 .. Len(c))
      /\ Joined(expanded', expanded, c, (1 .. Len(c)) \ ends) /\ Joined(completed', completed, c, ends)
      /\ Different(c)
  BY DEF Handled, Beam!NextOutput, Added, Continues
<1>2. /\ beamIdx \in Nat /\ beamIdx \in 1 .. Len(active) /\ Len(active) \in Nat
      /\ active[beamIdx].tokens \in Seq(Beam!Token) /\ beamStep \in Nat
      /\ \A j \in 1 .. Len(active) : active[j].tokens \in Seq(Beam!Token)
  <2>1. \A j \in 1 .. Len(active) : active[j] \in Beams
    BY DEF BeamTypes
  <2> QED
    BY <2>1, CurrentIs, BeamIs DEF Handled, BeamTypes
<1>3. ASSUME NEW k \in 1 .. Len(c)
      PROVE  Len(c[k].tokens) = beamStep + 1
             /\ \E t \in Beam!Token : c[k].tokens = Append(active[beamIdx].tokens, t)
  BY ContinuationIs
<1>4. ASSUME NEW b, Continued(b), NEW k \in 1 .. Len(c) PROVE b.tokens # c[k].tokens
  <2>1. PICK j \in 1 .. beamIdx - 1, t \in Beam!Token : b.tokens = Append(active[j].tokens, t)
    BY <1>4 DEF Continued
  <2>2. PICK u \in Beam!Token : c[k].tokens = Append(active[beamIdx].tokens, u)
    BY <1>3
  <2>3. j \in 1 .. Len(active) /\ j # beamIdx
    BY <1>2
  <2>4. active[j].tokens # active[beamIdx].tokens
    BY <1>2, <2>3 DEF Apart, Different
  <2>5. active[j].tokens \in Seq(Beam!Token) /\ active[beamIdx].tokens \in Seq(Beam!Token)
    BY <1>2, <2>3
  <2>6. Append(active[j].tokens, t) # Append(active[beamIdx].tokens, u)
    <3> DEFINE r == active[j].tokens
               s == active[beamIdx].tokens
    <3>1. r # s /\ r \in Seq(Beam!Token) /\ s \in Seq(Beam!Token)
      BY <2>4, <2>5
    <3> HIDE DEF r, s
    <3>2. Append(r, t) # Append(s, u)
      BY <3>1, SameBeginning
    <3> QED
      BY <3>2 DEF r, s
  <2> QED
    BY <2>1, <2>2, <2>6
<1>5. \A b : Continued(b) => Continued(b)'
  <2>1. \A j \in 1 .. beamIdx - 1 : j \in 1 .. beamIdx' - 1
    BY <1>1, <1>2
  <2> QED
    BY <1>1, <2>1, Zenon DEF Continued, Beam!Token
<1>6. ASSUME NEW k \in 1 .. Len(c), NEW x, x = c[k]
      PROVE  \E j \in 1 .. beamIdx' - 1, t \in Beam!Token : x.tokens = Append(active'[j].tokens, t)
  <2>1. beamIdx \in 1 .. beamIdx' - 1
    BY <1>1, <1>2
  <2>2. \E t \in Beam!Token : x.tokens = Append(active'[beamIdx].tokens, t)
    BY <1>1, <1>3, <1>6
  <2> QED
    BY <2>1, <2>2, Zenon
<1>7. Different(expanded')
  <2>1. \A i \in 1 .. Len(expanded), p \in (1 .. Len(c)) \ ends : expanded[i].tokens # c[p].tokens
    BY <1>4 DEF Apart
  <2>2. (1 .. Len(c)) \ ends \in SUBSET (1 .. Len(c)) /\ Different(expanded)
    BY DEF Apart
  <2> QED
    BY <1>1, <2>1, <2>2, JoinedDifferent
<1>8. Different(completed')
  <2>1. ASSUME NEW i \in 1 .. Len(completed), NEW p \in ends PROVE completed[i].tokens # c[p].tokens
    <3>1. p \in 1 .. Len(c)
      BY <1>1
    <3>2. ~ (Len(c[p].tokens) <= beamStep)
      BY <1>2, <1>3, <3>1
    <3> QED
      BY <1>4, <3>1, <3>2 DEF Apart
  <2>2. Different(completed)
    BY DEF Apart
  <2> QED
    BY <1>1, <2>1, <2>2, JoinedDifferent
<1> DEFINE Recent(x) == \E j \in 1 .. beamIdx' - 1, t \in Beam!Token : x.tokens = Append(active'[j].tokens, t)
<1>9. \A x : Continued(x) => Recent(x)
  <2>1. \A j \in 1 .. beamIdx - 1 : j \in 1 .. beamIdx' - 1
    BY <1>1, <1>2
  <2> QED
    BY <1>1, <2>1, Zenon DEF Continued
<1>10. \A k \in 1 .. Len(c) : Recent(c[k])
  BY <1>6
<1> HIDE DEF Recent
<1>11. ASSUME NEW i \in 1 .. Len(expanded') PROVE Recent(expanded'[i])
  <2>1. i \in 1 .. Len(expanded) => expanded'[i] = expanded[i] /\ Continued(expanded[i])
    BY <1>1 DEF Joined, Apart
  <2>2. i \in 1 .. Len(expanded) \/ \E p \in (1 .. Len(c)) \ ends : expanded'[i] = c[p]
    BY <1>1 DEF Joined
  <2> QED
    BY <1>9, <1>10, <2>1, <2>2
<1>12. ASSUME NEW i \in 1 .. Len(completed')
       PROVE  Len(completed'[i].tokens) <= beamStep' \/ Recent(completed'[i])
  <2>1. i \in 1 .. Len(completed) =>
          completed'[i] = completed[i] /\ (Len(completed[i].tokens) <= beamStep \/ Continued(completed[i]))
    BY <1>1 DEF Joined, Apart
  <2>2. i \in 1 .. Len(completed) \/ \E p \in ends : completed'[i] = c[p]
    BY <1>1 DEF Joined
  <2>3. \A p \in ends : Recent(c[p])
    BY <1>1, <1>10
  <2> QED
    BY <1>1, <1>9, <2>1, <2>2, <2>3
<1>13. Different(active')
  BY <1>1 DEF Apart
<1> QED
  BY <1>7, <1>8, <1>11, <1>12, <1>13, Zenon DEF Apart, Continued, Different, Recent, Beam!Token

\* The tokens of an item and one that is allowed.
LEMMA HandledInTree ==
  ASSUME BeamTypes, Sized, InTree, call.constrained, NEW c, NEW ends, Handled(c, ends), ~strayed'
  PROVE  InTree'
<1>1. /\ call' = call /\ active' = active
      /\ ends \in SUBSET (1 .. Len(c))
      /\ \A k \in 1 .. Len(c) : k \in ends <=> Beam!EndsInEOS(c[k]) /\ ~call.ignoreEos
      /\ Joined(expanded', expanded, c, (1 .. Len(c)) \ ends) /\ Joined(completed', completed, c, ends)
  BY DEF Handled, Beam!NextOutput, Added
<1> DEFINE s == active[beamIdx].tokens
<1>2. /\ beamIdx \in 1 .. Len(active) /\ s \in Seq(Beam!Token) /\ s \in Seq(0 .. EOS)
      /\ Len(s) = beamStep /\ beamStep \in Nat /\ Len(s) \in Nat
  BY CurrentIs, TokensAreNumbers DEF Handled, BeamTypes
<1>3. PICK item \in Catalogue : Follows(s, item) /\ (call.ignoreEos \/ Len(s) <= Len(item))
  BY <1>2 DEF InTree, Within
<1> HIDE DEF s
<1>4. ASSUME NEW k \in 1 .. Len(c)
      PROVE  \E other \in Catalogue :
               /\ Follows(c[k].tokens, other)
               /\ ~call.ignoreEos => Len(c[k].tokens) <= Len(other) + 1
               /\ ~call.ignoreEos /\ k \in ends => Len(c[k].tokens) = Len(other) + 1
               /\ ~call.ignoreEos /\ k \notin ends => Len(c[k].tokens) <= Len(other)
  <2>1. PICK t \in Beam!Token :
          c[k].tokens = Append(s, t) /\ t \in Beam!Allowed(s) /\ (Beam!EndsInEOS(c[k]) <=> t = EOS)
    BY ContinuationIs DEF s
  <2>2. PICK other \in Catalogue :
          Follows(Append(s, t), other) /\ (Len(s) <= Len(item) => Len(s) <= Len(other))
    BY <1>2, <1>3, <2>1, AllowedLeads
  <2>3. Len(Append(s, t)) = Len(s) + 1 /\ Append(s, t)[Len(s) + 1] = t
    BY <1>2, OneMoreToken
  <2>4. Len(s) + 1 \in 1 .. Len(Append(s, t)) /\ Len(Append(s, t)) \in Nat
    BY <1>2, <2>3
  <2>5. t = EOS <=> Len(s) + 1 > Len(other)
    BY <2>2, <2>3, <2>4, WhereEOSIs
  <2>6. Len(other) \in Nat
    BY BeamAssumption
  <2>7. ~call.ignoreEos => Len(s) <= Len(other) /\ (k \in ends <=> t = EOS)
    BY <1>1, <1>3, <2>1, <2>2
  <2>8. /\ ~call.ignoreEos => Len(c[k].tokens) <= Len(other) + 1
        /\ ~call.ignoreEos /\ k \in ends => Len(c[k].tokens) = Len(other) + 1
        /\ ~call.ignoreEos /\ k \notin ends => Len(c[k].tokens) <= Len(other)
    BY <1>2, <2>1, <2>3, <2>5, <2>6, <2>7
  <2> QED
    BY <2>1, <2>2, <2>8
<1>5. ASSUME NEW i \in 1 .. Len(expanded')
      PROVE  \E other \in Catalogue :
               Follows(expanded'[i].tokens, other) /\ (call.ignoreEos \/ Len(expanded'[i].tokens) <= Len(other))
  <2>1. i \in 1 .. Len(expanded) => expanded'[i] = expanded[i] /\ Within(expanded[i])
    BY <1>1 DEF Joined, InTree
  <2>2. i \in 1 .. Len(expanded) \/ \E p \in (1 .. Len(c)) \ ends : expanded'[i] = c[p]
    BY <1>1 DEF Joined
  <2> QED
    BY <1>4, <2>1, <2>2 DEF Within
<1>6. ASSUME NEW i \in 1 .. Len(completed')
      PROVE  \E other \in Catalogue :
               Follows(completed'[i].tokens, other) /\ Len(completed'[i].tokens) = Len(other) + 1
  <2>1. i \in 1 .. Len(completed) =>
          completed'[i] = completed[i]
          /\ \E other \in Catalogue :
               Follows(completed[i].tokens, other) /\ Len(completed[i].tokens) = Len(other) + 1
    BY <1>1 DEF Joined, InTree
  <2>2. i \in 1 .. Len(completed) \/ \E p \in ends : completed'[i] = c[p]
    BY <1>1 DEF Joined
  <2>3. ASSUME NEW p \in ends
        PROVE  \E other \in Catalogue : Follows(c[p].tokens, other) /\ Len(c[p].tokens) = Len(other) + 1
    <3>1. p \in 1 .. Len(c) /\ ~call.ignoreEos
      BY <1>1
    <3> QED
      BY <1>4, <3>1
  <2> QED
    BY <2>1, <2>2, <2>3
<1>7. \A i \in 1 .. Len(active') :
        \E other \in Catalogue :
          Follows(active'[i].tokens, other) /\ (call.ignoreEos \/ Len(active'[i].tokens) <= Len(other))
  BY <1>1 DEF InTree, Within
<1> QED
  BY <1>1, <1>5, <1>6, <1>7, Zenon DEF InTree, Within, Follows

\* and no beam is lost.
LEMMA HandledCounted ==
  ASSUME BeamTypes, Sized, InTree, Counted, call.constrained, NEW c, NEW ends, Handled(c, ends), ~strayed'
  PROVE  Counted'
<1> DEFINE s == active[beamIdx].tokens
<1>1. /\ call' = call /\ active' = active /\ beamIdx' = beamIdx + 1 /\ (obeyed' => obeyed)
      /\ ends \in SUBSET (1 .. Len(c)) /\ c \in Seq(Beams)
      /\ Joined(expanded', expanded, c, (1 .. Len(c)) \ ends) /\ Joined(completed', completed, c, ends)
      /\ Len(expanded') + Len(completed') = Len(expanded) + Len(completed) + Len(c)
  BY DEF Handled, Beam!NextOutput, Added, Continues
<1>2. /\ beamIdx \in 1 .. Len(active) /\ beamIdx \in Nat /\ Len(active) \in Nat
      /\ Len(expanded) \in Nat /\ Len(completed) \in Nat /\ Len(c) \in Nat
      /\ Len(expanded') \in Nat /\ Len(completed') \in Nat
      /\ call.width \in Nat \ {0} /\ s \in Seq(0 .. EOS)
  <2>1. Len(expanded') \in Nat /\ Len(completed') \in Nat
    BY <1>1 DEF Joined
  <2> QED
    BY <1>1, <2>1, CurrentIs, CallIs, TokensAreNumbers DEF Handled, BeamTypes
<1>3. /\ Len(c) >= 1
      /\ Beam!Stochastic => Len(c) <= 1
      /\ ~Beam!Stochastic /\ obeyed' =>
           \/ Len(c) >= call.width
           \/ \A t \in Beam!Allowed(s) : \E k \in 1 .. Len(c) : c[k].tokens = Append(s, t)
  BY DEF Handled, Continues
<1> HIDE DEF s
<1> DEFINE n == Sum
           m == (Len(completed') + Len(expanded') + Len(active') + 1) - beamIdx'
<1>4. m = (n + Len(c)) - 1 /\ n \in Int /\ n >= 1 /\ m >= Len(c)
  <2>1. /\ beamIdx <= Len(active) /\ Len(active') = Len(active) /\ beamIdx' = beamIdx + 1
        /\ Len(expanded') + Len(completed') = Len(expanded) + Len(completed) + Len(c)
        /\ beamIdx \in Nat /\ Len(active) \in Nat /\ Len(expanded) \in Nat /\ Len(completed) \in Nat
        /\ Len(c) \in Nat /\ Len(expanded') \in Nat /\ Len(completed') \in Nat
    BY <1>1, <1>2
  <2> QED
    BY ONLY <2>1 DEF Sum
<1> HIDE DEF n, m
<1>5. m >= 1 /\ (n >= call.width => m >= call.width) /\ (Len(c) >= call.width => m >= call.width)
      /\ (Len(c) <= 1 => m = n)
  BY <1>2, <1>3, <1>4
<1> DEFINE Kept(item) ==
             \/ \E i \in 1 .. Len(completed') : Follows(completed'[i].tokens, item)
             \/ \E i \in 1 .. Len(expanded') : Follows(expanded'[i].tokens, item)
             \/ \E i \in 1 .. Len(active') : i >= beamIdx' /\ Follows(active'[i].tokens, item)
<1>6. \A i \in 1 .. Len(expanded) : i \in 1 .. Len(expanded') /\ expanded'[i] = expanded[i]
  BY <1>1 DEF Joined
<1>7. \A i \in 1 .. Len(completed) : i \in 1 .. Len(completed') /\ completed'[i] = completed[i]
  BY <1>1 DEF Joined
<1>8. ASSUME NEW item \in Catalogue, Represented(item),
             \A t \in Beam!Allowed(s) : \E k \in 1 .. Len(c) : c[k].tokens = Append(s, t)
      PROVE  Kept(item)
  <2>1. CASE \E i \in 1 .. Len(completed) : Follows(completed[i].tokens, item)
    BY <1>7, <2>1
  <2>2. CASE \E i \in 1 .. Len(expanded) : Follows(expanded[i].tokens, item)
    BY <1>6, <2>2
  <2>3. CASE \E i \in 1 .. Len(active) : i >= beamIdx /\ Follows(active[i].tokens, item)
    <3>1. PICK i \in 1 .. Len(active) : i >= beamIdx /\ Follows(active[i].tokens, item)
      BY <2>3
    <3>2. CASE i # beamIdx
      BY <1>1, <1>2, <3>1, <3>2
    <3>3. CASE i = beamIdx
      <4>1. Follows(s, item)
        BY <3>1, <3>3 DEF s
      <4>2. PICK t \in Beam!Allowed(s) : Follows(Append(s, t), item)
        BY <1>2, <4>1, AllowedHasAll
      <4>3. PICK k \in 1 .. Len(c) : c[k].tokens = Append(s, t)
        BY <1>8
      <4>4. CASE k \in ends
        <5>1. \E i_1 \in 1 .. Len(completed') : completed'[i_1] = c[k]
          BY <1>1, <4>4, Zenon DEF Joined
        <5> QED
          BY <4>2, <4>3, <5>1
      <4>5. CASE k \notin ends
        <5>1. \E i_1 \in 1 .. Len(expanded') : expanded'[i_1] = c[k]
          BY <1>1, <4>5 DEF Joined
        <5> QED
          BY <4>2, <4>3, <5>1
      <4> QED
        BY <4>4, <4>5
    <3> QED
      BY <3>2, <3>3
  <2> QED
    BY <1>8, <2>1, <2>2, <2>3 DEF Represented
<1> HIDE DEF Kept
<1>9. Beam!Stochastic => m = call.width
  BY <1>3, <1>5 DEF Counted, n
<1>10. ~Beam!Stochastic /\ obeyed' => m >= call.width \/ \A item \in Catalogue : Kept(item)
  BY <1>1, <1>3, <1>5, <1>8 DEF Counted, n
<1>11. Beam!Stochastic' <=> Beam!Stochastic
  BY <1>1 DEF Beam!Stochastic
<1>12. Sum' = m /\ \A item \in Catalogue : Represented(item)' <=> Kept(item)
  BY Zenon DEF Sum, m, Represented, Kept, Follows
<1> QED
  BY <1>1, <1>5, <1>9, <1>10, <1>11, <1>12, Zenon DEF Counted

\* So an output that is handled keeps the invariant.
LEMMA HandledKeeps ==
  ASSUME BeamInv, NEW c, NEW ends, Handled(c, ends) PROVE BeamInv'
<1>1. BeamTypes /\ beamPhase = "search" /\ Searching
  BY DEF BeamInv, Handled, Beam!Handling, Beam!InStep
<1>2. call' = call /\ beamPhase' = beamPhase /\ (strayed => strayed')
  BY DEF Handled, Beam!NextOutput
<1>3. (Beam!Stochastic' <=> Beam!Stochastic) /\ beamPhase' # "done"
  BY <1>1, <1>2 DEF Beam!Stochastic
<1>4. BeamTypes' /\ Sized'
  BY <1>1, HandledTypes, HandledSized DEF Searching
<1>5. ~Beam!Stochastic' => Apart'
  BY <1>1, <1>3, HandledApart DEF Searching
<1>6. call'.constrained /\ ~strayed' => InTree' /\ Counted'
  BY <1>1, <1>2, HandledInTree, HandledCounted DEF Searching
<1>7. Beam!ReturnsItems' /\ Beam!DistinctBeams' /\ Beam!FillsTheGroup'
  BY <1>3 DEF Beam!ReturnsItems, Beam!DistinctBeams, Beam!FillsTheGroup
<1> QED
  BY <1>4, <1>5, <1>6, <1>7, Zenon DEF BeamInv, Searching

\* A ranking has the named tokens, each once.
LEMMA RankingIs ==
  ASSUME NEW shown \in SUBSET Beam!Token, NEW named \in [shown -> Logprob],
         NEW r \in Beam!Rankings(named)
  PROVE  /\ r \in Seq(Beam!Token) /\ Len(r) = Cardinality(shown)
         /\ \A i \in 1 .. Len(r) : r[i] \in shown
         /\ \A i, j \in 1 .. Len(r) : r[i] = r[j] => i = j
         /\ \A t \in shown : \E i \in 1 .. Len(r) : r[i] = t
<1> DEFINE n == Cardinality(shown)
<1>1. IsFiniteSet(shown) /\ n \in Nat
  BY TokenIs, FS_Subset, FS_CardinalityType
<1>2. Beam!Cardinality(shown) = n /\ DOMAIN named = shown
  BY Zenon DEF Beam!Cardinality, Cardinality
<1>3. r \in Beam!SetToSeqs(DOMAIN named)
  BY DEF Beam!Rankings
<1>4. r \in [1 .. n -> shown] /\ \A i, j \in 1 .. n : i # j => r[i] # r[j]
  BY <1>2, <1>3, Zenon DEF Beam!SetToSeqs
<1> HIDE DEF n
<1>5. IsFiniteSet(1 .. n) /\ Cardinality(1 .. n) = n
  BY <1>1, FS_Interval
<1>6. r \in Injection(1 .. n, shown)
  BY <1>4 DEF Injection, IsInjective
<1>7. r \in Surjection(1 .. n, shown)
  BY <1>1, <1>5, <1>6, FS_Injection DEF n
<1>8. \A t \in shown : \E i \in 1 .. n : r[i] = t
  BY <1>7 DEF Surjection
<1>9. r \in Seq(Beam!Token) /\ Len(r) = n
  BY <1>1, <1>4
<1> QED
  BY <1>4, <1>8, <1>9 DEF n

\* No element twice.
Once(s) == \A i, j \in 1 .. Len(s) : s[i] = s[j] => i = j

\* What is allowed of different tokens.
LEMMA FilteredIs ==
  ASSUME NEW q \in Seq(Beam!Token), Once(q), NEW f, f = Beam!Filtered(q)
  PROVE  /\ f \in Seq(Beam!Token) /\ Once(f)
         /\ \A k \in 1 .. Len(f) : f[k] \in Beam!AllowedNow
         /\ \A i \in 1 .. Len(q) : q[i] \in Beam!AllowedNow => \E k \in 1 .. Len(f) : f[k] = q[i]
         /\ (\A i \in 1 .. Len(q) : q[i] \in Beam!AllowedNow) => Len(f) = Len(q)
<1> DEFINE P == {k \in DOMAIN q : q[k] \in Beam!AllowedNow}
<1>1. f = At(q, P)
  BY BeamAt, Zenon DEF Beam!Filtered
<1>2. /\ P \in SUBSET (1 .. Len(q)) /\ Len(q) \in Nat
      /\ \A i \in 1 .. Len(q) : i \in P <=> q[i] \in Beam!AllowedNow
  OBVIOUS
<1> HIDE DEF P
<1>3. f \in Seq(Beam!Token) /\ HasPlaces(f, q, P)
  BY <1>1, <1>2, AtHasPlaces
<1>4. PICK o \in [1 .. Len(f) -> P] :
        /\ \A k \in 1 .. Len(f) : f[k] = q[o[k]]
        /\ \A k, l \in 1 .. Len(f) : o[k] = o[l] => k = l
        /\ \A p \in P : \E k \in 1 .. Len(f) : o[k] = p
  BY <1>3 DEF HasPlaces
<1>5. Once(f)
  <2> SUFFICES ASSUME NEW k \in 1 .. Len(f), NEW l \in 1 .. Len(f), f[k] = f[l] PROVE k = l
    BY DEF Once
  <2>1. o[k] \in 1 .. Len(q) /\ o[l] \in 1 .. Len(q)
    BY <1>2, <1>4
  <2>2. q[o[k]] = q[o[l]]
    BY <1>4
  <2>3. o[k] = o[l]
    BY <2>1, <2>2 DEF Once
  <2> QED
    BY <1>4, <2>3
<1>6. ASSUME NEW k \in 1 .. Len(f) PROVE f[k] \in Beam!AllowedNow
  <2>1. o[k] \in P /\ o[k] \in 1 .. Len(q) /\ f[k] = q[o[k]]
    BY <1>2, <1>4
  <2> QED
    BY <1>2, <2>1
<1>7. \A i \in 1 .. Len(q) : q[i] \in Beam!AllowedNow => \E k \in 1 .. Len(f) : f[k] = q[i]
  BY <1>2, <1>4
<1>8. ASSUME \A i \in 1 .. Len(q) : q[i] \in Beam!AllowedNow PROVE Len(f) = Len(q)
  <2>1. P = 1 .. Len(q)
    BY <1>2, <1>8
  <2>2. \A n \in Nat : Cardinality(1 .. n) = n
    BY FS_Interval
  <2> QED
    BY <1>2, <1>3, <2>1, <2>2 DEF HasPlaces
<1> QED
  BY <1>3, <1>5, <1>6, <1>7, <1>8

\* The tokens allowed now.
LEMMA AllowedNowIs ==
  ASSUME BeamTypes, Sized, Beam!Handling
  PROVE  /\ Beam!AllowedNow = IF call.constrained THEN Beam!Allowed(active[beamIdx].tokens) ELSE Beam!Token
         /\ Beam!AllowedNow \in SUBSET Beam!Token /\ Beam!AllowedNow # {}
<1>1. active[beamIdx].tokens \in Seq(0 .. EOS)
  BY CurrentIs, TokensAreNumbers
<1>2. Beam!AllowedNow = IF call.constrained THEN Beam!Allowed(active[beamIdx].tokens) ELSE Beam!Token
  BY Zenon DEF Beam!AllowedNow, Beam!Current
<1> QED
  BY <1>1, <1>2, AllowedIs, TokenIs

\* A beam with one token more.
LEMMA ExtendIs ==
  ASSUME BeamTypes, Sized, Beam!Handling, NEW t \in Beam!Token, NEW x \in Int
  PROVE  /\ Beam!Extend(Beam!Current, t, x) \in Beams
         /\ Beam!Extend(Beam!Current, t, x).tokens = Append(active[beamIdx].tokens, t)
<1>1. /\ active[beamIdx].tokens \in Seq(Beam!Token) /\ active[beamIdx].total \in Int
  BY CurrentIs, BeamIs
<1>2. Append(active[beamIdx].tokens, t) \in Seq(Beam!Token)
  BY <1>1, OneMoreToken
<1>3. Beam!Extend(Beam!Current, t, x) =
        [tokens |-> Append(active[beamIdx].tokens, t), total |-> active[beamIdx].total + x]
  BY Zenon DEF Beam!Extend, Beam!Beam, Beam!Current
<1>4. active[beamIdx].total + x \in Int
  BY <1>1
<1> QED
  BY <1>2, <1>3, <1>4 DEF Beams

\* One token that is forced, or sampled and allowed.
LEMMA OneContinues ==
  ASSUME BeamTypes, Sized, Beam!Handling, NEW t \in Beam!Token, NEW x \in Int,
         call.constrained /\ ~strayed' => t \in Beam!Allowed(active[beamIdx].tokens),
         call.constrained /\ ~strayed' /\ ~Beam!Stochastic => ~obeyed'
  PROVE  Continues(<<Beam!Extend(Beam!Current, t, x)>>)
<1> DEFINE b == Beam!Extend(Beam!Current, t, x)
<1>1. b \in Beams /\ b.tokens = Append(active[beamIdx].tokens, t)
  BY ExtendIs
<1> HIDE DEF b
<1>2. <<b>> \in Seq(Beams) /\ Len(<<b>>) = 1 /\ <<b>>[1] = b
  BY <1>1
<1>3. \A k \in 1 .. Len(<<b>>) : k = 1
  BY <1>2
<1>4. Different(<<b>>)
  BY <1>3 DEF Different
<1> QED
  BY <1>1, <1>2, <1>3, <1>4 DEF Continues, b

\* The forced token continues the beam.
LEMMA FallbackIs ==
  ASSUME BeamTypes, Sized, Beam!Handling, call.constrained /\ ~Beam!Stochastic => ~obeyed'
  PROVE  Continues(Beam!Fallback)
<1> DEFINE t == IF EOS \in Beam!AllowedNow THEN EOS ELSE Beam!Min(Beam!AllowedNow)
<1>1. CASE call.constrained
  <2>1. Beam!AllowedNow \in SUBSET Beam!Token /\ Beam!AllowedNow # {}
        /\ Beam!AllowedNow = Beam!Allowed(active[beamIdx].tokens)
    BY <1>1, AllowedNowIs
  <2>2. Beam!AllowedNow \in SUBSET Int /\ IsFiniteSet(Beam!AllowedNow)
    <3>1. Beam!Token \in SUBSET Int /\ IsFiniteSet(Beam!Token)
      BY TokenIs, BeamAssumption
    <3> QED
      BY <2>1, <3>1, FS_Subset
  <2>3. \E m \in Beam!AllowedNow : \A y \in Beam!AllowedNow : m <= y
    BY <2>1, <2>2, FiniteLeast
  <2>4. Beam!Min(Beam!AllowedNow) \in Beam!AllowedNow
    BY <2>3, Zenon DEF Beam!Min
  <2>5. t \in Beam!AllowedNow
    BY <2>4
  <2>6. Beam!Fallback = <<Beam!Extend(Beam!Current, t, 0)>>
    BY <1>1, Zenon DEF Beam!Fallback
  <2> HIDE DEF t
  <2>7. t \in Beam!Token /\ t \in Beam!Allowed(active[beamIdx].tokens)
    BY <2>1, <2>5
  <2> QED
    BY <2>6, <2>7, OneContinues
<1>2. CASE ~call.constrained
  <2>1. Beam!Fallback = <<>>
    BY <1>2 DEF Beam!Fallback
  <2>2. Len(<<>>) = 0 /\ <<>> \in Seq(Beams) /\ 1 .. 0 = {}
    OBVIOUS
  <2> QED
    BY <1>2, <2>1, <2>2 DEF Continues, Different
<1> QED
  BY <1>1, <1>2

\* The best tokens of a ranking that are allowed, at most 2 * width, and what they continue.
Ranked(tokens, c, named, ranking) ==
  /\ tokens = Beam!Filtered(SubSeq(ranking, 1, Beam!Min({2 * call.width, Len(ranking)})))
  /\ c = IF tokens = <<>> THEN Beam!Fallback
         ELSE [k \in DOMAIN tokens |-> Beam!Extend(Beam!Current, tokens[k], named[tokens[k]])]

\* A sequence that is not empty, and a function that is a sequence.
LEMMA NotEmpty ==
  ASSUME NEW D, NEW s \in Seq(D), s # <<>>
  PROVE  Len(s) \in Nat /\ Len(s) >= 1 /\ DOMAIN s = 1 .. Len(s) /\ \A k \in 1 .. Len(s) : s[k] \in D
OBVIOUS

\* A function on the first numbers is a sequence.
LEMMA FunctionIsSequence ==
  ASSUME NEW D, NEW n \in Nat, NEW s \in [1 .. n -> D]
  PROVE  s \in Seq(D) /\ Len(s) = n
OBVIOUS

\* They continue the beam.
LEMMA RankedContinues ==
  ASSUME BeamTypes, Sized, Beam!Handling,
         NEW shown \in SUBSET Beam!Token, NEW named \in [shown -> Logprob],
         NEW ranking \in Beam!Rankings(named), Beam!Stochastic => shown = {},
         NEW tokens, NEW c, Ranked(tokens, c, named, ranking),
         obeyed' = (obeyed /\ shown = Beam!AllowedNow)
  PROVE  Continues(c)
<1> DEFINE w == Beam!Min({2 * call.width, Len(ranking)})
           q == SubSeq(ranking, 1, w)
<1>1. /\ ranking \in Seq(Beam!Token) /\ Len(ranking) = Cardinality(shown) /\ Len(ranking) \in Nat
      /\ \A i \in 1 .. Len(ranking) : ranking[i] \in shown
      /\ \A i, j \in 1 .. Len(ranking) : ranking[i] = ranking[j] => i = j
      /\ \A t \in shown : \E i \in 1 .. Len(ranking) : ranking[i] = t
  BY RankingIs
<1>2. call.width \in Nat \ {0} /\ call.constrained \in BOOLEAN
  BY CallIs DEF BeamTypes
<1>3. w \in Nat /\ w <= Len(ranking) /\ (w = Len(ranking) \/ w >= call.width)
  BY <1>1, <1>2 DEF Beam!Min
<1> HIDE DEF w
<1>4. /\ q \in Seq(Beam!Token) /\ Len(q) = w /\ \A i \in 1 .. w : q[i] = ranking[i] /\ i \in 1 .. Len(ranking)
  BY <1>1, <1>3
<1> HIDE DEF q
<1>5. Once(q)
  BY <1>1, <1>4 DEF Once
<1>6. /\ tokens \in Seq(Beam!Token) /\ Once(tokens)
      /\ \A k \in 1 .. Len(tokens) : tokens[k] \in Beam!AllowedNow
      /\ \A i \in 1 .. Len(q) : q[i] \in Beam!AllowedNow => \E k \in 1 .. Len(tokens) : tokens[k] = q[i]
      /\ (\A i \in 1 .. Len(q) : q[i] \in Beam!AllowedNow) => Len(tokens) = Len(q)
  <2>1. tokens = Beam!Filtered(q)
    BY Zenon DEF q, w, Ranked
  <2> QED
    BY ONLY <1>4, <1>5, <2>1, FilteredIs
<1>7. /\ Beam!AllowedNow = IF call.constrained THEN Beam!Allowed(active[beamIdx].tokens) ELSE Beam!Token
      /\ Beam!AllowedNow \in SUBSET Beam!Token /\ Beam!AllowedNow # {}
  BY AllowedNowIs
<1>8. CASE tokens = <<>>
  <2>1. Len(q) = 0 => ranking = <<>> /\ shown = {}
    BY <1>1, <1>2, <1>3, <1>4
  <2>2. obeyed' => FALSE
    <3> SUFFICES ASSUME obeyed' PROVE FALSE
      OBVIOUS
    <3>1. shown = Beam!AllowedNow
      OBVIOUS
    <3>2. \A i \in 1 .. Len(q) : q[i] \in Beam!AllowedNow
      BY <1>1, <1>4, <3>1
    <3>3. Len(q) = 0
      BY <1>6, <1>8, <3>2
    <3> QED
      BY <1>7, <2>1, <3>1, <3>3
  <2>3. c = Beam!Fallback
    BY <1>8, Zenon DEF Ranked
  <2> QED
    BY <2>2, <2>3, FallbackIs
<1>9. CASE tokens # <<>>
  <2>1. c = [k \in DOMAIN tokens |-> Beam!Extend(Beam!Current, tokens[k], named[tokens[k]])]
    BY <1>9, Zenon DEF Ranked
  <2>2. Len(tokens) \in Nat /\ Len(tokens) >= 1 /\ DOMAIN tokens = 1 .. Len(tokens)
        /\ \A k \in 1 .. Len(tokens) : tokens[k] \in Beam!Token
    BY <1>6, <1>9, NotEmpty
  <2>3. ASSUME NEW k \in 1 .. Len(tokens)
        PROVE  tokens[k] \in shown /\ named[tokens[k]] \in Int
    <3>1. \E i \in 1 .. Len(q) : q[i] = tokens[k]
      <4>1. tokens = At(q, {i \in DOMAIN q : q[i] \in Beam!AllowedNow})
        BY BeamAt, Zenon DEF Beam!Filtered, q, w, Ranked
      <4> DEFINE P == {i \in DOMAIN q : q[i] \in Beam!AllowedNow}
      <4>2. P \in SUBSET (1 .. Len(q))
        BY <1>4
      <4> HIDE DEF P
      <4>3. HasPlaces(tokens, q, P)
        BY <1>4, <4>1, <4>2, AtHasPlaces DEF P
      <4>4. PICK o \in [1 .. Len(tokens) -> P] : \A j \in 1 .. Len(tokens) : tokens[j] = q[o[j]]
        BY <4>3 DEF HasPlaces
      <4>5. o[k] \in 1 .. Len(q) /\ tokens[k] = q[o[k]]
        BY <4>2, <4>4
      <4> QED
        BY <4>5
    <3>2. tokens[k] \in shown
      BY <1>1, <1>4, <3>1
    <3> QED
      BY <3>2, BeamAssumption
  <2>4. ASSUME NEW k \in 1 .. Len(tokens)
        PROVE  c[k] \in Beams /\ c[k].tokens = Append(active[beamIdx].tokens, tokens[k])
    <3>1. c[k] = Beam!Extend(Beam!Current, tokens[k], named[tokens[k]])
      BY <2>1, <2>2
    <3> DEFINE x == named[tokens[k]]
               t == tokens[k]
    <3>2. x \in Int /\ t \in Beam!Token
      BY <2>2, <2>3
    <3> HIDE DEF x, t
    <3>3. Beam!Extend(Beam!Current, t, x) \in Beams
          /\ Beam!Extend(Beam!Current, t, x).tokens = Append(active[beamIdx].tokens, t)
      BY <3>2, ExtendIs
    <3> QED
      BY <3>1, <3>3 DEF x, t
  <2>5. c \in Seq(Beams) /\ Len(c) = Len(tokens)
    <3>1. DOMAIN c = 1 .. Len(tokens) /\ c = [k \in 1 .. Len(tokens) |-> c[k]]
      BY <2>1, <2>2
    <3>2. c \in [1 .. Len(tokens) -> Beams]
      BY <2>4, <3>1
    <3>3. Len(tokens) \in Nat
      BY <2>2
    <3> QED
      BY <3>2, <3>3, FunctionIsSequence
  <2>6. Different(c)
    <3> SUFFICES ASSUME NEW i \in 1 .. Len(tokens), NEW j \in 1 .. Len(tokens), i # j
                 PROVE  c[i].tokens # c[j].tokens
      BY <2>5, Zenon DEF Different
    <3>1. tokens[i] # tokens[j]
      BY <1>6 DEF Once
    <3>2. active[beamIdx].tokens \in Seq(Beam!Token)
      BY CurrentIs
    <3>3. Append(active[beamIdx].tokens, tokens[i])[Len(active[beamIdx].tokens) + 1] = tokens[i]
          /\ Append(active[beamIdx].tokens, tokens[j])[Len(active[beamIdx].tokens) + 1] = tokens[j]
      BY <2>2, <3>2, OneMoreToken
    <3> QED
      BY <2>4, <3>1, <3>3
  <2>7. ~Beam!Stochastic
    <3>1. 1 \in 1 .. Len(tokens)
      BY <2>2
    <3> QED
      BY <2>3, <3>1
  <2>8. ASSUME call.constrained, obeyed'
        PROVE  \/ Len(c) >= call.width
               \/ \A t \in Beam!Allowed(active[beamIdx].tokens) :
                    \E k \in 1 .. Len(c) : c[k].tokens = Append(active[beamIdx].tokens, t)
    <3>1. shown = Beam!AllowedNow /\ Beam!AllowedNow = Beam!Allowed(active[beamIdx].tokens)
      BY <1>7, <2>8
    <3>2. \A i \in 1 .. Len(q) : q[i] \in Beam!AllowedNow
      BY <1>1, <1>4, <3>1
    <3>3. Len(c) = w
      BY <1>4, <1>6, <2>5, <3>2
    <3>4. CASE w >= call.width
      BY <3>3, <3>4
    <3>5. CASE w = Len(ranking)
      <4> SUFFICES ASSUME NEW t \in Beam!Allowed(active[beamIdx].tokens)
                   PROVE  \E k \in 1 .. Len(c) : c[k].tokens = Append(active[beamIdx].tokens, t)
        OBVIOUS
      <4>1. PICK i \in 1 .. Len(ranking) : ranking[i] = t
        BY <1>1, <3>1
      <4>2. i \in 1 .. Len(q) /\ q[i] = t
        BY <1>4, <3>5, <4>1
      <4>3. PICK k \in 1 .. Len(tokens) : tokens[k] = t
        BY <1>6, <3>2, <4>2
      <4> QED
        BY <2>4, <2>5, <4>3
    <3> QED
      BY <1>3, <3>4, <3>5
  <2>9. ASSUME NEW k \in 1 .. Len(c)
        PROVE  \E t \in Beam!Token :
                 /\ c[k].tokens = Append(active[beamIdx].tokens, t)
                 /\ call.constrained => t \in Beam!Allowed(active[beamIdx].tokens)
    <3>1. k \in 1 .. Len(tokens)
      BY <2>5
    <3>2. tokens[k] \in Beam!Token /\ tokens[k] \in Beam!AllowedNow
      BY <1>6, <2>2, <3>1
    <3>3. c[k].tokens = Append(active[beamIdx].tokens, tokens[k])
      BY <2>4, <3>1
    <3>4. call.constrained => tokens[k] \in Beam!Allowed(active[beamIdx].tokens)
      BY <1>7, <3>2
    <3> QED
      BY <3>2, <3>3, <3>4, Zenon
  <2> QED
    BY <2>2, <2>5, <2>6, <2>7, <2>8, <2>9 DEF Continues
<1> QED
  BY <1>8, <1>9

\* The outputs keep the invariant: log-probabilities,
LEMMA BeamLogprobs == ASSUME BeamInv, Beam!HandleLogprobs PROVE BeamInv'
<1>1. BeamTypes /\ Sized /\ Beam!Handling /\ Beam!NextOutput /\ strayed' = strayed
  BY DEF BeamInv, Searching, Beam!HandleLogprobs, Beam!Handling, Beam!InStep
<1>2. PICK shown \in SUBSET Beam!Token : \E named \in [shown -> Logprob] :
        \E ranking \in Beam!Rankings(named) :
          LET tokens == Beam!Filtered(SubSeq(ranking, 1, Beam!Min({2 * call.width, Len(ranking)})))
          IN  /\ Beam!Stochastic => shown = {}
              /\ Beam!Add(IF tokens = <<>> THEN Beam!Fallback
                     ELSE [k \in DOMAIN tokens |-> Beam!Extend(Beam!Current, tokens[k], named[tokens[k]])])
              /\ obeyed' = (obeyed /\ shown = Beam!AllowedNow)
  BY Zenon DEF Beam!HandleLogprobs
<1>3. PICK named \in [shown -> Logprob] : \E ranking \in Beam!Rankings(named) :
          LET tokens == Beam!Filtered(SubSeq(ranking, 1, Beam!Min({2 * call.width, Len(ranking)})))
          IN  /\ Beam!Stochastic => shown = {}
              /\ Beam!Add(IF tokens = <<>> THEN Beam!Fallback
                     ELSE [k \in DOMAIN tokens |-> Beam!Extend(Beam!Current, tokens[k], named[tokens[k]])])
              /\ obeyed' = (obeyed /\ shown = Beam!AllowedNow)
  BY <1>2, Zenon
<1>4. PICK ranking \in Beam!Rankings(named) :
          LET tokens == Beam!Filtered(SubSeq(ranking, 1, Beam!Min({2 * call.width, Len(ranking)})))
          IN  /\ Beam!Stochastic => shown = {}
              /\ Beam!Add(IF tokens = <<>> THEN Beam!Fallback
                     ELSE [k \in DOMAIN tokens |-> Beam!Extend(Beam!Current, tokens[k], named[tokens[k]])])
              /\ obeyed' = (obeyed /\ shown = Beam!AllowedNow)
  BY <1>3, Zenon
<1> DEFINE tokens == Beam!Filtered(SubSeq(ranking, 1, Beam!Min({2 * call.width, Len(ranking)})))
           c == IF tokens = <<>> THEN Beam!Fallback
                ELSE [k \in DOMAIN tokens |-> Beam!Extend(Beam!Current, tokens[k], named[tokens[k]])]
<1>5. (Beam!Stochastic => shown = {}) /\ Beam!Add(c) /\ obeyed' = (obeyed /\ shown = Beam!AllowedNow)
  BY <1>4
<1>6. Ranked(tokens, c, named, ranking)
  BY Zenon DEF Ranked
<1> HIDE DEF c, tokens
<1>7. Continues(c)
  BY <1>1, <1>5, <1>6, RankedContinues
<1>8. PICK ends : Added(c, ends)
  BY <1>1, <1>5, <1>7, AddIs DEF Continues, BeamTypes
<1>9. obeyed' \in BOOLEAN /\ (obeyed' => obeyed)
  BY <1>1, <1>5 DEF BeamTypes
<1> QED
  BY <1>1, <1>7, <1>8, <1>9, HandledKeeps DEF Handled, BeamTypes

\* a sample,
LEMMA BeamSample == ASSUME BeamInv, Beam!HandleSample PROVE BeamInv'
<1>1. /\ BeamTypes /\ Sized /\ Beam!Handling /\ Beam!NextOutput /\ strayed' = strayed /\ obeyed' = obeyed
      /\ Beam!Stochastic
  BY DEF BeamInv, Searching, Beam!HandleSample, Beam!Handling, Beam!InStep
<1>2. PICK sampled \in Beam!Token, logprob \in Logprob, given_1 \in BOOLEAN :
        Beam!Add(IF given_1 /\ Beam!Filtered(<<sampled>>) # <<>>
                 THEN <<Beam!Extend(Beam!Current, sampled, logprob)>>
                 ELSE Beam!Fallback)
  BY Zenon DEF Beam!HandleSample
<1>3. Logprob \subseteq Int
  BY BeamAssumption
<1>4. CASE given_1 /\ Beam!Filtered(<<sampled>>) # <<>>
  <2>1. Beam!Add(<<Beam!Extend(Beam!Current, sampled, logprob)>>)
    BY <1>2, <1>4
  <2>2. sampled \in Beam!AllowedNow
    <3> DEFINE q == <<sampled>>
               f == Beam!Filtered(q)
    <3>1. q \in Seq(Beam!Token) /\ Len(q) = 1 /\ q[1] = sampled /\ Once(q)
      BY DEF Once
    <3> HIDE DEF q
    <3>2. f \in Seq(Beam!Token) /\ (\A k \in 1 .. Len(f) : f[k] \in Beam!AllowedNow)
      BY <3>1, FilteredIs
    <3>3. f = At(q, {k \in DOMAIN q : q[k] \in Beam!AllowedNow})
      BY BeamAt, Zenon DEF Beam!Filtered
    <3>4. ASSUME sampled \notin Beam!AllowedNow PROVE FALSE
      <4>1. {k \in DOMAIN q : q[k] \in Beam!AllowedNow} = {}
        BY <3>1, <3>4
      <4>2. HasPlaces(f, q, {}) /\ {} \in SUBSET (1 .. Len(q))
        BY <3>1, <3>3, <4>1, AtHasPlaces
      <4>3. Len(f) = 0
        BY <4>2, FS_EmptySet DEF HasPlaces
      <4>4. f = <<>>
        BY <3>2, <4>3
      <4> QED
        BY <1>4, <4>4 DEF q
    <3> QED
      BY <3>4
  <2>3. call.constrained => sampled \in Beam!Allowed(active[beamIdx].tokens)
    BY <1>1, <2>2, AllowedNowIs
  <2>4. Continues(<<Beam!Extend(Beam!Current, sampled, logprob)>>)
    BY <1>1, <1>3, <2>3, OneContinues
  <2>5. PICK ends : Added(<<Beam!Extend(Beam!Current, sampled, logprob)>>, ends)
    BY <1>1, <2>1, <2>4, AddIs DEF Continues, BeamTypes
  <2> QED
    BY <1>1, <2>4, <2>5, HandledKeeps DEF Handled, BeamTypes
<1>5. CASE ~ (given_1 /\ Beam!Filtered(<<sampled>>) # <<>>)
  <2>1. Beam!Add(Beam!Fallback)
    BY <1>2, <1>5
  <2>2. Continues(Beam!Fallback)
    BY <1>1, FallbackIs
  <2>3. PICK ends : Added(Beam!Fallback, ends)
    BY <1>1, <2>1, <2>2, AddIs DEF Continues, BeamTypes
  <2> QED
    BY <1>1, <2>2, <2>3, HandledKeeps DEF Handled, BeamTypes
<1> QED
  BY <1>4, <1>5

\* a bare token,
LEMMA BeamBareToken == ASSUME BeamInv, Beam!HandleBareToken PROVE BeamInv'
<1>1. /\ BeamTypes /\ Sized /\ Beam!Handling /\ Beam!NextOutput /\ strayed' = TRUE /\ obeyed' = obeyed
      /\ completed' = completed
  BY DEF BeamInv, Searching, Beam!HandleBareToken, Beam!Handling, Beam!InStep
<1>2. PICK t \in Beam!Token : expanded' = Append(expanded, Beam!Extend(Beam!Current, t, 0))
  BY Zenon DEF Beam!HandleBareToken
<1> DEFINE b == Beam!Extend(Beam!Current, t, 0)
<1>3. b \in Beams /\ Continues(<<b>>)
  BY <1>1, ExtendIs, OneContinues
<1>4. expanded \in Seq(Beams) /\ completed \in Seq(Beams)
  BY <1>1 DEF BeamTypes
<1> HIDE DEF b
<1>5. /\ expanded' \in Seq(Beams) /\ Len(expanded') = Len(expanded) + 1 /\ Len(expanded) \in Nat
      /\ \A k \in 1 .. Len(expanded) : k \in 1 .. Len(expanded') /\ expanded'[k] = expanded[k]
      /\ expanded'[Len(expanded) + 1] = b
  BY <1>2, <1>3, <1>4 DEF b
<1>6. Len(<<b>>) = 1 /\ <<b>>[1] = b /\ (1 .. Len(<<b>>)) \ {} = {1} /\ Cardinality({1}) = 1 /\ Cardinality({}) = 0
  BY FS_Singleton, FS_EmptySet
<1>7. \A k \in 1 .. Len(expanded') : k \in 1 .. Len(expanded) \/ k = Len(expanded) + 1
  BY <1>5
<1>8. Joined(expanded', expanded, <<b>>, {1})
  BY <1>5, <1>6, <1>7 DEF Joined
<1>9. Joined(completed', completed, <<b>>, {})
  BY <1>1, <1>4, <1>6 DEF Joined
<1>10. Added(<<b>>, {})
  BY <1>1, <1>4, <1>5, <1>6, <1>8, <1>9 DEF Added
<1> QED
  BY <1>1, <1>3, <1>10, HandledKeeps DEF Handled, BeamTypes

\* an error.
LEMMA BeamError == ASSUME BeamInv, Beam!HandleError PROVE BeamInv'
<1>1. /\ beamPhase' = "failed" /\ call' = call /\ beamStep' = beamStep /\ beamIdx' = beamIdx
      /\ active' = active /\ expanded' = expanded /\ completed' = completed
      /\ obeyed' = obeyed /\ strayed' = strayed
  BY DEF Beam!HandleError
<1>2. BeamTypes'
  BY <1>1 DEF BeamInv, BeamTypes
<1> QED
  BY <1>1, <1>2 DEF BeamInv, Beam!ReturnsItems, Beam!DistinctBeams, Beam!FillsTheGroup

-------------------------------------------------------------------------------
(* BeamSearch: the next step.                                                *)

\* The expanded beams have scores.
LEMMA ExpandedScored ==
  ASSUME BeamTypes, Sized, beamStep < call.budget
  PROVE  Scored(expanded)
<1> SUFFICES ASSUME NEW i \in 1 .. Len(expanded)
             PROVE  Divisor[Beam!Length(expanded[i])] \in Nat \ {0}
  BY DEF Scored
<1>1. expanded[i] \in Beams /\ call \in Calls
  BY DEF BeamTypes
<1>2. Len(expanded[i].tokens) <= call.budget
  BY CallIs DEF BeamTypes, Sized
<1> QED
  BY <1>1, <1>2, LengthIs

\* The next step keeps the invariant.
LEMMA BeamNextStep == ASSUME BeamInv, Beam!NextStep PROVE BeamInv'
<1>1. /\ beamPhase = "search" /\ beamStep < call.budget /\ beamIdx > Len(active) /\ expanded # <<>>
      /\ active' = Beam!Top(expanded) /\ expanded' = <<>> /\ beamStep' = beamStep + 1 /\ beamIdx' = 1
      /\ call' = call /\ beamPhase' = beamPhase /\ completed' = completed
      /\ obeyed' = obeyed /\ strayed' = strayed
  BY DEF Beam!NextStep, Beam!StepIsOver, Beam!InStep, Beam!NothingToExpand
<1>2. BeamTypes /\ Sized /\ Searching
  BY <1>1 DEF BeamInv, Searching
<1>3. /\ call.budget \in Nat /\ call.width \in Nat \ {0} /\ beamStep \in Nat
      /\ Len(expanded) \in Nat /\ Len(completed) \in Nat /\ Len(active) \in Nat /\ beamIdx \in Nat
      /\ beamIdx = Len(active) + 1 /\ Len(expanded) >= 1 /\ completed \in Seq(Beams)
  <2>1. Len(expanded) >= 1
    BY <1>1, <1>2, NotEmpty DEF BeamTypes
  <2> QED
    BY <1>1, <1>2, <2>1, CallIs DEF BeamTypes
<1>4. active' \in Seq(Beams) /\ Chosen(active', expanded, call.width)
  <2>1. Scored(expanded) /\ expanded \in Seq(Beams) /\ call \in Calls
    BY <1>1, <1>2, ExpandedScored DEF BeamTypes
  <2> QED
    BY <1>1, <2>1, TopIs
<1>5. PICK o \in [1 .. Len(active') -> 1 .. Len(expanded)] :
        /\ \A k \in 1 .. Len(active') : active'[k] = expanded[o[k]]
        /\ \A k, l \in 1 .. Len(active') : o[k] = o[l] => k = l
  BY <1>4 DEF Chosen
<1>6. /\ Len(active') \in Nat /\ Len(active') <= call.width /\ Len(active') <= Len(expanded)
      /\ (Len(active') = call.width \/ Len(active') = Len(expanded))
  BY <1>4 DEF Chosen
<1>7. Len(expanded') = 0 /\ expanded' \in Seq(Beams) /\ 1 .. Len(expanded') = {}
  BY <1>1
<1>8. BeamTypes'
  BY <1>1, <1>2, <1>3, <1>4, <1>6, <1>7 DEF BeamTypes
<1>9. Sized'
  <2>1. \A i \in 1 .. Len(active') : Len(active'[i].tokens) = beamStep + 1
    BY <1>2, <1>5 DEF Sized
  <2>2. \A i \in 1 .. Len(completed) :
          ~call.ignoreEos /\ Len(completed[i].tokens) <= call.budget /\ Beam!EndsInEOS(completed[i])
    BY <1>2 DEF Sized
  <2>3. \A i \in 1 .. Len(active') : Len(active'[i].tokens) = beamStep'
    BY <1>1, <2>1
  <2>4. \A i \in 1 .. Len(completed') :
          ~call'.ignoreEos /\ Len(completed'[i].tokens) <= call'.budget /\ Beam!EndsInEOS(completed'[i])
    BY <1>1, <2>2
  <2> QED
    BY <1>1, <1>7, <2>3, <2>4, Zenon DEF Sized, Beam!EndsInEOS, Beam!Last
<1>10. ASSUME Apart PROVE Apart'
  <2>1. Different(active')
    <3> SUFFICES ASSUME NEW i \in 1 .. Len(active'), NEW j \in 1 .. Len(active'), i # j
                 PROVE  active'[i].tokens # active'[j].tokens
      BY DEF Different
    <3>1. o[i] # o[j] /\ o[i] \in 1 .. Len(expanded) /\ o[j] \in 1 .. Len(expanded)
      BY <1>5
    <3> QED
      BY <1>5, <1>10, <3>1 DEF Apart, Different
  <2>2. Different(expanded')
    BY <1>7 DEF Different
  <2>3. Different(completed')
    BY <1>1, <1>10 DEF Apart
  <2>4. \A i \in 1 .. Len(completed') : Len(completed'[i].tokens) <= beamStep'
    <3> SUFFICES ASSUME NEW i \in 1 .. Len(completed) PROVE Len(completed[i].tokens) <= beamStep + 1
      BY <1>1
    <3>1. completed[i] \in Beams
      BY <1>3
    <3>2. Len(completed[i].tokens) \in Nat
      BY <3>1, BeamIs
    <3>3. CASE Len(completed[i].tokens) <= beamStep
      BY <1>3, <3>2, <3>3
    <3>4. CASE Continued(completed[i])
      <4>1. PICK j \in 1 .. beamIdx - 1, t \in Beam!Token : completed[i].tokens = Append(active[j].tokens, t)
        BY <3>4 DEF Continued
      <4>2. j \in 1 .. Len(active)
        BY <1>3
      <4>3. active[j].tokens \in Seq(Beam!Token) /\ Len(active[j].tokens) = beamStep
        <5>1. active[j] \in Beams
          BY <1>2, <4>2 DEF BeamTypes
        <5> QED
          BY <1>2, <4>2, <5>1, BeamIs DEF Sized
      <4>4. Len(completed[i].tokens) = beamStep + 1
        BY <4>1, <4>3, OneMoreToken
      <4> QED
        BY <1>3, <4>4
    <3> QED
      BY <1>10, <3>3, <3>4 DEF Apart
  <2> QED
    BY <1>7, <2>1, <2>2, <2>3, <2>4, Zenon DEF Apart, Different
<1>11. ASSUME InTree PROVE InTree'
  <2>1. \A i \in 1 .. Len(active') :
          \E item \in Catalogue :
            Follows(active'[i].tokens, item) /\ (call'.ignoreEos \/ Len(active'[i].tokens) <= Len(item))
    BY <1>1, <1>5, <1>11 DEF InTree, Within
  <2>2. \A i \in 1 .. Len(completed') :
          \E item \in Catalogue :
            Follows(completed'[i].tokens, item) /\ Len(completed'[i].tokens) = Len(item) + 1
    BY <1>1, <1>11 DEF InTree
  <2> QED
    BY <1>7, <2>1, <2>2, Zenon DEF InTree, Within, Follows
<1>12. ASSUME Counted PROVE Counted'
  <2> DEFINE m == (Len(completed') + Len(expanded') + Len(active') + 1) - beamIdx'
  <2>1. Sum = Len(completed) + Len(expanded) /\ m = Len(completed) + Len(active')
    <3>1. Len(completed') = Len(completed) /\ Len(expanded') = 0 /\ beamIdx' = 1
      BY <1>1, <1>7
    <3> QED
      BY <1>3, <1>6, <3>1 DEF Sum
  <2>2. Sum' = m
    BY Zenon DEF Sum
  <2> HIDE DEF m
  <2>3. m >= 1 /\ (Sum >= call.width => m >= call.width) /\ (Sum = call.width => m = call.width)
    BY <1>3, <1>6, <2>1
  <2>4. Beam!Stochastic' <=> Beam!Stochastic
    BY <1>1 DEF Beam!Stochastic
  <2> DEFINE Kept(item) ==
             \/ \E i \in 1 .. Len(completed') : Follows(completed'[i].tokens, item)
             \/ \E i \in 1 .. Len(expanded') : Follows(expanded'[i].tokens, item)
             \/ \E i \in 1 .. Len(active') : i >= beamIdx' /\ Follows(active'[i].tokens, item)
  <2>5. ASSUME m < call.width, NEW item \in Catalogue, Represented(item) PROVE Kept(item)
    <3>1. Len(expanded) <= call.width
      BY <1>3, <1>6, <2>1, <2>5
    <3>2. \A i \in 1 .. Len(expanded) : \E k \in 1 .. Len(active') : active'[k] = expanded[i]
      BY <1>3, <1>4, <3>1, AllAreChosen
    <3>3. \A k \in 1 .. Len(active') : k >= beamIdx'
      BY <1>1
    <3>4. ~ \E i \in 1 .. Len(active) : i >= beamIdx
      BY <1>3
    <3> QED
      BY <1>1, <2>5, <3>2, <3>3, <3>4 DEF Represented
  <2> HIDE DEF Kept
  <2>6. \A item \in Catalogue : Represented(item)' <=> Kept(item)
    BY Zenon DEF Represented, Kept, Follows
  <2>7. m < call.width \/ m >= call.width
    BY <1>3, <1>6, <2>1
  <2>8. Beam!Stochastic => m = call.width
    BY <1>12, <2>3 DEF Counted
  <2>9. ~Beam!Stochastic /\ obeyed => m >= call.width \/ \A item \in Catalogue : Kept(item)
    BY <1>12, <2>3, <2>5, <2>7 DEF Counted
  <2> QED
    BY <1>1, <2>2, <2>3, <2>4, <2>6, <2>8, <2>9, Zenon DEF Counted
<1>13. (Beam!Stochastic' <=> Beam!Stochastic) /\ beamPhase' # "done"
  BY <1>1 DEF Beam!Stochastic
<1>14. Searching'
  <2>1. ~Beam!Stochastic' => Apart'
    BY <1>2, <1>10, <1>13 DEF Searching
  <2>2. call'.constrained /\ ~strayed' => InTree' /\ Counted'
    BY <1>1, <1>2, <1>11, <1>12 DEF Searching
  <2> QED
    BY <1>9, <2>1, <2>2, Zenon DEF Searching
<1>15. Beam!ReturnsItems' /\ Beam!DistinctBeams' /\ Beam!FillsTheGroup'
  BY <1>13 DEF Beam!ReturnsItems, Beam!DistinctBeams, Beam!FillsTheGroup
<1> QED
  BY <1>8, <1>14, <1>15, Zenon DEF BeamInv

-------------------------------------------------------------------------------
(* BeamSearch: what is returned.                                             *)

\* Without the EOS, what has the whole of an item is the item.
LEMMA WholeItem ==
  ASSUME NEW item \in Catalogue, NEW s \in Seq(0 .. EOS), Follows(s, item), Len(s) >= Len(item)
  PROVE  Beam!WithoutEOS(s) = item
<1> DEFINE P == {k \in DOMAIN s : s[k] # EOS}
           n == Len(item)
<1>1. item \in Seq(0 .. EOS - 1) /\ n \in Nat /\ Len(s) \in Nat
  BY BeamAssumption
<1>2. P = 1 .. n
  <2>1. \A k \in 1 .. Len(s) : s[k] = EOS <=> k > n
    BY <1>1, WhereEOSIs
  <2>2. DOMAIN s = 1 .. Len(s) /\ \A k \in 1 .. n : k \in 1 .. Len(s)
    BY <1>1
  <2> QED
    BY <1>1, <2>1, <2>2
<1>3. Beam!WithoutEOS(s) = At(s, P)
  BY BeamAt, Zenon DEF Beam!WithoutEOS
<1> HIDE DEF P, n
<1> DEFINE o == Ascending(1 .. n)
<1>5. /\ o \in [1 .. n -> 1 .. n] /\ \A k \in 1 .. n : o[k] = k
  <2>1. \A m \in Nat : 1 .. 1 + m - 1 = 1 .. m
    OBVIOUS
  <2>2. o = [k \in 1 .. n |-> 1 + k - 1]
    BY <1>1, <2>1, AscendingRun
  <2>3. \A k \in 1 .. n : 1 + k - 1 = k
    BY <1>1
  <2> QED
    BY <2>2, <2>3
<1>6. At(s, P) = [k \in DOMAIN o |-> s[o[k]]]
  BY <1>2 DEF At
<1> HIDE DEF o
<1>7. At(s, P) = [k \in 1 .. n |-> s[k]]
  BY <1>5, <1>6
<1>8. \A k \in 1 .. n : s[k] = item[k]
  <2>1. \A k \in 1 .. n : k \in 1 .. Len(s) /\ k <= Len(item)
    BY <1>1 DEF n
  <2> QED
    BY <2>1 DEF Follows
<1>9. item = [k \in 1 .. n |-> item[k]]
  BY <1>1 DEF n
<1> QED
  BY <1>3, <1>7, <1>8, <1>9

\* What has all of two items is one of them only.
LEMMA SameItem ==
  ASSUME NEW item \in Catalogue, NEW other \in Catalogue, NEW s, Len(s) \in Nat,
         Follows(s, item), Follows(s, other), Len(s) > Len(item), Len(s) > Len(other)
  PROVE  item = other
<1>1. /\ item \in Seq(0 .. EOS - 1) /\ other \in Seq(0 .. EOS - 1)
      /\ Len(item) \in Nat /\ Len(other) \in Nat
  BY BeamAssumption
<1>2. Len(item) + 1 \in 1 .. Len(s) /\ Len(other) + 1 \in 1 .. Len(s)
  BY <1>1
<1>3. s[Len(item) + 1] = EOS /\ s[Len(other) + 1] = EOS
  BY <1>1, <1>2, WhereEOSIs
<1>4. Len(item) + 1 > Len(other) /\ Len(other) + 1 > Len(item)
  BY <1>2, <1>3, WhereEOSIs
<1>5. Len(item) = Len(other)
  BY <1>1, <1>4
<1>6. \A k \in 1 .. Len(item) : item[k] = other[k]
  BY <1>1, <1>5 DEF Follows
<1> QED
  BY <1>1, <1>5, <1>6, SeqEqual

\* Two sequences that follow an item and are as long are the same.
LEMMA SameTokens ==
  ASSUME NEW item, NEW s \in Seq(Beam!Token), NEW r \in Seq(Beam!Token), Len(s) = Len(r),
         Follows(s, item), Follows(r, item)
  PROVE  s = r
<1>1. \A k \in 1 .. Len(s) : s[k] = r[k]
  BY DEF Follows
<1> QED
  BY <1>1, SeqEqual

\* No item is longer than Longest.
LEMMA LongestIs ==
  /\ Beam!Longest \in Nat
  /\ \A item \in Catalogue : Len(item) <= Beam!Longest
<1> DEFINE S == {Len(item) : item \in Catalogue}
<1>1. IsFiniteSet(S)
  <2> DEFINE f == [item \in Catalogue |-> Len(item)]
  <2>1. f \in Surjection(Catalogue, S)
    BY DEF Surjection
  <2> QED
    BY <2>1, FS_Surjection, BeamAssumption
<1>2. S \in SUBSET Nat /\ S # {} /\ \A item \in Catalogue : Len(item) \in S
  BY BeamAssumption
<1>3. \E n \in S : \A d \in S : n >= d
  BY <1>1, <1>2, FiniteMaximum
<1>4. \E n \in S : \A item \in Catalogue : Len(item) <= n
  <2>1. PICK n \in S : \A d \in S : n >= d
    BY <1>3
  <2>2. n \in Nat /\ \A item \in Catalogue : Len(item) \in Nat /\ n >= Len(item)
    BY <1>2, <2>1
  <2>3. \A item \in Catalogue : Len(item) <= n
    BY <2>2
  <2> QED
    BY <2>1, <2>3
<1>5. Beam!Longest \in S /\ \A item \in Catalogue : Len(item) <= Beam!Longest
  BY <1>4, Zenon DEF Beam!Longest
<1> QED
  BY <1>2, <1>5

\* Two sequences without their EOS.
LEMMA CutIsDifferent ==
  ASSUME NEW s \in Seq(Beam!Token), NEW r \in Seq(Beam!Token), s # r,
         NEW x \in BOOLEAN, NEW y \in BOOLEAN,
         x => Len(s) >= 1 /\ s[Len(s)] = EOS, y => Len(r) >= 1 /\ r[Len(r)] = EOS,
         Len(s) = Len(r) \/ (x /\ y)
  PROVE  (IF x THEN Beam!Front(s) ELSE s) # (IF y THEN Beam!Front(r) ELSE r)
<1>1. \A q \in Seq(Beam!Token) : Len(q) >= 1 =>
        /\ Len(Beam!Front(q)) = Len(q) - 1 /\ \A k \in 1 .. Len(q) - 1 : Beam!Front(q)[k] = q[k]
  <2> SUFFICES ASSUME NEW q \in Seq(Beam!Token), Len(q) >= 1
               PROVE  /\ Len(Beam!Front(q)) = Len(q) - 1
                      /\ \A k \in 1 .. Len(q) - 1 : Beam!Front(q)[k] = q[k]
    OBVIOUS
  <2> DEFINE m == Len(q) - 1
  <2>1. m \in Nat /\ m <= Len(q) /\ Len(q) \in Nat
    OBVIOUS
  <2>2. Beam!Front(q) = SubSeq(q, 1, m)
    BY DEF Beam!Front
  <2> HIDE DEF m
  <2>3. Len(SubSeq(q, 1, m)) = m /\ \A k \in 1 .. m : SubSeq(q, 1, m)[k] = q[k]
    BY <2>1
  <2> QED
    BY <2>2, <2>3 DEF m
<1>2. Len(s) \in Nat /\ Len(r) \in Nat
  OBVIOUS
<1>3. CASE x /\ y
  <2> SUFFICES ASSUME Beam!Front(s) = Beam!Front(r) PROVE FALSE
    BY <1>3
  <2>1. Len(s) = Len(r) /\ Len(s) >= 1
    BY <1>1, <1>2, <1>3
  <2>2. \A k \in 1 .. Len(s) - 1 : s[k] = r[k]
    BY <1>1, <1>3, <2>1
  <2>3. \A k \in 1 .. Len(s) : k \in 1 .. Len(s) - 1 \/ k = Len(s)
    BY <1>2
  <2>4. \A k \in 1 .. Len(s) : s[k] = r[k]
    BY <1>3, <2>1, <2>2, <2>3
  <2> QED
    BY <2>1, <2>4, SeqEqual
<1>4. CASE x /\ ~y
  BY <1>1, <1>2, <1>4
<1>5. CASE ~x /\ y
  BY <1>1, <1>2, <1>5
<1>6. CASE ~x /\ ~y
  BY <1>6
<1> QED
  BY <1>3, <1>4, <1>5, <1>6

\* What returning leaves.
Unchanged ==
  /\ call' = call /\ beamStep' = beamStep /\ beamIdx' = beamIdx /\ active' = active
  /\ expanded' = expanded /\ obeyed' = obeyed /\ strayed' = strayed

\* The beams to return, of which the best are.
LEMMA ReturnIs ==
  ASSUME BeamInv, Beam!Return
  PROVE  /\ BeamTypes /\ Sized /\ Searching /\ Unchanged /\ beamPhase' = "done"
         /\ Beam!Candidates = (IF completed = <<>> THEN active ELSE completed)
         /\ Beam!Candidates \in Seq(Beams) /\ completed' \in Seq(Beams)
         /\ Chosen(completed', Beam!Candidates, call.width)
         /\ beamStep = call.budget \/ (expanded = <<>> /\ beamIdx = Len(active) + 1)
<1>1. /\ Unchanged /\ beamPhase' = "done" /\ beamPhase = "search"
      /\ completed' = Beam!Top(Beam!Candidates)
      /\ beamStep = call.budget \/ (expanded = <<>> /\ beamIdx > Len(active))
  BY DEF Beam!Return, Beam!StepIsOver, Beam!InStep, Beam!NothingToExpand, Unchanged
<1>2. BeamTypes /\ Sized /\ Searching
  BY <1>1 DEF BeamInv, Searching
<1>3. Beam!Candidates = IF completed = <<>> THEN active ELSE completed
  BY Zenon DEF Beam!Candidates
<1>4. /\ active \in Seq(Beams) /\ completed \in Seq(Beams) /\ call \in Calls /\ beamStep \in Nat
      /\ beamStep <= call.budget /\ call.budget \in Nat
  BY <1>2, CallIs DEF BeamTypes
<1>5. ASSUME NEW i \in 1 .. Len(active) PROVE Divisor[Beam!Length(active[i])] \in Nat \ {0}
  <2>1. active[i] \in Beams /\ Len(active[i].tokens) <= call.budget
    BY <1>2, <1>4 DEF Sized
  <2> QED
    BY <1>4, <2>1, LengthIs
<1>6. ASSUME NEW i \in 1 .. Len(completed) PROVE Divisor[Beam!Length(completed[i])] \in Nat \ {0}
  <2>1. completed[i] \in Beams /\ Len(completed[i].tokens) <= call.budget
    BY <1>2, <1>4 DEF Sized
  <2> QED
    BY <1>4, <2>1, LengthIs
<1>7. Beam!Candidates \in Seq(Beams) /\ Scored(Beam!Candidates)
  BY <1>3, <1>4, <1>5, <1>6 DEF Scored
<1>8. completed' \in Seq(Beams) /\ Chosen(completed', Beam!Candidates, call.width)
  BY <1>1, <1>4, <1>7, TopIs
<1>9. beamIdx > Len(active) => beamIdx = Len(active) + 1
  BY <1>2 DEF BeamTypes
<1> QED
  BY <1>1, <1>2, <1>3, <1>7, <1>8, <1>9

\* Returning keeps the types.
LEMMA ReturnsTypes ==
  ASSUME BeamInv, Beam!Return PROVE BeamTypes'
BY ReturnIs DEF BeamTypes, Unchanged

\* If none has ended, the tokens are used up and there is an active beam.
LEMMA NoneEnded ==
  ASSUME BeamInv, Beam!Return, call.constrained, ~strayed, completed = <<>>
  PROVE  beamStep = call.budget /\ Len(expanded) = 0 /\ beamIdx = 1 /\ Sum = Len(active) /\ Len(active) >= 1
<1>1. /\ BeamTypes /\ Sized /\ Counted
      /\ beamStep = call.budget \/ (expanded = <<>> /\ beamIdx = Len(active) + 1)
  BY ReturnIs DEF Searching
<1>2. /\ Len(completed) = 0 /\ Len(expanded) \in Nat /\ Len(active) \in Nat /\ beamIdx \in Nat
      /\ (expanded = <<>> => Len(expanded) = 0) /\ Sum >= 1
  BY <1>1 DEF BeamTypes, Counted
<1>3. beamStep = call.budget
  BY <1>1, <1>2 DEF Sum
<1>4. Len(expanded) = 0 /\ beamIdx = 1
  BY <1>1, <1>3 DEF Sized
<1> QED
  BY <1>2, <1>3, <1>4 DEF Sum

\* So there is something to return,
LEMMA SomeCandidates ==
  ASSUME BeamInv, Beam!Return, call.constrained, ~strayed PROVE Len(Beam!Candidates) \in Nat \ {0}
<1>1. BeamTypes /\ Beam!Candidates = (IF completed = <<>> THEN active ELSE completed)
  BY ReturnIs
<1>2. CASE completed = <<>>
  BY <1>1, <1>2, NoneEnded DEF BeamTypes
<1>3. CASE completed # <<>>
  BY <1>1, <1>3, NotEmpty DEF BeamTypes
<1> QED
  BY <1>2, <1>3

\* Items, and beginnings of items that the budget cut.
WholeBeam(b) == Beam!WithoutEOS(b.tokens) \in Catalogue
CutBeam(b) ==
  /\ beamStep = call.budget /\ Len(b.tokens) = call.budget
  /\ \E s \in Beam!Spelled : Beam!IsPrefix(b.tokens, s)

\* all of it items, or all of it their beginnings unless the EOS is ignored.
LEMMA CandidatesAreItems ==
  ASSUME BeamInv, Beam!Return, call.constrained, ~strayed
  PROVE  \/ \A i \in 1 .. Len(Beam!Candidates) : WholeBeam(Beam!Candidates[i])
         \/ \A i \in 1 .. Len(Beam!Candidates) : CutBeam(Beam!Candidates[i])
         \/ /\ call.ignoreEos
            /\ \A i \in 1 .. Len(Beam!Candidates) :
                 WholeBeam(Beam!Candidates[i]) \/ CutBeam(Beam!Candidates[i])
<1>1. /\ BeamTypes /\ Sized /\ InTree
      /\ Beam!Candidates = (IF completed = <<>> THEN active ELSE completed)
  BY ReturnIs DEF Searching
<1>2. CASE completed # <<>>
  <2> SUFFICES ASSUME NEW i \in 1 .. Len(completed) PROVE WholeBeam(completed[i])
    BY <1>1, <1>2
  <2>1. PICK item \in Catalogue :
          Follows(completed[i].tokens, item) /\ Len(completed[i].tokens) = Len(item) + 1
    BY <1>1 DEF InTree
  <2>2. completed[i] \in Beams
    BY <1>1 DEF BeamTypes
  <2>3. completed[i].tokens \in Seq(0 .. EOS) /\ Len(item) \in Nat
    BY <2>2, BeamIs, TokensAreNumbers, BeamAssumption
  <2>4. Beam!WithoutEOS(completed[i].tokens) = item
    BY <2>1, <2>3, WholeItem
  <2> QED
    BY <2>4 DEF WholeBeam
<1>3. CASE completed = <<>>
  <2>1. beamStep = call.budget
    BY <1>3, NoneEnded
  <2>2. ASSUME NEW i \in 1 .. Len(active)
        PROVE  CutBeam(active[i]) \/ (call.ignoreEos /\ WholeBeam(active[i]))
    <3>1. PICK item \in Catalogue :
            Follows(active[i].tokens, item) /\ (call.ignoreEos \/ Len(active[i].tokens) <= Len(item))
      BY <1>1 DEF InTree, Within
    <3>2. active[i] \in Beams
      BY <1>1 DEF BeamTypes
    <3>3. active[i].tokens \in Seq(0 .. EOS) /\ Len(item) \in Nat /\ Len(active[i].tokens) \in Nat
      BY <3>2, BeamIs, TokensAreNumbers, BeamAssumption
    <3>4. CASE Len(active[i].tokens) <= Len(item)
      <4>1. Beam!IsPrefix(active[i].tokens, Append(item, EOS))
        BY <3>1, <3>3, <3>4, PrefixIs
      <4>2. Append(item, EOS) \in Beam!Spelled
        BY DEF Beam!Spelled
      <4>3. Len(active[i].tokens) = call.budget
        BY <1>1, <2>1 DEF Sized
      <4> QED
        BY <2>1, <4>1, <4>2, <4>3 DEF CutBeam
    <3>5. CASE ~ (Len(active[i].tokens) <= Len(item))
      <4>1. Beam!WithoutEOS(active[i].tokens) = item
        BY <3>1, <3>3, <3>5, WholeItem
      <4> QED
        BY <3>1, <3>5, <4>1 DEF WholeBeam
    <3> QED
      BY <3>4, <3>5
  <2>3. Beam!Candidates = active
    BY <1>1, <1>3
  <2> QED
    BY <2>2, <2>3
<1> QED
  BY <1>2, <1>3

\* So items are returned,
LEMMA ReturnsItems ==
  ASSUME BeamInv, Beam!Return PROVE Beam!ReturnsItems'
<1> SUFFICES ASSUME call'.constrained, ~strayed'
             PROVE  /\ completed' # <<>>
                    /\ \A b \in Beam!Range(completed)' : WholeBeam(b)' \/ CutBeam(b)'
                    /\ call'.ignoreEos \/ (\A b \in Beam!Range(completed)' : WholeBeam(b)')
                       \/ (\A b \in Beam!Range(completed)' : CutBeam(b)')
  BY Zenon DEF Beam!ReturnsItems, WholeBeam, CutBeam
<1>1. /\ Unchanged /\ completed' \in Seq(Beams) /\ Chosen(completed', Beam!Candidates, call.width)
      /\ call \in Calls
  BY ReturnIs DEF BeamTypes
<1>2. call.constrained /\ ~strayed /\ call' = call /\ beamStep' = beamStep
  BY <1>1 DEF Unchanged
<1>3. Len(Beam!Candidates) \in Nat \ {0} /\ call.width \in Nat \ {0}
  BY <1>1, <1>2, SomeCandidates, CallIs
<1>4. Len(completed') >= 1
  BY <1>3, <1>1 DEF Chosen
<1>5. PICK o \in [1 .. Len(completed') -> 1 .. Len(Beam!Candidates)] :
        \A k \in 1 .. Len(completed') : completed'[k] = Beam!Candidates[o[k]]
  BY <1>1 DEF Chosen
<1>6. ASSUME NEW b \in Beam!Range(completed)'
      PROVE  \E i \in 1 .. Len(Beam!Candidates) : b = Beam!Candidates[i]
  <2>1. \E k \in 1 .. Len(completed') : b = completed'[k]
    BY <1>1 DEF Beam!Range
  <2> QED
    BY <1>5, <2>1
<1>7. \A b : (WholeBeam(b)' <=> WholeBeam(b)) /\ (CutBeam(b)' <=> CutBeam(b))
  BY <1>2, Zenon DEF WholeBeam, CutBeam, Beam!WithoutEOS, Beam!Spelled, Beam!IsPrefix, Beam!At, Beam!Ascending, Beam!Ordered, Beam!Cardinality
<1>8. completed' # <<>>
  BY <1>4
<1> QED
  BY <1>2, <1>6, <1>7, <1>8, CandidatesAreItems

\* A beam without the EOS that ended it.
CutOff(c, b) == IF Beam!EndsInEOS(b) /\ ~c.ignoreEos THEN Beam!Front(b.tokens) ELSE b.tokens

\* The candidates differ in more than the EOS,
LEMMA CandidatesDiffer ==
  ASSUME BeamInv, Beam!Return, ~Beam!Stochastic,
         NEW i \in 1 .. Len(Beam!Candidates), NEW j \in 1 .. Len(Beam!Candidates), i # j
  PROVE  CutOff(call, Beam!Candidates[i]) # CutOff(call, Beam!Candidates[j])
<1>1. /\ BeamTypes /\ Sized /\ Apart
      /\ Beam!Candidates = (IF completed = <<>> THEN active ELSE completed)
      /\ Beam!Candidates \in Seq(Beams) /\ call.ignoreEos \in BOOLEAN
  BY ReturnIs, CallIs DEF Searching, BeamTypes
<1> DEFINE b == Beam!Candidates[i]
           c == Beam!Candidates[j]
           x == Beam!EndsInEOS(b) /\ ~call.ignoreEos
           y == Beam!EndsInEOS(c) /\ ~call.ignoreEos
<1>2. b \in Beams /\ c \in Beams
  BY <1>1
<1>3. b.tokens # c.tokens
  BY <1>1 DEF Apart, Different
<1>4. Len(b.tokens) = Len(c.tokens) \/ (x /\ y)
  <2>1. CASE completed = <<>>
    <3>1. Len(b.tokens) = beamStep /\ Len(c.tokens) = beamStep
      BY <1>1, <2>1 DEF Sized
    <3> QED
      BY <3>1
  <2>2. CASE completed # <<>>
    <3>1. x /\ y
      BY <1>1, <2>2 DEF Sized
    <3> QED
      BY <3>1
  <2> QED
    BY <2>1, <2>2
<1>5. \A d \in Beams : Beam!EndsInEOS(d) => Len(d.tokens) >= 1 /\ d.tokens[Len(d.tokens)] = EOS
  <2> SUFFICES ASSUME NEW d \in Beams, Beam!EndsInEOS(d)
               PROVE  Len(d.tokens) >= 1 /\ d.tokens[Len(d.tokens)] = EOS
    OBVIOUS
  <2>1. d.tokens # <<>> /\ d.tokens[Len(d.tokens)] = EOS
    BY Zenon DEF Beam!EndsInEOS, Beam!Last
  <2> QED
    BY <2>1, BeamIs, NotEmpty
<1>6. CutOff(call, b) = (IF x THEN Beam!Front(b.tokens) ELSE b.tokens)
      /\ CutOff(call, c) = (IF y THEN Beam!Front(c.tokens) ELSE c.tokens)
  BY DEF CutOff
<1> DEFINE s == b.tokens
           r == c.tokens
<1>7. s \in Seq(Beam!Token) /\ r \in Seq(Beam!Token) /\ s # r /\ x \in BOOLEAN /\ y \in BOOLEAN
      /\ (x => Len(s) >= 1 /\ s[Len(s)] = EOS) /\ (y => Len(r) >= 1 /\ r[Len(r)] = EOS)
      /\ (Len(s) = Len(r) \/ (x /\ y))
  <2>1. x \in BOOLEAN /\ y \in BOOLEAN
    OBVIOUS
  <2>2. (x => Beam!EndsInEOS(b)) /\ (y => Beam!EndsInEOS(c))
    OBVIOUS
  <2> HIDE DEF x, y, b, c
  <2> QED
    BY <1>2, <1>3, <1>4, <1>5, <2>1, <2>2, BeamIs
<1> HIDE DEF b, c, x, y, s, r
<1>8. (IF x THEN Beam!Front(s) ELSE s) # (IF y THEN Beam!Front(r) ELSE r)
  BY <1>7, CutIsDifferent
<1> QED
  BY <1>6, <1>8 DEF s, r, b, c

\* so what is returned does,
LEMMA ReturnsDistinct ==
  ASSUME BeamInv, Beam!Return PROVE Beam!DistinctBeams'
<1> SUFFICES ASSUME ~Beam!Stochastic', NEW i \in 1 .. Len(completed'), NEW j \in 1 .. Len(completed'), i # j
             PROVE  CutOff(call', completed'[i]) # CutOff(call', completed'[j])
  <2>1. completed' \in Seq(Beams)
    BY ReturnIs
  <2>2. DOMAIN completed' = 1 .. Len(completed')
    BY <2>1
  <2> QED
    BY <2>2, Zenon DEF Beam!DistinctBeams, CutOff
<1>1. /\ Unchanged /\ Chosen(completed', Beam!Candidates, call.width)
  BY ReturnIs
<1>2. call' = call /\ ~Beam!Stochastic
  BY <1>1 DEF Unchanged, Beam!Stochastic
<1>3. PICK o \in [1 .. Len(completed') -> 1 .. Len(Beam!Candidates)] :
        /\ \A k \in 1 .. Len(completed') : completed'[k] = Beam!Candidates[o[k]]
        /\ \A k, l \in 1 .. Len(completed') : o[k] = o[l] => k = l
  BY <1>1 DEF Chosen
<1>4. CutOff(call, completed'[i]) # CutOff(call, completed'[j])
  <2>1. o[i] # o[j] /\ o[i] \in 1 .. Len(Beam!Candidates) /\ o[j] \in 1 .. Len(Beam!Candidates)
        /\ completed'[i] = Beam!Candidates[o[i]] /\ completed'[j] = Beam!Candidates[o[j]]
    BY <1>3
  <2>2. CutOff(call, Beam!Candidates[o[i]]) # CutOff(call, Beam!Candidates[o[j]])
    BY <1>2, <2>1, CandidatesDiffer
  <2> QED
    BY <2>1, <2>2
<1> QED
  BY <1>2, <1>4

\* With tokens enough for every item, the candidates are all the beams there are, and
\* each has the whole of one item.
LEMMA CandidatesAreEnded ==
  ASSUME BeamInv, Beam!Return, call.constrained, ~strayed, call.budget > Beam!Longest,
         NEW cs, cs = Beam!Candidates
  PROVE  /\ Len(cs) = Sum /\ Len(cs) \in Nat
         /\ \A i \in 1 .. Len(cs) : cs[i].tokens \in Seq(Beam!Token)
         /\ \A i \in 1 .. Len(cs) : \E item \in Catalogue : Follows(cs[i].tokens, item)
         /\ \A i \in 1 .. Len(cs), item \in Catalogue :
              Follows(cs[i].tokens, item) => Len(cs[i].tokens) > Len(item)
         /\ \A i, j \in 1 .. Len(cs), item \in Catalogue :
              Follows(cs[i].tokens, item) /\ Follows(cs[j].tokens, item) =>
                Len(cs[i].tokens) = Len(cs[j].tokens)
         /\ \A item \in Catalogue : Represented(item) =>
              \E i \in 1 .. Len(cs) : Follows(cs[i].tokens, item)
<1>1. /\ BeamTypes /\ Sized /\ InTree /\ Counted
      /\ cs = (IF completed = <<>> THEN active ELSE completed) /\ cs \in Seq(Beams)
      /\ beamStep = call.budget \/ (expanded = <<>> /\ beamIdx = Len(active) + 1)
  BY ReturnIs DEF Searching
<1>2. /\ call.budget \in Nat /\ Beam!Longest \in Nat
      /\ \A item \in Catalogue : Len(item) \in Nat /\ Len(item) < call.budget
  <2>1. call.budget \in Nat /\ Beam!Longest \in Nat
        /\ \A item \in Catalogue : Len(item) \in Nat /\ Len(item) <= Beam!Longest
    BY <1>1, CallIs, LongestIs, BeamAssumption DEF BeamTypes
  <2> QED
    BY <2>1
<1>3. ASSUME NEW i \in 1 .. Len(cs)
      PROVE  cs[i].tokens \in Seq(Beam!Token) /\ Len(cs[i].tokens) \in Nat
  BY <1>1, BeamIs
<1>4. /\ Len(active) \in Nat /\ Len(expanded) \in Nat /\ Len(completed) \in Nat /\ beamIdx \in Nat
      /\ (expanded = <<>> => Len(expanded) = 0)
  BY <1>1 DEF BeamTypes
<1>5. CASE completed = <<>>
  <2>1. /\ beamStep = call.budget /\ Len(expanded) = 0 /\ beamIdx = 1 /\ Sum = Len(active)
        /\ cs = active /\ Len(completed) = 0
    BY <1>1, <1>5, NoneEnded
  <2>2. \A i \in 1 .. Len(cs) : Len(cs[i].tokens) = call.budget
    BY <1>1, <2>1 DEF Sized
  <2>3. \A i \in 1 .. Len(cs) : \E item \in Catalogue : Follows(cs[i].tokens, item)
    BY <1>1, <2>1 DEF InTree, Within
  <2>4. \A item \in Catalogue : Represented(item) => \E i \in 1 .. Len(cs) : Follows(cs[i].tokens, item)
    BY <2>1 DEF Represented
  <2>5. \A i \in 1 .. Len(cs), item \in Catalogue : Len(cs[i].tokens) > Len(item)
    BY <1>2, <2>2
  <2> QED
    BY <1>3, <1>4, <2>1, <2>2, <2>3, <2>4, <2>5
<1>6. CASE completed # <<>>
  <2>1. cs = completed /\ Len(completed) >= 1 /\ 1 \in 1 .. Len(completed)
    BY <1>1, <1>4, <1>6, NotEmpty DEF BeamTypes
  <2>2. ~call.ignoreEos
    BY <1>1, <2>1 DEF Sized
  <2>3. Len(expanded) = 0 /\ beamIdx = Len(active) + 1
    <3>1. CASE beamStep = call.budget
      <4>1. ASSUME NEW i \in 1 .. Len(active) PROVE FALSE
        <5>1. PICK item \in Catalogue : Len(active[i].tokens) <= Len(item)
          BY <1>1, <2>2 DEF InTree, Within
        <5>2. Len(active[i].tokens) = call.budget
          BY <1>1, <3>1 DEF Sized
        <5>3. Len(item) \in Nat /\ Len(item) < call.budget
          BY <1>2
        <5> QED
          BY <1>2, <5>1, <5>2, <5>3
      <4>2. Len(active) = 0
        BY <1>4, <4>1
      <4> QED
        BY <1>1, <3>1, <4>2 DEF Sized
    <3> QED
      BY <1>1, <1>4, <3>1
  <2>4. Sum = Len(completed)
    BY <1>4, <2>3 DEF Sum
  <2>5. ASSUME NEW i \in 1 .. Len(cs), NEW item \in Catalogue, Follows(cs[i].tokens, item)
        PROVE  Len(cs[i].tokens) = Len(item) + 1
    <3>1. PICK other \in Catalogue :
            Follows(cs[i].tokens, other) /\ Len(cs[i].tokens) = Len(other) + 1
      BY <1>1, <2>1 DEF InTree
    <3>2. Len(other) \in Nat /\ Len(item) \in Nat /\ Len(cs[i].tokens) \in Nat
      BY <1>2, <1>3
    <3>3. Len(other) + 1 \in 1 .. Len(cs[i].tokens)
      BY <3>1, <3>2
    <3>4. cs[i].tokens[Len(other) + 1] = EOS
      BY <3>1, <3>2, <3>3, WhereEOSIs
    <3>5. Len(other) + 1 > Len(item)
      BY <2>5, <3>2, <3>3, <3>4, WhereEOSIs
    <3>6. item = other
      BY <2>5, <3>1, <3>2, <3>5, SameItem
    <3> QED
      BY <3>1, <3>6
  <2>6. \A i \in 1 .. Len(cs) : \E item \in Catalogue : Follows(cs[i].tokens, item)
    BY <1>1, <2>1 DEF InTree
  <2>7. \A item \in Catalogue : Represented(item) => \E i \in 1 .. Len(cs) : Follows(cs[i].tokens, item)
    <3>1. ~ \E i \in 1 .. Len(active) : i >= beamIdx
      BY <1>4, <2>3
    <3>2. ~ \E i \in 1 .. Len(expanded) : TRUE
      BY <2>3
    <3> QED
      BY <2>1, <3>1, <3>2 DEF Represented
  <2>8. \A i \in 1 .. Len(cs), item \in Catalogue :
          Follows(cs[i].tokens, item) => Len(cs[i].tokens) > Len(item)
    BY <1>2, <2>5
  <2>9. \A i, j \in 1 .. Len(cs), item \in Catalogue :
              Follows(cs[i].tokens, item) /\ Follows(cs[j].tokens, item) =>
                Len(cs[i].tokens) = Len(cs[j].tokens)
    BY <2>5
  <2> QED
    BY <1>3, <1>4, <2>1, <2>4, <2>6, <2>7, <2>8, <2>9
<1> QED
  BY <1>5, <1>6

\* Different beams that each have an item are no more than the items, and as many if
\* every item has one.
LEMMA AsManyAsItems ==
  ASSUME NEW cs, Len(cs) \in Nat, Different(cs),
         \A i \in 1 .. Len(cs) : cs[i].tokens \in Seq(Beam!Token),
         \A i \in 1 .. Len(cs) : \E item \in Catalogue : Follows(cs[i].tokens, item),
         \A i \in 1 .. Len(cs), item \in Catalogue :
           Follows(cs[i].tokens, item) => Len(cs[i].tokens) > Len(item),
         \A i, j \in 1 .. Len(cs), item \in Catalogue :
           Follows(cs[i].tokens, item) /\ Follows(cs[j].tokens, item) =>
             Len(cs[i].tokens) = Len(cs[j].tokens)
  PROVE  /\ Cardinality(Catalogue) \in Nat /\ Len(cs) <= Cardinality(Catalogue)
         /\ (\A item \in Catalogue : \E i \in 1 .. Len(cs) : Follows(cs[i].tokens, item)) =>
              Len(cs) = Cardinality(Catalogue)
<1> DEFINE n == Len(cs)
           f == [i \in 1 .. n |-> CHOOSE item \in Catalogue : Follows(cs[i].tokens, item)]
<1>1. \A i \in 1 .. n : f[i] \in Catalogue /\ Follows(cs[i].tokens, f[i])
  OBVIOUS
<1>2. f \in [1 .. n -> Catalogue]
  BY <1>1
<1> HIDE DEF f
<1>3. ASSUME NEW i \in 1 .. n, NEW j \in 1 .. n, f[i] = f[j] PROVE i = j
  <2>1. Follows(cs[i].tokens, f[i]) /\ Follows(cs[j].tokens, f[i]) /\ f[i] \in Catalogue
    BY <1>1, <1>3
  <2>2. Len(cs[i].tokens) = Len(cs[j].tokens)
    BY <2>1
  <2>3. cs[i].tokens = cs[j].tokens
    BY <2>1, <2>2, SameTokens
  <2> QED
    BY <2>3 DEF Different
<1>4. IsFiniteSet(Catalogue) /\ Cardinality(Catalogue) \in Nat
  BY BeamAssumption, FS_CardinalityType
<1>5. Cardinality(1 .. n) = n
  <2>1. \A m \in Nat : Cardinality(1 .. m) = m
    BY FS_Interval
  <2> QED
    BY <2>1
<1>6. f \in Injection(1 .. n, Catalogue)
  BY <1>2, <1>3 DEF Injection, IsInjective
<1>7. n <= Cardinality(Catalogue) /\ (n = Cardinality(Catalogue) <=> f \in Surjection(1 .. n, Catalogue))
  <2> HIDE DEF n
  <2> QED
    BY <1>4, <1>5, <1>6, FS_Injection
<1>8. ASSUME \A item \in Catalogue : \E i \in 1 .. n : Follows(cs[i].tokens, item)
      PROVE  f \in Surjection(1 .. n, Catalogue)
  <2>1. ASSUME NEW item \in Catalogue PROVE \E i \in 1 .. n : f[i] = item
    <3>1. PICK i \in 1 .. n : Follows(cs[i].tokens, item)
      BY <1>8
    <3>2. Len(cs[i].tokens) > Len(item) /\ Len(cs[i].tokens) > Len(f[i]) /\ Len(cs[i].tokens) \in Nat
      BY <1>1, <3>1
    <3>3. f[i] = item
      BY <1>1, <3>1, <3>2, SameItem
    <3> QED
      BY <3>3
  <2> QED
    BY <1>2, <2>1 DEF Surjection
<1> QED
  BY <1>4, <1>7, <1>8

\* and it is as much as there is place and items for.
LEMMA ReturnsEnough ==
  ASSUME BeamInv, Beam!Return PROVE Beam!FillsTheGroup'
<1> SUFFICES ASSUME call'.constrained, ~strayed', call'.budget > Beam!Longest
             PROVE  /\ Beam!Stochastic' => Len(completed') = call'.width
                    /\ ~Beam!Stochastic' /\ obeyed' =>
                         Len(completed') = Beam!Min({call'.width, Beam!Cardinality(Catalogue)})
  BY Zenon DEF Beam!FillsTheGroup, Beam!Longest
<1> DEFINE cs == Beam!Candidates
           w == call.width
           m == Cardinality(Catalogue)
<1>1. /\ Unchanged /\ Chosen(completed', cs, w) /\ BeamTypes /\ Sized /\ Searching
      /\ cs = (IF completed = <<>> THEN active ELSE completed)
  BY ReturnIs
<1>2. /\ call.constrained /\ ~strayed /\ call.budget > Beam!Longest /\ call' = call /\ obeyed' = obeyed
      /\ (Beam!Stochastic' <=> Beam!Stochastic)
  BY <1>1 DEF Unchanged, Beam!Stochastic
<1>3. w \in Nat \ {0}
  BY <1>1, CallIs DEF BeamTypes
<1>4. /\ Len(cs) = Sum /\ Len(cs) \in Nat
      /\ \A i \in 1 .. Len(cs) : cs[i].tokens \in Seq(Beam!Token)
      /\ \A i \in 1 .. Len(cs) : \E item \in Catalogue : Follows(cs[i].tokens, item)
      /\ \A i \in 1 .. Len(cs), item \in Catalogue :
           Follows(cs[i].tokens, item) => Len(cs[i].tokens) > Len(item)
      /\ \A i, j \in 1 .. Len(cs), item \in Catalogue :
           Follows(cs[i].tokens, item) /\ Follows(cs[j].tokens, item) =>
             Len(cs[i].tokens) = Len(cs[j].tokens)
      /\ \A item \in Catalogue : Represented(item) =>
           \E i \in 1 .. Len(cs) : Follows(cs[i].tokens, item)
  BY <1>2, CandidatesAreEnded
<1>5. Counted
  BY <1>1, <1>2 DEF Searching
<1>6. /\ Len(completed') \in Nat /\ Len(completed') <= w /\ Len(completed') <= Len(cs)
      /\ (Len(completed') = w \/ Len(completed') = Len(cs))
  BY <1>1 DEF Chosen
<1>7. ~Beam!Stochastic => Different(cs)
  BY <1>1 DEF Searching, Apart
<1> HIDE DEF cs, w, m
<1>8. ASSUME Beam!Stochastic PROVE Len(completed') = w
  BY <1>3, <1>4, <1>5, <1>6, <1>8 DEF Counted, w
<1>9. ASSUME ~Beam!Stochastic, obeyed
      PROVE  m \in Nat /\ Len(completed') <= m /\ (Len(completed') = w \/ Len(completed') = m)
  <2>1. /\ m \in Nat /\ Len(cs) <= m
        /\ (\A item \in Catalogue : \E i \in 1 .. Len(cs) : Follows(cs[i].tokens, item)) => Len(cs) = m
    BY ONLY <1>4, <1>7, <1>9, AsManyAsItems DEF m
  <2>2. Sum >= w \/ \A item \in Catalogue : Represented(item)
    BY <1>5, <1>9 DEF Counted, w
  <2>3. Len(cs) >= w \/ Len(cs) = m
    BY <1>4, <2>1, <2>2
  <2> QED
    BY <1>3, <1>4, <1>6, <2>1, <2>3
<1>10. \A a, b, l \in Nat : l <= a /\ l <= b /\ (l = a \/ l = b) => l = Beam!Min({a, b})
  BY DEF Beam!Min
<1>11. Beam!Cardinality(Catalogue) = m
  BY Zenon DEF Beam!Cardinality, Cardinality, m
<1>12. ASSUME ~Beam!Stochastic, obeyed PROVE Len(completed') = Beam!Min({w, m})
  BY <1>3, <1>6, <1>9, <1>10, <1>12
<1> QED
  BY <1>2, <1>8, <1>11, <1>12 DEF w

\* Returning keeps the invariant.
LEMMA BeamReturn == ASSUME BeamInv, Beam!Return PROVE BeamInv'
<1>1. beamPhase' # "search"
  BY ReturnIs
<1> QED
  BY <1>1, ReturnsTypes, ReturnsItems, ReturnsDistinct, ReturnsEnough, Zenon DEF BeamInv

-------------------------------------------------------------------------------
(* BeamSearch: the invariant holds.                                          *)

\* It holds at first,
LEMMA BeamInit == ASSUME Beam!Init PROVE BeamInv
<1> DEFINE n == IF Beam!Stochastic THEN call.width ELSE 1
           b == [tokens |-> <<>>, total |-> 0]
<1>1. /\ call \in Calls /\ beamPhase = "search" /\ beamStep = 0 /\ beamIdx = 1
      /\ expanded = <<>> /\ completed = <<>> /\ obeyed = TRUE /\ strayed = FALSE
      /\ active = [i \in 1 .. n |-> b]
  BY DEF Beam!Init, Beam!Beam
<1>2. call.budget \in Nat /\ call.width \in Nat \ {0} /\ n \in Nat \ {0}
  BY <1>1, CallIs
<1>3. b \in Beams /\ Len(b.tokens) = 0
  BY DEF Beams
<1>4. (Beam!Stochastic => n = call.width) /\ (~Beam!Stochastic => n = 1)
  OBVIOUS
<1> HIDE DEF n, b
<1>5. active \in Seq(Beams) /\ Len(active) = n /\ \A i \in 1 .. n : active[i] = b
  BY <1>1, <1>2, <1>3
<1>6. Len(expanded) = 0 /\ Len(completed) = 0 /\ expanded \in Seq(Beams) /\ completed \in Seq(Beams)
  BY <1>1
<1>7. BeamTypes
  <2>1. beamStep \in Nat /\ beamStep <= call.budget /\ beamIdx \in Nat /\ beamIdx >= 1
        /\ beamIdx <= Len(active) + 1
    BY <1>1, <1>2, <1>5
  <2>2. beamPhase \in {"search", "done", "failed"} /\ obeyed \in BOOLEAN /\ strayed \in BOOLEAN
    BY <1>1
  <2> QED
    BY <1>1, <1>5, <1>6, <2>1, <2>2, Zenon DEF BeamTypes
<1>8. Sized
  <2>1. 1 .. Len(expanded) = {} /\ 1 .. Len(completed) = {}
    BY <1>6
  <2>2. \A i \in 1 .. Len(active) : Len(active[i].tokens) = beamStep
    BY <1>1, <1>3, <1>5
  <2> QED
    BY <1>1, <1>6, <2>1, <2>2 DEF Sized
<1>9. ASSUME ~Beam!Stochastic PROVE Apart
  BY <1>4, <1>5, <1>6, <1>9 DEF Apart, Different
<1>10. ASSUME NEW item \in Catalogue PROVE Follows(b.tokens, item) /\ Len(b.tokens) <= Len(item)
  BY <1>3, BeamAssumption DEF Follows
<1>11. InTree
  <2>1. \E item : item \in Catalogue
    BY BeamAssumption
  <2> QED
    BY <1>5, <1>6, <1>10, <2>1 DEF InTree, Within
<1>12. Counted
  <2>1. Sum = n
    BY <1>1, <1>2, <1>5, <1>6 DEF Sum
  <2>2. \A item \in Catalogue : Represented(item)
    BY <1>1, <1>2, <1>5, <1>10 DEF Represented
  <2> QED
    BY <1>2, <1>4, <2>1, <2>2 DEF Counted
<1>13. Beam!ReturnsItems /\ Beam!DistinctBeams /\ Beam!FillsTheGroup
  BY <1>1 DEF Beam!ReturnsItems, Beam!DistinctBeams, Beam!FillsTheGroup
<1> QED
  BY <1>7, <1>8, <1>9, <1>11, <1>12, <1>13 DEF BeamInv, Searching

\* a step of another part changes none of it,
LEMMA BeamReads == ASSUME BeamInv, UNCHANGED beamVars PROVE BeamInv'
<1>1. /\ call' = call /\ beamPhase' = beamPhase /\ beamStep' = beamStep /\ beamIdx' = beamIdx
      /\ active' = active /\ expanded' = expanded /\ completed' = completed
      /\ obeyed' = obeyed /\ strayed' = strayed
  BY DEF beamVars
<1>2. BeamTypes' /\ (Searching => Searching')
  <2>1. BeamTypes'
    BY <1>1 DEF BeamInv, BeamTypes
  <2>2. Searching => Searching'
    <3>1. Sized => Sized'
      BY <1>1, Zenon DEF Sized, Beam!EndsInEOS, Beam!Last
    <3>2. Apart => Apart'
      <4>1. \A b_1 : Continued(b_1) <=> Continued(b_1)'
        BY <1>1, Zenon DEF Continued, Beam!Token
      <4> QED
        BY <1>1, <4>1 DEF Apart, Different
    <3>3. InTree => InTree'
      <4>1. \A b_1 : Within(b_1) <=> Within(b_1)'
        BY <1>1, Zenon DEF Within, Follows
      <4> QED
        BY <1>1, <4>1 DEF InTree
    <3>4. Counted => Counted'
      <4>1. Sum' = Sum /\ \A item : Represented(item) <=> Represented(item)'
        BY <1>1, Zenon DEF Sum, Represented, Follows
      <4>2. Beam!Stochastic' <=> Beam!Stochastic
        BY <1>1 DEF Beam!Stochastic
      <4> QED
        BY <1>1, <4>1, <4>2, Zenon DEF Counted
    <3>5. Beam!Stochastic' <=> Beam!Stochastic
      BY <1>1 DEF Beam!Stochastic
    <3> QED
      BY <1>1, <3>1, <3>2, <3>3, <3>4, <3>5, Zenon DEF Searching
  <2> QED
    BY <2>1, <2>2
<1>3. Beam!ReturnsItems' /\ Beam!DistinctBeams' /\ Beam!FillsTheGroup'
  <2>1. Beam!ReturnsItems /\ Beam!DistinctBeams /\ Beam!FillsTheGroup
    BY DEF BeamInv
  <2> QED
    BY <1>1, <2>1, Zenon DEF Beam!ReturnsItems, Beam!DistinctBeams, Beam!FillsTheGroup, Beam!Stochastic,
       Beam!EndsInEOS, Beam!Last, Beam!Front, Beam!WithoutEOS, Beam!Longest, Beam!Spelled
<1> QED
  BY <1>1, <1>2, <1>3 DEF BeamInv

\* and every step keeps it.
LEMMA BeamNext == ASSUME BeamInv, Beam!Next PROVE BeamInv'
<1>1. Beam!Rest => UNCHANGED beamVars
  BY DEF Beam!Rest, Beam!vars, beamVars
<1> QED
  BY <1>1, BeamLogprobs, BeamSample, BeamBareToken, BeamError, BeamNextStep, BeamReturn, BeamReads
     DEF Beam!Next

\* An asynchronous search returns items of the catalogue, or what the budget cut of them, a
\* deterministic one no sequence twice, and it fills the group that waits for its beams,
\* whatever the engine answers, fails to answer or leaves out (beam_backend.py:85-198).
THEOREM SearchAlwaysReturnsItems ==
  Spec => [](part = "beam" => Beam!ReturnsItems /\ Beam!DistinctBeams /\ Beam!FillsTheGroup)
<1>1. Init => (part = "beam" => BeamInv)
  BY BeamInit DEF Init
<1>2. (part = "beam" => BeamInv) /\ [Next]_vars => (part = "beam" => BeamInv)'
  <2> SUFFICES ASSUME part = "beam" => BeamInv, [Next]_vars, part' = "beam"
               PROVE  BeamInv'
    OBVIOUS
  <2>1. part = "beam" /\ (Beam!Next \/ UNCHANGED beamVars)
    BY Zenon DEF Next, vars, SetupStep, RowsStep, BeamStep, HFStep, LogpsStep, FitStep,
           RewardsStep, ScoresStep, EvalStep
  <2> QED
    BY <2>1, BeamReads, BeamNext
<1>3. (part = "beam" => BeamInv) =>
        (part = "beam" => Beam!ReturnsItems /\ Beam!DistinctBeams /\ Beam!FillsTheGroup)
  BY DEF BeamInv
<1> QED
  BY <1>1, <1>2, <1>3, PTL DEF Spec
===============================================================================
