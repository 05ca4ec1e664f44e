------------------------------ MODULE LoopsProofs ------------------------------
(***************************************************************************)
(* What RolloutLoops says of the agent loop of OpenOneRec (part "waves")   *)
(* and of the matching of RankGRPO (part "match"), for all values of the   *)
(* constants that LoopsAssumption allows: any number of prompts, rollouts  *)
(* and workers, any width and any limit; any list of recommendations, any  *)
(* ground truths and any tolerance.  Which rows a worker holds and which   *)
(* beam a row asks for is arithmetic on its index.  For the matching the   *)
(* invariant keeps a witness: the ground truth that each hit took.         *)
(*                                                                         *)
(* It also has the constrained-beam server (part "server"), for any number *)
(* of calls, groups, beams, permits, steps and weight updates, and any     *)
(* size of the cache.  That invariant is about the searches that have      *)
(* served a call: each is still in the cache, unless it was used up,       *)
(* evicted or outdated, and the cache holds one search of a group.         *)
(* Callbacks serve a set of calls with a fold, so the invariant is stated  *)
(* of any state a fold passes through (Fits), and what one call keeps      *)
(* (ServeFits) is carried to the end of the fold by SetLemmas.             *)
(*                                                                         *)
(* The rows of a batch: the credit of RankGRPO (part "credit") is counted  *)
(* line by line with the fold of the model; its dispatch to the workers    *)
(* (part "dispatch") by the marks between its groups, which the packing    *)
(* keeps group by group; a shard of MiniOneRec's generation (part          *)
(* "shards") has answered the first of its texts, micro-batch by           *)
(* micro-batch, and put together they are the texts of the batch in order. *)
(***************************************************************************)
EXTENDS RolloutLoops, SetLemmas

-----------------------------------------------------------------------------
(* Rows, chunks and prompts.                                               *)

\* What is known of the constants.
LEMMA Sizes ==
  ASSUME workers \in Workers
  PROVE  /\ Prompts \in Nat \ {0} /\ Rollouts \in Nat \ {0} /\ Width \in Nat \ {0}
         /\ workers \in Nat \ {0}
         /\ Waves!Total \in Nat \ {0} /\ Waves!Total = Prompts * Rollouts
         /\ Waves!Chunk \in Nat \ {0}
         /\ Waves!Total <= Waves!Chunk * workers
         /\ Waves!Chunk * workers <= Waves!Total + workers - 1
<1>1. /\ Prompts \in Nat \ {0} /\ Rollouts \in Nat \ {0} /\ Width \in Nat \ {0}
      /\ workers \in Nat \ {0}
  BY LoopsAssumption DEF Waves!WavesAssumption
<1>2. Waves!Total \in Nat \ {0} /\ Waves!Total = Prompts * Rollouts
  BY <1>1 DEF Waves!Total
<1> DEFINE up == Waves!Total + workers - 1
<1>3. up \in Nat /\ Waves!Chunk = up \div workers
  BY <1>1, <1>2 DEF Waves!Chunk
<1> HIDE DEF up
<1>4. /\ Waves!Chunk \in Nat /\ up % workers \in 0 .. workers - 1
      /\ up = workers * Waves!Chunk + (up % workers)
  BY <1>1, <1>3, Division
<1>5. Waves!Total <= Waves!Chunk * workers /\ Waves!Chunk * workers <= Waves!Total + workers - 1
  BY <1>1, <1>2, <1>4 DEF up
<1>6. Waves!Chunk # 0
  BY <1>1, <1>2, <1>4, <1>5
<1> QED
  BY <1>1, <1>2, <1>4, <1>5, <1>6

\* The chunks part the rows.
LEMMA ChunkOfRow ==
  ASSUME workers \in Workers, NEW r \in Waves!Row
  PROVE  /\ r \in Nat
         /\ Waves!WorkerOf(r) \in Waves!Worker
         /\ r \in Waves!RowsOf(Waves!WorkerOf(r))
<1>1. /\ workers \in Nat \ {0} /\ Waves!Chunk \in Nat \ {0}
  BY Sizes
<1>2. PICK c : c = Waves!Chunk
  OBVIOUS
<1>3. PICK q : q = Waves!WorkerOf(r)
  OBVIOUS
<1>4. r \in Nat /\ r <= c * workers - 1 /\ q = r \div c
  BY <1>1, <1>2, <1>3 DEF Waves!Row, Waves!WorkerOf
<1>5. q \in Nat /\ r % c \in 0 .. c - 1 /\ r = c * q + (r % c)
  BY <1>1, <1>2, <1>4, Division
<1>6. q < workers
  <2>1. ASSUME q >= workers PROVE FALSE
    <3>1. c * q >= c * workers
      BY <1>1, <1>2, <1>5, <2>1
    <3> QED
      BY <1>1, <1>2, <1>4, <1>5, <3>1
  <2> QED
    BY <1>1, <1>5, <2>1
<1>7. q * c <= r /\ r <= (q + 1) * c - 1
  BY <1>1, <1>2, <1>4, <1>5
<1> QED
  BY <1>1, <1>2, <1>3, <1>4, <1>5, <1>6, <1>7 DEF Waves!Worker, Waves!RowsOf

LEMMA RowOfChunk ==
  ASSUME workers \in Workers, NEW w \in Waves!Worker, NEW r \in Waves!RowsOf(w)
  PROVE  r \in Waves!Row /\ r \in Nat /\ Waves!WorkerOf(r) = w
<1>1. /\ workers \in Nat \ {0} /\ Waves!Chunk \in Nat \ {0}
  BY Sizes
<1>2. PICK c : c = Waves!Chunk
  OBVIOUS
<1>3. w \in Nat /\ w + 1 <= workers
  BY <1>1 DEF Waves!Worker
<1>4. w * c \in Nat /\ (w + 1) * c \in Nat /\ (w + 1) * c <= c * workers /\ (w + 1) * c = w * c + c
  BY <1>1, <1>2, <1>3
<1>5. r \in Int /\ w * c <= r /\ r <= (w + 1) * c - 1
  BY <1>1, <1>2, <1>4 DEF Waves!RowsOf
<1>6. r \in Nat /\ r - c * w \in 0 .. c - 1 /\ c * w + (r - c * w) = r
  BY <1>1, <1>2, <1>3, <1>4, <1>5
<1>7. r \div c = w
  BY <1>1, <1>2, <1>3, <1>6, Quotient
<1> QED
  BY <1>1, <1>2, <1>4, <1>5, <1>6, <1>7 DEF Waves!Row, Waves!WorkerOf

\* Equal prompts of a chunk are adjacent: a chunk is shorter than what lies
\* between two copies of a prompt, unless there is only one prompt, or one chunk.
LEMMA PromptStays ==
  ASSUME workers \in Workers, NEW w \in Waves!Worker,
         NEW r \in Waves!RowsOf(w), NEW s \in Waves!RowsOf(w), NEW t \in r .. s,
         Waves!Prompt(r) = Waves!Prompt(s)
  PROVE  Waves!Prompt(t) = Waves!Prompt(r)
<1>1. PICK T, R, C, n : T = Waves!Total /\ R = Rollouts /\ C = Waves!Chunk /\ n = workers
  OBVIOUS
<1>2. /\ T \in Nat \ {0} /\ R \in Nat \ {0} /\ C \in Nat \ {0} /\ n \in Nat \ {0}
      /\ Prompts \in Nat \ {0} /\ T = Prompts * R
      /\ C * n <= T + n - 1
  BY <1>1, Sizes
<1>3. w \in Nat /\ w + 1 <= n
  BY <1>1, <1>2 DEF Waves!Worker
<1>4. r \in Nat /\ s \in Nat /\ r <= t /\ t <= s /\ t \in Nat
  BY RowOfChunk
<1>5. w * C <= r /\ s <= w * C + C - 1 /\ w * C \in Nat
  <2>1. w * C \in Nat /\ (w + 1) * C = w * C + C
    BY <1>2, <1>3
  <2> QED
    BY <1>1, <1>2, <2>1 DEF Waves!RowsOf
<1>6. \A x \in Nat : Waves!Prompt(x) = (x % T) \div R
  BY <1>1 DEF Waves!Prompt
<1>7. ASSUME Prompts = 1 PROVE Waves!Prompt(t) = Waves!Prompt(r)
  <2>1. T = R
    BY <1>2, <1>7
  <2>2. ASSUME NEW x \in Nat PROVE Waves!Prompt(x) = 0
    <3>1. x % T \in 0 .. R - 1 /\ x % T = R * 0 + (x % T)
      BY <1>2, <2>1, Division
    <3>2. (x % T) \div R = 0
      BY <1>2, <3>1, Quotient
    <3> QED
      BY <1>6, <3>2
  <2> QED
    BY <1>4, <2>2
<1>8. ASSUME Prompts # 1 PROVE Waves!Prompt(t) = Waves!Prompt(r)
  <2>1. 2 * R <= T
    <3>1. Prompts >= 2
      BY <1>2, <1>8
    <3>2. (Prompts - 2) * R >= 0
      BY <1>2, <3>1
    <3> QED
      BY <1>2, <3>2
  <2>2. PICK q, i : q = r \div T /\ i = r % T
    OBVIOUS
  <2>3. PICK u, j : u = s \div T /\ j = s % T
    OBVIOUS
  <2>4. PICK v, k : v = t \div T /\ k = t % T
    OBVIOUS
  <2>5. /\ q \in Nat /\ i \in 0 .. T - 1 /\ r = T * q + i
        /\ u \in Nat /\ j \in 0 .. T - 1 /\ s = T * u + j
        /\ v \in Nat /\ k \in 0 .. T - 1 /\ t = T * v + k
    BY <1>2, <1>4, <2>2, <2>3, <2>4, Division
  <2>6. i - j < R
    <3>1. PICK p, a, b : p = i \div R /\ a = i % R /\ b = j % R
      OBVIOUS
    <3>2. p = j \div R
      BY <1>4, <1>6, <2>2, <2>3, <3>1
    <3>3. i \in Nat /\ j \in Nat
      BY <1>2, <2>5
    <3>4. i \div R \in Nat /\ i % R \in 0 .. R - 1 /\ i = R * (i \div R) + (i % R)
      BY <1>2, <3>3, Division
    <3>5. j % R \in 0 .. R - 1 /\ j = R * (j \div R) + (j % R)
      BY <1>2, <3>3, Division
    <3>6. p \in Nat /\ a \in 0 .. R - 1 /\ b \in 0 .. R - 1 /\ i = R * p + a /\ j = R * p + b
      BY <3>1, <3>2, <3>4, <3>5
    <3> QED
      BY <1>2, <3>6
  <2>7. q <= v /\ v <= u
    BY <1>2, <1>4, <2>2, <2>3, <2>4, DivisionGrows
  <2>8. ASSUME q # u PROVE FALSE
    <3>1. T * (u - q) >= T
      BY <1>2, <2>5, <2>7, <2>8
    <3>2. T * (u - q) = T * u - T * q
      BY <1>2, <2>5
    <3>3. s - r > T - R
      BY <1>2, <2>5, <2>6, <3>1, <3>2
    <3>4. CASE n = 1
      <4>1. w = 0 /\ w * C = 0 /\ C <= T
        BY <1>2, <1>3, <3>4
      <4>2. s <= T - 1 /\ r <= T - 1
        BY <1>2, <1>4, <1>5, <4>1
      <4>3. s \div T = 0 /\ r \div T = 0
        BY <1>2, <1>4, <4>2, Quotient, T * 0 + s = s, T * 0 + r = r
      <4> QED
        BY <2>2, <2>3, <2>8, <4>3
    <3>5. CASE n # 1
      <4>1. (C - 1) * (n - 2) >= 0
        BY <1>2, <3>5
      <4>2. (C - 1) * (n - 2) = C * n - 2 * C - n + 2
        BY <1>2
      <4>3. 2 * C <= T + 1
        BY <1>2, <4>1, <4>2
      <4>4. s - r <= C - 1
        BY <1>2, <1>4, <1>5
      <4> QED
        BY <1>2, <1>4, <2>1, <3>3, <4>3, <4>4
    <3> QED
      BY <3>4, <3>5
  <2>9. i <= k /\ k <= j
    <3>1. v = q /\ u = q
      BY <2>5, <2>7, <2>8
    <3> QED
      BY <1>2, <1>4, <2>5, <3>1
  <2>10. i \div R <= k \div R /\ k \div R <= j \div R
    BY <1>2, <2>5, <2>9, DivisionGrows
  <2>11. i \div R = j \div R
    BY <1>4, <1>6, <2>2, <2>3
  <2>12. i \div R \in Nat /\ k \div R \in Nat
    BY <1>2, <2>5, Division
  <2>13. k \div R = i \div R
    BY <2>10, <2>11, <2>12
  <2> QED
    BY <1>4, <1>6, <2>2, <2>4, <2>13
<1> QED
  BY <1>7, <1>8

-----------------------------------------------------------------------------
(* What the rows ask for.                                                  *)

\* The rows that get_trajectory_info counts before r.
Before(r) ==
  {s \in Waves!RowsOf(Waves!WorkerOf(r)) :
     s < r /\ \A t \in s .. r : Waves!Prompt(t) = Waves!Prompt(r)}

\* The modules count with operators of their own.
LEMMA SameCount ==
  ASSUME NEW S
  PROVE  Waves!Cardinality(S) = Cardinality(S)
BY Zenon DEF Waves!Cardinality, Cardinality

LEMMA RowsAreFinite ==
  ASSUME workers \in Workers, NEW w \in Waves!Worker
  PROVE  IsFiniteSet(Waves!RowsOf(w)) /\ Waves!RowsOf(w) \subseteq Nat
<1>1. /\ workers \in Nat \ {0} /\ Waves!Chunk \in Nat \ {0}
  BY Sizes
<1>2. w * Waves!Chunk \in Int /\ (w + 1) * Waves!Chunk - 1 \in Int
  BY <1>1 DEF Waves!Worker
<1> QED
  BY <1>2, FS_Interval, RowOfChunk DEF Waves!RowsOf

LEMMA BeforeIsFinite ==
  ASSUME workers \in Workers, NEW r \in Waves!Row
  PROVE  /\ IsFiniteSet(Before(r)) /\ Waves!RolloutN(r) = Cardinality(Before(r))
         /\ Waves!RolloutN(r) \in Nat
<1>1. IsFiniteSet(Before(r))
  BY ChunkOfRow, RowsAreFinite, FS_Subset DEF Before
<1>2. Waves!RolloutN(r) = Cardinality(Before(r))
  BY SameCount, Zenon DEF Waves!RolloutN, Before
<1> QED
  BY <1>1, <1>2, FS_CardinalityType

\* The count grows along the rows of a prompt in a chunk.
LEMMA CountGrows ==
  ASSUME workers \in Workers, NEW w \in Waves!Worker,
         NEW r \in Waves!RowsOf(w), NEW s \in Waves!RowsOf(w), r < s,
         Waves!Prompt(r) = Waves!Prompt(s)
  PROVE  Waves!RolloutN(r) < Waves!RolloutN(s)
<1>1. /\ r \in Waves!Row /\ r \in Nat /\ Waves!WorkerOf(r) = w
      /\ s \in Waves!Row /\ s \in Nat /\ Waves!WorkerOf(s) = w
  BY RowOfChunk
<1>2. \A t \in r .. s : Waves!Prompt(t) = Waves!Prompt(s)
  BY PromptStays
<1>3. Before(r) \cup {r} \subseteq Before(s)
  <2>1. r \in Before(s)
    BY <1>1, <1>2 DEF Before
  <2>2. ASSUME NEW u \in Before(r) PROVE u \in Before(s)
    <3>1. u \in Waves!RowsOf(w) /\ u < r /\ \A t \in u .. r : Waves!Prompt(t) = Waves!Prompt(r)
      BY <1>1, <2>2 DEF Before
    <3>2. u \in Nat
      BY <3>1, RowOfChunk
    <3>3. ASSUME NEW t \in u .. s PROVE Waves!Prompt(t) = Waves!Prompt(s)
      <4>1. t \in u .. r \/ t \in r .. s
        BY <1>1, <3>2
      <4> QED
        BY <1>2, <3>1, <4>1
    <3>4. u < s
      BY <1>1, <3>1, <3>2
    <3> QED
      BY <1>1, <3>1, <3>3, <3>4 DEF Before
  <2> QED
    BY <2>1, <2>2
<1>4. r \notin Before(r)
  BY <1>1 DEF Before
<1>5. Cardinality(Before(r) \cup {r}) = Cardinality(Before(r)) + 1
  BY <1>1, <1>4, BeforeIsFinite, FS_AddElement
<1>6. Cardinality(Before(r) \cup {r}) <= Cardinality(Before(s))
  BY <1>1, <1>3, BeforeIsFinite, FS_Subset
<1> QED
  BY <1>1, <1>5, <1>6, BeforeIsFinite

\* No two rows of a chunk ask for the same beam of the same sample.
LEMMA AskedOnce ==
  ASSUME workers \in Workers, NEW w \in Waves!Worker,
         NEW r \in Waves!RowsOf(w), NEW s \in Waves!RowsOf(w),
         Waves!Asked(r) = Waves!Asked(s)
  PROVE  r = s
<1>1. /\ r \in Waves!Row /\ r \in Nat /\ s \in Waves!Row /\ s \in Nat
  BY RowOfChunk
<1>2. /\ Waves!Asked(r).group = Waves!Asked(s).group
      /\ Waves!Asked(r).beam = Waves!Asked(s).beam
  OBVIOUS
<1>3. /\ Waves!Prompt(r) = Waves!Prompt(s)
      /\ Waves!RolloutN(r) \div Width = Waves!RolloutN(s) \div Width
      /\ Waves!RolloutN(r) % Width = Waves!RolloutN(s) % Width
  BY <1>2 DEF Waves!Asked
<1>4. PICK m, n \in Nat : m = Waves!RolloutN(r) /\ n = Waves!RolloutN(s)
  BY <1>1, BeforeIsFinite
<1>5. m = n
  <2>1. Width \in Nat \ {0}
    BY Sizes
  <2>2. /\ m = Width * (m \div Width) + (m % Width)
        /\ n = Width * (n \div Width) + (n % Width)
    BY <2>1, Division
  <2> QED
    BY <1>3, <1>4, <2>2
<1>6. ~ (r < s) /\ ~ (s < r)
  <2>1. r < s => m < n
    BY <1>3, <1>4, CountGrows
  <2>2. s < r => n < m
    BY <1>3, <1>4, CountGrows
  <2> QED
    BY <1>5, <2>1, <2>2
<1> QED
  BY <1>1, <1>6

\* Min of FiniteSetsExt is the smallest element.
LEMMA Smallest ==
  ASSUME NEW S, S # {}, S \subseteq Nat, IsFiniteSet(S)
  PROVE  Waves!Min(S) \in S /\ \A y \in S : Waves!Min(S) <= y
<1> DEFINE R == {p \in S \X S : p[1] < p[2]}
<1>1. (\A d \in S : <<d, d>> \notin R)
  OBVIOUS
<1>2. \A c, d, e \in S : <<c, d>> \in R /\ <<d, e>> \in R => <<c, e>> \in R
  OBVIOUS
<1>3. PICK e \in S : \A d \in S : <<d, e>> \notin R
  <2> HIDE DEF R
  <2> QED
    BY <1>1, <1>2, FiniteMinimum
<1>4. ASSUME NEW d \in S PROVE e <= d
  <2>1. ~ (d < e) /\ d \in Nat /\ e \in Nat
    BY <1>3
  <2> QED
    BY <2>1
<1> QED
  BY <1>4 DEF Waves!Min

\* The rows of a worker that ask for the sample of r.
Sharing(r) ==
  {s \in Waves!RowsOf(Waves!WorkerOf(r)) : Waves!Asked(s).group = Waves!Asked(r).group}

LEMMA PlanOf ==
  ASSUME workers \in Workers, NEW r \in Waves!Row
  PROVE  /\ Waves!Plan[r].group = Waves!Asked(r).group
         /\ Waves!Plan[r].beam = Waves!Asked(r).beam
         /\ Waves!Plan[r].leader = Waves!Min(Sharing(r))
         /\ Waves!Plan[r].leader \in Sharing(r)
<1> DEFINE asked == [s \in Waves!Row |-> Waves!Asked(s)]
           same == {s \in Waves!RowsOf(Waves!WorkerOf(r)) : asked[s].group = asked[r].group}
<1>1. Waves!Plan[r] = [group |-> asked[r].group, beam |-> asked[r].beam,
                       leader |-> Waves!Min(same)]
  BY DEF Waves!Plan
<1>2. r \in Waves!RowsOf(Waves!WorkerOf(r)) /\ Waves!WorkerOf(r) \in Waves!Worker
  BY ChunkOfRow
<1>3. Waves!RowsOf(Waves!WorkerOf(r)) \subseteq Waves!Row
  BY <1>2, RowOfChunk
<1>4. asked[r] = Waves!Asked(r) /\ same = Sharing(r)
  BY <1>3 DEF Sharing
<1>5. Waves!Min(Sharing(r)) \in Sharing(r)
  <2>1. r \in Sharing(r)
    BY <1>2 DEF Sharing
  <2>2. Sharing(r) \subseteq Nat /\ IsFiniteSet(Sharing(r))
    BY <1>2, RowsAreFinite, FS_Subset DEF Sharing
  <2> QED
    BY <2>1, <2>2, Smallest
<1> HIDE DEF asked, same
<1> QED
  BY <1>1, <1>4, <1>5

\* What the rows ask for depends on the number of workers alone.
LEMMA PlanStays ==
  ASSUME workers' = workers
  PROVE  /\ Waves!Row' = Waves!Row /\ Waves!Worker' = Waves!Worker
         /\ \A w : Waves!RowsOf(w)' = Waves!RowsOf(w)
         /\ \A r : Waves!WorkerOf(r)' = Waves!WorkerOf(r)
         /\ Waves!Plan' = Waves!Plan
<1>1. Waves!Chunk' = Waves!Chunk
  BY DEF Waves!Chunk
<1>2. Waves!Row' = Waves!Row /\ Waves!Worker' = Waves!Worker
  BY <1>1 DEF Waves!Row, Waves!Worker
<1>3. \A w : Waves!RowsOf(w)' = Waves!RowsOf(w)
  BY <1>1 DEF Waves!RowsOf
<1>4. \A r : Waves!WorkerOf(r)' = Waves!WorkerOf(r)
  BY <1>1 DEF Waves!WorkerOf
<1>5. ASSUME NEW r PROVE Waves!Asked(r)' = Waves!Asked(r)
  <2>1. Before(r)' = Before(r)
    BY <1>3, <1>4 DEF Before
  <2>2. Waves!RolloutN(r) = Cardinality(Before(r)) /\ (Waves!RolloutN(r) = Cardinality(Before(r)))'
    <3>1. Waves!RolloutN(r) = Cardinality(Before(r))
      BY SameCount, Zenon DEF Waves!RolloutN, Before
    <3>2. (Waves!RolloutN(r) = Cardinality(Before(r)))'
      BY SameCount, Zenon DEF Waves!RolloutN, Before
    <3> QED
      BY <3>1, <3>2
  <2> QED
    BY <2>1, <2>2 DEF Waves!Asked
<1>6. Waves!Plan' = Waves!Plan
  <2> DEFINE asked == [r \in Waves!Row |-> Waves!Asked(r)]
             same(r) == {s \in Waves!RowsOf(Waves!WorkerOf(r)) : asked[s].group = asked[r].group}
  <2>1. asked' = asked
    BY <1>2, <1>5
  <2>2. ASSUME NEW r \in Waves!Row PROVE same(r)' = same(r)
    <3> HIDE DEF asked
    <3> QED
      BY <1>3, <1>4, <2>1
  <2>3. Waves!Plan = [r \in Waves!Row |-> [group |-> asked[r].group, beam |-> asked[r].beam,
                                          leader |-> Waves!Min(same(r))]]
    BY DEF Waves!Plan
  <2>4. Waves!Plan' = [r \in Waves!Row' |-> [group |-> asked'[r].group, beam |-> asked'[r].beam,
                                           leader |-> Waves!Min(same(r)')]]
    BY DEF Waves!Plan
  <2> HIDE DEF asked, same
  <2> QED
    BY <1>2, <2>1, <2>2, <2>3, <2>4
<1> QED
  BY <1>2, <1>3, <1>4, <1>6

-----------------------------------------------------------------------------
(* The budget of a wave.                                                   *)

LEMMA Larger ==
  ASSUME NEW a \in Int, NEW b \in Int
  PROVE  Waves!Max({a, b}) = IF a >= b THEN a ELSE b
<1>1. \E x \in {a, b} : \A y \in {a, b} : x >= y
  OBVIOUS
<1>2. Waves!Max({a, b}) \in {a, b} /\ \A y \in {a, b} : Waves!Max({a, b}) >= y
  BY <1>1 DEF Waves!Max
<1> QED
  BY <1>2

LEMMA Smaller ==
  ASSUME NEW a \in Int, NEW b \in Int
  PROVE  Waves!Min({a, b}) = IF a <= b THEN a ELSE b
<1>1. \E x \in {a, b} : \A y \in {a, b} : x <= y
  OBVIOUS
<1>2. Waves!Min({a, b}) \in {a, b} /\ \A y \in {a, b} : Waves!Min({a, b}) <= y
  BY <1>1 DEF Waves!Min
<1> QED
  BY <1>2

\* What a worker may have in flight.
AtMost == Waves!Max({limit.max, Width})

LEMMA Concurrency ==
  ASSUME limit.max \in Nat \ {0}, NEW budget \in Int, NEW pending \in Nat
  PROVE  /\ Waves!GroupConcurrency(budget, pending) \in Nat
         /\ Waves!GroupConcurrency(budget, pending) * Width <= AtMost
<1>1. Width \in Nat \ {0}
  BY LoopsAssumption DEF Waves!WavesAssumption
<1>2. PICK least : least = Waves!Max({1, budget})
  OBVIOUS
<1>3. PICK most : most = Waves!Min({least, limit.max})
  OBVIOUS
<1>4. PICK whole : whole = most \div Width
  OBVIOUS
<1>5. PICK some : some = Waves!Max({1, whole})
  OBVIOUS
<1>6. PICK g : g = Waves!Min({some, pending})
  OBVIOUS
<1>7. g = Waves!GroupConcurrency(budget, pending)
  BY <1>2, <1>3, <1>4, <1>5, <1>6 DEF Waves!GroupConcurrency
<1>8. least \in Nat \ {0}
  BY <1>2, Larger
<1>9. most \in Nat \ {0} /\ most <= limit.max
  <2>1. most = IF least <= limit.max THEN least ELSE limit.max
    BY <1>3, <1>8, Smaller
  <2> QED
    BY <1>8, <2>1
<1>10. whole \in Nat /\ whole * Width <= most
  <2>1. whole \in Nat /\ most % Width \in 0 .. Width - 1 /\ most = Width * whole + (most % Width)
    BY <1>1, <1>4, <1>9, Division
  <2> QED
    BY <1>1, <1>9, <2>1
<1>11. some \in Nat \ {0} /\ (some = 1 \/ some = whole)
  BY <1>5, <1>10, Larger
<1>12. some * Width <= AtMost /\ AtMost \in Nat
  <2>1. AtMost = IF limit.max >= Width THEN limit.max ELSE Width
    BY <1>1, Larger DEF AtMost
  <2> QED
    BY <1>1, <1>9, <1>10, <1>11, <2>1
<1>13. g \in Nat /\ g <= some
  <2>1. g = IF some <= pending THEN some ELSE pending
    BY <1>6, <1>11, Smaller
  <2> QED
    BY <1>11, <2>1
<1>14. g * Width <= some * Width
  BY <1>1, <1>11, <1>13
<1>15. g * Width <= AtMost
  BY <1>1, <1>11, <1>12, <1>13, <1>14
<1> QED
  BY <1>7, <1>13, <1>15

\* The rows of some groups of a worker are not more than their beams.
LEMMA RowsOfGroups ==
  ASSUME workers \in Workers, plan = Waves!Plan, NEW w \in Waves!Worker,
         NEW L, L \subseteq Waves!RowsOf(w)
  PROVE  /\ Waves!RowsIn(L) \subseteq Waves!RowsOf(w)
         /\ IsFiniteSet(L) /\ IsFiniteSet(Waves!RowsIn(L))
         /\ Cardinality(Waves!RowsIn(L)) <= Cardinality(L) * Width
<1> DEFINE R == Waves!RowsIn(L)
           f == [r \in R |-> <<plan[r].leader, plan[r].beam>>]
           P == L \X (0 .. Width - 1)
<1>1. Width \in Nat \ {0}
  BY Sizes
<1>2. ASSUME NEW r \in R
      PROVE  /\ r \in Waves!Row /\ r \in Waves!RowsOf(w)
             /\ plan[r].leader \in L
             /\ plan[r].beam = Waves!Asked(r).beam
             /\ Waves!Asked(plan[r].leader).group = Waves!Asked(r).group
  <2>1. r \in Waves!Row /\ plan[r].leader \in L
    BY DEF Waves!RowsIn
  <2>2. plan[r].beam = Waves!Asked(r).beam /\ plan[r].leader \in Sharing(r)
    BY <2>1, PlanOf
  <2>3. /\ Waves!WorkerOf(r) \in Waves!Worker /\ r \in Waves!RowsOf(Waves!WorkerOf(r))
    BY <2>1, ChunkOfRow
  <2>4. plan[r].leader \in Waves!RowsOf(Waves!WorkerOf(r))
    BY <2>2 DEF Sharing
  <2>5. Waves!WorkerOf(plan[r].leader) = w
    BY <2>1, RowOfChunk
  <2>6. Waves!WorkerOf(plan[r].leader) = Waves!WorkerOf(r)
    BY <2>3, <2>4, RowOfChunk
  <2> QED
    BY <2>1, <2>2, <2>3, <2>5, <2>6 DEF Sharing
<1>3. IsFiniteSet(L) /\ IsFiniteSet(P) /\ Cardinality(P) = Cardinality(L) * Width
  <2>1. IsFiniteSet(L)
    BY RowsAreFinite, FS_Subset
  <2>2. IsFiniteSet(0 .. Width - 1) /\ Cardinality(0 .. Width - 1) = Width
    BY <1>1, FS_Interval
  <2> QED
    BY <2>1, <2>2, FS_Product
<1>4. f \in Injection(R, P)
  <2>1. ASSUME NEW r \in R PROVE f[r] \in P
    <3>1. Waves!Asked(r).beam \in 0 .. Width - 1
      BY <1>1, <1>2, BeforeIsFinite, Division DEF Waves!Asked
    <3> QED
      BY <1>2, <3>1
  <2>2. ASSUME NEW r \in R, NEW s \in R, f[r] = f[s] PROVE r = s
    <3>1. plan[r].leader = plan[s].leader /\ plan[r].beam = plan[s].beam
      BY <2>2
    <3>2. /\ Waves!Asked(r).group = Waves!Asked(s).group
          /\ Waves!Asked(r).beam = Waves!Asked(s).beam
      BY <1>2, <3>1
    <3>3. Waves!Asked(r) = Waves!Asked(s)
      BY <3>2 DEF Waves!Asked
    <3> QED
      BY <1>2, <3>3, AskedOnce
  <2> QED
    BY <2>1, <2>2 DEF Injection, IsInjective
<1>5. IsFiniteSet(R) /\ Cardinality(R) <= Cardinality(P)
  <2> HIDE DEF R, P, f
  <2> QED
    BY <1>3, <1>4, FS_Injection
<1> QED
  BY <1>2, <1>3, <1>5

\* The next wave has no more groups than it may have.
LEMMA WaveOfGroups ==
  ASSUME workers \in Workers, plan = Waves!Plan, NEW w \in Waves!Worker, NEW n \in Nat
  PROVE  /\ Waves!NextGroups(w, n) \subseteq Waves!RowsOf(w)
         /\ Cardinality(Waves!NextGroups(w, n)) <= n
<1> DEFINE U == Waves!Unsent(w)
           R == {p \in U \X U : p[1] < p[2]}
<1>1. U \subseteq Waves!RowsOf(w) /\ U \subseteq Nat /\ IsFiniteSet(U)
  BY RowsAreFinite, FS_Subset DEF Waves!Unsent, Waves!Leaders
<1>2. Waves!NextGroups(w, n) = {e \in U : Cardinality({d \in U : d < e}) < n}
  BY SameCount DEF Waves!NextGroups
<1>3. \A e \in U : {d \in U : d < e} = {d \in U : <<d, e>> \in R}
  OBVIOUS
<1>4. Waves!NextGroups(w, n) = BestOf(U, R, n)
  <2> HIDE DEF U, R
  <2> QED
    BY <1>2, <1>3 DEF BestOf
<1>5. Cardinality(BestOf(U, R, n)) <= n
  <2>1. CASE n = 0
    <3>1. ASSUME NEW e \in U PROVE ~ (Cardinality({d \in U : <<d, e>> \in R}) < n)
      <4>1. IsFiniteSet({d \in U : <<d, e>> \in R})
        BY <1>1, FS_Subset
      <4>2. PICK c \in Nat : c = Cardinality({d \in U : <<d, e>> \in R})
        BY <4>1, FS_CardinalityType
      <4>3. ~ (c < n)
        BY <2>1, <4>2
      <4> QED
        BY <4>2, <4>3, Zenon
    <3>2. BestOf(U, R, n) = {}
      <4> HIDE DEF U, R
      <4> QED
        BY <3>1 DEF BestOf
    <3> QED
      BY <2>1, <3>2, FS_EmptySet
  <2>2. CASE n # 0
    <3>1. \A d \in U : <<d, d>> \notin R
      BY <1>1
    <3>2. \A c, d, e \in U : <<c, d>> \in R /\ <<d, e>> \in R => <<c, e>> \in R
      BY <1>1
    <3>3. \A d, e \in U : d = e \/ <<d, e>> \in R \/ <<e, d>> \in R
      BY <1>1
    <3> HIDE DEF U, R
    <3> QED
      BY <1>1, <2>2, <3>1, <3>2, <3>3, BestAreNotMore
  <2> QED
    BY <2>1, <2>2
<1>6. BestOf(U, R, n) \subseteq U
  BY DEF BestOf
<1> QED
  BY <1>1, <1>4, <1>5, <1>6

-----------------------------------------------------------------------------
(* The waves (part "waves").                                               *)

\* A worker has no more in flight than it may, and no more groups to start; and
\* one that returned has all its outputs.
WavesInv ==
  /\ workers \in Workers
  /\ plan = Waves!Plan
  /\ limit \in [max : Nat \ {0}, min : Int, step : Int, adaptive : BOOLEAN]
  /\ sent \subseteq Waves!Row
  /\ groups \in [Waves!Worker -> Nat]
  /\ \A w \in Waves!Worker : groups[w] * Width <= AtMost
  /\ validate => \A w \in Waves!Worker : Cardinality(Waves!Unanswered(w)) <= AtMost
  /\ \A w \in returned : Waves!RowsOf(w) \subseteq answered

LEMMA LimitsNormalized ==
  ASSUME workers \in Workers, NEW l \in Limits
  PROVE  Waves!Normalized(l) \in [max : Nat \ {0}, min : Int, step : Int, adaptive : BOOLEAN]
<1>1. l \in [max : Int, min : Int, step : Int, adaptive : BOOLEAN]
  BY LoopsAssumption DEF Waves!WavesAssumption
<1>2. PICK C : C = Waves!Chunk /\ C \in Nat \ {0}
  BY Sizes
<1>3. PICK most : most = IF l.max <= 0 THEN C ELSE Waves!Min({l.max, C})
  OBVIOUS
<1>4. most \in Nat \ {0}
  <2>1. ASSUME ~ (l.max <= 0) PROVE Waves!Min({l.max, C}) = IF l.max <= C THEN l.max ELSE C
    BY <1>1, <1>2, Smaller
  <2> QED
    BY <1>1, <1>2, <1>3, <2>1
<1>5. PICK low : low = Waves!Min({l.min, most})
  OBVIOUS
<1>6. low \in Int
  <2>1. low = IF l.min <= most THEN l.min ELSE most
    BY <1>1, <1>4, <1>5, Smaller
  <2> QED
    BY <1>1, <1>4, <2>1
<1>7. PICK least : least = Waves!Max({1, low})
  OBVIOUS
<1>8. PICK by : by = Waves!Max({1, l.step})
  OBVIOUS
<1>9. least \in Int /\ by \in Int
  <2>1. least = IF 1 >= low THEN 1 ELSE low
    BY <1>6, <1>7, Larger
  <2>2. by = IF 1 >= l.step THEN 1 ELSE l.step
    BY <1>1, <1>8, Larger
  <2> QED
    BY <1>1, <1>6, <2>1, <2>2
<1>10. Waves!Normalized(l) = [l EXCEPT !.max = most, !.min = least, !.step = by]
  BY <1>2, <1>3, <1>5, <1>7, <1>8 DEF Waves!Normalized
<1> QED
  BY <1>1, <1>4, <1>9, <1>10

LEMMA WavesStart == Waves!Init => WavesInv
<1> SUFFICES ASSUME Waves!Init PROVE WavesInv
  OBVIOUS
<1>1. /\ workers \in Workers /\ plan = Waves!Plan /\ sent = {} /\ returned = {}
  BY DEF Waves!Init
<1>2. limit \in [max : Nat \ {0}, min : Int, step : Int, adaptive : BOOLEAN]
  BY <1>1, LimitsNormalized DEF Waves!Init
<1>3. ASSUME NEW w \in Waves!Worker
      PROVE  groups[w] \in Nat /\ groups[w] * Width <= AtMost
  <2>1. IsFiniteSet(Waves!Leaders(w))
    BY <1>1, RowsAreFinite, FS_Subset DEF Waves!Leaders
  <2>2. PICK n \in Nat : n = Cardinality(Waves!Leaders(w))
    BY <2>1, FS_CardinalityType
  <2>3. groups[w] = Waves!GroupConcurrency(limit.max, n)
    BY <2>2, SameCount DEF Waves!Init
  <2>4. limit.max \in Nat \ {0} /\ limit.max \in Int
    BY <1>2
  <2> QED
    BY <2>2, <2>3, <2>4, Concurrency
<1>4. groups = [w \in Waves!Worker |-> groups[w]]
  BY DEF Waves!Init
<1>5. groups \in [Waves!Worker -> Nat]
  BY <1>3, <1>4
<1>6. ASSUME NEW w \in Waves!Worker PROVE Cardinality(Waves!Unanswered(w)) <= AtMost
  <2>1. Waves!Unanswered(w) = {}
    BY <1>1 DEF Waves!Unanswered
  <2>2. Cardinality(Waves!Unanswered(w)) = 0
    BY <2>1, FS_EmptySet, Zenon
  <2>3. AtMost \in Nat
    <3>1. limit.max \in Nat \ {0} /\ Width \in Nat \ {0}
      BY <1>1, <1>2, Sizes
    <3>2. AtMost = IF limit.max >= Width THEN limit.max ELSE Width
      BY <3>1, Larger DEF AtMost
    <3> QED
      BY <3>1, <3>2
  <2> QED
    BY <2>2, <2>3
<1> QED
  BY <1>1, <1>2, <1>3, <1>5, <1>6 DEF WavesInv

\* A wave: the calls of some groups are made, by a worker that waits for nothing.
LEMMA WaveFits ==
  ASSUME WavesInv, NEW w \in Waves!Worker, Waves!Unanswered(w) = {},
         NEW n \in Nat, n * Width <= AtMost, AtMost \in Nat,
         UNCHANGED <<workers, plan, limit, answered>>,
         sent' = sent \cup Waves!RowsIn(Waves!NextGroups(w, n))
  PROVE  /\ sent' \subseteq Waves!Row
         /\ Cardinality(Waves!Unanswered(w)') <= AtMost
         /\ \A v \in Waves!Worker : v # w => Waves!Unanswered(v)' = Waves!Unanswered(v)
<1> DEFINE L == Waves!NextGroups(w, n)
           R == Waves!RowsIn(L)
<1>1. workers \in Workers /\ plan = Waves!Plan /\ Width \in Nat \ {0}
  BY Sizes DEF WavesInv
<1>2. L \subseteq Waves!RowsOf(w) /\ Cardinality(L) <= n
  BY <1>1, WaveOfGroups
<1>3. /\ R \subseteq Waves!RowsOf(w) /\ IsFiniteSet(L) /\ IsFiniteSet(R)
      /\ Cardinality(R) <= Cardinality(L) * Width
  <2> HIDE DEF L
  <2> QED
    BY <1>1, <1>2, RowsOfGroups
<1>4. Cardinality(R) \in Nat /\ Cardinality(R) <= AtMost
  <2>1. PICK k, l \in Nat : k = Cardinality(R) /\ l = Cardinality(L)
    BY <1>3, FS_CardinalityType
  <2>2. k <= l * Width /\ l <= n
    BY <1>2, <1>3, <2>1
  <2>3. l * Width <= n * Width
    BY <1>1, <2>1, <2>2
  <2>4. k <= AtMost
    BY <1>1, <2>1, <2>2, <2>3
  <2> QED
    BY <2>1, <2>4
<1>5. sent' = sent \cup R /\ \A v : Waves!RowsOf(v)' = Waves!RowsOf(v)
  BY PlanStays
<1>6. Cardinality(Waves!Unanswered(w)') <= AtMost
  <2>1. Waves!Unanswered(w)' \subseteq R
    <3> HIDE DEF R
    <3> QED
      BY <1>5 DEF Waves!Unanswered
  <2>2. IsFiniteSet(Waves!Unanswered(w)') /\ Cardinality(Waves!Unanswered(w)') <= Cardinality(R)
    <3> HIDE DEF R
    <3> QED
      BY <1>3, <2>1, FS_Subset
  <2>3. Cardinality(Waves!Unanswered(w)') \in Nat
    BY <2>2, FS_CardinalityType
  <2> HIDE DEF R
  <2> QED
    BY <1>4, <2>2, <2>3
<1>7. R \subseteq Waves!Row
  BY DEF Waves!RowsIn
<1>8. ASSUME NEW v \in Waves!Worker, v # w PROVE Waves!Unanswered(v)' = Waves!Unanswered(v)
  <2>1. R \cap Waves!RowsOf(v) = {}
    <3> HIDE DEF R
    <3> QED
      BY <1>1, <1>3, <1>8, RowOfChunk
  <2> HIDE DEF R
  <2> QED
    BY <1>5, <2>1 DEF Waves!Unanswered
<1> HIDE DEF R
<1> QED
  BY <1>5, <1>6, <1>7, <1>8 DEF WavesInv

LEMMA WavesSteps ==
  ASSUME WavesInv, Waves!Next
  PROVE  WavesInv'
<1>1. workers' = workers /\ plan' = plan /\ limit' = limit /\ validate' = validate
  BY DEF Waves!Next, Waves!SendAll, Waves!FirstWave, Waves!NextWave, Waves!Return,
         Waves!Answer, Waves!Raise
<1>2. /\ workers \in Workers /\ plan = Waves!Plan /\ limit.max \in Nat \ {0} /\ limit.max \in Int
      /\ limit.min \in Int /\ limit.step \in Int /\ limit.adaptive \in BOOLEAN
      /\ limit \in [max : Nat \ {0}, min : Int, step : Int, adaptive : BOOLEAN]
      /\ sent \subseteq Waves!Row /\ groups \in [Waves!Worker -> Nat]
      /\ \A w \in Waves!Worker : groups[w] * Width <= AtMost
  BY DEF WavesInv
<1>3. /\ Waves!Row' = Waves!Row /\ Waves!Worker' = Waves!Worker /\ Waves!Plan' = Waves!Plan
      /\ \A w : Waves!RowsOf(w)' = Waves!RowsOf(w)
  BY <1>1, PlanStays
<1>4. AtMost' = AtMost /\ AtMost \in Nat /\ Width \in Nat \ {0}
  <2>1. Width \in Nat \ {0}
    BY <1>2, Sizes
  <2>2. AtMost = IF limit.max >= Width THEN limit.max ELSE Width
    BY <1>2, <2>1, Larger DEF AtMost
  <2>3. AtMost' = AtMost
    BY <1>1 DEF AtMost
  <2> QED
    BY <1>2, <2>1, <2>2, <2>3
<1> DEFINE Sends == sent' \subseteq Waves!Row
           Budgets == /\ groups' \in [Waves!Worker -> Nat]
                      /\ \A w \in Waves!Worker : groups'[w] * Width <= AtMost
           Bounds == validate => \A w \in Waves!Worker : Cardinality(Waves!Unanswered(w)') <= AtMost
           Returns == \A w \in returned' : Waves!RowsOf(w) \subseteq answered'
<1>5. ASSUME NEW w \in Waves!Worker, Waves!SendAll(w)
      PROVE  Sends /\ Budgets /\ Bounds /\ Returns
  <2>1. Waves!RowsOf(w) \subseteq Waves!Row
    BY <1>2, RowOfChunk
  <2> QED
    BY <1>2, <1>5, <2>1 DEF Waves!SendAll, WavesInv
<1>6. ASSUME NEW w \in Waves!Worker, Waves!FirstWave(w)
      PROVE  Sends /\ Budgets /\ Bounds /\ Returns
  <2>1. /\ Waves!Unanswered(w) = {} /\ groups[w] \in Nat
        /\ sent' = sent \cup Waves!RowsIn(Waves!NextGroups(w, groups[w]))
        /\ UNCHANGED <<answered, groups, returned>>
    BY <1>2, <1>6 DEF Waves!FirstWave, Waves!Unanswered
  <2>2. /\ sent' \subseteq Waves!Row
        /\ Cardinality(Waves!Unanswered(w)') <= AtMost
        /\ \A v \in Waves!Worker : v # w => Waves!Unanswered(v)' = Waves!Unanswered(v)
    BY <1>1, <1>2, <1>4, <2>1, WaveFits
  <2>3. Bounds
    BY <2>2 DEF WavesInv
  <2> QED
    BY <1>2, <2>1, <2>2, <2>3 DEF WavesInv
<1>7. ASSUME NEW w \in Waves!Worker, Waves!NextWave(w)
      PROVE  Sends /\ Budgets /\ Bounds /\ Returns
  <2>1. PICK load : groups' = [groups EXCEPT ![w] =
            IF limit.adaptive
            THEN Waves!GroupConcurrency(Waves!Adapted(w, load), Waves!Cardinality(Waves!Unsent(w)))
            ELSE groups[w]]
    BY <1>7 DEF Waves!NextWave
  <2>2. /\ Waves!Unanswered(w) = {}
        /\ sent' = sent \cup Waves!RowsIn(Waves!NextGroups(w, groups'[w]))
        /\ UNCHANGED <<answered, returned>>
    BY <1>7 DEF Waves!NextWave
  <2>3. groups'[w] \in Nat /\ groups'[w] * Width <= AtMost
    <3>1. PICK g : g = Waves!GroupConcurrency(Waves!Adapted(w, load), Waves!Cardinality(Waves!Unsent(w)))
      OBVIOUS
    <3>2. g \in Nat /\ g * Width <= AtMost
      <4>1. IsFiniteSet(Waves!Unsent(w))
        BY <1>2, RowsAreFinite, FS_Subset DEF Waves!Leaders, Waves!Unsent
      <4>2. PICK n \in Nat : n = Cardinality(Waves!Unsent(w))
        BY <4>1, FS_CardinalityType
      <4>3. n = Waves!Cardinality(Waves!Unsent(w))
        BY <4>2, SameCount, Zenon
      <4>4. Waves!Adapted(w, load) \in Int
        <5>1. PICK b : b = CASE load = "busy" -> groups[w] * Width - limit.step
                             [] load = "idle" -> groups[w] * Width + limit.step
                             [] OTHER -> groups[w] * Width
          OBVIOUS
        <5>2. b \in Int
          <6>1. groups[w] * Width \in Int
            BY <1>2, <1>4
          <6>2. groups[w] * Width - limit.step \in Int /\ groups[w] * Width + limit.step \in Int
            BY <1>2, <6>1
          <6> QED
            BY <5>1, <6>1, <6>2
        <5>3. PICK c : c = Waves!Min({limit.max, b})
          OBVIOUS
        <5>4. c \in Int
          <6>1. c = IF limit.max <= b THEN limit.max ELSE b
            BY <1>2, <5>2, <5>3, Smaller
          <6> QED
            BY <1>2, <5>2, <6>1
        <5>5. Waves!Max({limit.min, c}) \in Int
          <6>1. Waves!Max({limit.min, c}) = IF limit.min >= c THEN limit.min ELSE c
            BY <1>2, <5>4, Larger
          <6> QED
            BY <1>2, <5>4, <6>1
        <5> QED
          BY <5>1, <5>3, <5>5 DEF Waves!Adapted
      <4> QED
        BY <1>2, <3>1, <4>3, <4>4, Concurrency
    <3>3. groups'[w] = IF limit.adaptive THEN g ELSE groups[w]
      BY <1>2, <2>1, <3>1
    <3> QED
      BY <1>2, <3>2, <3>3
  <2>4. Budgets
    BY <1>2, <2>1, <2>3
  <2>5. /\ sent' \subseteq Waves!Row
        /\ Cardinality(Waves!Unanswered(w)') <= AtMost
        /\ \A v \in Waves!Worker : v # w => Waves!Unanswered(v)' = Waves!Unanswered(v)
    BY <1>1, <1>2, <1>4, <2>2, <2>3, WaveFits
  <2>6. Bounds
    BY <2>5 DEF WavesInv
  <2> QED
    BY <2>2, <2>4, <2>5, <2>6 DEF WavesInv
<1>8. ASSUME NEW w \in Waves!Worker, Waves!Return(w)
      PROVE  Sends /\ Budgets /\ Bounds /\ Returns
  <2>1. \A v \in Waves!Worker : Waves!Unanswered(v)' = Waves!Unanswered(v)
    BY <1>3, <1>8 DEF Waves!Return, Waves!Unanswered
  <2>2. Bounds
    BY <2>1 DEF WavesInv
  <2> QED
    BY <1>2, <1>8, <2>2 DEF Waves!Return, WavesInv
<1>9. ASSUME NEW r \in Waves!Row, Waves!Answer(r)
      PROVE  Sends /\ Budgets /\ Bounds /\ Returns
  <2>1. ASSUME NEW v \in Waves!Worker, validate
        PROVE  Cardinality(Waves!Unanswered(v)') <= AtMost
    <3>1. Waves!Unanswered(v)' \subseteq Waves!Unanswered(v)
      BY <1>3, <1>9 DEF Waves!Answer, Waves!Unanswered
    <3>2. IsFiniteSet(Waves!Unanswered(v))
      BY <1>2, RowsAreFinite, FS_Subset DEF Waves!Unanswered
    <3>3. /\ Cardinality(Waves!Unanswered(v)') <= Cardinality(Waves!Unanswered(v))
          /\ IsFiniteSet(Waves!Unanswered(v)')
      BY <3>1, <3>2, FS_Subset
    <3>4. Cardinality(Waves!Unanswered(v)') \in Nat /\ Cardinality(Waves!Unanswered(v)) \in Nat
      BY <3>2, <3>3, FS_CardinalityType
    <3>5. Cardinality(Waves!Unanswered(v)) <= AtMost
      BY <2>1 DEF WavesInv
    <3> QED
      BY <1>4, <3>3, <3>4, <3>5
  <2> QED
    BY <1>2, <1>9, <2>1 DEF Waves!Answer, WavesInv
<1>10. ASSUME NEW r \in Waves!Row, Waves!Raise(r)
       PROVE  Sends /\ Budgets /\ Bounds /\ Returns
  <2>1. \A v \in Waves!Worker : Waves!Unanswered(v)' = Waves!Unanswered(v)
    BY <1>3, <1>10 DEF Waves!Raise, Waves!Unanswered
  <2>2. Bounds
    BY <2>1 DEF WavesInv
  <2> QED
    BY <1>2, <1>10, <2>2 DEF Waves!Raise, WavesInv
<1>11. Sends /\ Budgets /\ Bounds /\ Returns
  <2> HIDE DEF Sends, Budgets, Bounds, Returns
  <2> QED
    BY <1>5, <1>6, <1>7, <1>8, <1>9, <1>10 DEF Waves!Next
<1> QED
  BY <1>1, <1>2, <1>3, <1>4, <1>11 DEF WavesInv

LEMMA WavesInvariant == Spec => [](part = "waves" => WavesInv)
<1> DEFINE Inv == part = "waves" => WavesInv
<1>1. Init => Inv
  BY WavesStart DEF Init
<1>2. Inv /\ [Next]_vars => Inv'
  <2> SUFFICES ASSUME Inv, [Next]_vars, part' = "waves"
               PROVE  WavesInv'
    OBVIOUS
  <2>1. part = "waves" /\ (Waves!Next \/ UNCHANGED wavesVars)
    BY DEF Next, vars, WavesStep, ServerStep, ShardsStep, DispatchStep, CreditStep, MatchStep
  <2>2. WavesInv
    BY <2>1
  <2>3. CASE UNCHANGED wavesVars
    <3>1. UNCHANGED <<validate, limit, workers, plan, sent, answered, groups, returned>>
      BY <2>3 DEF wavesVars
    <3>2. /\ Waves!Row' = Waves!Row /\ Waves!Worker' = Waves!Worker /\ Waves!Plan' = Waves!Plan
          /\ \A w : Waves!RowsOf(w)' = Waves!RowsOf(w)
      BY <3>1, PlanStays
    <3>3. AtMost' = AtMost /\ \A w : Waves!Unanswered(w)' = Waves!Unanswered(w)
      BY <3>1, <3>2 DEF AtMost, Waves!Unanswered
    <3> QED
      BY <2>2, <3>1, <3>2, <3>3 DEF WavesInv
  <2> QED
    BY <2>1, <2>2, <2>3, WavesSteps
<1> QED
  BY <1>1, <1>2, PTL DEF Spec

\* A validating worker of OpenOneRec never has more calls in flight than the
\* configured limit, or than one group when the limit is smaller
\* (two_stage_agent_loop.py:353-389).
THEOREM InFlightAlwaysBounded == Spec => []InFlightBounded
<1>1. (part = "waves" => WavesInv) => InFlightBounded
  <2> SUFFICES ASSUME WavesInv, part = "waves", validate, NEW w \in Waves!Worker
               PROVE  Waves!Cardinality(Waves!Unanswered(w)) <= Waves!Max({limit.max, Width})
    BY DEF InFlightBounded, Waves!InFlightBounded
  <2>1. Cardinality(Waves!Unanswered(w)) <= AtMost
    BY DEF WavesInv
  <2>2. Waves!Cardinality(Waves!Unanswered(w)) = Cardinality(Waves!Unanswered(w))
    BY SameCount
  <2> QED
    BY <2>1, <2>2 DEF AtMost
<1> QED
  BY <1>1, WavesInvariant, PTL

\* If the chunks are whole prompts, row n of a prompt is counted as its n-th.
LEMMA CountOfWholePrompts ==
  ASSUME workers \in Workers, Waves!Chunk % Rollouts = 0,
         NEW p \in 0 .. Prompts - 1, NEW n \in 0 .. Rollouts - 1
  PROVE  /\ Rollouts * p + n \in Waves!Row
         /\ Waves!Prompt(Rollouts * p + n) = p
         /\ Waves!RolloutN(Rollouts * p + n) = n
<1>1. PICK r : r = Rollouts * p + n
  OBVIOUS
<1>2. PICK T, R, C : T = Waves!Total /\ R = Rollouts /\ C = Waves!Chunk
  OBVIOUS
<1>3. /\ T \in Nat \ {0} /\ R \in Nat \ {0} /\ C \in Nat \ {0} /\ workers \in Nat \ {0}
      /\ Prompts \in Nat \ {0} /\ T = Prompts * R
      /\ T <= C * workers
  BY <1>2, Sizes
<1>4. r = R * p + n /\ r \in Nat /\ R * p \in Nat /\ r < T /\ p \in Nat /\ n \in 0 .. R - 1
  <2>1. (Prompts - 1 - p) * R >= 0
    BY <1>3
  <2> QED
    BY <1>1, <1>2, <1>3, <2>1
<1>5. r \in Waves!Row
  BY <1>2, <1>3, <1>4 DEF Waves!Row
<1>6. ASSUME NEW x \in Nat, x < T PROVE Waves!Prompt(x) = x \div R
  <2>1. x % T = x
    BY <1>3, <1>6, Quotient, T * 0 + x = x
  <2> QED
    BY <1>2, <2>1 DEF Waves!Prompt
<1>7. ASSUME NEW i \in 0 .. R - 1 PROVE Waves!Prompt(R * p + i) = p
  <2>1. (R * p + i) \div R = p
    BY <1>3, <1>4, <1>7, Quotient
  <2>2. R * p + i \in Nat /\ R * p + i < T
    <3>1. (Prompts - 1 - p) * R >= 0
      BY <1>3
    <3> QED
      BY <1>3, <1>4, <3>1
  <2> QED
    BY <1>6, <2>1, <2>2
<1>8. PICK w : w = Waves!WorkerOf(r) /\ w \in Waves!Worker
  BY <1>5, ChunkOfRow
<1>9. PICK first : first = w * C
  OBVIOUS
<1>10. /\ first \in Nat /\ first <= r /\ r <= first + C - 1
       /\ Waves!RowsOf(w) = first .. first + C - 1
  <2>1. w \in Nat /\ first \in Nat /\ (w + 1) * C - 1 = first + C - 1
    BY <1>3, <1>8, <1>9 DEF Waves!Worker
  <2>2. r \in Waves!RowsOf(w)
    BY <1>5, <1>8, ChunkOfRow
  <2> QED
    BY <1>2, <1>3, <1>4, <1>9, <2>1, <2>2 DEF Waves!RowsOf
\* A chunk starts with a prompt.
<1>11. first <= R * p
  <2>1. PICK k : k = C \div R
    OBVIOUS
  <2>2. k \in Nat /\ C = R * k
    BY <1>2, <1>3, <2>1, Division
  <2>3. first = R * (k * w) /\ k * w \in Nat
    BY <1>3, <1>8, <1>9, <2>2 DEF Waves!Worker
  <2>4. PICK m \in Nat : first = R * m
    BY <2>3
  <2>5. ASSUME m > p PROVE FALSE
    <3>1. R * (m - p) >= R
      BY <1>3, <1>4, <2>4, <2>5
    <3>2. R * (m - p) = R * m - R * p
      BY <1>3, <1>4, <2>4
    <3> QED
      BY <1>3, <1>4, <1>10, <2>4, <3>1, <3>2
  <2>6. R * (p - m) >= 0
    BY <1>3, <1>4, <2>4, <2>5
  <2>7. R * (p - m) = R * p - R * m
    BY <1>3, <1>4, <2>4
  <2> QED
    BY <1>3, <1>4, <2>4, <2>6, <2>7
<1>12. Before(r) = R * p .. r - 1
  <2>1. ASSUME NEW u \in Before(r) PROVE u \in R * p .. r - 1
    <3>1. u \in Waves!RowsOf(w) /\ u < r /\ \A t \in u .. r : Waves!Prompt(t) = Waves!Prompt(r)
      BY <1>8, <2>1 DEF Before
    <3>2. u \in Nat /\ u < T
      BY <1>3, <1>4, <1>10, <3>1
    <3>3. Waves!Prompt(u) = Waves!Prompt(r)
      BY <1>4, <3>1, <3>2
    <3>4. u \div R = p
      BY <1>4, <1>6, <1>7, <3>2, <3>3
    <3>5. u % R \in 0 .. R - 1 /\ u = R * p + (u % R)
      BY <1>3, <3>2, <3>4, Division
    <3> QED
      BY <1>3, <1>4, <3>1, <3>2, <3>5
  <2>2. ASSUME NEW u \in R * p .. r - 1 PROVE u \in Before(r)
    <3>1. u \in Waves!RowsOf(w) /\ u < r /\ u \in Nat
      BY <1>3, <1>4, <1>10, <1>11
    <3>2. ASSUME NEW t \in u .. r PROVE Waves!Prompt(t) = Waves!Prompt(r)
      <4>1. t - R * p \in 0 .. R - 1 /\ R * p + (t - R * p) = t
        BY <1>3, <1>4, <3>1
      <4> QED
        BY <1>4, <1>7, <4>1
    <3> QED
      BY <1>8, <3>1, <3>2 DEF Before
  <2> QED
    BY <2>1, <2>2
<1>13. Cardinality(Before(r)) = n
  <2>1. R * p \in Int /\ r - 1 \in Int
    BY <1>3, <1>4
  <2>2. Cardinality(R * p .. r - 1) = IF R * p > r - 1 THEN 0 ELSE (r - 1) - R * p + 1
    BY <2>1, FS_Interval
  <2>3. (IF R * p > r - 1 THEN 0 ELSE (r - 1) - R * p + 1) = n
    BY <1>3, <1>4
  <2> QED
    BY <1>12, <2>2, <2>3
<1> QED
  BY <1>1, <1>4, <1>5, <1>7, <1>13, BeforeIsFinite

\* No beam of a shared sample is asked for twice by a worker, and none is left out
\* when no prompt is split between workers (two_stage_agent_loop.py:47-58).
THEOREM EveryBeamAlwaysOnce == Spec => []EveryBeamOnce
<1>1. (part = "waves" => WavesInv) => EveryBeamOnce
  <2> SUFFICES ASSUME WavesInv, part = "waves" PROVE Waves!EveryBeamOnce
    BY DEF EveryBeamOnce
  <2>1. workers \in Workers /\ plan = Waves!Plan /\ sent \subseteq Waves!Row
    BY DEF WavesInv
  <2>2. ASSUME NEW r \in sent, NEW s \in sent, r # s,
               Waves!Group(r) = Waves!Group(s), Waves!Beam(r) = Waves!Beam(s)
        PROVE  Waves!WorkerOf(r) # Waves!WorkerOf(s)
    <3>1. /\ Waves!Asked(r).group = Waves!Asked(s).group
          /\ Waves!Asked(r).beam = Waves!Asked(s).beam
      BY <2>1, <2>2, PlanOf DEF Waves!Group, Waves!Beam
    <3>2. Waves!Asked(r) = Waves!Asked(s)
      BY <3>1 DEF Waves!Asked
    <3> QED
      BY <2>1, <2>2, <3>2, AskedOnce, ChunkOfRow
  <2>3. ASSUME Waves!Ended, raised = {}, Waves!Chunk % Rollouts = 0,
               NEW p \in 0 .. Prompts - 1, NEW n \in 0 .. Rollouts - 1
        PROVE  \E r \in answered : Waves!Group(r) = <<p, n \div Width>> /\ Waves!Beam(r) = n % Width
    <3>1. PICK r : r = Rollouts * p + n
      OBVIOUS
    <3>2. r \in Waves!Row /\ Waves!Prompt(r) = p /\ Waves!RolloutN(r) = n
      BY <2>1, <2>3, <3>1, CountOfWholePrompts
    <3>3. r \in answered
      <4>1. Waves!WorkerOf(r) \in returned
        BY <2>1, <2>3, <3>2, ChunkOfRow DEF Waves!Ended
      <4> QED
        BY <2>1, <3>2, <4>1, ChunkOfRow DEF WavesInv
    <3>4. Waves!Group(r) = <<p, n \div Width>> /\ Waves!Beam(r) = n % Width
      BY <2>1, <3>2, PlanOf DEF Waves!Group, Waves!Beam, Waves!Asked
    <3> QED
      BY <3>3, <3>4
  <2> QED
    BY <2>2, <2>3 DEF Waves!EveryBeamOnce
<1> QED
  BY <1>1, WavesInvariant, PTL

-----------------------------------------------------------------------------
(* The matching of RankGRPO (part "match").                                *)

\* The ground truth m matches each position of the list s with.
TruthOf(m, s) == [i \in DOMAIN m |-> <<NormOf[s[i][1]], m[i]>>]

\* m matches the positions H within the tolerance, and l is what it leaves.
Matching(m, H, s, l) ==
  /\ m \in [H -> Year]
  /\ \A i \in H : Match!Distance(m[i], s[i][2]) <= tolerance
  /\ \A k \in Match!TitleYear : l[k] + Cardinality(PartOf(H, TruthOf(m, s), k)) = truths[k]

\* Nothing is left that position i could be matched with.
Exhausted(i, s, l) ==
  \A y \in Year : Match!Distance(y, s[i][2]) <= tolerance => l[<<NormOf[s[i][1]], y>>] = 0

MatchInv ==
  /\ recs \in Seq(Title \X Year) /\ tolerance \in Nat
  /\ truths \in [Match!TitleYear -> Nat] /\ left \in [Match!TitleYear -> Nat]
  /\ hits \subseteq Match!Positions
  /\ \E m : Matching(m, hits, recs, left)
  /\ \A i \in Match!Positions \ hits : Exhausted(i, recs, left)

LEMMA SameSize == \A S : Match!Cardinality(S) = Cardinality(S)
BY Zenon DEF Match!Cardinality, Cardinality

LEMMA YearsAreNumbers == Year \subseteq Nat /\ Tolerances \subseteq Nat /\ MaxTruths \in Nat
BY LoopsAssumption DEF Match!MatchAssumption

LEMMA Distances ==
  ASSUME NEW y \in Nat, NEW z \in Nat
  PROVE  Match!Distance(y, z) \in Nat
BY DEF Match!Distance

LEMMA NearestIsAMatch ==
  ASSUME NEW title \in Title, NEW year \in Year, tolerance \in Nat,
         Match!Matches(title, year) # {}
  PROVE  Match!Nearest(title, year) \in Match!Matches(title, year)
<1> DEFINE M == Match!Matches(title, year)
           d(y) == Match!Distance(y, year)
           R == {p \in M \X M : d(p[1]) < d(p[2]) \/ (d(p[1]) = d(p[2]) /\ p[1] > p[2])}
<1>1. year \in Nat /\ \A y \in M : y \in Nat /\ d(y) \in Nat /\ d(y) <= tolerance
  BY YearsAreNumbers, Distances DEF Match!Matches
<1>2. IsFiniteSet(M)
  <2>1. M \subseteq 0 .. year + tolerance
    <3>1. ASSUME NEW y \in M PROVE y \in 0 .. year + tolerance
      BY <1>1 DEF Match!Distance
    <3> QED
      BY <3>1
  <2>2. 0 \in Int /\ year + tolerance \in Int
    BY <1>1
  <2> HIDE DEF M
  <2> QED
    BY <2>1, <2>2, FS_Interval, FS_Subset
<1> HIDE DEF M, d
<1>3. PICK e \in M : \A z \in M : <<z, e>> \notin R
  <2>1. \A a \in M : <<a, a>> \notin R
    BY <1>1
  <2>2. \A a, b, c \in M : <<a, b>> \in R /\ <<b, c>> \in R => <<a, c>> \in R
    BY <1>1
  <2>3. M # {}
    BY DEF M
  <2> HIDE DEF R
  <2> QED
    BY <1>2, <2>1, <2>2, <2>3, FiniteMinimum
<1>4. ASSUME NEW z \in M PROVE d(e) < d(z) \/ (d(e) = d(z) /\ e >= z)
  <2>1. ~ (d(z) < d(e) \/ (d(z) = d(e) /\ z > e))
    <3>1. <<z, e>> \in R <=> d(z) < d(e) \/ (d(z) = d(e) /\ z > e)
      OBVIOUS
    <3> QED
      BY <1>3, <3>1
  <2> QED
    BY <1>1, <2>1
<1> QED
  BY <1>3, <1>4 DEF M, d, Match!Nearest

LEMMA MatchStarts ==
  ASSUME Match!Init
  PROVE  MatchInv
<1>1. /\ tolerance \in Tolerances /\ truths \in [Match!TitleYear -> 0 .. MaxTruths]
      /\ recs = <<>> /\ left = truths /\ hits = {}
  BY DEF Match!Init
<1>2. /\ recs \in Seq(Title \X Year) /\ tolerance \in Nat
      /\ truths \in [Match!TitleYear -> Nat] /\ left \in [Match!TitleYear -> Nat]
  BY <1>1, YearsAreNumbers
<1>3. Match!Positions = {}
  BY <1>1 DEF Match!Positions
<1>4. Matching([i \in hits |-> 0], hits, recs, left)
  <2>1. \A k, f : PartOf(hits, f, k) = {}
    BY <1>1 DEF PartOf
  <2>2. [i \in hits |-> 0] \in [hits -> Year] /\ \A i \in hits : FALSE
    BY <1>1
  <2>3. Cardinality({}) = 0
    BY FS_EmptySet
  <2>4. \A k \in Match!TitleYear : left[k] + 0 = truths[k]
    BY <1>1, <1>2
  <2> QED
    BY <2>1, <2>2, <2>3, <2>4 DEF Matching
<1> QED
  BY <1>1, <1>2, <1>3, <1>4 DEF MatchInv

\* One recommendation more.
LEMMA MatchSteps ==
  ASSUME MatchInv, NEW title \in Title, NEW year \in Year, Match!Match(title, year)
  PROVE  MatchInv'
<1>. PICK n : n = Len(recs) + 1
  OBVIOUS
<1>1. /\ recs' = Append(recs, <<title, year>>)
      /\ UNCHANGED <<seen, catalog, tolerance, truths>>
      /\ IF Match!Excluded(title, year) \/ Match!Matches(title, year) = {}
         THEN UNCHANGED <<left, hits>>
         ELSE left' = Match!UsedUp(title, year) /\ hits' = hits \cup {Len(recs')}
  BY DEF Match!Match
<1>2. /\ recs \in Seq(Title \X Year) /\ tolerance \in Nat
      /\ truths \in [Match!TitleYear -> Nat] /\ left \in [Match!TitleYear -> Nat]
      /\ hits \subseteq Match!Positions
      /\ \A i \in Match!Positions \ hits : Exhausted(i, recs, left)
  BY DEF MatchInv
<1>3. PICK m : Matching(m, hits, recs, left)
  BY DEF MatchInv
<1>4. /\ recs' \in Seq(Title \X Year) /\ Len(recs') = n /\ Len(recs) \in Nat
      /\ recs'[n] = <<title, year>>
      /\ \A i \in 1 .. Len(recs) : recs'[i] = recs[i]
  BY <1>1, <1>2
<1>5. /\ Match!Positions \subseteq 1 .. Len(recs)
      /\ Match!Positions \subseteq Match!Positions'
      /\ Match!Positions' \subseteq Match!Positions \cup {n}
      /\ n \in Match!Positions' <=> ~ Match!Excluded(title, year)
  <2>1. \A t, y : Match!Excluded(t, y)' <=> Match!Excluded(t, y)
    BY <1>1 DEF Match!Excluded
  <2>2. Match!Positions' = {i \in 1 .. n : ~ Match!Excluded(recs'[i][1], recs'[i][2])}
    BY <1>4, <2>1 DEF Match!Positions
  <2>3. Match!Positions = {i \in 1 .. Len(recs) : ~ Match!Excluded(recs[i][1], recs[i][2])}
    BY DEF Match!Positions
  <2> QED
    BY <1>4, <2>2, <2>3
<1>6. \A i \in hits : i \in 1 .. Len(recs) /\ recs'[i] = recs[i] /\ i # n
  BY <1>2, <1>4, <1>5
<1>7. n \notin hits
  BY <1>6
\* What the list says of the positions before is what it said.
<1>8. TruthOf(m, recs') = TruthOf(m, recs)
  BY <1>3, <1>6 DEF Matching, TruthOf
<1>9. ASSUME NEW i \in Match!Positions \ hits,
             \A k \in Match!TitleYear : left[k] = 0 => left'[k] = 0
      PROVE  Exhausted(i, recs, left)'
  <2>1. i \in 1 .. Len(recs) /\ recs'[i] = recs[i] /\ recs[i] \in Title \X Year
    BY <1>2, <1>4, <1>5
  <2>2. \A y \in Year : <<NormOf[recs[i][1]], y>> \in Match!TitleYear
    BY <2>1 DEF Match!TitleYear
  <2>3. \A y \in Year : Match!Distance(y, recs[i][2]) <= tolerance => left[<<NormOf[recs[i][1]], y>>] = 0
    BY <1>2 DEF Exhausted
  <2> QED
    BY <1>1, <1>9, <2>1, <2>2, <2>3 DEF Exhausted
<1>10. /\ title \in Title /\ <<NormOf[title], year>> \in Match!TitleYear
       /\ \A y \in Year : <<NormOf[title], y>> \in Match!TitleYear
  BY DEF Match!TitleYear
<1>11. CASE Match!Excluded(title, year) \/ Match!Matches(title, year) = {}
  <2>1. UNCHANGED <<left, hits>>
    BY <1>1, <1>11
  <2>2. Matching(m, hits, recs, left)'
    BY <1>1, <1>3, <1>6, <1>8, <2>1 DEF Matching
  <2>3. ASSUME n \in Match!Positions' PROVE Exhausted(n, recs, left)'
    <3>1. Match!Matches(title, year) = {}
      BY <1>5, <1>11, <2>3
    <3>2. \A y \in Year : Match!Distance(y, year) <= tolerance => ~ (left[<<NormOf[title], y>>] > 0)
      BY <3>1 DEF Match!Matches
    <3>3. \A y \in Year : left[<<NormOf[title], y>>] \in Nat
      BY <1>2, <1>10
    <3>4. \A y \in Year : Match!Distance(y, year) <= tolerance => left[<<NormOf[title], y>>] = 0
      BY <3>2, <3>3
    <3> QED
      BY <1>1, <1>4, <2>1, <3>4 DEF Exhausted
  <2>4. \A i \in Match!Positions' \ hits' : Exhausted(i, recs, left)'
    BY <1>5, <1>9, <2>1, <2>3
  <2> QED
    BY <1>1, <1>2, <1>4, <1>5, <2>1, <2>2, <2>4 DEF MatchInv
<1>12. CASE ~ (Match!Excluded(title, year) \/ Match!Matches(title, year) = {})
  <2>1. PICK y \in Year : /\ y = Match!Nearest(title, year)
                          /\ left[<<NormOf[title], y>>] > 0 /\ Match!Distance(y, year) <= tolerance
    BY <1>2, <1>12, NearestIsAMatch DEF Match!Matches
  <2>2. PICK key : key = <<NormOf[title], y>>
    OBVIOUS
  <2>3. /\ left' = [left EXCEPT ![key] = @ - 1] /\ hits' = hits \cup {n}
        /\ key \in Match!TitleYear /\ left[key] \in Nat /\ left[key] > 0
    BY <1>1, <1>2, <1>4, <1>10, <1>12, <2>1, <2>2 DEF Match!UsedUp
  <2>4. left' \in [Match!TitleYear -> Nat]
        /\ \A k \in Match!TitleYear : left'[k] = IF k = key THEN left[k] - 1 ELSE left[k]
    BY <1>2, <2>3
  <2>5. PICK q : q = [i \in hits \cup {n} |-> IF i = n THEN y ELSE m[i]]
    OBVIOUS
  <2>6. /\ q \in [hits' -> Year]
        /\ \A i \in hits' : Match!Distance(q[i], recs'[i][2]) <= tolerance
    <3>1. m \in [hits -> Year] /\ \A i \in hits : Match!Distance(m[i], recs[i][2]) <= tolerance
      BY <1>3 DEF Matching
    <3> QED
      BY <1>4, <1>6, <2>1, <2>3, <2>5, <3>1
  <2>7. /\ TruthOf(q, recs')[n] = key
        /\ \A i \in hits : TruthOf(q, recs')[i] = TruthOf(m, recs)[i]
    <3>1. DOMAIN m = hits /\ DOMAIN q = hits \cup {n}
      BY <1>3, <2>5 DEF Matching
    <3> QED
      BY <1>4, <1>6, <2>2, <2>5, <3>1 DEF TruthOf
  <2>8. ASSUME NEW k \in Match!TitleYear
        PROVE  left'[k] + Cardinality(PartOf(hits', TruthOf(q, recs'), k)) = truths[k]
    <3>1. IsFiniteSet(PartOf(hits, TruthOf(m, recs), k))
          /\ Cardinality(PartOf(hits, TruthOf(m, recs), k)) \in Nat
      <4>1. IsFiniteSet(1 .. Len(recs))
        BY <1>4, FS_Interval, 1 \in Int, Len(recs) \in Int
      <4>2. PartOf(hits, TruthOf(m, recs), k) \subseteq 1 .. Len(recs)
        BY <1>6 DEF PartOf
      <4> QED
        BY <4>1, <4>2, FS_Subset, FS_CardinalityType
    <3>2. left[k] + Cardinality(PartOf(hits, TruthOf(m, recs), k)) = truths[k]
          /\ left[k] \in Nat /\ truths[k] \in Nat
      BY <1>2, <1>3 DEF Matching
    <3>3. CASE k = key
      <4>1. PartOf(hits', TruthOf(q, recs'), k) = PartOf(hits, TruthOf(m, recs), k) \cup {n}
            /\ n \notin PartOf(hits, TruthOf(m, recs), k)
        BY <1>7, <2>3, <2>7, <3>3 DEF PartOf
      <4>2. Cardinality(PartOf(hits, TruthOf(m, recs), k) \cup {n})
              = Cardinality(PartOf(hits, TruthOf(m, recs), k)) + 1
        BY <3>1, <4>1, FS_AddElement
      <4> QED
        BY <2>4, <3>1, <3>2, <3>3, <4>1, <4>2
    <3>4. CASE k # key
      <4>1. PartOf(hits', TruthOf(q, recs'), k) = PartOf(hits, TruthOf(m, recs), k)
        BY <1>7, <2>3, <2>7, <3>4 DEF PartOf
      <4> QED
        BY <2>4, <3>2, <3>4, <4>1
    <3> QED
      BY <3>3, <3>4
  <2>9. Matching(q, hits, recs, left)'
    BY <1>1, <2>6, <2>8 DEF Matching
  <2>10. \A i \in Match!Positions' \ hits' : Exhausted(i, recs, left)'
    <3>1. \A k \in Match!TitleYear : left[k] = 0 => left'[k] = 0
      BY <2>3, <2>4
    <3>2. \A i \in Match!Positions' \ hits' : i \in Match!Positions \ hits
      BY <1>5, <2>3
    <3> QED
      BY <1>9, <3>1, <3>2
  <2>11. hits' \subseteq Match!Positions'
    BY <1>2, <1>5, <1>12, <2>3
  <2> QED
    BY <1>1, <1>2, <1>4, <2>4, <2>9, <2>10, <2>11 DEF MatchInv
<1> QED
  BY <1>11, <1>12

LEMMA MatchInvariant == Spec => [](part = "match" => MatchInv)
<1> DEFINE I == part = "match" => MatchInv
<1>1. Init => I
  BY MatchStarts DEF Init
<1>2. I /\ [Next]_vars => I'
  <2> SUFFICES ASSUME I, [Next]_vars, part' = "match" PROVE MatchInv'
    OBVIOUS
  <2>1. CASE Next
    <3>1. part' = part
      BY <2>1 DEF Next, WavesStep, ServerStep, ShardsStep, DispatchStep, CreditStep, MatchStep
    <3>2. Match!Step
      BY <2>1, <3>1
      DEF Next, WavesStep, ServerStep, ShardsStep, DispatchStep, CreditStep, MatchStep
    <3> QED
      BY <3>1, <3>2, MatchSteps DEF Match!Step
  <2>2. CASE UNCHANGED vars
    <3>1. MatchInv /\ UNCHANGED <<seen, catalog, tolerance, truths, recs, left, hits>>
      BY <2>2 DEF vars, matchVars
    <3>2. Match!Positions' = Match!Positions
      BY <3>1 DEF Match!Positions, Match!Excluded
    <3> QED
      BY <3>1, <3>2 DEF MatchInv, Matching, Exhausted
  <2> QED
    BY <2>1, <2>2
<1> QED
  BY <1>1, <1>2, PTL DEF Spec

\* A missed position that could be matched found its ground truths used up, by as
\* many hits as there are of them.
LEMMA MissedForHits ==
  ASSUME MatchInv, NEW m, Matching(m, hits, recs, left),
         NEW P \in SUBSET Match!Positions, NEW w \in [P -> Year],
         \A i \in P : Match!Fits(i, w[i]),
         \A i \in P : Cardinality(PartOf(P, TruthOf(w, recs), <<NormOf[recs[i][1]], w[i]>>))
                        <= truths[<<NormOf[recs[i][1]], w[i]>>],
         NEW k, NEW i \in P \ hits, TruthOf(w, recs)[i] = k
  PROVE  Cardinality(PartOf(P, TruthOf(w, recs), k)) <= Cardinality(PartOf(hits, TruthOf(m, recs), k))
<1>1. recs[i] \in Title \X Year /\ i \in Match!Positions
  BY DEF MatchInv, Match!Positions
<1>2. k = <<NormOf[recs[i][1]], w[i]>> /\ k \in Match!TitleYear
  BY <1>1 DEF TruthOf, Match!TitleYear
<1>3. left[k] = 0
  <2>1. Match!Distance(w[i], recs[i][2]) <= tolerance /\ w[i] \in Year
    BY DEF Match!Fits
  <2> QED
    BY <1>1, <1>2, <2>1 DEF MatchInv, Exhausted
<1>4. left[k] + Cardinality(PartOf(hits, TruthOf(m, recs), k)) = truths[k]
  BY <1>2 DEF Matching
<1>5. Cardinality(PartOf(hits, TruthOf(m, recs), k)) \in Nat
  <2>1. IsFiniteSet(1 .. Len(recs))
    BY FS_Interval, 1 \in Int, Len(recs) \in Int DEF MatchInv
  <2>2. PartOf(hits, TruthOf(m, recs), k) \subseteq 1 .. Len(recs)
    BY DEF PartOf, MatchInv, Match!Positions
  <2> QED
    BY <2>1, <2>2, FS_Subset, FS_CardinalityType
<1>6. Cardinality(PartOf(hits, TruthOf(m, recs), k)) = truths[k]
  BY <1>3, <1>4, <1>5
<1>7. Cardinality(PartOf(P, TruthOf(w, recs), k)) <= truths[k]
  BY <1>2
<1> QED
  BY <1>6, <1>7

\* A set of hits can be matched one to one with ground truths of their title within
\* the tolerance, and no matching is more than twice as large, nor larger at all if
\* only the exact year counts (rankgrpo_reward.py:94-171).
THEOREM HitsAreAlwaysAMatching == Spec => []HitsAreAMatching
<1>1. (part = "match" => MatchInv) => HitsAreAMatching
  <2> SUFFICES ASSUME MatchInv PROVE Match!HitsAreAMatching
    BY DEF HitsAreAMatching
  <2>1. PICK m : Matching(m, hits, recs, left)
    BY DEF MatchInv
  <2>2. /\ Match!Positions \subseteq 1 .. Len(recs) /\ hits \subseteq Match!Positions
        /\ \A i \in Match!Positions : recs[i] \in Title \X Year
        /\ truths \in [Match!TitleYear -> Nat] /\ left \in [Match!TitleYear -> Nat]
        /\ Len(recs) \in Nat
    BY DEF MatchInv, Match!Positions
  <2>3. ASSUME NEW S \in SUBSET Match!Positions PROVE IsFiniteSet(S) /\ Cardinality(S) \in Nat
    <3>1. IsFiniteSet(1 .. Len(recs))
      BY <2>2, FS_Interval, 1 \in Int, Len(recs) \in Int
    <3> QED
      BY <2>2, <3>1, FS_Subset, FS_CardinalityType
  \* The sets Matchable counts are the parts of a matching.
  <2>4. ASSUME NEW P \in SUBSET Match!Positions, NEW w \in [P -> Year], NEW i \in P
        PROVE  {j \in P : w[j] = w[i] /\ NormOf[recs[j][1]] = NormOf[recs[i][1]]}
                 = PartOf(P, TruthOf(w, recs), <<NormOf[recs[i][1]], w[i]>>)
    BY DEF PartOf, TruthOf
  <2>5. Match!Matchable(hits)
    <3>1. m \in [hits -> Year] /\ \A i \in hits : Match!Fits(i, m[i])
      BY <2>1 DEF Matching, Match!Fits
    <3>2. ASSUME NEW i \in hits
          PROVE  Cardinality(PartOf(hits, TruthOf(m, recs), <<NormOf[recs[i][1]], m[i]>>))
                   <= truths[<<NormOf[recs[i][1]], m[i]>>]
      <4>1. PICK k \in Match!TitleYear : k = <<NormOf[recs[i][1]], m[i]>>
        BY <2>2, <3>1 DEF Match!TitleYear
      <4>2. left[k] + Cardinality(PartOf(hits, TruthOf(m, recs), k)) = truths[k]
        BY <2>1 DEF Matching
      <4>3. PartOf(hits, TruthOf(m, recs), k) \in SUBSET Match!Positions
        BY <2>2 DEF PartOf
      <4>4. Cardinality(PartOf(hits, TruthOf(m, recs), k)) \in Nat /\ left[k] \in Nat /\ truths[k] \in Nat
        BY <2>2, <2>3, <4>3
      <4> QED
        BY <4>1, <4>2, <4>4
    <3>3. ASSUME NEW i \in hits
          PROVE  Match!Cardinality({j \in hits : m[j] = m[i] /\ NormOf[recs[j][1]] = NormOf[recs[i][1]]})
                   <= truths[<<NormOf[recs[i][1]], m[i]>>]
      <4>1. {j \in hits : m[j] = m[i] /\ NormOf[recs[j][1]] = NormOf[recs[i][1]]}
              = PartOf(hits, TruthOf(m, recs), <<NormOf[recs[i][1]], m[i]>>)
        BY <2>2, <2>4, <3>1
      <4> QED
        BY <3>2, <4>1, SameSize
    <3> QED
      BY <3>1, <3>3 DEF Match!Matchable
  <2>6. ASSUME NEW P \in SUBSET Match!Positions, Match!Matchable(P)
        PROVE  /\ Cardinality(P) <= 2 * Cardinality(hits)
               /\ tolerance = 0 => Cardinality(P) <= Cardinality(hits)
    <3>1. PICK w \in [P -> Year] :
            /\ \A i \in P : Match!Fits(i, w[i])
            /\ \A i \in P : Cardinality(PartOf(P, TruthOf(w, recs), <<NormOf[recs[i][1]], w[i]>>))
                              <= truths[<<NormOf[recs[i][1]], w[i]>>]
      BY <2>4, <2>6, SameSize DEF Match!Matchable
    <3>2. /\ IsFiniteSet(P) /\ IsFiniteSet(hits) /\ IsFiniteSet(P \ hits) /\ IsFiniteSet(P \cap hits)
          /\ Cardinality(P) \in Nat /\ Cardinality(hits) \in Nat
          /\ Cardinality(P \ hits) \in Nat /\ Cardinality(P \cap hits) \in Nat
      BY <2>2, <2>3
    <3>3. ASSUME NEW k
          PROVE  /\ PartOf(P, TruthOf(w, recs), k) \in SUBSET Match!Positions
                 /\ PartOf(P \ hits, TruthOf(w, recs), k) \subseteq PartOf(P, TruthOf(w, recs), k)
                 /\ PartOf(hits, TruthOf(m, recs), k) \in SUBSET Match!Positions
      BY <2>2 DEF PartOf
    <3>4. ASSUME NEW k, NEW i \in P \ hits, TruthOf(w, recs)[i] = k
          PROVE  Cardinality(PartOf(P, TruthOf(w, recs), k))
                   <= Cardinality(PartOf(hits, TruthOf(m, recs), k))
      BY <2>1, <3>1, <3>4, MissedForHits
    <3>5. ASSUME NEW k
          PROVE  Cardinality(PartOf(P \ hits, TruthOf(w, recs), k))
                   <= Cardinality(PartOf(hits, TruthOf(m, recs), k))
      <4>1. /\ Cardinality(PartOf(hits, TruthOf(m, recs), k)) \in Nat
            /\ Cardinality(PartOf(P, TruthOf(w, recs), k)) \in Nat
            /\ IsFiniteSet(PartOf(P, TruthOf(w, recs), k))
        BY <2>3, <3>3
      <4>2. CASE PartOf(P \ hits, TruthOf(w, recs), k) = {}
        BY <4>1, <4>2, FS_EmptySet
      <4>3. CASE PartOf(P \ hits, TruthOf(w, recs), k) # {}
        <5>1. PICK i \in P \ hits : TruthOf(w, recs)[i] = k
          BY <4>3 DEF PartOf
        <5>2. Cardinality(PartOf(P \ hits, TruthOf(w, recs), k)) <= Cardinality(PartOf(P, TruthOf(w, recs), k))
              /\ Cardinality(PartOf(P \ hits, TruthOf(w, recs), k)) \in Nat
          BY <3>3, <4>1, FS_Subset, FS_CardinalityType
        <5>3. Cardinality(PartOf(P, TruthOf(w, recs), k)) <= Cardinality(PartOf(hits, TruthOf(m, recs), k))
          BY <3>4, <5>1
        <5> QED
          BY <4>1, <5>2, <5>3
      <4> QED
        BY <4>2, <4>3
    <3>6. Cardinality(P \ hits) <= Cardinality(hits)
      BY <3>2, <3>5, PartByPart
    <3>7. Cardinality(P) <= 2 * Cardinality(hits)
      <4>1. Cardinality(P \ hits) = Cardinality(P) - Cardinality(P \cap hits)
        BY <3>2, FS_Difference
      <4>2. Cardinality(P) = Cardinality(P \ hits) + Cardinality(P \cap hits)
        BY <3>2, <4>1
      <4>3. Cardinality(P \cap hits) <= Cardinality(hits)
        BY <3>2, FS_Subset
      <4> QED
        BY <3>2, <3>6, <4>2, <4>3
    <3>8. ASSUME tolerance = 0 PROVE Cardinality(P) <= Cardinality(hits)
      <4>1. ASSUME NEW i \in Match!Positions, NEW y \in Year, Match!Distance(y, recs[i][2]) <= tolerance
            PROVE  y = recs[i][2]
        <5>1. y \in Nat /\ recs[i][2] \in Nat
          BY <2>2, YearsAreNumbers
        <5> QED
          BY <3>8, <4>1, <5>1 DEF Match!Distance
      <4>2. ASSUME NEW k
            PROVE  Cardinality(PartOf(P, TruthOf(w, recs), k))
                     <= Cardinality(PartOf(hits, TruthOf(m, recs), k))
        <5>1. CASE \E i \in P \ hits : TruthOf(w, recs)[i] = k
          BY <3>4, <5>1
        <5>2. CASE ~ \E i \in P \ hits : TruthOf(w, recs)[i] = k
          <6>1. ASSUME NEW i \in PartOf(P, TruthOf(w, recs), k)
                PROVE  i \in PartOf(hits, TruthOf(m, recs), k)
            <7>1. i \in P /\ i \in hits /\ TruthOf(w, recs)[i] = k /\ i \in Match!Positions
              BY <5>2 DEF PartOf
            <7>2. w[i] = recs[i][2]
              BY <3>1, <4>1, <7>1 DEF Match!Fits
            <7>3. m \in [hits -> Year] /\ m[i] = recs[i][2]
              BY <2>1, <4>1, <7>1 DEF Matching
            <7> QED
              BY <7>1, <7>2, <7>3 DEF PartOf, TruthOf
          <6>2. IsFiniteSet(PartOf(hits, TruthOf(m, recs), k))
            BY <2>3, <3>3
          <6> QED
            BY <6>1, <6>2, FS_Subset
        <5> QED
          BY <5>1, <5>2
      <4> QED
        BY <3>2, <4>2, PartByPart
    <3> QED
      BY <3>7, <3>8
  <2> QED
    BY <2>2, <2>5, <2>6, SameSize DEF Match!HitsAreAMatching
<1> QED
  BY <1>1, MatchInvariant, PTL

-----------------------------------------------------------------------------
(* The cache of the constrained-beam server.                               *)

Entries(s) == Server!Range(s)

\* No two entries are of one group.
OneEach(s) == \A i, j \in DOMAIN s : GroupOf[s[i]] = GroupOf[s[j]] => i = j

LEMMA EntryWithout ==
  ASSUME NEW s \in Seq(Call), OneEach(s), NEW e
  PROVE  /\ Server!Without(s, e) \in Seq(Call) /\ OneEach(Server!Without(s, e))
         /\ Entries(Server!Without(s, e)) = Entries(s) \ {e}
<1>1. CASE \E i \in DOMAIN s : s[i] = e
  <2> DEFINE k == CHOOSE i \in DOMAIN s : s[i] = e
             front == SubSeq(s, 1, k - 1)
             back == SubSeq(s, k + 1, Len(s))
             r == front \o back
  <2>1. k \in 1 .. Len(s) /\ s[k] = e
    BY <1>1
  <2>2. Server!Without(s, e) = r
    BY <1>1 DEF Server!Without, Server!RemoveAt
  <2> HIDE DEF k
  <2>3. /\ front \in Seq(Call) /\ Len(front) = k - 1
        /\ \A i \in 1 .. k - 1 : front[i] = s[i]
    BY <2>1
  <2>4. /\ back \in Seq(Call) /\ Len(back) = Len(s) - k
        /\ \A i \in 1 .. Len(s) - k : back[i] = s[k + i]
    BY <2>1
  <2> HIDE DEF front, back
  <2>5. /\ r \in Seq(Call) /\ Len(r) = Len(s) - 1
        /\ \A i \in 1 .. Len(r) : r[i] = IF i < k THEN s[i] ELSE s[i + 1]
    <3>1. r \in Seq(Call) /\ Len(r) = Len(front) + Len(back)
          /\ \A i \in 1 .. Len(r) : r[i] = IF i <= Len(front) THEN front[i] ELSE back[i - Len(front)]
      BY <2>3, <2>4
    <3> QED
      BY <2>1, <2>3, <2>4, <3>1
  <2> HIDE DEF r
  <2>6. DOMAIN r = 1 .. Len(r) /\ DOMAIN s = 1 .. Len(s) /\ Len(s) \in Nat /\ Len(r) \in Nat
    BY <2>5
  <2>7. \A i, j \in DOMAIN s : s[i] = s[j] => i = j
    BY DEF OneEach
  <2>8. OneEach(r)
    <3> SUFFICES ASSUME NEW i \in DOMAIN r, NEW j \in DOMAIN r, GroupOf[r[i]] = GroupOf[r[j]]
                 PROVE  i = j
      BY DEF OneEach
    <3> DEFINE at(n) == IF n < k THEN n ELSE n + 1
    <3>1. at(i) \in DOMAIN s /\ at(j) \in DOMAIN s /\ r[i] = s[at(i)] /\ r[j] = s[at(j)]
      BY <2>1, <2>5, <2>6
    <3>2. at(i) = at(j)
      <4> HIDE DEF at
      <4> QED
        BY <3>1 DEF OneEach
    <3> QED
      BY <2>1, <2>6, <3>2
  <2>9. ASSUME NEW x \in Entries(r) PROVE x \in Entries(s) \ {e}
    <3>1. PICK i \in DOMAIN r : x = r[i]
      BY DEF Entries, Server!Range
    <3>2. PICK j \in DOMAIN s : x = s[j] /\ j # k
      BY <2>1, <2>5, <2>6, <3>1
    <3> QED
      BY <2>1, <2>6, <2>7, <3>2 DEF Entries, Server!Range
  <2>10. ASSUME NEW x \in Entries(s) \ {e} PROVE x \in Entries(r)
    <3>1. PICK j \in DOMAIN s : x = s[j] /\ j # k
      BY <2>1 DEF Entries, Server!Range
    <3>2. PICK i \in DOMAIN r : x = r[i]
      <4>1. CASE j < k
        BY <2>1, <2>5, <2>6, <3>1, <4>1
      <4>2. CASE j > k
        <5>1. j - 1 \in DOMAIN r /\ ~ (j - 1 < k)
          BY <2>1, <2>5, <2>6, <4>2
        <5>2. r[j - 1] = s[(j - 1) + 1]
          BY <2>5, <2>6, <5>1
        <5> QED
          BY <2>6, <3>1, <5>1, <5>2
      <4> QED
        BY <2>1, <2>6, <3>1, <4>1, <4>2
    <3> QED
      BY <3>2 DEF Entries, Server!Range
  <2> QED
    BY <2>2, <2>5, <2>8, <2>9, <2>10
<1>2. CASE ~ \E i \in DOMAIN s : s[i] = e
  <2>1. Server!Without(s, e) = s
    BY <1>2 DEF Server!Without
  <2>2. e \notin Entries(s)
    BY <1>2 DEF Entries, Server!Range
  <2> QED
    BY <2>1, <2>2
<1> QED
  BY <1>1, <1>2

LEMMA EntryAppended ==
  ASSUME NEW s \in Seq(Call), OneEach(s), NEW e \in Call,
         \A x \in Entries(s) : GroupOf[x] # GroupOf[e]
  PROVE  /\ Append(s, e) \in Seq(Call) /\ OneEach(Append(s, e))
         /\ Entries(Append(s, e)) = Entries(s) \cup {e}
<1>1. PICK r : r = Append(s, e)
  OBVIOUS
<1>2. /\ r \in Seq(Call) /\ Len(r) = Len(s) + 1 /\ Len(s) \in Nat
      /\ \A i \in 1 .. Len(s) : r[i] = s[i]
      /\ r[Len(s) + 1] = e
      /\ DOMAIN r = 1 .. Len(s) + 1 /\ DOMAIN s = 1 .. Len(s)
  BY <1>1
<1>3. \A i \in DOMAIN s : s[i] \in Entries(s)
  BY DEF Entries, Server!Range
<1>4. OneEach(r)
  <2> SUFFICES ASSUME NEW i \in DOMAIN r, NEW j \in DOMAIN r, GroupOf[r[i]] = GroupOf[r[j]]
               PROVE  i = j
    BY DEF OneEach
  <2>1. CASE i \in DOMAIN s /\ j \in DOMAIN s
    BY <1>2, <2>1 DEF OneEach
  <2>2. CASE i = Len(s) + 1 /\ j \in DOMAIN s
    BY <1>2, <1>3, <2>2
  <2>3. CASE i \in DOMAIN s /\ j = Len(s) + 1
    BY <1>2, <1>3, <2>3
  <2> QED
    BY <1>2, <2>1, <2>2, <2>3
<1>5. Entries(r) = Entries(s) \cup {e}
  <2>1. ASSUME NEW x \in Entries(r) PROVE x \in Entries(s) \cup {e}
    BY <1>2, <2>1 DEF Entries, Server!Range
  <2>2. ASSUME NEW x \in Entries(s) PROVE x \in Entries(r)
    BY <1>2, <2>2 DEF Entries, Server!Range
  <2>3. e \in Entries(r)
    <3>1. Len(s) + 1 \in DOMAIN r /\ r[Len(s) + 1] = e
      BY <1>2
    <3> QED
      BY <3>1 DEF Entries, Server!Range
  <2> QED
    BY <2>1, <2>2, <2>3
<1> QED
  BY <1>1, <1>2, <1>4, <1>5

LEMMA EntryDropped ==
  ASSUME NEW s \in Seq(Call), OneEach(s), s # <<>>
  PROVE  /\ Tail(s) \in Seq(Call) /\ OneEach(Tail(s)) /\ Head(s) \in Call
         /\ Entries(Tail(s)) \subseteq Entries(s)
         /\ Entries(s) \subseteq Entries(Tail(s)) \cup {Head(s)}
<1>1. PICK r : r = Tail(s)
  OBVIOUS
<1>2. /\ r \in Seq(Call) /\ Len(s) \in Nat \ {0} /\ Len(r) = Len(s) - 1
      /\ \A i \in 1 .. Len(s) - 1 : r[i] = s[i + 1]
      /\ DOMAIN r = 1 .. Len(s) - 1 /\ DOMAIN s = 1 .. Len(s)
      /\ Head(s) = s[1] /\ s[1] \in Call
  BY <1>1
<1>3. OneEach(r)
  <2> SUFFICES ASSUME NEW i \in DOMAIN r, NEW j \in DOMAIN r, GroupOf[r[i]] = GroupOf[r[j]]
               PROVE  i = j
    BY DEF OneEach
  <2>1. i + 1 \in DOMAIN s /\ j + 1 \in DOMAIN s /\ r[i] = s[i + 1] /\ r[j] = s[j + 1]
    BY <1>2
  <2>2. i + 1 = j + 1
    BY <2>1 DEF OneEach
  <2> QED
    BY <1>2, <2>2
<1>4. Entries(r) \subseteq Entries(s)
  BY <1>2 DEF Entries, Server!Range
<1>5. ASSUME NEW x \in Entries(s), x # Head(s) PROVE x \in Entries(r)
  <2>1. PICK i \in DOMAIN s : x = s[i]
    BY DEF Entries, Server!Range
  <2>2. i - 1 \in DOMAIN r /\ r[i - 1] = s[(i - 1) + 1]
    BY <1>2, <1>5, <2>1
  <2> QED
    BY <1>2, <2>1, <2>2 DEF Entries, Server!Range
<1> QED
  BY <1>1, <1>2, <1>3, <1>4, <1>5

-----------------------------------------------------------------------------
(* Serving a call.                                                         *)

\* What Serve works on.
States ==
  [cache : Seq(Call), remaining : [Call -> Int], evicted : SUBSET Call,
   source : [Call -> Call \cup {None}]]

\* t is st after call c was served from e.
Served(c, e, st, t) ==
  /\ t.source = [st.source EXCEPT ![c] = e]
  /\ st.evicted \subseteq t.evicted
  /\ Entries(t.cache) \subseteq Entries(st.cache) \cup {e}
  /\ Entries(st.cache) \ {e} \subseteq Entries(t.cache) \cup t.evicted
  /\ \/ st.remaining[e] <= 1 /\ t.remaining = st.remaining
     \/ e \in Entries(t.cache) /\ t.remaining = [st.remaining EXCEPT ![e] = @ - 1]

LEMMA ServedFrom ==
  ASSUME NEW st \in States, OneEach(st.cache), NEW c \in Call, NEW b,
         \/ b \in Call /\ GroupOf[b] = GroupOf[c]
         \/ \E e \in Entries(st.cache) : GroupOf[e] = GroupOf[c]
  PROVE  /\ Server!Serve(c, b, st) \in States
         /\ OneEach(Server!Serve(c, b, st).cache)
         /\ \E e \in Call :
              /\ GroupOf[e] = GroupOf[c]
              /\ \/ e \in Entries(st.cache)
                 \/ e = b /\ \A x \in Entries(st.cache) : GroupOf[x] # GroupOf[c]
              /\ Served(c, e, st, Server!Serve(c, b, st))
<1> DEFINE there == Server!Cached(st.cache, GroupOf[c])
           e == IF there # {} THEN CHOOSE d \in there : TRUE ELSE b
           in == Server!Insert(st, c, b)
           mid == [in EXCEPT !.source[c] = e]
           t == Server!Spend(mid, e)
<1>1. Server!Serve(c, b, st) = t
  BY DEF Server!Serve
<1>2. /\ st.cache \in Seq(Call) /\ st.remaining \in [Call -> Int] /\ st.evicted \subseteq Call
      /\ st.source \in [Call -> Call \cup {None}]
      /\ Entries(st.cache) \subseteq Call
  BY DEF States, Entries, Server!Range
<1>3. /\ e \in Call /\ GroupOf[e] = GroupOf[c]
      /\ e \in Entries(st.cache) \/ (e = b /\ there = {})
      /\ there = {} => \A x \in Entries(st.cache) : GroupOf[x] # GroupOf[c]
  <2>1. there = {x \in Entries(st.cache) : GroupOf[x] = GroupOf[c]}
    BY DEF Server!Cached, Entries
  <2>2. CASE there # {}
    <3>1. e \in there
      BY <2>2
    <3> QED
      BY <1>2, <2>1, <3>1
  <2>3. CASE there = {}
    BY <2>1, <2>3
  <2> QED
    BY <2>2, <2>3
<1> HIDE DEF e
\* The entry is in the cache, or was put there.
<1>4. /\ in \in States /\ OneEach(in.cache)
      /\ in.source = st.source /\ in.remaining = st.remaining /\ st.evicted \subseteq in.evicted
      /\ Entries(in.cache) \subseteq Entries(st.cache) \cup {e}
      /\ Entries(st.cache) \subseteq Entries(in.cache) \cup in.evicted
      /\ e \in Entries(in.cache)
  <2>1. CASE there # {}
    <3>1. in = st
      BY <2>1 DEF Server!Insert
    <3> QED
      BY <1>2, <1>3, <2>1, <3>1
  <2>2. CASE there = {} /\ Len(st.cache) < MaxCacheSize
    <3>1. in = [st EXCEPT !.cache = Append(@, b)]
      BY <2>2 DEF Server!Insert
    <3>2. \A x \in Entries(st.cache) : GroupOf[x] # GroupOf[e]
      BY <1>3, <2>2 DEF Server!Cached, Entries
    <3>3. e = b
      BY <2>2 DEF e
    <3>4. /\ Append(st.cache, e) \in Seq(Call) /\ OneEach(Append(st.cache, e))
          /\ Entries(Append(st.cache, e)) = Entries(st.cache) \cup {e}
      BY <1>2, <1>3, <3>2, EntryAppended
    <3>5. /\ in.cache = Append(st.cache, e) /\ in.source = st.source
          /\ in.remaining = st.remaining /\ in.evicted = st.evicted
      BY <3>1, <3>3 DEF States
    <3>6. in \in States
      BY <3>1, <3>3, <3>4 DEF States
    <3> HIDE DEF in
    <3> QED
      BY <3>4, <3>5, <3>6
  <2>3. CASE there = {} /\ ~ (Len(st.cache) < MaxCacheSize)
    <3>1. in = [st EXCEPT !.cache = Append(Tail(@), b), !.evicted = @ \cup {Head(st.cache)}]
      BY <2>3 DEF Server!Insert
    <3>2. \A x \in Entries(st.cache) : GroupOf[x] # GroupOf[e]
      BY <1>3, <2>3 DEF Server!Cached, Entries
    <3>3. e = b
      BY <2>3 DEF e
    <3>4. st.cache # <<>>
      <4>1. MaxCacheSize \in Nat \ {0} /\ Len(st.cache) \in Nat
        BY <1>2, LoopsAssumption DEF Server!ServerAssumption
      <4>2. Len(st.cache) # 0
        BY <2>3, <4>1
      <4> QED
        BY <4>2
    <3>5. /\ Tail(st.cache) \in Seq(Call) /\ OneEach(Tail(st.cache)) /\ Head(st.cache) \in Call
          /\ Entries(Tail(st.cache)) \subseteq Entries(st.cache)
          /\ Entries(st.cache) \subseteq Entries(Tail(st.cache)) \cup {Head(st.cache)}
      BY <1>2, <3>4, EntryDropped
    <3>6. /\ Append(Tail(st.cache), e) \in Seq(Call) /\ OneEach(Append(Tail(st.cache), e))
          /\ Entries(Append(Tail(st.cache), e)) = Entries(Tail(st.cache)) \cup {e}
      BY <1>3, <3>2, <3>5, EntryAppended
    <3>7. /\ in.cache = Append(Tail(st.cache), e) /\ in.source = st.source
          /\ in.remaining = st.remaining /\ in.evicted = st.evicted \cup {Head(st.cache)}
      BY <3>1, <3>3 DEF States
    <3>8. in \in States
      BY <3>1, <3>3, <3>5, <3>6 DEF States
    <3> HIDE DEF in
    <3> QED
      BY <3>5, <3>6, <3>7, <3>8
  <2> HIDE DEF in, there
  <2> QED
    BY <2>1, <2>2, <2>3
<1> HIDE DEF in, there
<1>5. /\ mid \in States /\ mid.cache = in.cache /\ mid.evicted = in.evicted
      /\ mid.remaining = st.remaining /\ mid.source = [st.source EXCEPT ![c] = e]
  BY <1>3, <1>4 DEF States
<1> HIDE DEF mid
<1>6. /\ Server!Without(mid.cache, e) \in Seq(Call) /\ OneEach(Server!Without(mid.cache, e))
      /\ Entries(Server!Without(mid.cache, e)) = Entries(in.cache) \ {e}
  BY <1>4, <1>5, EntryWithout DEF States
<1>7. CASE mid.remaining[e] <= 1
  <2>1. t = [mid EXCEPT !.cache = Server!Without(@, e)]
    BY <1>7 DEF Server!Spend
  <2>2. /\ t.cache = Server!Without(mid.cache, e) /\ t.source = mid.source
        /\ t.evicted = mid.evicted /\ t.remaining = mid.remaining
        /\ t \in States
    BY <1>5, <1>6, <2>1 DEF States
  <2> HIDE DEF t
  <2>3. Served(c, e, st, t)
    BY <1>4, <1>5, <1>6, <1>7, <2>2 DEF Served
  <2> QED
    BY <1>1, <1>3, <1>6, <2>2, <2>3
<1>8. CASE ~ (mid.remaining[e] <= 1)
  <2>1. t = [mid EXCEPT !.cache = Append(Server!Without(@, e), e), !.remaining[e] = @ - 1]
    BY <1>8 DEF Server!Spend
  <2>2. \A x \in Entries(Server!Without(mid.cache, e)) : GroupOf[x] # GroupOf[e]
    <3> SUFFICES ASSUME NEW x \in Entries(in.cache), x # e PROVE GroupOf[x] # GroupOf[e]
      BY <1>6
    <3>1. PICK i, j \in DOMAIN in.cache : x = in.cache[i] /\ e = in.cache[j]
      BY <1>4 DEF Entries, Server!Range
    <3> QED
      BY <1>4, <3>1 DEF OneEach
  <2>3. /\ Append(Server!Without(mid.cache, e), e) \in Seq(Call)
        /\ OneEach(Append(Server!Without(mid.cache, e), e))
        /\ Entries(Append(Server!Without(mid.cache, e), e)) = Entries(in.cache) \cup {e}
    BY <1>3, <1>6, <2>2, EntryAppended
  <2>4. /\ t.cache = Append(Server!Without(mid.cache, e), e) /\ t.source = mid.source
        /\ t.evicted = mid.evicted
        /\ t.remaining = [mid.remaining EXCEPT ![e] = @ - 1]
    BY <1>5, <2>1 DEF States
  <2>5. t \in States
    <3>1. [mid.remaining EXCEPT ![e] = @ - 1] \in [Call -> Int]
      BY <1>3, <1>5 DEF States
    <3> QED
      BY <1>5, <2>1, <2>3, <3>1 DEF States
  <2> HIDE DEF t
  <2>6. Served(c, e, st, t)
    BY <1>4, <1>5, <2>3, <2>4 DEF Served
  <2> QED
    BY <1>1, <1>3, <2>3, <2>4, <2>5, <2>6
<1> QED
  BY <1>7, <1>8

-----------------------------------------------------------------------------
(* Serving the calls of a search.                                          *)

CallsAreFinite == IsFiniteSet(Call) /\ DOMAIN GroupOf = Call /\ None \notin Call

LEMMA CallsFinite == CallsAreFinite
BY LoopsAssumption, Zenon DEF Server!ServerAssumption, CallsAreFinite,
   Server!IsFiniteSet, IsFiniteSet

\* A call that was served before, or is of the calls s that were served since.
Counted(d, s) == Server!Shares(d) \/ d \in s

UsersOf(e, s, st) == {d \in Call : Counted(d, s) /\ st.source[d] = e}

\* After the calls s were served: what is in the cache is whole and fresh, each
\* result has its remaining uses, each call was served from a search of its group,
\* and a search that served some call is still in the cache, unless it was used up,
\* evicted or is of older weights.
FreshEntries(st) ==
  \A e \in Entries(st.cache) : search[e] = "result" /\ oldest[e] = weights
Accounted(s, st) ==
  \A e \in Call : search[e] = "result" => Cardinality(UsersOf(e, s, st)) + st.remaining[e] >= Width
OfOneGroup(s, st) ==
  \A d \in Call :
    Counted(d, s) => /\ st.source[d] \in Call
                     /\ GroupOf[st.source[d]] = GroupOf[d]
                     /\ search[st.source[d]] = "result"
Dropped(e, s, st) ==
  oldest[e] # weights \/ e \in st.evicted \/ Cardinality(UsersOf(e, s, st)) >= Width
StillThere(s, st) ==
  \A e \in Call : UsersOf(e, s, st) # {} => e \in Entries(st.cache) \/ Dropped(e, s, st)

Sound(s, st) ==
  /\ st \in States /\ OneEach(st.cache) /\ FreshEntries(st)
  /\ Accounted(s, st) /\ OfOneGroup(s, st)

Fits(s, st) ==
  /\ Sound(s, st) /\ StillThere(s, st)
  /\ \A d \in Call \ s : st.source[d] = source[d]

LEMMA ServeFits ==
  ASSUME NEW s \in SUBSET Call, NEW st, Fits(s, st), NEW c \in Call \ s, ~ Server!Shares(c), NEW b,
         \/ b \in Call /\ GroupOf[b] = GroupOf[c] /\ search[b] = "result" /\ oldest[b] = weights
         \/ \E e \in Entries(st.cache) : GroupOf[e] = GroupOf[c],
         Width \in Nat
  PROVE  Fits(s \cup {c}, Server!Serve(c, b, st))
<1>1. PICK t : t = Server!Serve(c, b, st)
  OBVIOUS
<1>2. PICK r \in SUBSET Call : r = s \cup {c}
  OBVIOUS
<1>3. /\ st \in States /\ OneEach(st.cache) /\ FreshEntries(st)
      /\ Accounted(s, st) /\ OfOneGroup(s, st) /\ StillThere(s, st)
      /\ \A d \in Call \ s : st.source[d] = source[d]
  BY DEF Fits, Sound
<1>4. PICK e \in Call : /\ GroupOf[e] = GroupOf[c]
                        /\ \/ e \in Entries(st.cache)
                           \/ e = b /\ \A x \in Entries(st.cache) : GroupOf[x] # GroupOf[c]
                        /\ Served(c, e, st, t)
  BY <1>1, <1>3, ServedFrom
<1>5. t \in States /\ OneEach(t.cache)
  BY <1>1, <1>3, ServedFrom
<1>6. search[e] = "result" /\ oldest[e] = weights
  <2>1. CASE e \in Entries(st.cache)
    BY <1>3, <2>1 DEF FreshEntries
  <2>2. CASE e \notin Entries(st.cache)
    BY <1>4, <2>2
  <2> QED
    BY <2>1, <2>2
<1>7. ASSUME NEW d \in Call, d # c PROVE t.source[d] = st.source[d] /\ (Counted(d, r) <=> Counted(d, s))
  BY <1>2, <1>3, <1>4, <1>7 DEF Served, States, Counted
<1>8. t.source[c] = e /\ Counted(c, r) /\ ~ Counted(c, s)
  BY <1>2, <1>3, <1>4 DEF Served, States, Counted
<1>9. FreshEntries(t)
  BY <1>3, <1>4, <1>6 DEF FreshEntries, Served
<1>10. /\ UsersOf(e, r, t) = UsersOf(e, s, st) \cup {c} /\ c \notin UsersOf(e, s, st)
       /\ \A x \in Call : x # e => UsersOf(x, r, t) = UsersOf(x, s, st)
  BY <1>7, <1>8 DEF UsersOf
<1>11. \A x : IsFiniteSet(UsersOf(x, s, st)) /\ Cardinality(UsersOf(x, s, st)) \in Nat
  BY CallsFinite, FS_Subset, FS_CardinalityType DEF CallsAreFinite, UsersOf
<1>12. Cardinality(UsersOf(e, r, t)) = Cardinality(UsersOf(e, s, st)) + 1
  BY <1>10, <1>11, FS_AddElement
<1>13. Accounted(r, t)
  <2> SUFFICES ASSUME NEW x \in Call, search[x] = "result"
               PROVE  Cardinality(UsersOf(x, r, t)) + t.remaining[x] >= Width
    BY DEF Accounted
  <2>1. Cardinality(UsersOf(x, s, st)) + st.remaining[x] >= Width
    BY <1>3 DEF Accounted
  <2>2. st.remaining[x] \in Int /\ st.remaining \in [Call -> Int]
    BY <1>3 DEF States
  <2>3. CASE x # e
    BY <1>4, <1>10, <2>1, <2>2, <2>3 DEF Served
  <2>4. CASE x = e
    <3>1. t.remaining[e] = st.remaining[e] \/ t.remaining[e] = st.remaining[e] - 1
      BY <1>4, <2>2 DEF Served
    <3> QED
      BY <1>11, <1>12, <2>1, <2>2, <2>4, <3>1
  <2> QED
    BY <2>3, <2>4
<1>14. OfOneGroup(r, t)
  BY <1>3, <1>4, <1>6, <1>7, <1>8 DEF OfOneGroup
<1>15. StillThere(r, t)
  <2>1. e \notin Entries(t.cache) => Dropped(e, r, t)
    <3> SUFFICES ASSUME e \notin Entries(t.cache) PROVE Cardinality(UsersOf(e, r, t)) >= Width
      BY DEF Dropped
    <3>1. st.remaining[e] <= 1 /\ st.remaining[e] \in Int
      BY <1>3, <1>4 DEF Served, States
    <3>2. Cardinality(UsersOf(e, s, st)) + st.remaining[e] >= Width
      BY <1>3, <1>6 DEF Accounted
    <3> QED
      BY <1>11, <1>12, <3>1, <3>2
  <2>2. ASSUME NEW x \in Call, x # e, UsersOf(x, r, t) # {}, x \notin Entries(t.cache)
        PROVE  Dropped(x, r, t)
    <3>1. UsersOf(x, r, t) = UsersOf(x, s, st) /\ st.evicted \subseteq t.evicted
      BY <1>4, <1>10, <2>2 DEF Served
    <3>2. x \in Entries(st.cache) => x \in t.evicted
      BY <1>4, <2>2 DEF Served
    <3>3. x \notin Entries(st.cache) => Dropped(x, s, st)
      BY <1>3, <2>2, <3>1 DEF StillThere
    <3> QED
      BY <3>1, <3>2, <3>3 DEF Dropped
  <2> QED
    BY <2>1, <2>2 DEF StillThere
<1>16. \A d \in Call \ r : t.source[d] = source[d]
  BY <1>2, <1>3, <1>7
<1> QED
  BY <1>1, <1>2, <1>5, <1>9, <1>13, <1>14, <1>15, <1>16 DEF Fits, Sound

\* The fold of Deliver, and the recursion it is defined by.
End(C, b) == Server!FoldSet(LAMBDA c, st : Server!Serve(c, b, st), Server!Store, C)

Folded(g, C, b) ==
  g = [s \in SUBSET C |-> IF s = {} THEN Server!Store
                          ELSE Server!Serve(Taken(s), b, g[s \ {Taken(s)}])]

LEMMA EndIsFolded ==
  ASSUME NEW C, NEW b, NEW h, Folded(h, C, b)
  PROVE  \E g : Folded(g, C, b) /\ End(C, b) = g[C]
<1>1. End(C, b) = (CHOOSE g : Folded(g, C, b))[C]
  BY Zenon DEF End, Server!FoldSet, Server!MapThenFoldSet, Folded, Taken
<1> QED
  BY <1>1

\* One call.
LEMMA EndOfOne ==
  ASSUME NEW c, NEW b
  PROVE  End({c}, b) = Server!Serve(c, b, Server!Store)
<1> DEFINE h == [s \in SUBSET {c} |-> IF s = {} THEN Server!Store
                                      ELSE Server!Serve(c, b, Server!Store)]
<1>1. ASSUME NEW s \in SUBSET {c}, s # {} PROVE Taken(s) = c /\ s \ {Taken(s)} = {}
  BY <1>1 DEF Taken
<1>2. {} \in SUBSET {c} /\ {c} \in SUBSET {c}
  OBVIOUS
<1>3. ASSUME NEW s \in SUBSET {c}
      PROVE  h[s] = IF s = {} THEN Server!Store ELSE Server!Serve(Taken(s), b, h[s \ {Taken(s)}])
  <2>1. h[{}] = Server!Store
    BY <1>2
  <2> QED
    BY <1>1, <2>1
<1>4. h = [s \in SUBSET {c} |-> h[s]]
  OBVIOUS
<1> HIDE DEF h
<1>5. Folded(h, {c}, b)
  BY <1>3, <1>4 DEF Folded
<1>6. PICK g : Folded(g, {c}, b) /\ End({c}, b) = g[{c}]
  BY <1>5, EndIsFolded
<1>7. \A s \in SUBSET {c} :
        g[s] = IF s = {} THEN Server!Store ELSE Server!Serve(Taken(s), b, g[s \ {Taken(s)}])
  BY <1>6 DEF Folded
<1>8. g[{}] = Server!Store
  BY <1>2, <1>7
<1>9. g[{c}] = Server!Serve(Taken({c}), b, g[{c} \ {Taken({c})}])
  BY <1>2, <1>7
<1> QED
  BY <1>1, <1>2, <1>6, <1>8, <1>9

LEMMA EndFits ==
  ASSUME Fits({}, Server!Store), Width \in Nat, NEW C \in SUBSET Call,
         \A c \in C : ~ Server!Shares(c), NEW b \in Call,
         \A c \in C : GroupOf[b] = GroupOf[c], search[b] = "result", oldest[b] = weights
  PROVE  Fits(C, End(C, b))
<1> DEFINE D == {st \in States : OneEach(st.cache)}
           F == [p \in C \X D |-> Server!Serve(p[1], b, p[2])]
           pick == [s \in SUBSET C |-> Taken(s)]
           P == {p \in (SUBSET C) \X D : Fits(p[1], p[2])}
<1>1. IsFiniteSet(C)
  BY CallsFinite, FS_Subset DEF CallsAreFinite
<1>2. Server!Store \in D
  BY DEF Fits, Sound
<1>3. ASSUME NEW c \in C, NEW st \in D PROVE Server!Serve(c, b, st) \in D
  BY <1>3, ServedFrom
<1>4. F \in [C \X D -> D]
  BY <1>3
<1>5. \A c \in C, st \in D : F[<<c, st>>] = Server!Serve(c, b, st)
  OBVIOUS
<1>6. \A s \in SUBSET C : pick[s] = Taken(s)
  OBVIOUS
<1> HIDE DEF F, pick
<1>7. Picks(pick, C)
  BY <1>6 DEF Picks, Taken
<1>8. PICK h : Solves(h, C, D, Server!Store, F, pick)
  <2> HIDE DEF D
  <2> QED
    BY <1>1, <1>2, <1>4, <1>7, SomeSolution
<1>9. ASSUME NEW s \in SUBSET C, s # {}
      PROVE  Taken(s) \in s /\ Taken(s) \in C /\ s \ {Taken(s)} \in SUBSET C
  BY <1>9 DEF Taken
<1>10. Folded(h, C, b)
  <2>1. ASSUME NEW s \in SUBSET C
        PROVE  h[s] = IF s = {} THEN Server!Store ELSE Server!Serve(Taken(s), b, h[s \ {Taken(s)}])
    <3>1. h[s] = IF s = {} THEN Server!Store ELSE F[<<pick[s], h[s \ {pick[s]}]>>]
      BY <1>8 DEF Solves
    <3>2. \A r \in SUBSET C : h[r] \in D
      BY <1>8 DEF Solves
    <3> HIDE DEF D
    <3> QED
      BY <1>5, <1>9, <1>6, <3>1, <3>2
  <2>2. h = [s \in SUBSET C |-> h[s]]
    BY <1>8 DEF Solves
  <2> QED
    BY <2>1, <2>2 DEF Folded
<1>11. PICK g : Folded(g, C, b) /\ End(C, b) = g[C]
  BY <1>10, EndIsFolded
\* The two are one function.
<1>12. g[C] = h[C]
  <2> DEFINE W == {s \in SUBSET C : g[s] # h[s]}
  <2>1. IsWellFoundedOn(StrictSubsetOrdering(C), SUBSET C)
    BY <1>1, FS_StrictSubsetOrderingWellFounded, FS_FiniteSubsetsOfFinite
  <2>2. ASSUME W # {} PROVE FALSE
    <3>1. PICK s \in W : \A r \in W : <<r, s>> \notin StrictSubsetOrdering(C)
      <4>1. W \subseteq SUBSET C
        OBVIOUS
      <4> HIDE DEF W
      <4> QED
        BY <2>1, <2>2, <4>1, WFMin
    <3>2. /\ g[s] = IF s = {} THEN Server!Store ELSE Server!Serve(Taken(s), b, g[s \ {Taken(s)}])
          /\ h[s] = IF s = {} THEN Server!Store ELSE Server!Serve(Taken(s), b, h[s \ {Taken(s)}])
      BY <1>10, <1>11 DEF Folded
    <3>3. s # {} /\ s \in SUBSET C
      BY <3>1, <3>2
    <3>4. <<s \ {Taken(s)}, s>> \in StrictSubsetOrdering(C)
      BY <1>9, <3>3 DEF StrictSubsetOrdering
    <3>5. g[s \ {Taken(s)}] = h[s \ {Taken(s)}]
      BY <1>9, <3>1, <3>3, <3>4
    <3> QED
      BY <3>1, <3>2, <3>5
  <2> QED
    BY <2>2
<1>13. <<{}, Server!Store>> \in P
  BY <1>2
<1>14. ASSUME NEW s \in SUBSET C, NEW st \in D, s # {}, <<s \ {Taken(s)}, st>> \in P
       PROVE  <<s, F[<<Taken(s), st>>]>> \in P
  <2>1. /\ Taken(s) \in Call \ (s \ {Taken(s)}) /\ s \ {Taken(s)} \in SUBSET Call
        /\ (s \ {Taken(s)}) \cup {Taken(s)} = s /\ Taken(s) \in C
    BY <1>9, <1>14
  <2>2. Fits(s \ {Taken(s)}, st)
    BY <1>14
  <2>3. Fits((s \ {Taken(s)}) \cup {Taken(s)}, Server!Serve(Taken(s), b, st))
    BY <2>1, <2>2, ServeFits
  <2>4. F[<<Taken(s), st>>] = Server!Serve(Taken(s), b, st)
    BY <1>5, <2>1
  <2>5. F[<<Taken(s), st>>] \in D
    BY <1>3, <2>1, <2>4
  <2> HIDE DEF D
  <2> QED
    BY <2>1, <2>3, <2>4, <2>5
<1>15. Keeps(P, C, D, F, pick)
  BY <1>14, <1>6 DEF Keeps
<1>16. <<C, h[C]>> \in P
  <2> HIDE DEF D, P
  <2> QED
    BY <1>1, <1>8, <1>13, <1>15, <1>7, SolutionKeeps
<1> QED
  BY <1>11, <1>12, <1>16

-----------------------------------------------------------------------------
(* The constrained-beam server (part "server").                            *)

ServerTypes ==
  /\ kind \in {"shared", "private", "sample"}
  /\ call \in [Call -> {"idle", "waiting", "served", "failed"}]
  /\ search \in [Call -> {"none", "running", "result", "error"}]
  /\ registry \in [Server!Range(GroupOf) -> Call \cup {None}]
  /\ update \in {"idle", "gather", "sync", "resume"}
  /\ weights \in Nat /\ oldest \in [Call -> Nat]
  /\ \A b \in Call : oldest[b] <= weights
  /\ \A c \in Call : call[c] = "idle" => search[c] = "none"

\* A registered search is of its group, and began under the present weights.
Registered ==
  \A g \in DOMAIN registry :
    registry[g] # None => GroupOf[registry[g]] = g /\ oldest[registry[g]] = weights

\* A shared call awaits the registered search of its group.
Awaited ==
  kind = "shared" =>
    \A c \in Call : call[c] = "waiting" => source[c] \in Call /\ registry[GroupOf[c]] = source[c]

\* An abort gathers whatever is registered.
Gathered == update = "gather" => \A g \in DOMAIN registry : registry[g] \in doomed \cup {None}

\* Nothing is cached or registered while the weights change, nor without sharing.
Empty ==
  update \in {"sync", "resume"} \/ kind # "shared" =>
    cache = <<>> /\ \A g \in DOMAIN registry : registry[g] = None

\* What OneSearchPerGroup says.
OneOrDropped ==
  \A a, b \in Call :
    /\ UsersOf(a, {}, Server!Store) # {} /\ UsersOf(b, {}, Server!Store) # {}
    /\ GroupOf[a] = GroupOf[b] /\ a # b
    => Dropped(a, {}, Server!Store) \/ Dropped(b, {}, Server!Store)

ServerInv ==
  /\ ServerTypes /\ Registered /\ Awaited /\ Gathered /\ Empty
  /\ Sound({}, Server!Store)
  /\ update # "sync" => StillThere({}, Server!Store)
  /\ OneOrDropped

LEMMA OneIfStillThere ==
  ASSUME Sound({}, Server!Store), StillThere({}, Server!Store)
  PROVE  OneOrDropped
<1> SUFFICES ASSUME NEW a \in Call, NEW b \in Call, a \in Entries(cache), b \in Entries(cache),
                    GroupOf[a] = GroupOf[b]
             PROVE  a = b
  BY DEF OneOrDropped, StillThere, Server!Store
<1>1. PICK i, j \in DOMAIN cache : cache[i] = a /\ cache[j] = b
  BY DEF Entries, Server!Range
<1> QED
  BY <1>1 DEF Sound, OneEach, Server!Store

\* What was served stays served.
LEMMA Undisturbed ==
  ASSUME Sound({}, Server!Store),
         UNCHANGED <<kind, cache, evicted, weights>>,
         \A d \in Call :
           kind = "shared" => /\ call'[d] = "served" <=> call[d] = "served"
                              /\ call[d] = "served" => source'[d] = source[d],
         source' \in [Call -> Call \cup {None}], remaining' \in [Call -> Int],
         \A e \in Call :
           /\ search[e] = "result" =>
                search'[e] = "result" /\ remaining'[e] = remaining[e] /\ oldest'[e] = oldest[e]
           /\ search[e] # "result" /\ search'[e] = "result" => remaining'[e] >= Width,
         Width \in Nat
  PROVE  /\ Sound({}, Server!Store)'
         /\ StillThere({}, Server!Store) => StillThere({}, Server!Store)'
         /\ OneOrDropped => OneOrDropped'
<1>1. \A d \in Call : /\ Server!Shares(d)' <=> Server!Shares(d)
                      /\ Server!Shares(d) => source'[d] = source[d]
  BY DEF Server!Shares
<1>2. /\ Server!Store \in States /\ OneEach(cache)
      /\ \A e \in Entries(cache) : search[e] = "result" /\ oldest[e] = weights
      /\ \A e \in Call : search[e] = "result" =>
           Cardinality(UsersOf(e, {}, Server!Store)) + remaining[e] >= Width
      /\ \A d \in Call : Server!Shares(d) => /\ source[d] \in Call
                                             /\ GroupOf[source[d]] = GroupOf[d]
                                             /\ search[source[d]] = "result"
  BY DEF Sound, FreshEntries, Accounted, OfOneGroup, Counted, Server!Store
<1>3. ASSUME NEW e PROVE UsersOf(e, {}, Server!Store)' = UsersOf(e, {}, Server!Store)
  <2>1. UsersOf(e, {}, Server!Store) = {d \in Call : Server!Shares(d) /\ source[d] = e}
    BY DEF UsersOf, Counted, Server!Store
  <2>2. UsersOf(e, {}, Server!Store)' = {d \in Call : Server!Shares(d)' /\ source'[d] = e}
    BY DEF UsersOf, Counted, Server!Store
  <2> QED
    BY <1>1, <2>1, <2>2
<1>4. /\ Entries(cache)' = Entries(cache) /\ Entries(cache) \subseteq Call
      /\ (Server!Store \in States)' /\ OneEach(cache)'
  <2>1. cache \in Seq(Call) /\ evicted \in SUBSET Call
    BY <1>2 DEF States, Server!Store
  <2>2. Entries(cache)' = Entries(cache) /\ OneEach(cache)' /\ Entries(cache) \subseteq Call
    BY <1>2, <2>1 DEF OneEach, Entries, Server!Range
  <2>3. (Server!Store \in States)'
    BY <2>1 DEF States, Server!Store
  <2> QED
    BY <2>2, <2>3
<1>5. \A e \in Entries(cache) : search'[e] = "result" /\ oldest'[e] = weights
  BY <1>2, <1>4
<1>6. ASSUME NEW e \in Call, search'[e] = "result"
      PROVE  Cardinality(UsersOf(e, {}, Server!Store)) + remaining'[e] >= Width
  <2>1. CASE search[e] = "result"
    BY <1>2, <2>1
  <2>2. CASE search[e] # "result"
    <3>1. Cardinality(UsersOf(e, {}, Server!Store)) \in Nat
      BY CallsFinite, FS_Subset, FS_CardinalityType DEF CallsAreFinite, UsersOf
    <3>2. remaining'[e] \in Int /\ remaining'[e] >= Width
      BY <1>6, <2>2
    <3> QED
      BY <3>1, <3>2
  <2> QED
    BY <2>1, <2>2
<1>7. Sound({}, Server!Store)'
  <2>1. FreshEntries(Server!Store)'
    BY <1>4, <1>5 DEF FreshEntries, Server!Store
  <2>2. Accounted({}, Server!Store)'
    BY <1>3, <1>6 DEF Accounted, Server!Store
  <2>3. OfOneGroup({}, Server!Store)'
    BY <1>1, <1>2 DEF OfOneGroup, Counted, Server!Store
  <2> QED
    BY <1>4, <2>1, <2>2, <2>3 DEF Sound, Server!Store
<1>8. ASSUME NEW e \in Call, UsersOf(e, {}, Server!Store) # {}
      PROVE  Dropped(e, {}, Server!Store)' <=> Dropped(e, {}, Server!Store)
  <2>1. search[e] = "result"
    BY <1>2, <1>8 DEF UsersOf, Counted, Server!Store
  <2> QED
    BY <1>3, <2>1 DEF Dropped, Server!Store
<1>9. StillThere({}, Server!Store) => StillThere({}, Server!Store)'
  BY <1>3, <1>4, <1>8 DEF StillThere, Server!Store
<1>10. OneOrDropped => OneOrDropped'
  BY <1>3, <1>8 DEF OneOrDropped
<1> QED
  BY <1>7, <1>9, <1>10

LEMMA WidthIsPositive == Width \in Nat \ {0}
BY LoopsAssumption DEF Server!ServerAssumption

\* The calls C were served.
LEMMA Delivered ==
  ASSUME NEW C \in SUBSET Call, NEW b, Server!Deliver(C, b), Fits(C, End(C, b)),
         kind = "shared", UNCHANGED <<kind, search, oldest, weights>>
  PROVE  /\ Sound({}, Server!Store)' /\ StillThere({}, Server!Store)'
         /\ \A d \in Call \ C : source'[d] = source[d]
<1>1. PICK t : t = End(C, b)
  OBVIOUS
<1>2. /\ cache' = t.cache /\ remaining' = t.remaining /\ evicted' = t.evicted /\ source' = t.source
      /\ call' = [c \in Call |-> IF c \in C THEN "served" ELSE call[c]]
  BY <1>1 DEF Server!Deliver, End
<1>3. /\ t \in States /\ OneEach(t.cache) /\ FreshEntries(t)
      /\ Accounted(C, t) /\ OfOneGroup(C, t) /\ StillThere(C, t)
      /\ \A d \in Call \ C : t.source[d] = source[d]
  BY <1>1 DEF Fits, Sound
<1>4. ASSUME NEW d \in Call PROVE Server!Shares(d)' <=> Counted(d, C)
  BY <1>2 DEF Server!Shares, Counted
<1>5. ASSUME NEW e PROVE UsersOf(e, {}, Server!Store)' = UsersOf(e, C, t)
  <2>1. UsersOf(e, {}, Server!Store)' = {d \in Call : Server!Shares(d)' /\ source'[d] = e}
    BY DEF UsersOf, Counted, Server!Store
  <2> QED
    BY <1>2, <1>4, <2>1 DEF UsersOf
<1>6. (Server!Store \in States)'
  BY <1>2, <1>3 DEF States, Server!Store
<1>7. Entries(cache)' = Entries(t.cache) /\ OneEach(cache)'
  BY <1>2, <1>3 DEF Entries, OneEach, Server!Range
<1>8. ASSUME NEW e \in Entries(t.cache) PROVE search'[e] = "result" /\ oldest'[e] = weights'
  BY <1>3 DEF FreshEntries
<1>9. Sound({}, Server!Store)'
  <2>1. FreshEntries(Server!Store)'
    BY <1>7, <1>8 DEF FreshEntries, Server!Store
  <2>2. Accounted({}, Server!Store)'
    BY <1>2, <1>3, <1>5 DEF Accounted, Server!Store
  <2>3. OfOneGroup({}, Server!Store)'
    BY <1>2, <1>3, <1>4 DEF OfOneGroup, Counted, Server!Store
  <2> QED
    BY <1>6, <1>7, <2>1, <2>2, <2>3 DEF Sound, Server!Store
<1>10. StillThere({}, Server!Store)'
  <2>1. ASSUME NEW e \in Call PROVE Dropped(e, {}, Server!Store)' <=> Dropped(e, C, t)
    BY <1>2, <1>5 DEF Dropped, Server!Store
  <2> QED
    BY <1>3, <1>5, <1>7, <2>1 DEF StillThere, Server!Store
<1> QED
  BY <1>2, <1>3, <1>9, <1>10

LEMMA ServerStarts ==
  ASSUME Server!Init
  PROVE  ServerInv
<1> USE DEF Server!Init
<1>1. \A c \in Call : ~ Server!Shares(c)
  BY DEF Server!Shares
<1>2. \A g \in Server!Range(GroupOf) : registry[g] = None
  OBVIOUS
<1>3. ServerTypes /\ Registered /\ Awaited /\ Gathered /\ Empty
  BY <1>2 DEF ServerTypes, Registered, Awaited, Gathered, Empty
<1>4. cache = <<>> /\ Entries(cache) = {} /\ OneEach(cache)
  BY DEF Entries, OneEach, Server!Range
<1>5. Server!Store \in States
  <2>1. source \in [Call -> Call \cup {None}] /\ remaining \in [Call -> Int] /\ cache \in Seq(Call)
        /\ evicted \in SUBSET Call
    OBVIOUS
  <2> QED
    BY <2>1 DEF States, Server!Store
<1>6. \A e : UsersOf(e, {}, Server!Store) = {}
  BY <1>1 DEF UsersOf, Counted
<1>7. Sound({}, Server!Store)
  BY <1>1, <1>4, <1>5 DEF Sound, FreshEntries, Accounted, OfOneGroup, Counted, Server!Store
<1> QED
  BY <1>3, <1>6, <1>7 DEF ServerInv, StillThere, OneOrDropped

\* Nothing the invariant is about changes.
LEMMA ServerQuiet ==
  ASSUME ServerInv,
         UNCHANGED <<kind, call, source, search, oldest, registry, cache, remaining, evicted,
                     update, doomed, weights>>
  PROVE  ServerInv'
<1>1. /\ Sound({}, Server!Store)' /\ OneOrDropped'
      /\ StillThere({}, Server!Store) => StillThere({}, Server!Store)'
  <2>1. Server!Store \in States
    BY DEF ServerInv, Sound
  <2>2. source' \in [Call -> Call \cup {None}] /\ remaining' \in [Call -> Int]
    BY <2>1 DEF States, Server!Store
  <2> QED
    BY <2>2, Undisturbed, WidthIsPositive DEF ServerInv
<1>2. (ServerTypes /\ Registered /\ Awaited /\ Gathered /\ Empty)'
  BY DEF ServerInv, ServerTypes, Registered, Awaited, Gathered, Empty
<1> QED
  BY <1>1, <1>2 DEF ServerInv

\* A call starts a search.
LEMMA ServerBuilds ==
  ASSUME ServerInv, NEW c \in Call, UNCHANGED kind, Server!CallAlone(c) \/ Server!CallBuilds(c)
  PROVE  ServerInv'
<1>1. /\ call[c] = "idle" /\ update = "idle"
      /\ call' = [call EXCEPT ![c] = "waiting"] /\ source' = [source EXCEPT ![c] = c]
      /\ search' = [search EXCEPT ![c] = "running"] /\ oldest' = [oldest EXCEPT ![c] = weights]
      /\ UNCHANGED <<cache, remaining, evicted, update, doomed, weights>>
      /\ \/ kind # "shared" /\ registry' = registry
         \/ /\ kind = "shared" /\ registry[GroupOf[c]] = None
            /\ registry' = [registry EXCEPT ![GroupOf[c]] = c]
  BY DEF Server!CallAlone, Server!CallBuilds, Server!MayArrive, Server!Shared, Server!Start,
     Server!Joins, Server!cacheVars, Server!updateVars
<1>2. ServerTypes /\ Registered /\ Awaited /\ Gathered /\ Empty /\ Sound({}, Server!Store)
      /\ StillThere({}, Server!Store) /\ OneOrDropped
  BY <1>1 DEF ServerInv
<1>3. source \in [Call -> Call \cup {None}] /\ remaining \in [Call -> Int]
  BY <1>2 DEF Sound, States, Server!Store
<1>4. Sound({}, Server!Store)' /\ StillThere({}, Server!Store)' /\ OneOrDropped'
  <2>1. source' \in [Call -> Call \cup {None}] /\ remaining' \in [Call -> Int]
    BY <1>1, <1>3
  <2>2. search[c] = "none" /\ search' = [search EXCEPT ![c] = "running"]
        /\ search \in [Call -> {"none", "running", "result", "error"}]
        /\ call \in [Call -> {"idle", "waiting", "served", "failed"}] /\ oldest \in [Call -> Nat]
    BY <1>1, <1>2 DEF ServerTypes
  <2> QED
    BY <1>1, <1>2, <1>3, <2>1, <2>2, Undisturbed, WidthIsPositive
<1>5. \A d \in Call : GroupOf[d] \in Server!Range(GroupOf)
  BY CallsFinite DEF CallsAreFinite, Server!Range
<1>6. ServerTypes'
  BY <1>1, <1>2, <1>5 DEF ServerTypes
<1>7. Registered'
  BY <1>1, <1>2, <1>5 DEF ServerTypes, Registered
<1>8. Awaited'
  BY <1>1, <1>2, <1>3, <1>5, CallsFinite DEF CallsAreFinite, ServerTypes, Awaited
<1>9. Gathered' /\ Empty'
  BY <1>1, <1>2 DEF Gathered, Empty
<1> QED
  BY <1>4, <1>6, <1>7, <1>8, <1>9 DEF ServerInv

\* A call is served, or told of an error, on its arrival.
LEMMA ServerServes ==
  ASSUME ServerInv, kind = "shared", update \notin {"sync", "resume"},
         NEW C \in SUBSET Call, NEW b, Server!Deliver(C, b), Fits(C, End(C, b)),
         UNCHANGED <<kind, search, oldest, update, doomed, weights>>,
         registry' = registry \/ registry' = Server!Unregistered(b),
         \A c \in Call \ C : call[c] = "waiting" => registry'[GroupOf[c]] = registry[GroupOf[c]]
  PROVE  ServerInv'
<1>1. ServerTypes /\ Registered /\ Awaited /\ Gathered /\ Empty
  BY DEF ServerInv
<1>2. call' = [c \in Call |-> IF c \in C THEN "served" ELSE call[c]]
  BY DEF Server!Deliver
<1>3. Sound({}, Server!Store)' /\ StillThere({}, Server!Store)'
      /\ \A d \in Call \ C : source'[d] = source[d]
  BY Delivered
<1>4. OneOrDropped'
  BY <1>3, OneIfStillThere, PTL
<1>5. \A g \in DOMAIN registry : registry'[g] \in {registry[g], None}
  BY DEF Server!Unregistered
<1>6. registry' \in [Server!Range(GroupOf) -> Call \cup {None}]
  BY <1>1 DEF ServerTypes, Server!Unregistered
<1>7. (ServerTypes /\ Registered /\ Gathered /\ Empty)'
  BY <1>1, <1>2, <1>5, <1>6 DEF ServerTypes, Registered, Gathered, Empty
<1>8. Awaited'
  BY <1>1, <1>2, <1>3 DEF Awaited
<1> QED
  BY <1>3, <1>4, <1>7, <1>8 DEF ServerInv

\* Before the weights change every search is present.
LEMMA FitsNow ==
  ASSUME ServerInv, update # "sync"
  PROVE  Fits({}, Server!Store)
BY DEF ServerInv, Fits, Server!Store

LEMMA ServerHits ==
  ASSUME ServerInv, NEW c \in Call, UNCHANGED kind, Server!CallHits(c)
  PROVE  ServerInv'
<1>1. /\ call[c] = "idle" /\ update = "idle" /\ kind = "shared"
      /\ Server!Cached(cache, GroupOf[c]) # {}
      /\ Server!Deliver({c}, None)
      /\ UNCHANGED <<search, oldest, registry, update, doomed, weights>>
  BY DEF Server!CallHits, Server!Shared, Server!MayArrive, Server!searchVars, Server!updateVars
<1>2. Fits({}, Server!Store)
  BY <1>1, FitsNow
<1>3. \E e \in Entries(Server!Store.cache) : GroupOf[e] = GroupOf[c]
  BY <1>1 DEF Server!Cached, Entries, Server!Store
<1>4. ~ Server!Shares(c)
  BY <1>1 DEF Server!Shares
<1>5. Fits({} \cup {c}, Server!Serve(c, None, Server!Store))
  <2>1. c \in Call \ {} /\ {} \in SUBSET Call
    OBVIOUS
  <2> QED
    BY <1>2, <1>3, <1>4, <2>1, ServeFits, WidthIsPositive
<1>6. Fits({c}, End({c}, None))
  <2>1. {} \cup {c} = {c}
    OBVIOUS
  <2> QED
    BY <1>5, <2>1, EndOfOne
<1>7. {c} \in SUBSET Call /\ update \notin {"sync", "resume"}
  BY <1>1
<1> QED
  BY <1>1, <1>6, <1>7, ServerServes

\* The registered search of a group that has a result.
LEMMA ServerJoins ==
  ASSUME ServerInv, NEW c \in Call, UNCHANGED kind, Server!CallJoins(c)
  PROVE  ServerInv'
<1> DEFINE b == registry[GroupOf[c]]
<1>1. /\ call[c] = "idle" /\ update = "idle" /\ kind = "shared"
      /\ registry[GroupOf[c]] # None
      /\ UNCHANGED <<search, oldest, registry, update, doomed, weights>>
      /\ \/ /\ search[b] = "running"
            /\ call' = [call EXCEPT ![c] = "waiting"] /\ source' = [source EXCEPT ![c] = b]
            /\ UNCHANGED <<cache, remaining, evicted>>
         \/ Server!Outcome({c}, b)
  BY DEF Server!CallJoins, Server!Shared, Server!MayArrive, Server!Joins, Server!searchVars,
     Server!updateVars, Server!cacheVars
<1>2. ServerTypes /\ Registered /\ Awaited /\ Gathered /\ Empty /\ Sound({}, Server!Store)
      /\ StillThere({}, Server!Store) /\ OneOrDropped
  BY <1>1 DEF ServerInv
<1>3. b \in Call /\ GroupOf[b] = GroupOf[c] /\ oldest[b] = weights
  <2>1. GroupOf[c] \in Server!Range(GroupOf)
    BY CallsFinite DEF CallsAreFinite, Server!Range
  <2> QED
    BY <1>1, <1>2, <2>1 DEF ServerTypes, Registered
<1>4. source \in [Call -> Call \cup {None}] /\ remaining \in [Call -> Int]
  BY <1>2 DEF Sound, States, Server!Store
<1> HIDE DEF b
<1>5. CASE search[b] = "result" /\ Server!Deliver({c}, b)
  <2>1. ~ Server!Shares(c)
    BY <1>1 DEF Server!Shares
  <2>2. Fits({}, Server!Store)
    BY <1>1, FitsNow
  <2>3. \A d \in {c} : ~ Server!Shares(d) /\ GroupOf[b] = GroupOf[d]
    BY <1>3, <2>1
  <2>4. {c} \in SUBSET Call /\ update \notin {"sync", "resume"} /\ Width \in Nat
    BY <1>1, WidthIsPositive
  <2>5. Fits({c}, End({c}, b))
    BY <1>3, <1>5, <2>2, <2>3, <2>4, EndFits
  <2> QED
    BY <1>1, <1>5, <2>4, <2>5, ServerServes
\* The call waits, or is told of the error.
<1>6. ASSUME call' = [call EXCEPT ![c] = "waiting"] \/ call' = [call EXCEPT ![c] = "failed"],
             source' = [source EXCEPT ![c] = b] \/ (source' = source /\ call'[c] = "failed"),
             UNCHANGED <<cache, remaining, evicted>>
      PROVE  ServerInv'
  <2>1. source' \in [Call -> Call \cup {None}] /\ remaining' \in [Call -> Int]
    BY <1>3, <1>4, <1>6
  <2>2. call \in [Call -> {"idle", "waiting", "served", "failed"}]
    BY <1>2 DEF ServerTypes
  <2>3. Sound({}, Server!Store)' /\ StillThere({}, Server!Store)' /\ OneOrDropped'
    BY <1>1, <1>2, <1>4, <1>6, <2>1, <2>2, Undisturbed, WidthIsPositive
  <2>4. (ServerTypes /\ Registered /\ Gathered /\ Empty)'
    BY <1>1, <1>2, <1>6 DEF ServerTypes, Registered, Gathered, Empty
  <2>5. Awaited'
    BY <1>1, <1>2, <1>3, <1>4, <1>6, <2>2 DEF Awaited, b
  <2> QED
    BY <2>3, <2>4, <2>5 DEF ServerInv
<1>7. CASE search[b] = "running" /\ call' = [call EXCEPT ![c] = "waiting"]
           /\ source' = [source EXCEPT ![c] = b] /\ UNCHANGED <<cache, remaining, evicted>>
  BY <1>6, <1>7
<1>8. CASE /\ search[b] = "error"
           /\ call' = [d \in Call |-> IF d \in {c} THEN "failed" ELSE call[d]]
           /\ UNCHANGED <<source, cache, remaining, evicted>>
  <2>1. call' = [call EXCEPT ![c] = "failed"] /\ call'[c] = "failed"
    BY <1>2, <1>8 DEF ServerTypes
  <2> QED
    BY <1>6, <1>8, <2>1
<1> QED
  BY <1>1, <1>5, <1>7, <1>8 DEF Server!Outcome, Server!cacheVars

\* A search ends.
LEMMA ServerEnds ==
  ASSUME ServerInv, NEW b \in Call, UNCHANGED kind,
         Server!FindCandidates(b) \/ Server!SearchRaises(b)
  PROVE  ServerInv'
<1>1. /\ search[b] = "running"
      /\ \/ search' = [search EXCEPT ![b] = "result"] /\ remaining' = [remaining EXCEPT ![b] = Width]
         \/ search' = [search EXCEPT ![b] = "error"] /\ remaining' = remaining
      /\ UNCHANGED <<call, source, oldest, registry, cache, evicted, update, doomed, weights>>
  BY DEF Server!FindCandidates, Server!SearchRaises, Server!StepReturned, Server!callVars,
     Server!cacheVars, Server!updateVars
<1>2. ServerTypes /\ Registered /\ Awaited /\ Gathered /\ Empty /\ Sound({}, Server!Store)
      /\ OneOrDropped
  BY DEF ServerInv
<1>3. source \in [Call -> Call \cup {None}] /\ remaining \in [Call -> Int]
  BY <1>2 DEF Sound, States, Server!Store
<1>4. /\ Sound({}, Server!Store)' /\ OneOrDropped'
      /\ StillThere({}, Server!Store) => StillThere({}, Server!Store)'
  <2>1. source' \in [Call -> Call \cup {None}] /\ remaining' \in [Call -> Int]
    BY <1>1, <1>3, WidthIsPositive
  <2>2. search \in [Call -> {"none", "running", "result", "error"}]
    BY <1>2 DEF ServerTypes
  <2>3. \A e \in Call :
          /\ search[e] = "result" => search'[e] = "result" /\ remaining'[e] = remaining[e]
          /\ search[e] # "result" /\ search'[e] = "result" => remaining'[e] >= Width
    BY <1>1, <1>3, <2>2, WidthIsPositive
  <2> QED
    BY <1>1, <1>2, <2>1, <2>3, Undisturbed, WidthIsPositive
<1>5. ServerTypes'
  <2>1. search' \in [Call -> {"none", "running", "result", "error"}]
    BY <1>1, <1>2 DEF ServerTypes
  <2>2. \A c \in Call : search[c] = "none" => search'[c] = "none"
    BY <1>1, <1>2 DEF ServerTypes
  <2> QED
    BY <1>1, <1>2, <2>1, <2>2 DEF ServerTypes
<1>6. (Registered /\ Awaited /\ Gathered /\ Empty)'
  BY <1>1, <1>2 DEF Registered, Awaited, Gathered, Empty
<1> QED
  BY <1>1, <1>4, <1>5, <1>6 DEF ServerInv

\* The callbacks of a search run.
LEMMA ServerCallsBack ==
  ASSUME ServerInv, NEW b \in Call, UNCHANGED kind, Server!Callbacks(b)
  PROVE  ServerInv'
<1> DEFINE C == {c \in Call : call[c] = "waiting" /\ source[c] = b}
<1>1. /\ search[b] \in {"result", "error"} /\ C # {}
      /\ IF kind = "shared" THEN Server!Outcome(C, b)
         ELSE /\ call' = [call EXCEPT ![b] = IF search[b] = "result" THEN "served" ELSE "failed"]
              /\ UNCHANGED <<source, cache, remaining, evicted>>
      /\ registry' = Server!Unregistered(b)
      /\ UNCHANGED <<search, oldest, update, doomed, weights>>
  BY DEF Server!Callbacks, Server!searchVars, Server!updateVars, Server!cacheVars
<1>2. ServerTypes /\ Registered /\ Awaited /\ Gathered /\ Empty /\ Sound({}, Server!Store)
      /\ OneOrDropped
  BY DEF ServerInv
<1>3. source \in [Call -> Call \cup {None}] /\ remaining \in [Call -> Int]
  BY <1>2 DEF Sound, States, Server!Store
<1>4. \A d \in Call : GroupOf[d] \in DOMAIN registry
  BY <1>2, CallsFinite DEF CallsAreFinite, ServerTypes, Server!Range
<1>5. registry' \in [Server!Range(GroupOf) -> Call \cup {None}]
      /\ \A g \in DOMAIN registry : registry'[g] = IF registry[g] = b THEN None ELSE registry[g]
  BY <1>1, <1>2 DEF ServerTypes, Server!Unregistered
\* No call is served.
<1>6. ASSUME call' \in [Call -> {"idle", "waiting", "served", "failed"}],
             kind = "shared" => \A c \in Call : call'[c] = IF c \in C THEN "failed" ELSE call[c],
             \A c \in Call : call'[c] = "idle" => call[c] = "idle",
             UNCHANGED <<source, cache, remaining, evicted>>
      PROVE  ServerInv'
  <2>1. source' \in [Call -> Call \cup {None}] /\ remaining' \in [Call -> Int]
    BY <1>3, <1>6
  <2>2. \A d \in Call : kind = "shared" => (call'[d] = "served" <=> call[d] = "served")
    BY <1>6
  <2>3. /\ Sound({}, Server!Store)' /\ OneOrDropped'
        /\ StillThere({}, Server!Store) => StillThere({}, Server!Store)'
    <3> HIDE DEF C
    <3> QED
      BY <1>1, <1>2, <1>6, <2>1, <2>2, Undisturbed, WidthIsPositive
  <2>4. (ServerTypes /\ Registered /\ Gathered /\ Empty)'
    BY <1>1, <1>2, <1>5, <1>6 DEF ServerTypes, Registered, Gathered, Empty
  <2>5. Awaited'
    BY <1>2, <1>4, <1>5, <1>6 DEF Awaited
  <2> QED
    BY <1>1, <2>3, <2>4, <2>5 DEF ServerInv
<1>7. CASE kind = "shared"
  <2>1. \A c \in C : ~ Server!Shares(c) /\ registry[GroupOf[c]] = b
    BY <1>2, <1>7 DEF Awaited, Server!Shares
  <2>2. \A c \in C : GroupOf[b] = GroupOf[c]
    BY <1>2, <1>4, <2>1, CallsFinite DEF CallsAreFinite, Registered
  <2>3. oldest[b] = weights /\ update \notin {"sync", "resume"}
    BY <1>1, <1>2, <1>4, <2>1, CallsFinite DEF CallsAreFinite, Registered, Empty
  <2>4. CASE search[b] = "result" /\ Server!Deliver(C, b)
    <3>1. Fits({}, Server!Store) /\ Width \in Nat /\ C \in SUBSET Call
      BY <2>3, FitsNow, WidthIsPositive
    <3>2. \A c \in Call \ C : call[c] = "waiting" => registry'[GroupOf[c]] = registry[GroupOf[c]]
      BY <1>2, <1>4, <1>5, <1>7 DEF Awaited
    <3> HIDE DEF C
    <3>3. Fits(C, End(C, b))
      BY <2>1, <2>2, <2>3, <2>4, <3>1, EndFits
    <3> QED
      BY <1>1, <1>7, <2>3, <2>4, <3>1, <3>2, <3>3, ServerServes
  <2>5. CASE /\ search[b] = "error"
             /\ call' = [c \in Call |-> IF c \in C THEN "failed" ELSE call[c]]
             /\ UNCHANGED <<source, cache, remaining, evicted>>
    <3>1. \A c \in Call : call'[c] = IF c \in C THEN "failed" ELSE call[c]
      BY <2>5
    <3>2. call' \in [Call -> {"idle", "waiting", "served", "failed"}]
          /\ \A c \in Call : call'[c] = "idle" => call[c] = "idle"
      BY <1>2, <2>5 DEF ServerTypes
    <3> QED
      BY <1>6, <2>5, <3>1, <3>2
  <2> QED
    BY <1>1, <1>7, <2>4, <2>5 DEF Server!Outcome, Server!cacheVars
<1>8. CASE kind # "shared"
  <2>1. call' = [call EXCEPT ![b] = IF search[b] = "result" THEN "served" ELSE "failed"]
        /\ UNCHANGED <<source, cache, remaining, evicted>>
    BY <1>1, <1>8
  <2>2. call' \in [Call -> {"idle", "waiting", "served", "failed"}]
        /\ \A c \in Call : call'[c] = "idle" => call[c] = "idle"
    BY <1>2, <2>1 DEF ServerTypes
  <2> QED
    BY <1>6, <1>8, <2>1, <2>2
<1> QED
  BY <1>7, <1>8

\* update_weights begins, or ends.
LEMMA ServerAborts ==
  ASSUME ServerInv, UNCHANGED kind, Server!AbortSearches \/ Server!Resume
  PROVE  ServerInv'
<1>1. /\ UNCHANGED <<call, source, search, oldest, registry, cache, remaining, evicted, weights>>
      /\ \/ update = "idle" /\ update' = "gather" /\ doomed' = Server!Range(registry) \ {None}
         \/ update = "resume" /\ update' = "idle"
  BY DEF Server!AbortSearches, Server!Resume, Server!callVars, Server!searchVars, Server!cacheVars
<1>2. /\ Sound({}, Server!Store)' /\ OneOrDropped'
      /\ StillThere({}, Server!Store) => StillThere({}, Server!Store)'
  <2>1. Server!Store \in States
    BY DEF ServerInv, Sound
  <2>2. source' \in [Call -> Call \cup {None}] /\ remaining' \in [Call -> Int]
    BY <1>1, <2>1 DEF States, Server!Store
  <2> QED
    BY <1>1, <2>2, Undisturbed, WidthIsPositive DEF ServerInv
<1>3. (ServerTypes /\ Registered /\ Awaited /\ Gathered /\ Empty)'
  BY <1>1 DEF ServerInv, ServerTypes, Registered, Awaited, Gathered, Empty, Server!Range
<1> QED
  BY <1>1, <1>2, <1>3 DEF ServerInv

\* The registry and the cache are cleared: what was served is still accounted for.
LEMMA ServerAbortsEngine ==
  ASSUME ServerInv, UNCHANGED kind, Server!AbortEngine
  PROVE  ServerInv'
<1>1. /\ update = "gather" /\ update' = "sync"
      /\ \A c \in Call : call[c] = "waiting" => source[c] \notin doomed
      /\ registry' = [g \in DOMAIN registry |-> None] /\ cache' = <<>>
      /\ UNCHANGED <<call, source, search, oldest, remaining, evicted, doomed, weights>>
  BY DEF Server!AbortEngine, Server!callVars, Server!searchVars, Server!ClearEntries
<1>2. ServerTypes /\ Registered /\ Awaited /\ Gathered /\ Sound({}, Server!Store) /\ OneOrDropped
  BY DEF ServerInv
<1>3. (ServerTypes /\ Registered /\ Gathered /\ Empty)'
  BY <1>1, <1>2 DEF ServerTypes, Registered, Gathered, Empty
\* No call of a shared batch waits.
<1>4. Awaited'
  <2>1. \A d \in Call : GroupOf[d] \in DOMAIN registry
    BY <1>2, CallsFinite DEF CallsAreFinite, ServerTypes, Server!Range
  <2> QED
    BY <1>1, <1>2, <2>1, CallsFinite DEF CallsAreFinite, Awaited, Gathered
<1>5. ASSUME NEW e PROVE UsersOf(e, {}, Server!Store)' = UsersOf(e, {}, Server!Store)
  BY <1>1 DEF UsersOf, Counted, Server!Store, Server!Shares
<1>6. OneOrDropped'
  <2>1. ASSUME NEW e \in Call
        PROVE  Dropped(e, {}, Server!Store)' <=> Dropped(e, {}, Server!Store)
    BY <1>1, <1>5 DEF Dropped, Server!Store
  <2> QED
    BY <1>2, <1>5, <2>1 DEF OneOrDropped
<1>7. Sound({}, Server!Store)'
  <2>1. Entries(cache)' = {} /\ OneEach(cache)'
    BY <1>1 DEF Entries, OneEach, Server!Range
  <2>2. (Server!Store \in States)'
    BY <1>1, <1>2 DEF Sound, States, Server!Store
  <2>3. FreshEntries(Server!Store)'
    BY <2>1 DEF FreshEntries, Server!Store
  <2>4. Accounted({}, Server!Store)'
    BY <1>1, <1>2, <1>5 DEF Sound, Accounted, Server!Store
  <2>5. OfOneGroup({}, Server!Store)'
    BY <1>1, <1>2 DEF Sound, OfOneGroup, Counted, Server!Store, Server!Shares
  <2> QED
    BY <2>1, <2>2, <2>3, <2>4, <2>5 DEF Sound, Server!Store
<1> QED
  BY <1>1, <1>3, <1>4, <1>6, <1>7 DEF ServerInv

\* Under new weights every search is one of the older weights.
LEMMA ServerRenews ==
  ASSUME ServerInv, UNCHANGED kind, Server!NewWeights
  PROVE  ServerInv'
<1>1. /\ update = "sync" /\ update' = "resume" /\ weights' = weights + 1
      /\ UNCHANGED <<call, source, search, oldest, registry, cache, remaining, evicted, doomed>>
  BY DEF Server!NewWeights, Server!callVars, Server!searchVars, Server!cacheVars
<1>2. ServerTypes /\ Registered /\ Awaited /\ Empty /\ Sound({}, Server!Store)
  BY DEF ServerInv
<1>3. (ServerTypes /\ Registered /\ Awaited /\ Gathered /\ Empty)'
  BY <1>1, <1>2 DEF ServerTypes, Registered, Awaited, Gathered, Empty
<1>4. ASSUME NEW e \in Call PROVE Dropped(e, {}, Server!Store)'
  <2>1. oldest'[e] # weights'
    BY <1>1, <1>2 DEF ServerTypes
  <2> QED
    BY <2>1 DEF Dropped
<1>5. StillThere({}, Server!Store)' /\ OneOrDropped'
  BY <1>4 DEF StillThere, OneOrDropped
<1>6. Sound({}, Server!Store)'
  <2>1. cache = <<>> /\ Entries(cache)' = {} /\ OneEach(cache)'
    BY <1>1, <1>2 DEF Empty, Entries, OneEach, Server!Range
  <2>2. (Server!Store \in States)'
    BY <1>1, <1>2 DEF Sound, States, Server!Store
  <2>3. FreshEntries(Server!Store)'
    BY <2>1 DEF FreshEntries, Server!Store
  <2>4. ASSUME NEW e PROVE UsersOf(e, {}, Server!Store)' = UsersOf(e, {}, Server!Store)
    BY <1>1 DEF UsersOf, Counted, Server!Store, Server!Shares
  <2>5. Accounted({}, Server!Store)'
    BY <1>1, <1>2, <2>4 DEF Sound, Accounted, Server!Store
  <2>6. OfOneGroup({}, Server!Store)'
    BY <1>1, <1>2 DEF Sound, OfOneGroup, Counted, Server!Store, Server!Shares
  <2> QED
    BY <2>1, <2>2, <2>3, <2>5, <2>6 DEF Sound, Server!Store
<1> QED
  BY <1>1, <1>3, <1>5, <1>6 DEF ServerInv

LEMMA ServerSteps ==
  ASSUME ServerInv, Server!Next
  PROVE  ServerInv'
<1>1. UNCHANGED kind
  BY DEF Server!Next
<1>2. ASSUME NEW c \in Call, Server!CallAlone(c) \/ Server!CallBuilds(c) PROVE ServerInv'
  BY <1>1, <1>2, ServerBuilds
<1>3. ASSUME NEW c \in Call, Server!CallHits(c) PROVE ServerInv'
  BY <1>1, <1>3, ServerHits
<1>4. ASSUME NEW c \in Call, Server!CallJoins(c) PROVE ServerInv'
  BY <1>1, <1>4, ServerJoins
<1>5. ASSUME NEW c \in Call, Server!Acquire(c) \/ Server!RequestEnds(c) \/ Server!SendStep(c)
      PROVE  ServerInv'
  BY <1>1, <1>5, ServerQuiet DEF Server!Acquire, Server!RequestEnds, Server!SendStep,
     Server!callVars, Server!searchVars, Server!cacheVars, Server!updateVars
<1>6. ASSUME NEW c \in Call, Server!FindCandidates(c) \/ Server!SearchRaises(c) PROVE ServerInv'
  BY <1>1, <1>6, ServerEnds
<1>7. ASSUME NEW c \in Call, Server!Callbacks(c) PROVE ServerInv'
  BY <1>1, <1>7, ServerCallsBack
<1>8. ASSUME Server!AbortSearches \/ Server!Resume PROVE ServerInv'
  BY <1>1, <1>8, ServerAborts
<1>9. ASSUME Server!AbortEngine PROVE ServerInv'
  BY <1>1, <1>9, ServerAbortsEngine
<1>10. ASSUME Server!NewWeights PROVE ServerInv'
  BY <1>1, <1>10, ServerRenews
<1> QED
  BY <1>2, <1>3, <1>4, <1>5, <1>6, <1>7, <1>8, <1>9, <1>10 DEF Server!Next, Server!Proceed

LEMMA ServerInvariant == Spec => [](part = "server" => ServerInv)
<1> DEFINE I == part = "server" => ServerInv
<1>1. Init => I
  BY ServerStarts DEF Init
<1>2. I /\ [Next]_vars => I'
  <2> SUFFICES ASSUME I, [Next]_vars, part' = "server" PROVE ServerInv'
    OBVIOUS
  <2>1. CASE Next
    <3>1. part' = part
      BY <2>1 DEF Next, WavesStep, ServerStep, ShardsStep, DispatchStep, CreditStep, MatchStep
    <3>2. Server!Next
      BY <2>1, <3>1
      DEF Next, WavesStep, ServerStep, ShardsStep, DispatchStep, CreditStep, MatchStep
    <3> QED
      BY <3>1, <3>2, ServerSteps
  <2>2. CASE UNCHANGED vars
    <3>1. ServerInv /\ UNCHANGED serverVars
      BY <2>2 DEF vars
    <3> QED
      BY <3>1, ServerQuiet DEF serverVars
  <2> QED
    BY <2>1, <2>2
<1> QED
  BY <1>1, <1>2, PTL DEF Spec

LEMMA SameUses == \A S : Server!Cardinality(S) = Cardinality(S)
BY Zenon DEF Server!Cardinality, Cardinality

\* The calls of a group are served from one search of the constrained-beam server:
\* a second one only if the first was used up, evicted or is of older weights, however
\* calls, callbacks, requests and weight updates interleave
\* (constrained_beam_vllm_async.py:206-219, 342-362).
THEOREM AlwaysOneSearchPerGroup == Spec => []OneSearchPerGroup
<1>1. (part = "server" => ServerInv) => OneSearchPerGroup
  <2> SUFFICES ASSUME ServerInv,
                      NEW c \in Call, NEW d \in Call, Server!Shares(c), Server!Shares(d),
                      GroupOf[c] = GroupOf[d], source[c] # source[d]
               PROVE  \E b \in {source[c], source[d]} :
                        Server!Uses(b) >= Width \/ b \in evicted \/ oldest[b] < weights
    BY DEF OneSearchPerGroup, Server!OneSearchPerGroup
  <2>1. PICK a \in Call, b \in Call :
          /\ a = source[c] /\ b = source[d] /\ GroupOf[a] = GroupOf[b] /\ a # b
    BY DEF ServerInv, Sound, OfOneGroup, Counted, Server!Store
  <2>2. c \in UsersOf(a, {}, Server!Store) /\ d \in UsersOf(b, {}, Server!Store)
    BY <2>1 DEF UsersOf, Counted, Server!Store
  <2>3. PICK e \in {a, b} : Dropped(e, {}, Server!Store)
    BY <2>1, <2>2 DEF ServerInv, OneOrDropped
  <2>4. Server!Uses(e) = Cardinality(UsersOf(e, {}, Server!Store))
    BY SameUses DEF Server!Uses, UsersOf, Counted, Server!Store
  <2>5. oldest[e] # weights => oldest[e] < weights
    BY <2>1, <2>3 DEF ServerInv, ServerTypes
  <2> QED
    BY <2>1, <2>3, <2>4, <2>5 DEF Dropped, Server!Store
<1> QED
  BY <1>1, ServerInvariant, PTL

\* No entry of its cache comes from a search under older weights, however a weight
\* update interleaves with the searches and their callbacks
\* (constrained_beam_vllm_async.py:96-120).
THEOREM BeamCacheAlwaysFresh == Spec => []CacheIsFresh
<1>1. (part = "server" => ServerInv) => CacheIsFresh
  BY DEF CacheIsFresh, Server!CacheIsFresh, ServerInv, Sound, FreshEntries, Entries, Server!Store
<1> QED
  BY <1>1, ServerInvariant, PTL

-------------------------------------------------------------------------------
(* The credit of a recommendation list (RankCredit).                         *)

\* Cardinality is that of the model.
LEMMA CreditCardinality ==
  ASSUME NEW S
  PROVE  Credit!Cardinality(S) = Cardinality(S)
BY DEF Credit!Cardinality, Cardinality

\* The tokens of a response.
CreditTokens == {"item", "text", "nl", "nlnl", "eos"}

\* How many of the places S have the token k, and how many lines end there.
Breaks(s, S, k) == Cardinality({j \in S : s[j] = k})
BreaksOf(s, S) == Breaks(s, S, "nl") + 2 * Breaks(s, S, "nlnl")

\* Lines are counted place by place.
LEMMA OneMoreBreak ==
  ASSUME NEW s, NEW S, IsFiniteSet(S), NEW i, i \notin S
  PROVE  /\ BreaksOf(s, S) \in Nat
         /\ BreaksOf(s, S \cup {i}) = BreaksOf(s, S) + Credit!Separators(s[i])
<1>1. ASSUME NEW k
      PROVE  /\ Breaks(s, S, k) \in Nat
             /\ Breaks(s, S \cup {i}, k) = Breaks(s, S, k) + IF s[i] = k THEN 1 ELSE 0
  <2> DEFINE A == {j \in S : s[j] = k}
  <2>1. IsFiniteSet(A) /\ i \notin A
    BY FS_Subset
  <2>2. {j \in S \cup {i} : s[j] = k} = IF s[i] = k THEN A \cup {i} ELSE A
    OBVIOUS
  <2> HIDE DEF A
  <2>3. Cardinality(A) \in Nat /\ Cardinality(A \cup {i}) = Cardinality(A) + 1
    BY <2>1, FS_CardinalityType, FS_AddElement
  <2>4. Breaks(s, S, k) = Cardinality(A) /\ Breaks(s, S \cup {i}, k) = Cardinality(IF s[i] = k THEN A \cup {i} ELSE A)
    BY <2>2 DEF Breaks, A
  <2> QED
    BY <2>3, <2>4
<1> QED
  BY <1>1 DEF BreaksOf, Credit!Separators

\* An empty text ends no line.
LEMMA NoBreaks ==
  ASSUME NEW s
  PROVE  BreaksOf(s, {}) = 0
<1>1. \A k : {j \in {} : s[j] = k} = {}
  OBVIOUS
<1> QED
  BY <1>1, FS_EmptySet DEF BreaksOf, Breaks

\* The fold that numbers the items counts the lines that end before a place.
LEMMA ItemIdIsLine ==
  ASSUME NEW D, NEW s \in Seq(D), NEW i \in 1 .. Len(s) + 1
  PROVE  Credit!ItemId(s, i) = Credit!LineOf(s, i)
<1> DEFINE u == SubSeq(s, 1, i - 1)
           T == 1 .. i - 1
           Is(h) == h = [S \in SUBSET DOMAIN u |->
                           IF S = {} THEN 0
                           ELSE h[S \ {Credit!Max(S)}] + Credit!Separators(u[Credit!Max(S)])]
           g == CHOOSE h : Is(h)
           h0 == [S \in SUBSET T |-> BreaksOf(s, S)]
<1>1. DOMAIN u = T /\ \A j \in T : u[j] = s[j]
  OBVIOUS
<1>2. Credit!ItemId(s, i) = g[DOMAIN u]
  BY Zenon DEF Credit!ItemId, Credit!FoldLeft, Credit!MapThenFoldSet
<1>3. h0[T] = BreaksOf(s, T) /\ BreaksOf(s, T) = Credit!LineOf(s, i)
  <2>1. BreaksOf(s, T) = Credit!LineOf(s, i)
    BY CreditCardinality DEF Credit!LineOf, BreaksOf, Breaks
  <2> HIDE DEF T
  <2> QED
    BY <2>1
<1>4. IsFiniteSet(T)
  BY FS_Interval
<1>11. T \subseteq Nat
  OBVIOUS
<1>5. ASSUME NEW S \in SUBSET T
      PROVE  h0[S] = IF S = {} THEN 0
                     ELSE h0[S \ {Credit!Max(S)}] + Credit!Separators(u[Credit!Max(S)])
  <2>1. h0[S] = BreaksOf(s, S)
    OBVIOUS
  <2>2. CASE S = {}
    BY <2>1, <2>2, NoBreaks
  <2>3. CASE S # {}
    <3> DEFINE m == Credit!Max(S)
               R == S \ {m}
    <3>1. m \in S
      <4>1. IsFiniteSet(S) /\ S \in SUBSET Nat
        BY <1>11, <1>4, FS_Subset
      <4>2. \E x \in S : \A y \in S : x >= y
        BY <2>3, <4>1, FiniteMaximum
      <4> QED
        BY <4>2 DEF Credit!Max
    <3> HIDE DEF m
    <3>2. R \in SUBSET T /\ S = R \cup {m} /\ m \notin R /\ m \in T
      BY <3>1
    <3>3. BreaksOf(s, S) = BreaksOf(s, R) + Credit!Separators(s[m])
      <4>1. IsFiniteSet(R)
        BY <1>4, <3>2, FS_Subset
      <4> HIDE DEF R
      <4> QED
        BY <3>2, <4>1, OneMoreBreak
    <3>4. h0[R] = BreaksOf(s, R) /\ u[m] = s[m]
      BY <1>1, <3>2
    <3> QED
      BY <2>1, <2>3, <3>3, <3>4 DEF m
  <2> QED
    BY <2>2, <2>3
<1>6. h0 = [S \in SUBSET T |-> h0[S]]
  OBVIOUS
<1> HIDE DEF h0
<1>7. Is(h0)
  BY <1>1, <1>5, <1>6
<1>8. Is(g)
  <2> HIDE DEF Is
  <2> QED  BY <1>7
<1> HIDE DEF g
<1>9. ASSUME NEW S \in SUBSET T
      PROVE  \/ g[S] = h0[S]
             \/ \E R \in SUBSET T : R \subseteq S /\ R # S /\ (g[R] = h0[R] => g[S] = h0[S])
  <2>1. /\ g[S] = IF S = {} THEN 0 ELSE g[S \ {Credit!Max(S)}] + Credit!Separators(u[Credit!Max(S)])
        /\ h0[S] = IF S = {} THEN 0 ELSE h0[S \ {Credit!Max(S)}] + Credit!Separators(u[Credit!Max(S)])
    BY <1>1, <1>5, <1>8
  <2>2. S # {} => Credit!Max(S) \in S
    <3>1. IsFiniteSet(S) /\ S \in SUBSET Nat
      BY <1>11, <1>4, FS_Subset
    <3>2. S # {} => \E x \in S : \A y \in S : x >= y
      BY <3>1, FiniteMaximum
    <3> QED
      BY <3>2 DEF Credit!Max
  <2> DEFINE R == S \ {Credit!Max(S)}
  <2>3. S # {} => R \in SUBSET T /\ R \subseteq S /\ R # S
    BY <2>2
  <2>4. S # {} => (g[R] = h0[R] => g[S] = h0[S])
    BY <2>1
  <2>5. S = {} => g[S] = h0[S]
    BY <2>1
  <2> HIDE DEF R
  <2> QED
    BY <2>3, <2>4, <2>5
<1>10. g[T] = h0[T]
  <2> HIDE DEF T
  <2> QED
    BY <1>4, <1>9, Agreement
<1> QED
  BY <1>1, <1>2, <1>3, <1>10

\* The order of numbers is that of the model.
LEMMA SameAscending == ASSUME NEW S PROVE Credit!Ascending(S) = Ascending(S)
BY Zenon DEF Credit!Ascending, Ascending, Credit!Ordered, Ordered, Credit!Cardinality, Cardinality

\* Lines are counted upwards.
LEMMA LinesGoUp ==
  ASSUME NEW s
  PROVE  /\ Credit!LineOf(s, 1) = 0
         /\ \A i \in Nat \ {0} : Credit!LineOf(s, i) \in Nat
         /\ \A i, j \in Nat \ {0} : i <= j => Credit!LineOf(s, i) <= Credit!LineOf(s, j)
<1>1. \A i : Credit!LineOf(s, i) = BreaksOf(s, 1 .. i - 1)
  BY CreditCardinality DEF Credit!LineOf, BreaksOf, Breaks
<1>2. ASSUME NEW i \in Nat \ {0}, NEW j \in Nat \ {0}, i <= j, NEW k
      PROVE  /\ Breaks(s, 1 .. i - 1, k) \in Nat /\ Breaks(s, 1 .. j - 1, k) \in Nat
             /\ Breaks(s, 1 .. i - 1, k) <= Breaks(s, 1 .. j - 1, k)
  <2> DEFINE A == {l \in 1 .. i - 1 : s[l] = k}
             B == {l \in 1 .. j - 1 : s[l] = k}
  <2>1. A \subseteq B /\ B \subseteq 1 .. j - 1 /\ IsFiniteSet(1 .. j - 1)
    BY <1>2, FS_Interval
  <2> HIDE DEF A, B
  <2>2. IsFiniteSet(B) /\ IsFiniteSet(A) /\ Cardinality(A) <= Cardinality(B)
    BY <2>1, FS_Subset
  <2> QED
    BY <2>2, FS_CardinalityType DEF Breaks, A, B
<1>3. 1 .. 1 - 1 = {}
  OBVIOUS
<1>4. Credit!LineOf(s, 1) = 0
  BY <1>1, <1>3, NoBreaks
<1>5. ASSUME NEW i \in Nat \ {0}, NEW j \in Nat \ {0}, i <= j
      PROVE  Credit!LineOf(s, i) \in Nat /\ Credit!LineOf(s, i) <= Credit!LineOf(s, j)
  <2>1. /\ Breaks(s, 1 .. i - 1, "nl") \in Nat /\ Breaks(s, 1 .. j - 1, "nl") \in Nat
        /\ Breaks(s, 1 .. i - 1, "nl") <= Breaks(s, 1 .. j - 1, "nl")
    BY <1>2, <1>5
  <2>2. /\ Breaks(s, 1 .. i - 1, "nlnl") \in Nat /\ Breaks(s, 1 .. j - 1, "nlnl") \in Nat
        /\ Breaks(s, 1 .. i - 1, "nlnl") <= Breaks(s, 1 .. j - 1, "nlnl")
    BY <1>2, <1>5
  <2> QED
    BY <1>1, <2>1, <2>2 DEF BreaksOf
<1> QED
  BY <1>4, <1>5

\* A response has one eos at most, at its end.
Response(s) ==
  /\ s \in Seq(CreditTokens)
  /\ \A i \in DOMAIN s : s[i] = "eos" => i = Len(s)

\* The lines of a well-formed list are its ranks.
LEMMA LinesOfAList ==
  ASSUME NEW s, Response(s), s # <<>>, Credit!WellFormed(s)
  PROVE  \E m \in Nat : /\ Credit!Recs(s) = [k \in 1 .. m |-> k - 1]
                        /\ \A r \in 0 .. m - 1 : \E i \in DOMAIN s : Credit!LineOf(s, i) = r /\ s[i] = "item"
<1> DEFINE L(i) == Credit!LineOf(s, i)
           n == Len(s)
           S == {l \in {L(i) : i \in DOMAIN s} : Credit!ItemOn(s, l)}
           m == IF Credit!ItemOn(s, L(n)) THEN L(n) + 1 ELSE L(n)
<1>1. n \in Nat \ {0} /\ DOMAIN s = 1 .. n
  BY DEF Response
<1>2. /\ \A i \in 1 .. n : L(i) \in Nat /\ L(i) <= L(n)
      /\ \A i \in DOMAIN s : L(i) \in Nat
  <2>1. /\ \A i \in Nat \ {0} : L(i) \in Nat
        /\ \A i, j \in Nat \ {0} : i <= j => L(i) <= L(j)
    BY LinesGoUp
  <2>2. \A i \in 1 .. n : i \in Nat \ {0} /\ i <= n
    BY <1>1
  <2> HIDE DEF L, n
  <2> QED
    BY <1>1, <2>1, <2>2
<1>3. L(n) \in Nat
  BY <1>1, <1>2
<1>4. \A l : Credit!ItemOn(s, l) <=> \E i \in DOMAIN s : L(i) = l /\ s[i] = "item"
  BY DEF Credit!ItemOn
<1>5. \A l \in 0 .. L(n) - 1 : Credit!ItemOn(s, l)
  BY DEF Credit!WellFormed
<1> HIDE DEF L
<1>6. \A l \in S : l \in 0 .. L(n)
  BY <1>1, <1>2, <1>3
<1>7. \A l \in 0 .. L(n) : Credit!ItemOn(s, l) <=> l \in S
  BY <1>4
<1>8. \A l : l \in S <=> l \in 0 .. m - 1
  <2>1. ASSUME NEW l \in S PROVE l \in 0 .. m - 1
    BY <1>3, <1>6
  <2>2. ASSUME NEW l \in 0 .. m - 1 PROVE l \in S
    <3>1. l \in 0 .. L(n) - 1 \/ (l = L(n) /\ Credit!ItemOn(s, l))
      BY <1>3
    <3>2. l \in 0 .. L(n)
      BY <1>3
    <3> HIDE DEF S
    <3> QED
      BY <1>5, <1>7, <3>1, <3>2
  <2> QED
    BY <2>1, <2>2
<1>9. m \in Nat
  BY <1>3
<1>10. Credit!Recs(s) = Ascending(S)
  BY SameAscending DEF Credit!Recs, L
<1>11. \A l \in S : \E i \in DOMAIN s : L(i) = l /\ s[i] = "item"
  BY <1>4
<1> HIDE DEF S, m
<1>12. S = 0 .. m - 1
  BY <1>8
<1>13. Credit!Recs(s) = [k \in 1 .. m |-> k - 1]
  BY <1>9, <1>10, <1>12, AscendingFromNought
<1> QED
  BY <1>9, <1>11, <1>12, <1>13 DEF L

\* What ranks and terms are after Credit.
Credited(s) ==
  /\ lines = Credit!Recs(s)
  /\ ranks = [i \in DOMAIN s |-> Credit!Rank(s, i)]
  /\ terms = [i \in DOMAIN s |-> Credit!Term(s, i)]

\* What is known of the constants.
CreditConstants == MaxLength \in Nat \ {0} /\ RecNum \in Nat \ {0}

\* LoopsAssumption says so.
LEMMA CreditConstantsAre == CreditConstants
BY LoopsAssumption DEF LoopsAssumption, Credit!CreditAssumption, CreditConstants

\* The ranks of a credited response are its lines.
LEMMA RanksAreLines ==
  ASSUME NEW s, Response(s), NEW i \in DOMAIN s
  PROVE  Credit!ItemId(s, i) = Credit!LineOf(s, i) /\ Credit!ItemId(s, i) \in Nat
<1>1. s \in Seq(CreditTokens) /\ i \in 1 .. Len(s) + 1 /\ i \in Nat \ {0}
  BY DEF Response
<1> QED
  BY <1>1, ItemIdIsLine, LinesGoUp

\* A credited response has the credit that the properties ask for.
LEMMA CreditFollows ==
  ASSUME Response(response), Credited(response)
  PROVE  Credit!CreditFollowsTheItem
<1> SUFFICES ASSUME response # <<>>, Credit!WellFormed(response)
             PROVE  Credit!OnItsLine(response) /\ Credit!Reached
  BY DEF Credit!CreditFollowsTheItem
<1> DEFINE s == response
<1>1. PICK m \in Nat : /\ Credit!Recs(s) = [k \in 1 .. m |-> k - 1]
                       /\ \A r \in 0 .. m - 1 : \E i \in DOMAIN s : Credit!LineOf(s, i) = r /\ s[i] = "item"
  BY LinesOfAList
<1>2. lines = [k \in 1 .. m |-> k - 1] /\ Len(lines) = m
  BY <1>1 DEF Credited
<1>3. /\ DOMAIN ranks = DOMAIN s
      /\ \A i \in DOMAIN s :
           ranks[i] = IF Credit!ItemId(s, i) >= RecNum \/ s[i] = "eos" THEN -1 ELSE Credit!LineOf(s, i)
  BY RanksAreLines DEF Credited, Credit!Rank, Credit!Overflow
<1>4. Credit!OnItsLine(response)
  <2> SUFFICES ASSUME NEW i \in DOMAIN s, ranks[i] \in 0 .. m - 1
               PROVE  Credit!LineOf(s, i) = lines[ranks[i] + 1]
    BY <1>2 DEF Credit!OnItsLine
  <2>1. ranks[i] = Credit!LineOf(s, i)
    BY <1>3
  <2>2. ranks[i] + 1 \in 1 .. m /\ (ranks[i] + 1) - 1 = ranks[i]
    OBVIOUS
  <2> QED
    BY <1>2, <2>1, <2>2
<1>5. Credit!Reached
  <2> DEFINE least == Credit!Min({Len(lines), RecNum})
  <2>1. RecNum \in Nat /\ m \in Nat
    BY CreditConstantsAre DEF CreditConstants
  <2>2. least \in Int /\ least <= m /\ least <= RecNum
    <3>1. \E x \in {m, RecNum} : \A y \in {m, RecNum} : x <= y
      BY <2>1
    <3>2. least \in {m, RecNum} /\ \A y \in {m, RecNum} : least <= y
      BY <1>2, <3>1 DEF Credit!Min
    <3> HIDE DEF least
    <3> QED
      BY <2>1, <3>2
  <2> HIDE DEF least
  <2>3. ASSUME NEW r \in 0 .. least - 1 PROVE \E i \in DOMAIN ranks : ranks[i] = r
    <3>1. r \in 0 .. m - 1 /\ ~ (r >= RecNum)
      BY <2>1, <2>2
    <3>2. PICK i \in DOMAIN s : Credit!LineOf(s, i) = r /\ s[i] = "item"
      BY <1>1, <3>1
    <3>3. Credit!ItemId(s, i) = r
      BY <3>2, RanksAreLines
    <3> QED
      BY <1>3, <3>1, <3>2, <3>3
  <2> QED
    BY <2>3 DEF Credit!Reached, least
<1> QED
  BY <1>4, <1>5

\* In a response that was truncated, or had no need of it, the appended eos alone overflows.
Truncated(s) ==
  truncate => \A i \in DOMAIN s : Credit!Overflow(s, i) => i = Len(s) /\ s[i] = "eos"

\* The line of a place depends on what is before it.
LEMMA SameLines ==
  ASSUME NEW s, NEW u, NEW i \in Nat, \A j \in 1 .. i - 1 : u[j] = s[j]
  PROVE  Credit!LineOf(u, i) = Credit!LineOf(s, i)
<1>1. \A k : {j \in 1 .. i - 1 : u[j] = k} = {j \in 1 .. i - 1 : s[j] = k}
  OBVIOUS
<1> QED
  BY <1>1 DEF Credit!LineOf

\* The first place past the last rank, if there is one.
LEMMA CutIs ==
  ASSUME NEW s, Response(s)
  PROVE  /\ Credit!Cut(s) \in 0 .. Len(s)
         /\ Credit!Cut(s) = 0 => \A i \in DOMAIN s : ~ Credit!Overflow(s, i)
         /\ \A i \in 1 .. Credit!Cut(s) - 1 : ~ Credit!Overflow(s, i)
<1> DEFINE n == Len(s)
           f == [i \in DOMAIN s |-> Credit!ItemId(s, i)]
           I == {i \in 1 .. Len(f) : f[i] >= RecNum}
<1>1. n \in Nat /\ DOMAIN s = 1 .. n
  BY DEF Response
<1>2. Len(f) = n /\ \A i \in 1 .. n : f[i] = Credit!ItemId(s, i)
  BY <1>1
<1>3. Credit!Cut(s) = IF I # {} THEN Credit!Min(I) ELSE 0
  BY DEF Credit!Cut, Credit!SelectInSeq
<1> HIDE DEF f
<1>4. \A i \in 1 .. n : i \in I <=> Credit!Overflow(s, i)
  BY <1>1, <1>2 DEF Credit!Overflow
<1>5. I \subseteq 1 .. n
  BY <1>2
<1> HIDE DEF I, n
<1>6. CASE I = {}
  BY <1>1, <1>3, <1>4, <1>6 DEF n
<1>7. CASE I # {}
  <2>1. I \in SUBSET Int /\ IsFiniteSet(I)
    <3>1. IsFiniteSet(1 .. n) /\ 1 .. n \subseteq Int
      BY <1>1, FS_Interval
    <3> QED
      BY <1>5, <3>1, FS_Subset
  <2>2. Credit!Cut(s) \in I /\ \A j \in I : Credit!Cut(s) <= j
    <3>1. \E e \in I : \A d \in I : e <= d
      BY <1>7, <2>1, FiniteLeast
    <3> QED
      BY <1>3, <1>7, <3>1 DEF Credit!Min
  <2>3. Credit!Cut(s) \in 1 .. n
    BY <1>5, <2>2
  <2>4. \A i \in 1 .. Credit!Cut(s) - 1 : i \in 1 .. n /\ ~ (Credit!Cut(s) <= i)
    BY <1>1, <2>3
  <2> QED
    BY <1>1, <1>4, <2>2, <2>3, <2>4 DEF n
<1> QED
  BY <1>6, <1>7

\* Truncation leaves a response in which the appended eos alone overflows.
LEMMA TruncatesRight ==
  ASSUME Response(completion)
  PROVE  Response(Credit!MaybeTruncated(completion)) /\ Truncated(Credit!MaybeTruncated(completion))
<1> DEFINE s == completion
           c == Credit!Cut(s)
           cut == SubSeq(s, 1, c - 1)
           u == Append(cut, "eos")
<1>1. CASE truncate /\ c # 0
  <2>1. c \in 1 .. Len(s) /\ s \in Seq(CreditTokens)
    BY <1>1, CutIs DEF Response
  <2> HIDE DEF c
  <2>2. /\ cut \in Seq(CreditTokens) /\ Len(cut) = c - 1 /\ \A j \in 1 .. c - 1 : cut[j] = s[j]
    BY <2>1
  <2> HIDE DEF cut
  <2>3. /\ u \in Seq(CreditTokens) /\ Len(u) = c /\ u[c] = "eos" /\ DOMAIN u = 1 .. c
        /\ \A j \in 1 .. c - 1 : u[j] = s[j]
    BY <2>1, <2>2 DEF CreditTokens
  <2> HIDE DEF u
  <2>4. \A j \in 1 .. c - 1 : j \in DOMAIN s /\ j # Len(s)
    BY <2>1
  <2>5. \A j \in 1 .. c : j = c \/ j \in 1 .. c - 1
    BY <2>1
  <2>6. Response(u)
    BY <2>3, <2>4, <2>5 DEF Response
  <2>7. ASSUME NEW i \in 1 .. c - 1 PROVE ~ Credit!Overflow(u, i)
    <3>1. i \in Nat /\ i \in DOMAIN u /\ i \in DOMAIN s /\ \A j \in 1 .. i - 1 : j \in 1 .. c - 1
      BY <2>1, <2>3, <2>4
    <3>2. Credit!LineOf(u, i) = Credit!LineOf(s, i)
      BY <2>3, <3>1, SameLines
    <3>3. Credit!ItemId(u, i) = Credit!ItemId(s, i)
      BY <2>6, <3>1, <3>2, RanksAreLines
    <3>4. ~ Credit!Overflow(s, i)
      BY CutIs DEF c
    <3> QED
      BY <3>3, <3>4 DEF Credit!Overflow
  <2>8. Truncated(u)
    BY <2>3, <2>5, <2>7 DEF Truncated
  <2>9. Credit!MaybeTruncated(s) = u
    BY <1>1 DEF Credit!MaybeTruncated, u, cut, c
  <2> QED
    BY <2>6, <2>8, <2>9
<1>2. CASE ~ (truncate /\ c # 0)
  <2>1. Credit!MaybeTruncated(s) = s
    BY <1>2 DEF Credit!MaybeTruncated
  <2>2. Truncated(s)
    BY <1>2, CutIs DEF Truncated
  <2> QED
    BY <2>1, <2>2
<1> QED
  BY <1>1, <1>2

\* The eos is judged with one item at most.
LEMMA EosIsJudged ==
  ASSUME Response(response), Credited(response), Truncated(response)
  PROVE  Credit!EosIsJudgedOnce
<1> DEFINE s == response
           n == Len(s)
           I(i) == Credit!ItemId(s, i)
           T(i) == Credit!Term(s, i)
<1>0. n \in Nat /\ DOMAIN s = 1 .. n /\ \A i \in DOMAIN s : s[i] = "eos" => i = n
  BY DEF Response
<1>1. RecNum \in Nat
  BY CreditConstantsAre DEF CreditConstants
<1>2. /\ DOMAIN ranks = DOMAIN s /\ DOMAIN terms = DOMAIN s
      /\ \A i \in DOMAIN s : /\ ranks[i] = IF Credit!Overflow(s, i) \/ s[i] = "eos" THEN -1 ELSE I(i)
                             /\ terms[i] = T(i)
  BY DEF Credited, Credit!Rank
<1>3. \A i \in DOMAIN s : I(i) \in Nat /\ (Credit!Overflow(s, i) <=> I(i) >= RecNum)
  BY RanksAreLines DEF Credit!Overflow
<1>4. ASSUME NEW i \in DOMAIN s, s[i] = "eos"
      PROVE  \/ Credit!Overflow(s, i) /\ ~ Credit!ExactLength(s) /\ ~ Credit!EarlyStop(s)
             \/ ~ Credit!Overflow(s, i) /\ Credit!ExactLength(s) /\ ~ Credit!EarlyStop(s)
             \/ ~ Credit!Overflow(s, i) /\ ~ Credit!ExactLength(s) /\ Credit!EarlyStop(s)
  <2>1. i = n /\ s # <<>>
    BY <1>0, <1>4
  <2>2. \A j \in DOMAIN s : I(j) <= I(i)
    <3>1. \A j \in DOMAIN s : j \in Nat \ {0} /\ j <= n
      BY <1>0
    <3>2. \A j \in DOMAIN s : Credit!LineOf(s, j) <= Credit!LineOf(s, i)
      BY <2>1, <3>1, LinesGoUp
    <3> QED
      BY <3>2, RanksAreLines
  <2>3. Credit!ItemsEmitted(s) = I(i) + 1
    <3> DEFINE V == {I(j) : j \in DOMAIN s}
    <3>1. I(i) \in V /\ \A x \in V : I(i) >= x
      BY <1>3, <2>2
    <3>2. V \subseteq Nat
      BY <1>3
    <3> HIDE DEF I, V
    <3>3. Credit!Max(V) \in V /\ \A x \in V : Credit!Max(V) >= x
      BY <3>1 DEF Credit!Max
    <3>4. Credit!Max(V) = I(i)
      <4>1. Credit!Max(V) \in Nat /\ I(i) \in Nat /\ I(i) >= Credit!Max(V) /\ Credit!Max(V) >= I(i)
        BY <3>1, <3>2, <3>3
      <4> QED
        BY <4>1
    <3> QED
      BY <2>1, <3>4 DEF Credit!ItemsEmitted, I, V
  <2>4. Credit!Terminated(s)
    BY <1>0, <1>4 DEF Credit!Terminated, Credit!Contains
  <2> HIDE DEF I
  <2>5. Credit!Overflow(s, i) <=> ~ (Credit!ItemsEmitted(s) < RecNum) /\ Credit!ItemsEmitted(s) # RecNum
    BY <1>1, <1>3, <2>3
  <2>6. ~ Credit!Overflow(s, i) => \A j \in DOMAIN s : ~ Credit!Overflow(s, j)
    BY <1>1, <1>3, <2>2
  <2>7. Credit!ItemsEmitted(s) >= RecNum <=> ~ (Credit!ItemsEmitted(s) < RecNum)
    BY <1>1, <1>3, <2>3
  <2> QED
    BY <2>4, <2>5, <2>6, <2>7 DEF Credit!ExactLength, Credit!EarlyStop
<1>5. ASSUME NEW i \in DOMAIN s
      PROVE  /\ "extra_token_penalty" \in T(i) <=> Credit!Overflow(s, i)
             /\ "end_of_list_reward" \in T(i) <=> s[i] = "eos" /\ Credit!ExactLength(s)
             /\ "early_stop_penalty" \in T(i) <=> s[i] = "eos" /\ Credit!EarlyStop(s)
             /\ T(i) \subseteq {"extra_token_penalty", "end_of_list_reward", "early_stop_penalty"}
  BY DEF Credit!Term
<1> HIDE DEF T, I
<1>6. ASSUME NEW i \in DOMAIN s, s[i] = "eos"
      PROVE  /\ \E t : T(i) = {t}
             /\ Credit!Overflow(s, i) => T(i) = {"extra_token_penalty"}
  <2>1. CASE Credit!Overflow(s, i)
    <3>1. T(i) = {"extra_token_penalty"}
      BY <1>4, <1>5, <1>6, <2>1
    <3> QED
      BY <3>1
  <2>2. CASE ~ Credit!Overflow(s, i) /\ Credit!ExactLength(s)
    <3>1. T(i) = {"end_of_list_reward"}
      BY <1>4, <1>5, <1>6, <2>2
    <3> QED
      BY <2>2, <3>1
  <2>3. CASE ~ Credit!Overflow(s, i) /\ ~ Credit!ExactLength(s)
    <3>1. T(i) = {"early_stop_penalty"}
      BY <1>4, <1>5, <1>6, <2>3
    <3> QED
      BY <2>3, <3>1
  <2> QED
    BY <2>1, <2>2, <2>3
<1>7. ASSUME NEW i \in DOMAIN s
      PROVE  IF s[i] = "eos" THEN ranks[i] = -1 /\ Credit!Cardinality(terms[i]) = 1
             ELSE terms[i] \subseteq {"extra_token_penalty"}
  <2>1. CASE s[i] = "eos"
    <3>1. PICK t : T(i) = {t}
      BY <1>6, <2>1
    <3>2. Credit!Cardinality({t}) = 1
      BY CreditCardinality, FS_Singleton
    <3> QED
      BY <1>2, <2>1, <3>1, <3>2
  <2>2. CASE s[i] # "eos"
    BY <1>2, <1>5, <2>2
  <2> QED
    BY <2>1, <2>2
<1>8. ASSUME NEW i \in DOMAIN s, truncate, Credit!Overflow(s, i)
      PROVE  i = n /\ s[i] = "eos" /\ terms[i] = {"extra_token_penalty"}
  BY <1>2, <1>6, <1>8 DEF Truncated
<1> QED
  BY <1>7, <1>8 DEF Credit!EosIsJudgedOnce

-----------------------------------------------------------------------------

\* The inductive invariant of the part "credit".
CreditInv ==
  /\ stage \in {"generated", "rollout", "credited"}
  /\ stage = "generated" => Response(completion)
  /\ stage # "generated" => Response(response) /\ Truncated(response)
  /\ stage = "credited" => Credited(response)

\* Every completion the model enumerates is a response.
LEMMA CompletionsAreResponses ==
  ASSUME NEW s \in Credit!Completion
  PROVE  Response(s)
<1> DEFINE Words == {"item", "text", "nl", "nlnl"}
<1>1. ASSUME NEW u \in Credit!Text
      PROVE  u \in Seq(Words) /\ \A i \in DOMAIN u : u[i] # "eos"
  <2>1. PICK n \in 0 .. MaxLength : u \in [1 .. n -> Words]
    BY DEF Credit!Text
  <2>2. n \in Nat
    BY CreditConstantsAre DEF CreditConstants
  <2> QED
    BY <2>1, <2>2
<1>2. CASE s \in Credit!Text
  <2>1. s \in Seq(Words) /\ \A i \in DOMAIN s : s[i] # "eos"
    BY <1>1, <1>2
  <2> QED
    BY <2>1 DEF Response, CreditTokens
<1>3. CASE s \notin Credit!Text
  <2>1. PICK u \in Credit!Text : s = Append(u, "eos")
    BY <1>3 DEF Credit!Completion
  <2>2. u \in Seq(CreditTokens) /\ \A i \in DOMAIN u : u[i] # "eos"
    BY <1>1 DEF CreditTokens
  <2>3. /\ s \in Seq(CreditTokens) /\ Len(s) = Len(u) + 1 /\ DOMAIN s = 1 .. Len(u) + 1
        /\ \A i \in 1 .. Len(u) : s[i] = u[i]
    BY <2>1, <2>2 DEF CreditTokens
  <2>4. \A i \in DOMAIN s : i = Len(s) \/ i \in 1 .. Len(u)
    BY <2>2, <2>3
  <2> QED
    BY <2>2, <2>3, <2>4 DEF Response
<1> QED
  BY <1>2, <1>3

\* In a well-formed list the credit of each recommendation lands on the tokens of its own
\* line and on no other, and in any list the eos has one length term and no rank, and a
\* truncated list pays for its appended eos as for overflow, whatever the length and the
\* number of ranks (rankgrpo_algorithm.py:260-300, 379-401, rankgrpo_reward.py:48-72).
THEOREM CreditAlwaysFollowsTheItem == Spec => []CreditFollowsTheItem
<1>1. Init => (part = "credit" => CreditInv)
  BY CompletionsAreResponses DEF Init, Credit!Init, CreditInv
<1>2. (part = "credit" => CreditInv) /\ [Next]_vars => (part = "credit" => CreditInv)'
  <2> SUFFICES ASSUME part = "credit" => CreditInv, [Next]_vars, part' = "credit"
               PROVE  CreditInv'
    OBVIOUS
  <2>1. part = "credit" /\ CreditInv
    BY DEF Next, vars, WavesStep, ServerStep, ShardsStep, DispatchStep, CreditStep, MatchStep
  <2>2. CASE Credit!Rollout
    <3>1. /\ stage = "generated" /\ stage' = "rollout"
          /\ response' = Credit!MaybeTruncated(completion) /\ UNCHANGED truncate
      BY <2>2 DEF Credit!Rollout
    <3>2. Response(response') /\ Truncated(response')
      BY <2>1, <3>1, TruncatesRight DEF CreditInv
    <3>3. Response(response)' /\ Truncated(response)'
      BY <3>1, <3>2 DEF Response, Truncated, Credit!Overflow
    <3> QED
      BY <3>1, <3>3 DEF CreditInv
  <2>3. CASE Credit!Credit
    <3>1. /\ stage = "rollout" /\ stage' = "credited" /\ UNCHANGED <<response, truncate>>
          /\ lines' = Credit!Recs(response)
          /\ ranks' = [i \in DOMAIN response |-> Credit!Rank(response, i)]
          /\ terms' = [i \in DOMAIN response |-> Credit!Term(response, i)]
      BY <2>3 DEF Credit!Credit
    <3>2. Response(response)' /\ Truncated(response)'
      BY <2>1, <3>1 DEF CreditInv, Response, Truncated
    <3>3. Credited(response)'
      BY <3>1 DEF Credited
    <3> QED
      BY <3>1, <3>2, <3>3 DEF CreditInv
  <2>4. CASE UNCHANGED creditVars
    BY <2>1, <2>4 DEF creditVars, CreditInv, Response, Truncated, Credited
  <2> QED
    BY <2>1, <2>2, <2>3, <2>4 DEF Next, vars, WavesStep, ServerStep, ShardsStep, DispatchStep, CreditStep,
                                 MatchStep, Credit!Step
<1>3. (part = "credit" => CreditInv) => CreditFollowsTheItem
  <2> SUFFICES ASSUME CreditInv PROVE Credit!CreditFollowsTheItem /\ Credit!EosIsJudgedOnce
    BY DEF CreditFollowsTheItem
  <2>1. CASE stage = "credited"
    BY <2>1, CreditFollows, EosIsJudged DEF CreditInv
  <2>2. CASE stage # "credited"
    BY <2>2 DEF Credit!CreditFollowsTheItem, Credit!EosIsJudgedOnce
  <2> QED
    BY <2>1, <2>2
<1> QED
  BY <1>1, <1>2, <1>3, PTL DEF Spec

-------------------------------------------------------------------------------
(* The dispatch to the workers (RankDispatch).                               *)

\* The order of numbers is that of the model.
LEMMA DispatchAscending == ASSUME NEW S PROVE Dispatch!Ascending(S) = Ascending(S)
BY Zenon DEF Dispatch!Ascending, Ascending, Dispatch!Ordered, Ordered, Dispatch!Cardinality, Cardinality

\* The runs of s: the g-th is from st[g] up to the place before st[g + 1].
Blocks(s, st, m) ==
  /\ m \in Nat \ {0} /\ st \in [1 .. m + 1 -> 1 .. Len(s) + 1]
  /\ st[1] = 1 /\ st[m + 1] = Len(s) + 1
  /\ \A g, h \in 1 .. m + 1 : g < h => st[g] < st[h]
  /\ \A g \in 1 .. m : \A i \in st[g] .. st[g + 1] - 1 : s[i] = s[st[g]]
  /\ \A i \in 1 .. Len(s) - 1 : s[i] = s[i + 1] => \A g \in 1 .. m + 1 : st[g] # i + 1
  /\ Dispatch!Runs(s) = [g \in 1 .. m |-> [k \in 1 .. st[g + 1] - st[g] |-> st[g] + k - 1]]

\* The runs of a batch are such blocks.
LEMMA RunsAreBlocks ==
  ASSUME NEW D, NEW s \in Seq(D), s # <<>>
  PROVE  \E m, st : Blocks(s, st, m)
<1> DEFINE n == Len(s)
           z == n + 1
           S == {i \in DOMAIN s : i = 1 \/ s[i] # s[i - 1]}
           T == {i \in 1 .. z - 1 : i = 1 \/ s[i - 1] # s[i]}
           starts == Ascending(S)
           ends == Append(Tail(starts), n + 1)
<1>1. n \in Nat \ {0} /\ DOMAIN s = 1 .. n
  OBVIOUS
<1>2. z \in Int /\ 1 < z /\ z - 1 = n
  BY <1>1
<1>3. S = T
  BY <1>1, <1>2
<1>4. Dispatch!Runs(s) = [g \in DOMAIN starts |-> [k \in 1 .. ends[g] - starts[g] |-> starts[g] + k - 1]]
  BY DispatchAscending DEF Dispatch!Runs
<1> HIDE DEF S, n, z
<1>5. PICK m, st : Stretches(s, 1, z, st, m)
  BY <1>2, StretchesAre, 1 \in Int
<1>6. starts = [g \in 1 .. m |-> st[g]]
  BY <1>3, <1>5 DEF Stretches
<1> HIDE DEF starts, T
<1>7. /\ m \in Nat \ {0} /\ st \in [1 .. m + 1 -> 1 .. n + 1]
      /\ st[1] = 1 /\ st[m + 1] = n + 1
      /\ \A g, h \in 1 .. m + 1 : g < h => st[g] < st[h]
      /\ \A g \in 1 .. m : \A i \in st[g] .. st[g + 1] - 1 : s[i] = s[st[g]]
  BY <1>5 DEF Stretches, z
<1>8. ASSUME NEW i \in 1 .. n - 1, s[i] = s[i + 1], NEW g \in 1 .. m + 1
      PROVE  st[g] # i + 1
  <2>1. i + 1 \in 1 + 1 .. z - 1 /\ (i + 1) - 1 = i
    BY <1>1, <1>2
  <2> QED
    BY <1>5, <1>8, <2>1 DEF Stretches
<1>9. \A g \in 1 .. m : ends[g] = st[g + 1]
  <2>1. starts \in [1 .. m -> Int]
    <3>1. \A g \in 1 .. m : st[g] \in Int
      BY <1>1, <1>7
    <3> QED
      BY <1>6, <3>1
  <2>2. starts \in Seq(Int) /\ Len(starts) = m /\ starts # <<>>
    BY <1>7, <2>1
  <2>3. Len(Tail(starts)) = m - 1 /\ \A g \in 1 .. m - 1 : Tail(starts)[g] = starts[g + 1]
    BY <1>7, <2>2
  <2>4. Tail(starts) \in Seq(Int)
    BY <2>2
  <2>5. ends[m] = n + 1 /\ \A g \in 1 .. m - 1 : ends[g] = Tail(starts)[g]
    BY <1>1, <1>7, <2>3, <2>4
  <2>6. \A g \in 1 .. m : g = m \/ (g \in 1 .. m - 1 /\ g + 1 \in 1 .. m)
    BY <1>7
  <2> HIDE DEF ends
  <2> QED
    BY <1>6, <1>7, <2>3, <2>5, <2>6
<1>10. DOMAIN starts = 1 .. m /\ \A g \in 1 .. m : starts[g] = st[g]
  BY <1>6
<1> HIDE DEF ends
<1>11. Dispatch!Runs(s) = [g \in 1 .. m |-> [k \in 1 .. st[g + 1] - st[g] |-> st[g] + k - 1]]
  BY <1>4, <1>9, <1>10
<1>12. Blocks(s, st, m)
  BY <1>7, <1>8, <1>11 DEF Blocks, n
<1> QED
  BY <1>12

-----------------------------------------------------------------------------
(* The packing.                                                            *)

\* The rows of the batch.
N == Len(keys)

\* What is known of the constants.
LEMMA DispatchConstants == MaxRows \in Nat \ {0} /\ MaxWorkers \in Nat \ {0}
BY LoopsAssumption DEF LoopsAssumption, Dispatch!DispatchAssumption

\* The batch and its workers.
DispatchTypes ==
  /\ keys \in Seq(Key) /\ keys # <<>>
  /\ chunks \in 1 .. MaxWorkers

\* There are rows, and workers for them.
LEMMA TargetIs ==
  ASSUME DispatchTypes
  PROVE  Dispatch!Target \in Nat /\ chunks \in Nat \ {0} /\ N \in Nat \ {0}
<1>1. chunks \in Nat \ {0} /\ N \in Nat \ {0}
  BY DispatchConstants DEF DispatchTypes, N
<1>2. N + chunks - 1 \in Nat
  BY <1>1
<1>3. \A a \in Nat, b \in Nat \ {0} : a \div b \in Nat
  OBVIOUS
<1> QED
  BY <1>1, <1>2, <1>3 DEF Dispatch!Target, N

\* The numbers from a up to the one before b, in order.
Span(a, b) == [k \in 1 .. b - a |-> a + k - 1]

\* Two spans that meet are one.
LEMMA SpansJoin ==
  ASSUME NEW a \in Nat, NEW b \in Nat, NEW c \in Nat, a <= b, b <= c
  PROVE  /\ Span(a, b) \in Seq(Nat) /\ Len(Span(a, b)) = b - a
         /\ Span(a, b) \o Span(b, c) = Span(a, c)
<1>1. ASSUME NEW x \in Nat, NEW y \in Nat, x <= y
      PROVE  /\ Span(x, y) \in Seq(Nat) /\ Len(Span(x, y)) = y - x
             /\ DOMAIN Span(x, y) = 1 .. y - x /\ \A k \in 1 .. y - x : Span(x, y)[k] = x + k - 1
  <2> DEFINE n == y - x
  <2>1. n \in Nat /\ Span(x, y) = [k \in 1 .. n |-> x + k - 1]
    BY <1>1 DEF Span
  <2> HIDE DEF n
  <2>2. Span(x, y) \in [1 .. n -> Nat] /\ \A k \in 1 .. n : Span(x, y)[k] = x + k - 1
    BY <2>1
  <2>3. Span(x, y) \in Seq(Nat) /\ Len(Span(x, y)) = n /\ DOMAIN Span(x, y) = 1 .. n
    BY <2>1, <2>2
  <2> QED
    BY <2>2, <2>3 DEF n
<1> DEFINE s == Span(a, b)
           t == Span(b, c)
           u == Span(a, c)
<1>2. /\ s \in Seq(Nat) /\ t \in Seq(Nat) /\ u \in Seq(Nat) /\ Len(s) = b - a /\ Len(t) = c - b /\ Len(u) = c - a
      /\ \A k \in 1 .. b - a : s[k] = a + k - 1
      /\ \A k \in 1 .. c - b : t[k] = b + k - 1
      /\ \A k \in 1 .. c - a : u[k] = a + k - 1
  <2>1. s \in Seq(Nat) /\ Len(s) = b - a /\ \A k \in 1 .. b - a : s[k] = a + k - 1
    BY <1>1
  <2>2. t \in Seq(Nat) /\ Len(t) = c - b /\ \A k \in 1 .. c - b : t[k] = b + k - 1
    BY <1>1
  <2>3. u \in Seq(Nat) /\ Len(u) = c - a /\ \A k \in 1 .. c - a : u[k] = a + k - 1
    <3>1. a <= c
      OBVIOUS
    <3> QED
      BY <1>1, <3>1
  <2> HIDE DEF s, t, u
  <2> QED
    BY <2>1, <2>2, <2>3
<1> HIDE DEF s, t, u
<1>3. /\ s \o t \in Seq(Nat) /\ Len(s \o t) = c - a
      /\ \A p \in 1 .. b - a : (s \o t)[p] = s[p]
      /\ \A p \in 1 .. c - b : (s \o t)[(b - a) + p] = t[p]
  <2>1. IsJoin(s \o t, s, t) /\ s \o t \in Seq(Nat)
    BY <1>2, JoinIs
  <2> DEFINE w == s \o t
  <2> HIDE DEF w
  <2>2. /\ Len(w) = (b - a) + (c - b)
        /\ \A p \in 1 .. b - a : w[p] = s[p]
        /\ \A p \in 1 .. c - b : w[(b - a) + p] = t[p]
    BY <1>2, <2>1 DEF IsJoin, w
  <2>3. (b - a) + (c - b) = c - a
    OBVIOUS
  <2> QED
    BY <2>1, <2>2, <2>3 DEF w
<1>4. ASSUME NEW p \in 1 .. c - a PROVE (s \o t)[p] = u[p]
  <2>1. CASE p \in 1 .. b - a
    BY <1>2, <1>3, <2>1
  <2>2. CASE p \notin 1 .. b - a
    <3> DEFINE q == p - (b - a)
    <3>1. q \in 1 .. c - b /\ (b - a) + q = p /\ b + q - 1 = a + p - 1
      BY <2>2
    <3> HIDE DEF q
    <3>2. (s \o t)[(b - a) + q] = b + q - 1
      BY <1>2, <1>3, <3>1
    <3> QED
      BY <1>2, <3>1, <3>2
  <2> QED
    BY <2>1, <2>2
<1>5. s \o t = u
  BY <1>2, <1>3, <1>4, SeqEqual
<1> QED
  BY <1>2, <1>5 DEF s, t, u

\* A span to its own beginning is empty.
LEMMA SpansAreEmpty ==
  ASSUME NEW a \in Int, NEW b \in Int
  PROVE  Span(a, a) = Span(b, b)
<1>1. a - a = 0 /\ b - b = 0 /\ 1 .. 0 = {}
  OBVIOUS
<1> QED
  BY <1>1 DEF Span

\* The first k groups of a batch with the runs st are packed: worker w has the groups
\* from lo[w] up to the one before lo[w + 1].
Packing(k, v, lo, st) ==
  /\ lo \in [1 .. chunks + 1 -> 1 .. k + 1] /\ lo[1] = 1
  /\ v.at \in 1 .. chunks
  /\ v.chunk = [w \in 1 .. chunks |-> Span(st[lo[w]], st[lo[w + 1]])]
  /\ v = [at |-> v.at, chunk |-> v.chunk]
  /\ \A w \in 1 .. chunks : lo[w] <= lo[w + 1]
  /\ \A w \in 1 .. chunks : w >= v.at => lo[w + 1] = k + 1
  /\ \A w \in 1 .. chunks - 1 : st[lo[w + 1]] - st[lo[w]] > Dispatch!Target => lo[w + 1] = lo[w] + 1

\* Packing one more group keeps the packing.
LEMMA OneMoreGroup ==
  ASSUME DispatchTypes, NEW m, NEW st, Blocks(keys, st, m), NEW k \in 0 .. m - 1,
         NEW v, NEW lo, Packing(k, v, lo, st)
  PROVE  \E new : Packing(k + 1, Dispatch!Pack(v, Dispatch!Groups[k + 1]), new, st)
<1> DEFINE W == chunks
           group == Dispatch!Groups[k + 1]
           c == v.at
           full == v.chunk[c] # <<>> /\ Len(v.chunk[c]) + Len(group) > Dispatch!Target
           d == IF full /\ c < W THEN c + 1 ELSE c
           new == [w \in 1 .. W + 1 |-> IF w > d THEN k + 2 ELSE lo[w]]
           next == Dispatch!Pack(v, group)
<1>1. W \in Nat \ {0} /\ Dispatch!Target \in Nat /\ m \in Nat \ {0} /\ k \in Nat
  BY TargetIs DEF Blocks
<1>2. c \in 1 .. W /\ d \in 1 .. W /\ (d = c \/ (d = c + 1 /\ c < W))
  <2>1. c \in 1 .. W
    BY DEF Packing
  <2> HIDE DEF c, W, full
  <2> QED
    BY <1>1, <2>1
<1>3. k + 1 \in 1 .. m + 1 /\ k + 2 \in 1 .. m + 1 /\ k + 1 \in 1 .. m /\ (k + 1) + 1 = k + 2
  BY <1>1
<1>4. /\ st \in [1 .. m + 1 -> Nat] /\ \A g, h \in 1 .. m + 1 : g < h => st[g] < st[h]
      /\ \A g \in 1 .. m : Dispatch!Groups[g] = Span(st[g], st[g + 1])
  <2>1. \A g \in 1 .. m : Dispatch!Groups[g] = Span(st[g], st[g + 1])
    BY DEF Blocks, Dispatch!Groups, Span
  <2>2. 1 .. Len(keys) + 1 \subseteq Nat
    OBVIOUS
  <2> QED
    BY <2>1, <2>2 DEF Blocks
<1>5. group = Span(st[k + 1], st[k + 2])
  BY <1>3, <1>4
<1>6. /\ \A w \in 1 .. W + 1 : lo[w] \in 1 .. k + 1 /\ lo[w] \in 1 .. m + 1
      /\ lo[1] = 1
      /\ \A w \in 1 .. W : lo[w] <= lo[w + 1] /\ w + 1 \in 1 .. W + 1 /\ w \in 1 .. W + 1
      /\ \A w \in 1 .. W : w >= c => lo[w + 1] = k + 1
  BY <1>1 DEF Packing
<1>7. v.chunk = [w \in 1 .. W |-> Span(st[lo[w]], st[lo[w + 1]])]
  BY DEF Packing
<1>8. next = [at |-> d, chunk |-> [v.chunk EXCEPT ![d] = @ \o group]]
  BY DEF Dispatch!Pack
<1> HIDE DEF group, full, d, c, W, next
<1>9. lo[d + 1] = k + 1
  BY <1>1, <1>2, <1>6
<1>10. /\ new \in [1 .. W + 1 -> 1 .. k + 2] /\ new[1] = 1
       /\ \A w \in 1 .. W + 1 : new[w] = IF w > d THEN k + 2 ELSE lo[w]
  <2>1. \A w \in 1 .. W + 1 : lo[w] \in 1 .. k + 2
    BY <1>1, <1>6
  <2>2. 1 \in 1 .. W + 1 /\ ~ (1 > d)
    BY <1>1, <1>2
  <2> QED
    BY <1>1, <1>6, <2>1, <2>2
<1> HIDE DEF new
<1>11. \A w \in 1 .. W : new[w] <= new[w + 1]
  <2>1. ASSUME NEW w \in 1 .. W PROVE new[w] <= new[w + 1]
    <3>1. w \in 1 .. W + 1 /\ w + 1 \in 1 .. W + 1 /\ (w > d => w + 1 > d)
      BY <1>1, <1>2
    <3>2. lo[w] \in 1 .. k + 1 /\ lo[w] <= lo[w + 1]
      BY <1>6, <3>1
    <3> QED
      BY <1>1, <1>10, <3>1, <3>2
  <2> QED
    BY <2>1
<1>12. \A w \in 1 .. W : w >= d => new[w + 1] = k + 2
  BY <1>1, <1>2, <1>6, <1>10
<1>13. Span(st[lo[d]], st[k + 1]) \o group = Span(st[lo[d]], st[k + 2])
  <2>1. lo[d] \in 1 .. m + 1 /\ lo[d] <= k + 1
    BY <1>1, <1>2, <1>6
  <2>2. st[lo[d]] \in Nat /\ st[k + 1] \in Nat /\ st[k + 2] \in Nat /\ st[k + 1] <= st[k + 2]
    BY <1>1, <1>3, <1>4, <2>1
  <2>3. st[lo[d]] <= st[k + 1]
    <3>1. lo[d] = k + 1 \/ lo[d] < k + 1
      BY <1>1, <2>1
    <3>2. lo[d] < k + 1 => st[lo[d]] < st[k + 1]
      BY <1>3, <1>4, <2>1
    <3> QED
      BY <2>2, <3>1, <3>2
  <2> QED
    BY <1>5, <2>2, <2>3, SpansJoin
<1>14. [v.chunk EXCEPT ![d] = @ \o group] = [w \in 1 .. W |-> Span(st[new[w]], st[new[w + 1]])]
  <2>1. ASSUME NEW w \in 1 .. W
        PROVE  [v.chunk EXCEPT ![d] = @ \o group][w] = Span(st[new[w]], st[new[w + 1]])
    <3>1. w \in 1 .. W + 1 /\ w + 1 \in 1 .. W + 1
      BY <1>6
    <3>2. CASE w = d
      <4>1. new[w] = lo[w] /\ new[w + 1] = k + 2
        BY <1>1, <1>2, <1>10, <3>1, <3>2
      <4>2. v.chunk[d] = Span(st[lo[d]], st[k + 1])
        BY <1>2, <1>7, <1>9
      <4>3. [v.chunk EXCEPT ![d] = @ \o group][w] = v.chunk[d] \o group
        BY <1>2, <1>7, <3>2
      <4> QED
        BY <1>13, <3>2, <4>1, <4>2, <4>3
    <3>3. CASE w < d
      <4>1. new[w] = lo[w] /\ new[w + 1] = lo[w + 1]
        BY <1>1, <1>2, <1>10, <3>1, <3>3
      <4>2. w # d
        BY <1>2, <3>3
      <4> QED
        BY <1>7, <4>1, <4>2
    <3>4. CASE w > d
      <4>1. w # d /\ ~ (w <= d) /\ w >= c /\ w + 1 > d
        BY <1>1, <1>2, <3>4
      <4>2. new[w] = k + 2 /\ new[w + 1] = k + 2
        BY <1>10, <3>1, <3>4, <4>1
      <4>3. lo[w + 1] = k + 1
        BY <1>6, <4>1
      <4>4. lo[w] = k + 1
        <5>1. w - 1 \in 1 .. W /\ w - 1 >= c /\ (w - 1) + 1 = w
          BY <1>1, <1>2, <3>4
        <5> QED
          BY <1>6, <5>1
      <4>5. v.chunk[w] = Span(st[k + 1], st[k + 1])
        BY <1>7, <4>3, <4>4
      <4>6. st[k + 1] \in Int /\ st[k + 2] \in Int
        BY <1>3, <1>4
      <4>7. v.chunk[w] = Span(st[k + 2], st[k + 2])
        BY <4>5, <4>6, SpansAreEmpty
      <4> QED
        BY <1>7, <4>1, <4>2, <4>7
    <3> QED
      BY <1>2, <3>2, <3>3, <3>4
  <2> QED
    BY <1>7, <2>1
<1>15. ASSUME NEW w \in 1 .. W - 1, st[new[w + 1]] - st[new[w]] > Dispatch!Target
       PROVE  new[w + 1] = new[w] + 1
  <2>1. w \in 1 .. W /\ w \in 1 .. W + 1 /\ w + 1 \in 1 .. W + 1
    BY <1>1
  <2>2. CASE w < d
    <3>1. new[w] = lo[w] /\ new[w + 1] = lo[w + 1]
      BY <1>1, <1>2, <1>10, <2>1, <2>2
    <3> QED
      BY <1>15, <3>1 DEF Packing, W
  <2>3. CASE w > d
    <3>1. new[w] = k + 2 /\ new[w + 1] = k + 2
      BY <1>1, <1>2, <1>10, <2>1, <2>3
    <3>2. st[k + 2] - st[k + 2] = 0
      BY <1>3, <1>4
    <3> QED
      BY <1>1, <1>15, <3>1, <3>2
  <2>4. CASE w = d
    <3>1. new[w] = lo[d] /\ new[w + 1] = k + 2
      BY <1>1, <1>2, <1>10, <2>1, <2>4
    <3>2. CASE d # c
      <4>1. lo[d] = k + 1
        <5>1. d = c + 1 /\ c \in 1 .. W
          BY <1>2, <3>2
        <5> QED
          BY <1>1, <1>6, <5>1
      <4> QED
        BY <1>3, <3>1, <4>1
    <3>3. CASE d = c
      <4>1. c < W
        BY <1>1, <2>4, <3>3
      <4>2. ~ full
        BY <1>1, <1>2, <3>3, <4>1 DEF d
      <4>3. v.chunk[c] = Span(st[lo[c]], st[k + 1])
        BY <1>2, <1>7, <1>9, <3>3
      <4>4. lo[c] \in 1 .. m + 1 /\ lo[c] \in 1 .. k + 1
        BY <1>2, <1>6
      <4>5. st[lo[c]] \in Nat /\ st[k + 1] \in Nat /\ st[k + 2] \in Nat /\ st[k + 1] <= st[k + 2]
        BY <1>1, <1>3, <1>4, <4>4
      <4>6. lo[c] = k + 1 \/ (lo[c] < k + 1 /\ st[lo[c]] < st[k + 1])
        <5>1. lo[c] = k + 1 \/ lo[c] < k + 1
          BY <1>1, <4>4
        <5>2. lo[c] < k + 1 => st[lo[c]] < st[k + 1]
          BY <1>3, <1>4, <4>4
        <5> QED
          BY <5>1, <5>2
      <4>7. CASE lo[c] = k + 1
        BY <1>3, <3>1, <3>3, <4>7
      <4>8. CASE lo[c] < k + 1 /\ st[lo[c]] < st[k + 1]
        <5> DEFINE x == st[lo[c]]
                   y == st[k + 1]
                   z == st[k + 2]
        <5>1. x \in Nat /\ y \in Nat /\ z \in Nat /\ x < y /\ x <= y /\ y <= z
          BY <4>5, <4>8
        <5>2. v.chunk[c] = Span(x, y) /\ group = Span(y, z)
          BY <1>5, <4>3
        <5> HIDE DEF x, y, z
        <5>3. Len(v.chunk[c]) = y - x /\ Len(group) = z - y
          <6>1. y <= y /\ z <= z
            BY <5>1
          <6>2. Len(Span(x, y)) = y - x
            BY <5>1, <6>1, SpansJoin
          <6>3. Len(Span(y, z)) = z - y
            BY <5>1, <6>1, SpansJoin
          <6> QED
            BY <5>2, <6>2, <6>3
        <5>4. v.chunk[c] # <<>>
          BY <5>1, <5>3
        <5>5. ~ ((y - x) + (z - y) > Dispatch!Target)
          BY <4>2, <5>3, <5>4 DEF full
        <5>6. z - x > Dispatch!Target
          BY <1>15, <3>1, <3>3 DEF x, z
        <5> QED
          BY <1>1, <5>1, <5>5, <5>6
      <4> QED
        BY <4>6, <4>7, <4>8
    <3> QED
      BY <3>2, <3>3
  <2> QED
    BY <1>1, <1>2, <2>2, <2>3, <2>4
<1>16. /\ next.at = d /\ next.chunk = [w \in 1 .. W |-> Span(st[new[w]], st[new[w + 1]])]
       /\ next = [at |-> next.at, chunk |-> next.chunk]
  BY <1>8, <1>14
<1>17. Packing(k + 1, next, new, st)
  BY <1>2, <1>3, <1>10, <1>11, <1>12, <1>15, <1>16 DEF Packing, W
<1> QED
  BY <1>17 DEF next, group

\* Before the first group, and what a packing can be.
NothingPacked == [at |-> 1, chunk |-> [w \in 1 .. chunks |-> <<>>]]
Packs == [at : 1 .. chunks, chunk : [1 .. chunks -> Seq(Nat)]]

\* Packing keeps the types.
LEMMA PackIsTyped ==
  ASSUME DispatchTypes, NEW v \in Packs, NEW group \in Seq(Nat)
  PROVE  Dispatch!Pack(v, group) \in Packs
<1> DEFINE c == v.at
           full == v.chunk[c] # <<>> /\ Len(v.chunk[c]) + Len(group) > Dispatch!Target
           d == IF full /\ c < chunks THEN c + 1 ELSE c
<1>1. chunks \in Nat \ {0}
  BY TargetIs
<1>2. v.at \in 1 .. chunks /\ v.chunk \in [1 .. chunks -> Seq(Nat)]
  BY DEF Packs
<1>3. d \in 1 .. chunks
  <2> HIDE DEF full
  <2> QED
    BY <1>1, <1>2
<1>4. Dispatch!Pack(v, group) = [at |-> d, chunk |-> [v.chunk EXCEPT ![d] = @ \o group]]
  BY DEF Dispatch!Pack
<1> HIDE DEF d
<1>5. v.chunk[d] \o group \in Seq(Nat)
  BY <1>2, <1>3, ConcatProperties
<1>6. [v.chunk EXCEPT ![d] = @ \o group] \in [1 .. chunks -> Seq(Nat)]
  BY <1>2, <1>5
<1> QED
  BY <1>3, <1>4, <1>6 DEF Packs

\* The fold over the groups ends in a packing of all of them.
LEMMA GroupsArePacked ==
  ASSUME DispatchTypes, NEW m, NEW st, Blocks(keys, st, m)
  PROVE  \E lo : Packing(m, Dispatch!FoldLeft(Dispatch!Pack, NothingPacked, Dispatch!Groups), lo, st)
<1> DEFINE T == 1 .. m
           G == Dispatch!Groups
           pick == [s \in SUBSET T |-> Dispatch!Max(s)]
           F == [p \in T \X Packs |-> Dispatch!Pack(p[2], G[p[1]])]
           Is(h) == h = [s \in SUBSET DOMAIN G |->
                           IF s = {} THEN NothingPacked
                           ELSE Dispatch!Pack(h[s \ {Dispatch!Max(s)}], G[Dispatch!Max(s)])]
           g == CHOOSE h : Is(h)
<1>1. m \in Nat \ {0} /\ chunks \in Nat \ {0} /\ DOMAIN G = T
  BY TargetIs DEF Blocks, Dispatch!Groups
<1>2. Dispatch!FoldLeft(Dispatch!Pack, NothingPacked, G) = g[DOMAIN G]
  BY Zenon DEF Dispatch!FoldLeft, Dispatch!MapThenFoldSet
<1>3. ASSUME NEW x \in T PROVE G[x] \in Seq(Nat)
  <2>1. G[x] = Span(st[x], st[x + 1])
    BY DEF Blocks, Dispatch!Groups, Span
  <2>2. x \in 1 .. m + 1 /\ x + 1 \in 1 .. m + 1 /\ x < x + 1
    BY <1>1
  <2>3. st[x] \in Nat /\ st[x + 1] \in Nat /\ st[x] < st[x + 1]
    <3>1. 1 .. Len(keys) + 1 \subseteq Nat
      OBVIOUS
    <3> QED
      BY <2>2, <3>1 DEF Blocks
  <2>4. st[x] <= st[x + 1] /\ st[x + 1] <= st[x + 1]
    BY <2>3
  <2> QED
    BY <2>1, <2>3, <2>4, SpansJoin
<1> HIDE DEF G, g
<1>4. NothingPacked \in Packs
  <2>1. 1 \in 1 .. chunks /\ <<>> \in Seq(Nat)
    BY <1>1
  <2> QED
    BY <2>1 DEF NothingPacked, Packs
<1>5. F \in [T \X Packs -> Packs]
  <2>1. \A x \in T, v \in Packs : Dispatch!Pack(v, G[x]) \in Packs
    BY <1>3, PackIsTyped
  <2> QED
    BY <2>1
<1>6. \A x \in T, v \in Packs : F[<<x, v>>] = Dispatch!Pack(v, G[x])
  OBVIOUS
<1>7. IsFiniteSet(T) /\ T \subseteq Nat
  BY <1>1, FS_Interval
<1>8. \A s \in SUBSET T : pick[s] = Dispatch!Max(s) /\ (s # {} => Dispatch!Max(s) \in s)
  <2>1. ASSUME NEW s \in SUBSET T, s # {} PROVE Dispatch!Max(s) \in s
    <3>1. IsFiniteSet(s) /\ s \in SUBSET Nat
      <4> HIDE DEF T
      <4> QED
        BY <1>7, FS_Subset
    <3>2. \E x \in s : \A y \in s : x >= y
      BY <2>1, <3>1, FiniteMaximum
    <3> QED
      BY <3>2 DEF Dispatch!Max
  <2> QED
    BY <2>1
<1> HIDE DEF F, pick
<1>9. Picks(pick, T)
  BY <1>8 DEF Picks
<1>10. PICK h0 : Solves(h0, T, Packs, NothingPacked, F, pick)
  <2> HIDE DEF T
  <2> QED
    BY <1>4, <1>5, <1>7, <1>9, SomeSolution
<1>11. Is(h0)
  <2>1. ASSUME NEW s \in SUBSET T
        PROVE  h0[s] = IF s = {} THEN NothingPacked
                       ELSE Dispatch!Pack(h0[s \ {Dispatch!Max(s)}], G[Dispatch!Max(s)])
    <3>1. h0[s] = IF s = {} THEN NothingPacked ELSE F[<<pick[s], h0[s \ {pick[s]}]>>]
      BY <1>10 DEF Solves
    <3>2. s \ {pick[s]} \in SUBSET T /\ h0[s \ {pick[s]}] \in Packs
      <4>1. h0 \in [SUBSET T -> Packs]
        BY <1>10 DEF Solves
      <4>2. s \ {pick[s]} \in SUBSET T
        OBVIOUS
      <4> QED
        BY <4>1, <4>2
    <3>3. s # {} => pick[s] \in T
      BY <1>8
    <3> HIDE DEF T
    <3> QED
      BY <1>6, <1>8, <3>1, <3>2, <3>3
  <2>2. h0 = [s \in SUBSET T |-> h0[s]]
    BY <1>10 DEF Solves
  <2> HIDE DEF T
  <2> QED
    BY <1>1, <2>1, <2>2
<1>12. Is(g)
  <2> HIDE DEF Is
  <2> QED
    BY <1>11 DEF g
<1> DEFINE V == {k \in 0 .. m : \E lo : Packing(k, g[1 .. k], lo, st)}
<1>13. 0 \in V
  <2>1. g[{}] = NothingPacked
    BY <1>1, <1>12
  <2> DEFINE lo == [w \in 1 .. chunks + 1 |-> 1]
  <2>2. Packing(0, NothingPacked, lo, st)
    <3>1. \A w \in 1 .. chunks : lo[w] = 1 /\ lo[w + 1] = 1
      BY <1>1
    <3>2. lo \in [1 .. chunks + 1 -> 1 .. 0 + 1] /\ lo[1] = 1
      BY <1>1
    <3>3. st[1] = 1
      BY DEF Blocks
    <3>4. Span(1, 1) = <<>>
      BY DEF Span
    <3> HIDE DEF lo
    <3>5. NothingPacked.chunk = [w \in 1 .. chunks |-> Span(st[lo[w]], st[lo[w + 1]])]
      BY <3>1, <3>3, <3>4 DEF NothingPacked
    <3>6. /\ NothingPacked.at \in 1 .. chunks
          /\ NothingPacked = [at |-> NothingPacked.at, chunk |-> NothingPacked.chunk]
      BY <1>1 DEF NothingPacked
    <3>7. \A w \in 1 .. chunks - 1 :
            st[lo[w + 1]] - st[lo[w]] > Dispatch!Target => lo[w + 1] = lo[w] + 1
      <4>1. Dispatch!Target \in Nat
        BY TargetIs
      <4>2. \A w \in 1 .. chunks - 1 : w \in 1 .. chunks
        BY <1>1
      <4>3. ~ (1 - 1 > Dispatch!Target)
        BY <4>1
      <4> QED
        BY <3>1, <3>3, <4>2, <4>3
    <3> QED
      BY <3>1, <3>2, <3>5, <3>6, <3>7 DEF Packing
  <2>3. 1 .. 0 = {} /\ 0 \in 0 .. m
    BY <1>1
  <2> QED
    BY <2>1, <2>2, <2>3
<1>14. ASSUME NEW k \in 0 .. m - 1, k \in V PROVE k + 1 \in V
  <2>1. PICK lo : Packing(k, g[1 .. k], lo, st)
    BY <1>14
  <2>2. PICK new : Packing(k + 1, Dispatch!Pack(g[1 .. k], G[k + 1]), new, st)
    BY <2>1, OneMoreGroup DEF G
  <2>3. g[1 .. k + 1] = Dispatch!Pack(g[1 .. k], G[k + 1])
    <3> DEFINE s == 1 .. k + 1
    <3>1. s \in SUBSET T /\ s # {} /\ s \ {k + 1} = 1 .. k
      <4>1. k \in Nat /\ k + 1 <= m
        BY <1>1
      <4>2. \A x : x \in 1 .. k + 1 => x \in 1 .. m
        BY <1>1, <4>1
      <4>3. k + 1 \in s
        BY <4>1
      <4>4. \A x : x \in s \ {k + 1} <=> x \in 1 .. k
        BY <4>1
      <4>5. s \in SUBSET T
        BY <4>2
      <4> QED
        BY <4>3, <4>4, <4>5
    <3>2. Dispatch!Max(s) = k + 1
      <4>1. k + 1 \in s /\ \A y \in s : k + 1 >= y
        BY <1>1
      <4>2. \A x \in s : (\A y \in s : x >= y) => x = k + 1
        BY <1>1
      <4> HIDE DEF s
      <4> QED
        BY <4>1, <4>2 DEF Dispatch!Max
    <3> HIDE DEF s, T
    <3>3. g[s] = Dispatch!Pack(g[s \ {Dispatch!Max(s)}], G[Dispatch!Max(s)])
      BY <1>1, <1>12, <3>1
    <3>4. g[s] = Dispatch!Pack(g[1 .. k], G[k + 1])
      BY <3>1, <3>2, <3>3
    <3> QED
      BY <3>4 DEF s
  <2>4. k + 1 \in 0 .. m
    BY <1>1
  <2> QED
    BY <2>2, <2>3, <2>4
<1>15. 0 .. m \subseteq V
  <2> HIDE DEF V
  <2>1. \A k \in 0 .. m - 1 : k \in V => k + 1 \in V
    BY <1>14
  <2> QED
    BY <1>1, <1>13, <2>1, Upward, 0 \in Int, m \in Int
<1>16. m \in V
  BY <1>1, <1>15
<1> QED
  BY <1>1, <1>2, <1>16 DEF G

-----------------------------------------------------------------------------
(* What the workers were sent, and what they return.                       *)

\* The number i lies between two of the marks b.
LEMMA Between ==
  ASSUME NEW n \in Nat \ {0}, NEW b \in [1 .. n + 1 -> Int], NEW i \in Int, b[1] <= i, i < b[n + 1]
  PROVE  \E w \in 1 .. n : b[w] <= i /\ i < b[w + 1]
<1> DEFINE S == {w \in 1 .. n + 1 : b[w] <= i}
<1>1. SUFFICES ASSUME \A w \in 1 .. n : b[w] <= i => ~ (i < b[w + 1])
               PROVE  FALSE
  OBVIOUS
<1>2. 1 \in S
  OBVIOUS
<1>3. ASSUME NEW w \in 1 .. (n + 1) - 1, w \in S PROVE w + 1 \in S
  <2>1. w \in 1 .. n /\ w + 1 \in 1 .. n + 1
    OBVIOUS
  <2>2. b[w] <= i /\ b[w + 1] \in Int
    BY <1>3, <2>1
  <2>3. ~ (i < b[w + 1])
    BY <1>1, <2>1, <2>2
  <2>4. b[w + 1] <= i
    BY <2>2, <2>3
  <2> QED
    BY <2>1, <2>4
<1>4. n + 1 \in S
  <2> HIDE DEF S
  <2>1. \A w \in 1 .. (n + 1) - 1 : w \in S => w + 1 \in S
    BY <1>3
  <2>2. 1 \in Int /\ n + 1 \in Int /\ n + 1 \in 1 .. n + 1
    OBVIOUS
  <2>3. 1 .. n + 1 \subseteq S
    BY <1>2, <2>1, <2>2, Upward
  <2> QED
    BY <2>2, <2>3
<1>5. b[n + 1] \in Int /\ b[n + 1] <= i
  BY <1>4
<1> QED
  BY <1>5

\* The parts are the stretches of the batch between the marks b, without a gap.
Cuts(b) ==
  /\ b \in [1 .. chunks + 1 -> 1 .. N + 1] /\ b[1] = 1 /\ b[chunks + 1] = N + 1
  /\ \A w \in 1 .. chunks : b[w] <= b[w + 1]
  /\ parts = [w \in 1 .. chunks |-> Span(b[w], b[w + 1])]

\* The part of a worker, and the keys of its rows.
IsPart(b, w) ==
  /\ b[w] \in Nat /\ b[w + 1] \in Nat /\ b[w] <= b[w + 1] /\ b[w] >= 1 /\ b[w + 1] <= N + 1
  /\ DOMAIN parts[w] = 1 .. b[w + 1] - b[w] /\ Len(parts[w]) = b[w + 1] - b[w]
  /\ parts[w] \in Seq(Nat)
  /\ \A i \in b[w] .. b[w + 1] - 1 : i \in Dispatch!Range(parts[w])
  /\ Dispatch!KeysOf(w) \in Seq(Key) /\ Len(Dispatch!KeysOf(w)) = b[w + 1] - b[w]
  /\ \A j \in 1 .. b[w + 1] - b[w] : Dispatch!KeysOf(w)[j] = keys[b[w] + j - 1]

\* The part of a worker has the keys of its rows.
LEMMA PartsAre ==
  ASSUME DispatchTypes, NEW b, Cuts(b), NEW w \in 1 .. chunks
  PROVE  IsPart(b, w)
<1> DEFINE x == b[w]
           y == b[w + 1]
           n == y - x
<1>1. N \in Nat \ {0} /\ chunks \in Nat \ {0} /\ keys \in [1 .. N -> Key]
  BY TargetIs DEF DispatchTypes, N
<1>2. x \in Nat /\ y \in Nat /\ x <= y /\ x >= 1 /\ y <= N + 1
  <2>1. w \in 1 .. chunks + 1 /\ w + 1 \in 1 .. chunks + 1
    BY <1>1
  <2> QED
    BY <1>1, <2>1 DEF Cuts
<1>3. parts[w] = Span(x, y)
  BY DEF Cuts
<1> HIDE DEF x, y
<1>4. n \in Nat
  BY <1>2
<1>5. parts[w] = [k \in 1 .. n |-> x + k - 1]
  BY <1>3 DEF Span
<1>6. \A j \in 1 .. n : x + j - 1 \in 1 .. N /\ x + j - 1 \in Nat
  BY <1>1, <1>2
<1>7. DOMAIN parts[w] = 1 .. n /\ parts[w] \in Seq(Nat) /\ Len(parts[w]) = n
  <2> HIDE DEF n
  <2>1. parts[w] \in [1 .. n -> Nat]
    BY <1>5, <1>6
  <2> QED
    BY <1>4, <2>1
<1>8. ASSUME NEW i \in x .. y - 1 PROVE i \in Dispatch!Range(parts[w])
  <2>1. i - x + 1 \in 1 .. n /\ x + (i - x + 1) - 1 = i
    BY <1>2
  <2>2. i - x + 1 \in DOMAIN parts[w] /\ parts[w][i - x + 1] = i
    <3> HIDE DEF n
    <3> QED
      BY <1>5, <2>1
  <2> QED
    BY <2>2 DEF Dispatch!Range
<1>9. \A j \in 1 .. n : parts[w][j] = x + j - 1
  <2> HIDE DEF n
  <2> QED
    BY <1>5
<1>10. Dispatch!KeysOf(w) = [j \in 1 .. n |-> keys[x + j - 1]]
  <2> HIDE DEF n
  <2> QED
    BY <1>7, <1>9 DEF Dispatch!KeysOf
<1>11. \A j \in 1 .. n : keys[x + j - 1] \in Key
  <2> HIDE DEF n
  <2> QED
    BY <1>1, <1>6
<1>12. /\ Dispatch!KeysOf(w) \in Seq(Key) /\ Len(Dispatch!KeysOf(w)) = n
       /\ \A j \in 1 .. n : Dispatch!KeysOf(w)[j] = keys[x + j - 1]
  <2> HIDE DEF n
  <2> QED
    BY <1>4, <1>10, <1>11
<1> QED
  BY <1>2, <1>7, <1>8, <1>12 DEF IsPart, x, y

\* A worker returns each row's own prompt.
LEMMA OutputsAreTheirOwn ==
  ASSUME DispatchTypes, NEW b, Cuts(b), NEW w \in 1 .. chunks
  PROVE  Dispatch!OutputsOf(w) = Dispatch!KeysOf(w)
<1> DEFINE s == Dispatch!KeysOf(w)
           n == b[w + 1] - b[w]
           groups_ == Dispatch!WorkerGroups(w)
           the(i) == CHOOSE g \in DOMAIN groups_ : i \in Dispatch!Range(groups_[g])
<1>1. /\ n \in Nat /\ DOMAIN parts[w] = 1 .. n /\ s \in Seq(Key) /\ Len(s) = n
      /\ parts[w] \in Seq(Nat) /\ Len(parts[w]) = n
  BY PartsAre DEF IsPart
<1>2. Dispatch!OutputsOf(w) = [i \in 1 .. n |-> s[Head(groups_[the(i)])]]
  BY <1>1 DEF Dispatch!OutputsOf
<1>3. s = [i \in 1 .. n |-> s[i]]
  BY <1>1
<1>4. ASSUME NEW i \in 1 .. n
      PROVE  s[Head(groups_[the(i)])] = s[i]
  <2>1. s # <<>> /\ parts[w] # <<>>
    BY <1>1
  <2>2. PICK m, st : Blocks(s, st, m)
    BY <1>1, <2>1, RunsAreBlocks
  <2>3. groups_ = [g \in 1 .. m |-> [k \in 1 .. st[g + 1] - st[g] |-> st[g] + k - 1]]
    BY <2>1, <2>2 DEF Blocks, Dispatch!WorkerGroups
  <2>4. /\ m \in Nat \ {0} /\ st \in [1 .. m + 1 -> 1 .. n + 1] /\ st[1] = 1 /\ st[m + 1] = n + 1
        /\ \A g \in 1 .. m : \A j \in st[g] .. st[g + 1] - 1 : s[j] = s[st[g]]
    BY <1>1, <2>2 DEF Blocks
  <2> HIDE DEF groups_, s, n
  <2>5. \A g \in 1 .. m + 1 : st[g] \in Int
    BY <1>1, <2>4
  <2>6. PICK h \in 1 .. m : st[h] <= i /\ i < st[h + 1]
    <3>1. st \in [1 .. m + 1 -> Int] /\ i \in Int
      BY <1>1, <2>4, <2>5
    <3>2. st[1] <= i /\ i < st[m + 1]
      BY <1>1, <2>4
    <3> QED
      BY <2>4, <3>1, <3>2, Between
  <2>7. ASSUME NEW g \in 1 .. m
        PROVE  /\ st[g] \in Int /\ st[g + 1] \in Int
               /\ i \in Dispatch!Range(groups_[g]) <=> st[g] <= i /\ i < st[g + 1]
    <3>1. g \in 1 .. m + 1 /\ g + 1 \in 1 .. m + 1
      BY <2>4
    <3> DEFINE a == st[g]
               c == st[g + 1]
    <3>2. a \in Int /\ c \in Int
      BY <2>5, <3>1
    <3>3. groups_[g] = [k \in 1 .. c - a |-> a + k - 1]
      BY <2>3
    <3> HIDE DEF a, c
    <3>4. Dispatch!Range(groups_[g]) = {a + k - 1 : k \in 1 .. c - a}
      BY <3>3 DEF Dispatch!Range
    <3>5. i \in {a + k - 1 : k \in 1 .. c - a} <=> a <= i /\ i < c
      <4>1. i = a + (i - a + 1) - 1 /\ (a <= i /\ i < c => i - a + 1 \in 1 .. c - a)
        BY <1>1, <3>2
      <4>2. \A k \in 1 .. c - a : i = a + k - 1 => a <= i /\ i < c
        BY <1>1, <3>2
      <4> QED
        BY <4>1, <4>2
    <3> QED
      BY <3>2, <3>4, <3>5 DEF a, c
  <2>8. the(i) \in 1 .. m /\ i \in Dispatch!Range(groups_[the(i)])
    <3>1. DOMAIN groups_ = 1 .. m
      BY <2>3
    <3>2. \E g \in DOMAIN groups_ : i \in Dispatch!Range(groups_[g])
      BY <2>6, <2>7, <3>1
    <3> QED
      BY <3>1, <3>2
  <2> DEFINE t == the(i)
             a == st[t]
             c == st[t + 1]
  <2>9. a \in Int /\ c \in Int /\ a <= i /\ i < c /\ t \in 1 .. m
    BY <2>7, <2>8
  <2>10. groups_[t] = [k \in 1 .. c - a |-> a + k - 1]
    BY <2>3, <2>8
  <2>11. \A j \in a .. c - 1 : s[j] = s[a]
    BY <2>4, <2>8
  <2> HIDE DEF t, a, c
  <2>12. Head(groups_[t]) = a
    <3> DEFINE d == c - a
    <3>1. d \in Nat \ {0} /\ a \in Int
      BY <1>1, <2>9
    <3>2. groups_[t] = [k \in 1 .. d |-> a + k - 1]
      BY <2>10
    <3> HIDE DEF d
    <3>3. groups_[t] \in Seq(Int) /\ groups_[t] # <<>> /\ groups_[t][1] = a + 1 - 1
      BY <3>1, <3>2
    <3> QED
      BY <3>1, <3>3
  <2>13. i \in a .. c - 1
    BY <1>1, <2>9
  <2> QED
    BY <2>11, <2>12, <2>13 DEF t
<1> HIDE DEF groups_, s, n, the
<1> QED
  BY <1>2, <1>3, <1>4 DEF s

\* The outputs of the workers one after the other are those of the whole batch in order.
LEMMA OutputsJoin ==
  ASSUME DispatchTypes, NEW b, Cuts(b)
  PROVE  Dispatch!FlattenSeq([w \in DOMAIN parts |-> Dispatch!OutputsOf(w)]) = keys
<1> DEFINE ss == [w \in 1 .. chunks |-> Dispatch!KeysOf(w)]
           whole == FlattenSeq(ss)
<1>1. N \in Nat \ {0} /\ chunks \in Nat \ {0} /\ keys \in Seq(Key) /\ Len(keys) = N
  BY TargetIs DEF DispatchTypes, N
<1>2. \A w \in 1 .. chunks : IsPart(b, w)
  BY PartsAre
<1>3. [w \in DOMAIN parts |-> Dispatch!OutputsOf(w)] = ss
  <2>1. DOMAIN parts = 1 .. chunks
    BY DEF Cuts
  <2> QED
    BY <2>1, OutputsAreTheirOwn
<1>4. /\ ss \in [1 .. chunks -> Seq(Key)]
      /\ \A w \in 1 .. chunks : Len(ss[w]) = b[w + 1] - b[w] /\ b[w + 1] - b[w] \in Nat
      /\ \A w \in 1 .. chunks : \A j \in 1 .. b[w + 1] - b[w] : ss[w][j] = keys[b[w] + j - 1]
  BY <1>2 DEF IsPart
<1> HIDE DEF ss
<1>5. Dispatch!FlattenSeq(ss) = whole
  BY Zenon DEF Dispatch!FlattenSeq, FlattenSeq
<1>6. whole \in Seq(Key) /\ \E off : Laid(whole, off, ss, chunks)
  BY <1>1, <1>4, FlattenIs
<1>7. PICK off : Laid(whole, off, ss, chunks)
  BY <1>6
<1> HIDE DEF whole
<1>8. b \in [1 .. chunks + 1 -> Int] /\ b[1] = 1 /\ b[chunks + 1] = N + 1
  <2>1. b \in [1 .. chunks + 1 -> 1 .. N + 1] /\ 1 .. N + 1 \subseteq Int
    BY <1>1 DEF Cuts
  <2> QED
    BY <2>1 DEF Cuts
<1> DEFINE W == {k \in 0 .. chunks : off[k] = b[k + 1] - 1}
<1>9. 0 \in W
  BY <1>1, <1>7, <1>8 DEF Laid, Offsets
<1>10. ASSUME NEW k \in 0 .. chunks - 1, k \in W PROVE k + 1 \in W
  <2> DEFINE l == k + 1
  <2>1. l \in 1 .. chunks /\ l - 1 = k /\ k + 1 = l /\ l \in 0 .. chunks /\ l \in 1 .. chunks + 1
          /\ l + 1 \in 1 .. chunks + 1
    BY <1>1
  <2>2. off[k] = b[k + 1] - 1
    BY <1>10
  <2> HIDE DEF l
  <2>3. off[l] = off[k] + Len(ss[l])
    BY <1>7, <2>1 DEF Laid, Offsets
  <2>4. b[l] \in Int /\ b[l + 1] \in Int
    BY <1>8, <2>1
  <2>5. off[l] = b[l + 1] - 1
    BY <1>4, <2>1, <2>2, <2>3, <2>4
  <2> QED
    BY <2>1, <2>5 DEF l
<1>11. \A k \in 0 .. chunks : off[k] = b[k + 1] - 1
  <2>1. \A k \in 0 .. chunks - 1 : k \in W => k + 1 \in W
    BY <1>10
  <2>2. 0 \in Int /\ chunks \in Int
    BY <1>1
  <2>3. 0 .. chunks \subseteq W
    <3> HIDE DEF W
    <3> QED
      BY <1>9, <2>1, <2>2, Upward
  <2> QED
    BY <2>3
<1>12. Len(whole) = N
  <2>1. off[chunks] = b[chunks + 1] - 1
    BY <1>1, <1>11
  <2> QED
    BY <1>1, <1>7, <1>8, <2>1 DEF Laid
<1>13. ASSUME NEW p \in 1 .. N PROVE whole[p] = keys[p]
  <2>1. b[1] <= p /\ p < b[chunks + 1] /\ p \in Int
    BY <1>1, <1>8
  <2>2. PICK w \in 1 .. chunks : b[w] <= p /\ p < b[w + 1]
    BY <1>1, <1>8, <2>1, Between
  <2> DEFINE x == b[w]
             y == b[w + 1]
             j == p - x + 1
  <2>3. w \in 1 .. chunks + 1 /\ w + 1 \in 1 .. chunks + 1 /\ w - 1 \in 0 .. chunks /\ (w - 1) + 1 = w
    BY <1>1
  <2>4. x \in Int /\ y \in Int
    BY <1>8, <2>3
  <2>5. x <= p /\ p < y
    BY <2>2
  <2>6. off[w - 1] = x - 1
    BY <1>11, <2>3
  <2>7. Len(ss[w]) = y - x
    BY <1>4
  <2>8. \A i \in 1 .. y - x : ss[w][i] = keys[x + i - 1]
    BY <1>4
  <2>9. \A i \in 1 .. Len(ss[w]) : whole[off[w - 1] + i] = ss[w][i]
    BY <1>7 DEF Laid
  <2> HIDE DEF x, y
  <2>10. j \in 1 .. y - x /\ (x - 1) + j = p /\ x + j - 1 = p
    BY <2>4, <2>5
  <2> QED
    BY <2>6, <2>7, <2>8, <2>9, <2>10
<1>14. whole = keys
  BY <1>1, <1>6, <1>12, <1>13, SeqEqual
<1> QED
  BY <1>3, <1>5, <1>14

\* How the runs of the batch were shared out.
Split(m, st, lo) ==
  /\ Blocks(keys, st, m)
  /\ lo \in [1 .. chunks + 1 -> 1 .. m + 1] /\ lo[1] = 1 /\ lo[chunks + 1] = m + 1
  /\ \A w \in 1 .. chunks : lo[w] <= lo[w + 1]
  /\ parts = [w \in 1 .. chunks |-> Span(st[lo[w]], st[lo[w + 1]])]
  /\ \A w \in 1 .. chunks - 1 : st[lo[w + 1]] - st[lo[w]] > Dispatch!Target => lo[w + 1] = lo[w] + 1

\* A packing cuts the batch into parts.
LEMMA SplitsCut ==
  ASSUME DispatchTypes, NEW m, NEW st, NEW lo, Split(m, st, lo)
  PROVE  Cuts([w \in 1 .. chunks + 1 |-> st[lo[w]]])
<1> DEFINE b == [w \in 1 .. chunks + 1 |-> st[lo[w]]]
<1>1. N \in Nat \ {0} /\ chunks \in Nat \ {0} /\ m \in Nat \ {0}
  BY TargetIs DEF Split, Blocks
<1>2. /\ st \in [1 .. m + 1 -> 1 .. N + 1] /\ st[1] = 1 /\ st[m + 1] = N + 1
      /\ \A g, h \in 1 .. m + 1 : g < h => st[g] < st[h]
      /\ lo \in [1 .. chunks + 1 -> 1 .. m + 1] /\ lo[1] = 1 /\ lo[chunks + 1] = m + 1
      /\ \A w \in 1 .. chunks : lo[w] <= lo[w + 1]
      /\ parts = [w \in 1 .. chunks |-> Span(st[lo[w]], st[lo[w + 1]])]
  BY DEF Split, Blocks, N
<1>3. b \in [1 .. chunks + 1 -> 1 .. N + 1] /\ b[1] = 1 /\ b[chunks + 1] = N + 1
  BY <1>1, <1>2
<1>4. \A w \in 1 .. chunks : w \in 1 .. chunks + 1 /\ w + 1 \in 1 .. chunks + 1
  BY <1>1
<1>5. \A w \in 1 .. chunks : b[w] = st[lo[w]] /\ b[w + 1] = st[lo[w + 1]]
  BY <1>4
<1>6. ASSUME NEW w \in 1 .. chunks PROVE st[lo[w]] <= st[lo[w + 1]]
  <2>1. lo[w] \in 1 .. m + 1 /\ lo[w + 1] \in 1 .. m + 1 /\ lo[w] <= lo[w + 1]
    BY <1>2, <1>4
  <2>2. st[lo[w]] \in Int /\ st[lo[w + 1]] \in Int
    <3>1. 1 .. N + 1 \subseteq Int
      BY <1>1
    <3> QED
      BY <1>2, <2>1, <3>1
  <2>3. lo[w] = lo[w + 1] \/ lo[w] < lo[w + 1]
    BY <1>1, <2>1
  <2>4. lo[w] < lo[w + 1] => st[lo[w]] < st[lo[w + 1]]
    BY <1>2, <2>1
  <2> QED
    BY <2>2, <2>3, <2>4
<1> HIDE DEF b
<1>7. parts = [w \in 1 .. chunks |-> Span(b[w], b[w + 1])]
  BY <1>2, <1>5
<1>8. Cuts(b)
  BY <1>3, <1>5, <1>6, <1>7 DEF Cuts
<1> QED
  BY <1>8 DEF b

\* Two adjacent rows of one prompt go to one worker.
LEMMA NeighboursStay ==
  ASSUME DispatchTypes, NEW m, NEW st, NEW lo, Split(m, st, lo),
         NEW i \in 1 .. Len(keys) - 1, keys[i] = keys[i + 1]
  PROVE  \E w \in DOMAIN parts : {i, i + 1} \subseteq Dispatch!Range(parts[w])
<1> DEFINE b == [w \in 1 .. chunks + 1 |-> st[lo[w]]]
<1>1. N \in Nat \ {0} /\ chunks \in Nat \ {0} /\ Len(keys) = N
  BY TargetIs DEF N
<1>2. Cuts(b)
  BY SplitsCut
<1>3. lo \in [1 .. chunks + 1 -> 1 .. m + 1] /\ \A g \in 1 .. m + 1 : st[g] # i + 1
  BY DEF Split, Blocks
<1>4. \A w \in 1 .. chunks + 1 : b[w] # i + 1
  BY <1>3
<1> HIDE DEF b
<1>5. b \in [1 .. chunks + 1 -> Int] /\ b[1] = 1 /\ b[chunks + 1] = N + 1
  <2>1. b \in [1 .. chunks + 1 -> 1 .. N + 1] /\ 1 .. N + 1 \subseteq Int
    BY <1>1, <1>2 DEF Cuts
  <2> QED
    BY <1>2, <2>1 DEF Cuts
<1>6. PICK w \in 1 .. chunks : b[w] <= i /\ i < b[w + 1]
  <2>1. b[1] <= i /\ i < b[chunks + 1] /\ i \in Int
    BY <1>1, <1>5
  <2> QED
    BY <1>1, <1>5, <2>1, Between
<1>7. w \in 1 .. chunks + 1 /\ w + 1 \in 1 .. chunks + 1
  BY <1>1
<1>8. b[w] \in Int /\ b[w + 1] \in Int /\ b[w + 1] # i + 1
  BY <1>4, <1>5, <1>7
<1>9. i \in b[w] .. b[w + 1] - 1 /\ i + 1 \in b[w] .. b[w + 1] - 1
  BY <1>1, <1>6, <1>8
<1>10. \A j \in b[w] .. b[w + 1] - 1 : j \in Dispatch!Range(parts[w])
  BY <1>2, PartsAre DEF IsPart
<1>11. w \in DOMAIN parts
  BY <1>2 DEF Cuts
<1> QED
  BY <1>9, <1>10, <1>11

\* A worker but the last with more than its share has one group.
LEMMA OnlyOneGroup ==
  ASSUME DispatchTypes, NEW m, NEW st, NEW lo, Split(m, st, lo),
         NEW w \in 1 .. chunks - 1, Len(parts[w]) > Dispatch!Target
  PROVE  Len(Dispatch!WorkerGroups(w)) = 1
<1> DEFINE b == [v \in 1 .. chunks + 1 |-> st[lo[v]]]
           s == Dispatch!KeysOf(w)
           x == b[w]
           y == b[w + 1]
           n == y - x
<1>1. N \in Nat \ {0} /\ chunks \in Nat \ {0} /\ Dispatch!Target \in Nat
  BY TargetIs
<1>2. w \in 1 .. chunks /\ w \in 1 .. chunks + 1 /\ w + 1 \in 1 .. chunks + 1
  BY <1>1
<1>3. Cuts(b)
  BY SplitsCut
<1>4. x = st[lo[w]] /\ y = st[lo[w + 1]]
  BY <1>2
<1> HIDE DEF b
<1>5. /\ x \in Nat /\ y \in Nat /\ x <= y /\ Len(parts[w]) = y - x /\ parts[w] \in Seq(Nat)
      /\ s \in Seq(Key) /\ Len(s) = y - x
      /\ \A j \in 1 .. y - x : s[j] = keys[x + j - 1]
  BY <1>2, <1>3, PartsAre DEF IsPart
<1>6. lo[w + 1] = lo[w] + 1
  BY <1>4, <1>5 DEF Split
<1>7. m \in Nat \ {0} /\ lo[w] \in 1 .. m
  <2>1. m \in Nat \ {0} /\ lo[w] \in 1 .. m + 1 /\ lo[w + 1] \in 1 .. m + 1
    BY <1>2 DEF Split, Blocks
  <2> QED
    BY <1>6, <2>1
<1>8. \A i \in x .. y - 1 : keys[i] = keys[x]
  <2>1. \A g \in 1 .. m : \A i \in st[g] .. st[g + 1] - 1 : keys[i] = keys[st[g]]
    BY DEF Split, Blocks
  <2> HIDE DEF x, y
  <2> QED
    BY <1>4, <1>6, <1>7, <2>1
<1> HIDE DEF x, y, s
<1>9. n \in Nat \ {0}
  BY <1>1, <1>5
<1>10. ASSUME NEW j \in 1 .. n PROVE s[j] = keys[x]
  <2>1. x + j - 1 \in x .. y - 1
    BY <1>5
  <2>2. s[j] = keys[x + j - 1]
    BY <1>5
  <2> QED
    BY <1>8, <2>1, <2>2
<1>11. Len(s) = n
  BY <1>5
<1> HIDE DEF n
<1>12. s # <<>>
  BY <1>9, <1>11
<1>13. PICK l, at : Blocks(s, at, l)
  BY <1>5, <1>12, RunsAreBlocks
<1>14. l = 1
  <2>1. /\ l \in Nat \ {0} /\ at \in [1 .. l + 1 -> 1 .. n + 1] /\ at[1] = 1 /\ at[l + 1] = n + 1
        /\ \A g, h \in 1 .. l + 1 : g < h => at[g] < at[h]
        /\ \A i \in 1 .. n - 1 : s[i] = s[i + 1] => \A g \in 1 .. l + 1 : at[g] # i + 1
    BY <1>11, <1>13 DEF Blocks
  <2>2. SUFFICES ASSUME l > 1 PROVE FALSE
    BY <2>1
  <2>3. 1 \in 1 .. l + 1 /\ 2 \in 1 .. l + 1 /\ l + 1 \in 1 .. l + 1 /\ 1 < 2 /\ 2 < l + 1
    BY <2>1, <2>2
  <2>4. at[2] \in 1 .. n + 1 /\ 1 < at[2] /\ at[2] < n + 1
    BY <2>1, <2>3
  <2> DEFINE i == at[2] - 1
  <2>5. i \in 1 .. n - 1 /\ i \in 1 .. n /\ i + 1 \in 1 .. n /\ at[2] = i + 1
    BY <1>9, <2>4
  <2> HIDE DEF i
  <2>6. s[i] = s[i + 1]
    BY <1>10, <2>5
  <2> QED
    BY <2>1, <2>3, <2>5, <2>6
<1>15. Dispatch!WorkerGroups(w) = Dispatch!Runs(s)
  <2>1. parts[w] # <<>>
    BY <1>1, <1>5
  <2> QED
    BY <2>1 DEF Dispatch!WorkerGroups, s
<1>16. Dispatch!Runs(s) = [g \in 1 .. 1 |-> [k \in 1 .. at[g + 1] - at[g] |-> at[g] + k - 1]]
  BY <1>13, <1>14 DEF Blocks
<1>17. \A f : Len([g \in 1 .. 1 |-> f[g]]) = 1
  OBVIOUS
<1> DEFINE f == [g \in 1 .. 1 |-> [k \in 1 .. at[g + 1] - at[g] |-> at[g] + k - 1]]
<1>18. f = [g \in 1 .. 1 |-> f[g]]
  OBVIOUS
<1> HIDE DEF f
<1>19. Len(f) = 1
  BY <1>17, <1>18
<1> QED
  BY <1>15, <1>16, <1>19 DEF f

\* The inductive invariant of the part "dispatch".
DispatchInv ==
  /\ DispatchTypes
  /\ parts # <<>> => \E m, st, lo : Split(m, st, lo)
  /\ outputs # <<>> => outputs = keys

\* The invariant has the groups whole.
LEMMA WholeGroupsFollow ==
  ASSUME DispatchInv
  PROVE  Dispatch!GroupsStayWhole
<1>1. CASE parts = <<>>
  BY <1>1 DEF DispatchInv, Dispatch!GroupsStayWhole
<1>2. CASE parts # <<>>
  <2>1. PICK m, st, lo : Split(m, st, lo)
    BY <1>2 DEF DispatchInv
  <2>2. DispatchTypes
    BY DEF DispatchInv
  <2>3. \A i \in 1 .. Len(keys) - 1 :
          keys[i] = keys[i + 1] => \E w \in DOMAIN parts : {i, i + 1} \subseteq Dispatch!Range(parts[w])
    BY <2>1, <2>2, NeighboursStay
  <2>4. \A w \in 1 .. chunks - 1 : Len(parts[w]) > Dispatch!Target => Len(Dispatch!WorkerGroups(w)) = 1
    BY <2>1, <2>2, OnlyOneGroup
  <2> QED
    BY <2>3, <2>4 DEF DispatchInv, Dispatch!GroupsStayWhole
<1> QED
  BY <1>1, <1>2

\* The rows of RankGRPO: every row of the output was generated from its own prompt, no group
\* of equal prompts is split between workers, and none but the last gets more than its share
\* unless one group alone is larger, whatever the prompts and the workers
\* (rankgrpo_agent_loop.py:119-146, 279-306).
THEOREM GroupsAlwaysStayWhole == Spec => [](part = "dispatch" => Dispatch!GroupsStayWhole)
<1>1. Init => (part = "dispatch" => DispatchInv)
  <2> SUFFICES ASSUME Dispatch!Init PROVE DispatchInv
    BY DEF Init
  <2>1. PICK n \in 1 .. MaxRows : keys \in [1 .. n -> Key]
    BY DEF Dispatch!Init
  <2>2. n \in Nat \ {0}
    BY DispatchConstants
  <2>3. keys \in Seq(Key) /\ keys # <<>>
    BY <2>1, <2>2
  <2> QED
    BY <2>3 DEF Dispatch!Init, DispatchInv, DispatchTypes
<1>2. (part = "dispatch" => DispatchInv) /\ [Next]_vars => (part = "dispatch" => DispatchInv)'
  <2> SUFFICES ASSUME part = "dispatch" => DispatchInv, [Next]_vars, part' = "dispatch"
               PROVE  DispatchInv'
    OBVIOUS
  <2>1. part = "dispatch" /\ DispatchInv
    BY DEF Next, vars, WavesStep, ServerStep, ShardsStep, DispatchStep, CreditStep, MatchStep
  <2>2. ASSUME UNCHANGED <<keys, chunks, parts>>, outputs' = outputs \/ outputs' = keys
        PROVE  DispatchInv'
    <3>1. \A m, st, lo : Split(m, st, lo)' <=> Split(m, st, lo)
      BY <2>2 DEF Split, Blocks, Dispatch!Target
    <3>2. DispatchTypes'
      BY <2>1, <2>2 DEF DispatchTypes, DispatchInv
    <3>3. (parts # <<>> => \E m, st, lo : Split(m, st, lo))'
      BY <2>1, <2>2, <3>1 DEF DispatchInv
    <3> QED
      BY <2>1, <2>2, <3>2, <3>3 DEF DispatchInv
  <2>3. CASE Dispatch!Dispatch
    <3> DEFINE v == Dispatch!FoldLeft(Dispatch!Pack, NothingPacked, Dispatch!Groups)
    <3>1. parts' = v.chunk /\ UNCHANGED <<keys, chunks, generated, outputs>> /\ parts = <<>>
      BY <2>3 DEF Dispatch!Dispatch, NothingPacked
    <3>2. DispatchTypes /\ chunks \in Nat \ {0} /\ keys \in Seq(Key) /\ keys # <<>>
      BY <2>1, TargetIs DEF DispatchInv, DispatchTypes
    <3>3. PICK m, st : Blocks(keys, st, m)
      BY <3>2, RunsAreBlocks
    <3>4. PICK lo : Packing(m, v, lo, st)
      BY <3>2, <3>3, GroupsArePacked
    <3> HIDE DEF v
    <3>5. v.at \in 1 .. chunks /\ chunks >= v.at
      BY <3>2, <3>4 DEF Packing
    <3>6. lo[chunks + 1] = m + 1
      <4>1. chunks \in 1 .. chunks
        BY <3>2
      <4> QED
        BY <3>4, <3>5, <4>1 DEF Packing
    <3>7. Blocks(keys, st, m)'
      BY <3>1, <3>3 DEF Blocks
    <3>8. /\ lo \in [1 .. chunks + 1 -> 1 .. m + 1] /\ lo[1] = 1
          /\ \A w \in 1 .. chunks : lo[w] <= lo[w + 1]
          /\ parts' = [w \in 1 .. chunks |-> Span(st[lo[w]], st[lo[w + 1]])]
          /\ \A w \in 1 .. chunks - 1 : st[lo[w + 1]] - st[lo[w]] > Dispatch!Target => lo[w + 1] = lo[w] + 1
      BY <3>1, <3>4 DEF Packing
    <3>9. Dispatch!Target' = Dispatch!Target /\ chunks' = chunks
      BY <3>1 DEF Dispatch!Target
    <3>10. Split(m, st, lo)'
      BY <3>6, <3>7, <3>8, <3>9 DEF Split
    <3>11. DispatchTypes'
      BY <3>1, <3>2 DEF DispatchTypes
    <3>12. (\E a, c, d : Split(a, c, d))'
      BY <3>10
    <3> QED
      BY <2>1, <3>1, <3>11, <3>12 DEF DispatchInv
  <2>4. CASE Dispatch!Concat
    <3>1. PICK m, st, lo : Split(m, st, lo)
      BY <2>1, <2>4 DEF DispatchInv, Dispatch!Concat
    <3>2. DispatchTypes
      BY <2>1 DEF DispatchInv
    <3>3. outputs' = keys
      <4>1. \E b : Cuts(b)
        BY <3>1, <3>2, SplitsCut
      <4> QED
        BY <2>4, <3>2, <4>1, OutputsJoin DEF Dispatch!Concat
    <3> QED
      BY <2>2, <2>4, <3>3 DEF Dispatch!Concat
  <2>5. CASE \E w \in 1 .. MaxWorkers, g \in 1 .. MaxRows : Dispatch!GenerateGroup(w, g)
    BY <2>2, <2>5 DEF Dispatch!GenerateGroup
  <2>6. CASE UNCHANGED dispatchVars
    BY <2>2, <2>6 DEF dispatchVars
  <2> QED
    BY <2>1, <2>3, <2>4, <2>5, <2>6 DEF Next, vars, WavesStep, ServerStep, ShardsStep, DispatchStep,
                                       CreditStep, MatchStep, Dispatch!Step
<1>3. (part = "dispatch" => DispatchInv) => (part = "dispatch" => Dispatch!GroupsStayWhole)
  BY WholeGroupsFollow
<1> QED
  BY <1>1, <1>2, <1>3, PTL DEF Spec

-------------------------------------------------------------------------------
(* The shards of a generation (PromptShards).                                *)

\* The order of numbers is that of the model.
LEMMA ShardsAscending == ASSUME NEW S PROVE Shards!Ascending(S) = Ascending(S)
BY Zenon DEF Shards!Ascending, Ascending, Shards!Ordered, Ordered, Shards!Cardinality, Cardinality

\* What is known of the constants.
LEMMA ShardsConstants ==
  /\ MaxPrompts \in Nat \ {0} /\ TrainWidth \in Nat \ {0} /\ ValWidth \in Nat \ {0}
  /\ Ranks \in Nat \ {0} /\ MicroBatch \in Nat \ {0}
  /\ Repeats \subseteq Nat \ {0} /\ Divisors \subseteq Nat \ {0}
BY LoopsAssumption DEF LoopsAssumption, Shards!ShardsAssumption

\* The beams of the search.
Beams == Shards!BeamWidth
EachPrompt == batch.repeats * Beams

\* The sizes of a batch are whole groups of beams, its padding aside.
LEMMA BatchSizes ==
  ASSUME batch \in Shards!Batch
  PROVE  /\ Beams \in Nat \ {0} /\ EachPrompt \in Nat \ {0}
         /\ Shards!Real \in Nat \ {0} /\ Shards!Padding \in Nat /\ Shards!Size \in Nat \ {0}
         /\ Shards!Size = Shards!Real + Shards!Padding
         /\ (~ batch.validate => Shards!Padding = 0)
         /\ \E q \in Nat : EachPrompt = Beams * q
         /\ \E q \in Nat : Shards!Real = Beams * q
<1>1. /\ batch.prompts \in 1 .. MaxPrompts /\ batch.repeats \in Repeats /\ batch.divisor \in Divisors
      /\ batch.validate \in BOOLEAN
  BY DEF Shards!Batch
<1>2. batch.prompts \in Nat \ {0} /\ batch.repeats \in Nat \ {0} /\ batch.divisor \in Nat \ {0}
  <2>1. 1 .. MaxPrompts \subseteq Nat \ {0}
    BY ShardsConstants
  <2> QED
    BY <1>1, <2>1, ShardsConstants
<1>3. Beams \in Nat \ {0}
  BY ShardsConstants DEF Beams, Shards!BeamWidth
<1> DEFINE p == batch.prompts
           r == batch.repeats
           d == batch.divisor
<1>4. /\ Shards!Real = p * r * Beams
      /\ Shards!Padding = IF batch.validate THEN (-Shards!Real) % d ELSE 0
      /\ Shards!Size = Shards!Real + Shards!Padding
      /\ EachPrompt = r * Beams
  BY DEF Shards!Real, Shards!Padding, Shards!Size, EachPrompt, Beams
<1> HIDE DEF p, r, d
<1>5. p \in Nat \ {0} /\ r \in Nat \ {0} /\ d \in Nat \ {0}
  BY <1>2 DEF p, r, d
<1>6. \A x, y \in Nat \ {0} : x * y \in Nat \ {0} /\ x * y = y * x
  OBVIOUS
<1>7. r * Beams \in Nat \ {0} /\ r * Beams = Beams * r
  BY <1>3, <1>5, <1>6
<1>8. p * r \in Nat \ {0}
  BY <1>5, <1>6
<1>9. p * r * Beams \in Nat \ {0} /\ p * r * Beams = Beams * (p * r)
  BY <1>3, <1>6, <1>8
<1>10. Shards!Padding \in Nat
  <2>1. -Shards!Real \in Int
    BY <1>4, <1>9
  <2>2. \A x \in Int : x % d \in Nat
    BY <1>5
  <2> QED
    BY <1>4, <2>1, <2>2
<1>11. Shards!Size \in Nat \ {0}
  BY <1>4, <1>9, <1>10
<1> QED
  BY <1>3, <1>4, <1>5, <1>7, <1>8, <1>9, <1>10, <1>11

\* What is a whole number of groups of beams.
Whole(x) == \E q \in Nat : x = Beams * q

\* Whole is what the remainder says.
LEMMA WholeIs ==
  ASSUME batch \in Shards!Batch, NEW x \in Nat
  PROVE  Whole(x) <=> x % Beams = 0
<1>1. Beams \in Nat \ {0}
  BY BatchSizes
<1>2. ASSUME NEW q \in Nat, x = Beams * q PROVE x % Beams = 0
  <2>1. Beams * q + 0 = x /\ 0 \in 0 .. Beams - 1
    BY <1>1, <1>2
  <2> QED
    BY <1>1, <2>1, Quotient
<1>3. ASSUME x % Beams = 0 PROVE Whole(x)
  <2>1. x \div Beams \in Nat /\ x = Beams * (x \div Beams) + (x % Beams)
    BY <1>1, Division
  <2>2. x = Beams * (x \div Beams)
    BY <1>1, <1>3, <2>1
  <2> QED
    BY <2>1, <2>2 DEF Whole
<1> QED
  BY <1>2, <1>3 DEF Whole

\* Whole groups added to others.
LEMMA WholeSums ==
  ASSUME batch \in Shards!Batch, NEW x \in Nat, NEW y \in Nat, Whole(x)
  PROVE  /\ Whole(x + y) <=> Whole(y)
         /\ \A z \in Nat : Whole(z * x)
<1>1. Beams \in Nat \ {0}
  BY BatchSizes
<1>2. PICK p \in Nat : x = Beams * p
  BY DEF Whole
<1>3. ASSUME NEW q \in Nat, y = Beams * q PROVE Whole(x + y)
  <2>1. x + y = Beams * (p + q) /\ p + q \in Nat
    BY <1>1, <1>2, <1>3
  <2> QED
    BY <2>1 DEF Whole
<1>4. ASSUME NEW q \in Nat, x + y = Beams * q PROVE Whole(y)
  <2>1. y = Beams * (q - p)
    BY <1>1, <1>2, <1>4
  <2>2. q - p >= 0
    <3>1. q - p < 0 => Beams * (q - p) < 0
      BY <1>1
    <3> QED
      BY <2>1, <3>1
  <2>3. q - p \in Nat
    BY <2>2
  <2> QED
    BY <2>1, <2>3 DEF Whole
<1>5. ASSUME NEW z \in Nat PROVE Whole(z * x)
  <2>1. z * x = Beams * (z * p) /\ z * p \in Nat
    BY <1>1, <1>2
  <2> QED
    BY <2>1 DEF Whole
<1> QED
  BY <1>3, <1>4, <1>5 DEF Whole

\* The prompt changes between whole groups of beams.
LEMMA PromptChanges ==
  ASSUME batch \in Shards!Batch, NEW r \in 1 .. Shards!Size - 1,
         Shards!Prompt(r - 1) # Shards!Prompt(r)
  PROVE  Whole(r)
<1> DEFINE R == Shards!Real
           E == EachPrompt
           u == r \div R
           a == r % R
           v == a \div E
           c == a % E
<1>1. R \in Nat \ {0} /\ E \in Nat \ {0} /\ r \in Nat \ {0} /\ Beams \in Nat \ {0} /\ Shards!Size \in Nat \ {0}
  BY BatchSizes
<1>2. \A x : Shards!Prompt(x) = (x % R) \div E
  BY DEF Shards!Prompt, EachPrompt, Beams
<1> HIDE DEF R, E
<1>3. u \in Nat /\ a \in 0 .. R - 1 /\ r = R * u + a
  BY <1>1, Division
<1>4. a \in Nat
  BY <1>1, <1>3
<1> HIDE DEF u
<1>5. v \in Nat /\ c \in 0 .. E - 1 /\ a = E * v + c
  BY <1>1, <1>4, Division
<1>6. Shards!Prompt(r) = v
  BY <1>2
<1> HIDE DEF v, c
<1>6a. a = r % R
  OBVIOUS
<1> HIDE DEF a
<1>7. c = 0
  <2> SUFFICES ASSUME c # 0 PROVE FALSE
    OBVIOUS
  <2>1. c \in 1 .. E - 1 /\ c - 1 \in 0 .. E - 1
    BY <1>1, <1>5
  <2>2. E * v \in Nat
    BY <1>1, <1>5
  <2>3. a >= 1 /\ a - 1 \in 0 .. R - 1 /\ a - 1 = E * v + (c - 1)
    BY <1>1, <1>3, <1>5, <2>1, <2>2
  <2>4. R * u \in Nat
    BY <1>1, <1>3
  <2>5. r - 1 = R * u + (a - 1)
    BY <1>1, <1>3, <1>4, <2>4
  <2>6. (r - 1) % R = a - 1
    <3> DEFINE b == a - 1
    <3>1. b \in 0 .. R - 1 /\ r - 1 = R * u + b
      BY <2>3, <2>5
    <3> HIDE DEF b
    <3>2. (R * u + b) % R = b
      BY <1>1, <1>3, <3>1, Quotient
    <3> QED
      BY <3>1, <3>2 DEF b
  <2>7. (a - 1) \div E = v
    BY <1>1, <1>5, <2>1, <2>3, Quotient
  <2> QED
    BY <1>2, <1>6, <2>6, <2>7
<1>8. Whole(R) /\ Whole(E)
  BY BatchSizes DEF Whole, R, E
<1>9. Whole(u * R) /\ Whole(v * E)
  BY <1>1, <1>3, <1>5, <1>8, WholeSums
<1>10. u * R \in Nat /\ v * E \in Nat /\ r = u * R + v * E
  BY <1>1, <1>3, <1>5, <1>7
<1> QED
  BY <1>9, <1>10, WholeSums

\* The runs of the batch: the g-th is the rows from st[g] up to the one before st[g + 1].
PromptRuns(m, st) ==
  /\ m \in Nat \ {0} /\ st \in [1 .. m + 1 -> 0 .. Shards!Size]
  /\ st[1] = 0 /\ st[m + 1] = Shards!Size
  /\ \A g, h \in 1 .. m + 1 : g < h => st[g] < st[h]
  /\ \A g \in 1 .. m : \A i \in st[g] .. st[g + 1] - 1 : Shards!Prompt(i) = Shards!Prompt(st[g])
  /\ \A g \in 1 .. m : Whole(st[g])
  /\ DOMAIN Shards!RunStarts = 1 .. m
  /\ \A g \in 1 .. m : Shards!RunStarts[g] = st[g] /\ Shards!RunLength(g) = st[g + 1] - st[g]

\* The rows of the prompts are such runs.
LEMMA RunsOfPrompts ==
  ASSUME batch \in Shards!Batch
  PROVE  \E m, st : PromptRuns(m, st)
<1> DEFINE n == Shards!Size
           F == [r \in Shards!Row |-> Shards!Prompt(r)]
           S == {r \in Shards!Row : r = 0 \/ Shards!Prompt(r - 1) # Shards!Prompt(r)}
           T == {i \in 0 .. n - 1 : i = 0 \/ F[i - 1] # F[i]}
<1>1. n \in Nat \ {0} /\ Shards!Row = 0 .. n - 1
  BY BatchSizes DEF Shards!Row
<1>2. \A r \in 0 .. n - 1 : F[r] = Shards!Prompt(r)
  BY <1>1
<1> HIDE DEF F
<1>3. S = T
  <2>1. \A r \in 0 .. n - 1 : r = 0 \/ r - 1 \in 0 .. n - 1
    BY <1>1
  <2> HIDE DEF n
  <2> QED
    BY <1>1, <1>2, <2>1
<1>4. Shards!RunStarts = Ascending(S)
  BY ShardsAscending DEF Shards!RunStarts
<1>5. \A r \in S : Whole(r)
  <2>1. ASSUME NEW r \in S PROVE Whole(r)
    <3>1. CASE r = 0
      <4>1. 0 = Beams * 0
        BY BatchSizes
      <4> QED
        BY <3>1, <4>1 DEF Whole
    <3>2. CASE r # 0
      <4>1. r \in 1 .. n - 1 /\ Shards!Prompt(r - 1) # Shards!Prompt(r)
        BY <1>1, <3>2
      <4> QED
        BY <4>1, PromptChanges
    <3> QED
      BY <3>1, <3>2
  <2> QED
    BY <2>1
<1> HIDE DEF S
<1>6. PICK m, st : Stretches(F, 0, n, st, m)
  <2>1. 0 \in Int /\ n \in Int /\ 0 < n
    BY <1>1
  <2> QED
    BY <2>1, StretchesAre
<1>7. Shards!RunStarts = [g \in 1 .. m |-> st[g]]
  BY <1>3, <1>4, <1>6 DEF Stretches
<1>8. /\ m \in Nat \ {0} /\ st \in [1 .. m + 1 -> 0 .. n]
      /\ st[1] = 0 /\ st[m + 1] = n
      /\ \A g, h \in 1 .. m + 1 : g < h => st[g] < st[h]
      /\ \A g \in 1 .. m : \A i \in st[g] .. st[g + 1] - 1 : F[i] = F[st[g]]
  BY <1>6 DEF Stretches
<1> HIDE DEF n, T
<1>9. \A g \in 1 .. m : g \in 1 .. m + 1 /\ g + 1 \in 1 .. m + 1 /\ (g # m => g + 1 \in 1 .. m)
  BY <1>8
<1>10. ASSUME NEW g \in 1 .. m
       PROVE  \A i \in st[g] .. st[g + 1] - 1 : Shards!Prompt(i) = Shards!Prompt(st[g])
  <2>1. g < g + 1
    BY <1>8
  <2>2. st[g] \in 0 .. n /\ st[g + 1] \in 0 .. n /\ st[g] < st[g + 1]
    BY <1>8, <1>9, <2>1
  <2>3. \A i \in st[g] .. st[g + 1] - 1 : i \in 0 .. n - 1
    BY <1>1, <2>2
  <2>4. st[g] \in 0 .. n - 1
    BY <1>1, <2>2
  <2> QED
    BY <1>2, <1>8, <2>3, <2>4
<1>11. ASSUME NEW g \in 1 .. m
       PROVE  /\ Shards!RunStarts[g] = st[g] /\ Shards!RunLength(g) = st[g + 1] - st[g]
  <2>1. Shards!RunStarts[g] = st[g] /\ (g # m => Shards!RunStarts[g + 1] = st[g + 1])
    BY <1>7, <1>9
  <2>2. Len(Shards!RunStarts) = m
    BY <1>7, <1>8
  <2> QED
    BY <1>8, <2>1, <2>2 DEF Shards!RunLength, n
<1>12. ASSUME NEW g \in 1 .. m PROVE Whole(st[g])
  <2>1. S \in SUBSET Int /\ IsFiniteSet(S)
    <3>1. S \subseteq 0 .. n - 1 /\ IsFiniteSet(0 .. n - 1)
      <4>1. 0 \in Int /\ n - 1 \in Int
        BY <1>1
      <4> QED
        BY <1>3, <4>1, FS_Interval DEF T
    <3>2. 0 .. n - 1 \subseteq Int
      BY <1>1
    <3>3. IsFiniteSet(S)
      BY <3>1, FS_Subset
    <3> QED
      BY <3>1, <3>2, <3>3
  <2>2. Ascending(S) \in [1 .. Cardinality(S) -> S]
    BY <2>1, AscendingIs
  <2>3. DOMAIN Ascending(S) = 1 .. m
    BY <1>4, <1>7
  <2>4. Ascending(S)[g] \in S /\ Ascending(S)[g] = st[g]
    <3>1. g \in 1 .. Cardinality(S)
      BY <2>2, <2>3
    <3> QED
      BY <1>4, <1>11, <2>2, <3>1
  <2> QED
    BY <1>5, <2>4
<1>13. DOMAIN Shards!RunStarts = 1 .. m
  BY <1>7
<1>14. PromptRuns(m, st)
  BY <1>8, <1>10, <1>11, <1>12, <1>13 DEF PromptRuns, n
<1> QED
  BY <1>14

\* The length of a run but the last, and that of the last as far as the batch is whole.
LEMMA RunLengths ==
  ASSUME batch \in Shards!Batch, NEW m, NEW st, PromptRuns(m, st), NEW g \in 1 .. m
  PROVE  /\ Shards!RunLength(g) \in Nat \ {0}
         /\ g # m => Whole(Shards!RunLength(g))
         /\ g = m => (Whole(Shards!RunLength(g)) <=> Whole(Shards!Size))
<1>1. Shards!Size \in Nat \ {0}
  BY BatchSizes
<1>2. m \in Nat \ {0} /\ g \in 1 .. m + 1 /\ g + 1 \in 1 .. m + 1 /\ g < g + 1 /\ (g # m => g + 1 \in 1 .. m)
  BY DEF PromptRuns
<1> DEFINE x == st[g]
           y == st[g + 1]
<1>3. x \in Nat /\ y \in Nat /\ x < y /\ Whole(x) /\ (g # m => Whole(y)) /\ (g = m => y = Shards!Size)
  <2>1. \A i \in 0 .. Shards!Size : i \in Nat
    OBVIOUS
  <2> QED
    BY <1>2, <2>1 DEF PromptRuns
<1>4. Shards!RunLength(g) = y - x
  BY DEF PromptRuns
<1> HIDE DEF x, y
<1>5. y - x \in Nat \ {0} /\ x + (y - x) = y
  BY <1>3
<1>6. Whole(y) <=> Whole(y - x)
  BY <1>3, <1>5, WholeSums
<1> QED
  BY <1>3, <1>4, <1>5, <1>6

\* A batch is divisible unless it is padded by other than whole groups.
LEMMA DivisibleIs ==
  ASSUME batch \in Shards!Batch
  PROVE  /\ Shards!Divisible <=> Whole(Shards!Size)
         /\ Shards!Divisible <=> ~ (batch.validate /\ Shards!Padding % Beams # 0)
<1>1. PICK m, st : PromptRuns(m, st)
  BY RunsOfPrompts
<1>2. m \in Nat \ {0} /\ m \in 1 .. m /\ DOMAIN Shards!RunStarts = 1 .. m
  BY <1>1 DEF PromptRuns
<1>3. Shards!Divisible <=> \A g \in 1 .. m : Whole(Shards!RunLength(g))
  <2>1. \A g \in 1 .. m : Shards!RunLength(g) \in Nat
    BY <1>1, RunLengths
  <2>2. \A g \in 1 .. m : Whole(Shards!RunLength(g)) <=> Shards!RunLength(g) % Beams = 0
    BY <2>1, WholeIs
  <2> QED
    BY <1>2, <2>2 DEF Shards!Divisible, Beams
<1>4. Shards!Divisible <=> Whole(Shards!Size)
  BY <1>1, <1>2, <1>3, RunLengths
<1>5. /\ Shards!Real \in Nat /\ Whole(Shards!Real) /\ Shards!Padding \in Nat
      /\ Shards!Size = Shards!Real + Shards!Padding
      /\ (~ batch.validate => Shards!Padding = 0)
  BY BatchSizes DEF Whole
<1>6. Whole(Shards!Size) <=> Whole(Shards!Padding)
  BY <1>5, WholeSums
<1>7. Whole(0)
  <2>1. 0 = Beams * 0
    BY BatchSizes
  <2> QED
    BY <2>1 DEF Whole
<1> QED
  BY <1>4, <1>5, <1>6, <1>7, WholeIs
-----------------------------------------------------------------------------
(* The texts and the shards.                                               *)

\* The i-th text is the prompt of the i-th group of rows.
Texts(m) ==
  /\ m \in Nat \ {0} /\ Shards!Size = Beams * m
  /\ Shards!UniqueTexts \in Seq(Nat) /\ Len(Shards!UniqueTexts) = m
  /\ DOMAIN Shards!UniqueTexts = 1 .. m
  /\ \A i \in 1 .. m : \A b \in 1 .. Beams :
       Shards!Prompt(Beams * (i - 1) + b - 1) = Shards!UniqueTexts[i]

\* Prompts are numbers.
LEMMA PromptsAreNumbers ==
  ASSUME batch \in Shards!Batch, NEW r \in Nat
  PROVE  Shards!Prompt(r) \in Nat
<1>1. EachPrompt \in Nat \ {0} /\ Shards!Real \in Nat \ {0}
  BY BatchSizes
<1>2. r % Shards!Real \in Nat
  BY <1>1, Division
<1>3. (r % Shards!Real) \div EachPrompt \in Nat
  BY <1>1, <1>2, Division
<1> QED
  BY <1>3 DEF Shards!Prompt, EachPrompt, Beams

\* A divisible batch gives the texts of its groups.
LEMMA TextsAre ==
  ASSUME batch \in Shards!Batch, Shards!Divisible
  PROVE  \E m : Texts(m)
<1>1. Beams \in Nat \ {0} /\ Shards!Size \in Nat \ {0}
  BY BatchSizes
<1>2. Whole(Shards!Size)
  BY DivisibleIs
<1>3. PICK M \in Nat : Shards!Size = Beams * M
  BY <1>2 DEF Whole
<1>4. PICK n, st : PromptRuns(n, st)
  BY RunsOfPrompts
<1>5. /\ n \in Nat \ {0} /\ st \in [1 .. n + 1 -> 0 .. Shards!Size]
      /\ st[1] = 0 /\ st[n + 1] = Shards!Size
      /\ \A g \in 1 .. n : \A i \in st[g] .. st[g + 1] - 1 : Shards!Prompt(i) = Shards!Prompt(st[g])
      /\ DOMAIN Shards!RunStarts = 1 .. n
      /\ \A g \in 1 .. n : Shards!RunStarts[g] = st[g] /\ Shards!RunLength(g) = st[g + 1] - st[g]
  BY <1>4 DEF PromptRuns
<1>6. \A g \in 1 .. n + 1 : st[g] \in Nat
  <2>1. \A i \in 0 .. Shards!Size : i \in Nat
    OBVIOUS
  <2> QED
    BY <1>5, <2>1
<1> DEFINE q(g) == Shards!RunLength(g) \div Beams
           ss == [g \in 1 .. n |-> [k \in 1 .. q(g) |-> Shards!Prompt(st[g])]]
<1>7. ASSUME NEW g \in 1 .. n
      PROVE  q(g) \in Nat /\ st[g] \in Nat /\ st[g + 1] \in Nat /\ st[g + 1] - st[g] = Beams * q(g)
  <2>1. Shards!RunLength(g) \in Nat
    BY <1>4, RunLengths
  <2>2. Shards!RunLength(g) % Beams = 0
    BY <1>5 DEF Shards!Divisible, Beams
  <2>3. q(g) \in Nat /\ Shards!RunLength(g) = Beams * q(g) + (Shards!RunLength(g) % Beams)
    BY <1>1, <2>1, Division
  <2> HIDE DEF q
  <2>4. Shards!RunLength(g) = Beams * q(g)
    BY <1>1, <2>1, <2>2, <2>3
  <2>5. g \in 1 .. n + 1 /\ g + 1 \in 1 .. n + 1
    BY <1>5
  <2> QED
    BY <1>5, <1>6, <2>3, <2>4, <2>5
<1>8. Shards!UniqueTexts = FlattenSeq(ss)
  <2>1. Shards!UniqueTexts = Shards!FlattenSeq(ss)
    BY <1>5 DEF Shards!UniqueTexts, Beams
  <2>2. Shards!FlattenSeq(ss) = FlattenSeq(ss)
    BY Zenon DEF Shards!FlattenSeq, FlattenSeq
  <2> QED
    BY <2>1, <2>2
<1> HIDE DEF q
<1>9. \A g \in 1 .. n : /\ ss[g] \in Seq(Nat) /\ Len(ss[g]) = q(g)
                        /\ \A k \in 1 .. q(g) : ss[g][k] = Shards!Prompt(st[g])
  <2>1. ASSUME NEW g \in 1 .. n
        PROVE  /\ ss[g] \in Seq(Nat) /\ Len(ss[g]) = q(g)
               /\ \A k \in 1 .. q(g) : ss[g][k] = Shards!Prompt(st[g])
    <3> DEFINE p == Shards!Prompt(st[g])
    <3>1. p \in Nat
      BY <1>7, PromptsAreNumbers
    <3>2. ss[g] = [k \in 1 .. q(g) |-> p]
      OBVIOUS
    <3> HIDE DEF p, ss
    <3> QED
      BY <1>7, <3>1, <3>2 DEF p
  <2> QED
    BY <2>1
<1>10. ss \in [1 .. n -> Seq(Nat)]
  <2>1. ss = [g \in 1 .. n |-> ss[g]]
    OBVIOUS
  <2> HIDE DEF ss
  <2> QED
    BY <1>9, <2>1
<1> HIDE DEF ss
<1> DEFINE whole == FlattenSeq(ss)
<1>11. PICK off : Laid(whole, off, ss, n)
  BY <1>5, <1>10, FlattenIs
<1>12. whole \in Seq(Nat)
  BY <1>5, <1>10, FlattenIs
<1> HIDE DEF whole
<1>13. \A k \in 0 .. n : off[k] \in Nat
  BY <1>11 DEF Laid, Offsets
<1> DEFINE W == {k \in 0 .. n : Beams * off[k] = st[k + 1]}
<1>14. 0 \in W
  <2>1. off[0] = 0 /\ Beams * 0 = 0
    BY <1>1, <1>11 DEF Laid, Offsets
  <2> QED
    BY <1>5, <2>1
<1>15. ASSUME NEW k \in 0 .. n - 1, k \in W PROVE k + 1 \in W
  <2> DEFINE l == k + 1
  <2>1. l \in 1 .. n /\ l - 1 = k /\ k + 1 = l /\ l \in 0 .. n /\ k \in 0 .. n
    BY <1>5
  <2>2. Beams * off[k] = st[k + 1]
    BY <1>15
  <2> HIDE DEF l
  <2>3. off[l] = off[k] + q(l)
    BY <1>9, <1>11, <2>1 DEF Laid, Offsets
  <2>4. q(l) \in Nat /\ st[l] \in Nat /\ st[l + 1] \in Nat /\ st[l + 1] - st[l] = Beams * q(l)
    BY <1>7, <2>1
  <2>5. \A x, y \in Nat : Beams * (x + y) = Beams * x + Beams * y
    BY <1>1
  <2>6. Beams * off[l] = Beams * off[k] + Beams * q(l)
    BY <1>13, <2>1, <2>3, <2>4, <2>5
  <2>7. Beams * off[l] = st[l + 1]
    BY <1>1, <2>1, <2>2, <2>4, <2>6
  <2> QED
    BY <2>1, <2>7 DEF l
<1>16. \A k \in 0 .. n : Beams * off[k] = st[k + 1]
  <2>1. \A k \in 0 .. n - 1 : k \in W => k + 1 \in W
    BY <1>15
  <2>2. 0 \in Int /\ n \in Int
    BY <1>5
  <2>3. 0 .. n \subseteq W
    <3> HIDE DEF W
    <3> QED
      BY <1>14, <2>1, <2>2, Upward
  <2> QED
    BY <2>3
<1>17. off[n] = M /\ M # 0
  <2>1. Beams * off[n] = Beams * M
    BY <1>3, <1>5, <1>16
  <2>2. off[n] \in Nat
    BY <1>5, <1>13
  <2>3. Beams * off[n] + 0 = Beams * M + 0 /\ 0 \in 0 .. Beams - 1
    BY <1>1, <2>1
  <2>4. off[n] = M
    <3> DEFINE x == off[n]
    <3>1. x \in Int /\ M \in Int /\ 0 \in 0 .. Beams - 1 /\ Beams * x + 0 = Beams * M + 0
      BY <2>2, <2>3
    <3> HIDE DEF x
    <3>2. x = M
      BY <1>1, <3>1, OneQuotient
    <3> QED
      BY <3>2 DEF x
  <2> QED
    BY <1>1, <1>3, <2>4
<1>18. Len(whole) = M
  BY <1>11, <1>17 DEF Laid
<1>19. ASSUME NEW i \in 1 .. M, NEW b \in 1 .. Beams
       PROVE  Shards!Prompt(Beams * (i - 1) + b - 1) = whole[i]
  <2>1. Covered(off, ss, n)
    <3>1. \A g \in 1 .. n : Len(ss[g]) \in Nat
      BY <1>7, <1>9
    <3> QED
      BY <1>5, <1>11, <3>1, Located DEF Laid
  <2>2. PICK g \in 1 .. n : \E k \in 1 .. Len(ss[g]) : i = off[g - 1] + k
    BY <1>17, <2>1 DEF Covered
  <2>3. PICK k \in 1 .. q(g) : i = off[g - 1] + k
    BY <1>9, <2>2
  <2>4. whole[i] = Shards!Prompt(st[g])
    BY <1>9, <1>11, <2>3 DEF Laid
  <2> DEFINE r == Beams * (i - 1) + b - 1
             o == off[g - 1]
             x == st[g]
             y == st[g + 1]
             l == q(g)
  <2>5. o \in Nat /\ Beams * o = x
    <3>1. g - 1 \in 0 .. n /\ (g - 1) + 1 = g
      BY <1>5
    <3> QED
      BY <1>13, <1>16, <3>1
  <2>6. x \in Nat /\ y \in Nat /\ y - x = Beams * l /\ l \in Nat /\ k \in 1 .. l /\ i = o + k
    BY <1>7, <2>3
  <2> HIDE DEF o, x, y, l
  <2>7. i - 1 = o + (k - 1) /\ k - 1 \in Nat /\ l - k \in Nat
    BY <2>5, <2>6
  <2>8. Beams * (i - 1) = x + Beams * (k - 1)
    BY <1>1, <2>5, <2>7
  <2>9. Beams * (k - 1) >= 0
    BY <1>1, <2>7
  <2>10. Beams * l = Beams * (k - 1) + Beams + Beams * (l - k) /\ Beams * (l - k) >= 0
    BY <1>1, <2>6, <2>7
  <2>11. Beams * (k - 1) \in Int /\ Beams * l \in Int /\ Beams * (l - k) \in Int
    BY <1>1, <2>6, <2>7
  <2>12. r \in x .. y - 1
    <3>1. r = x + Beams * (k - 1) + b - 1
      BY <2>8
    <3> QED
      BY <1>1, <2>6, <2>9, <2>10, <2>11, <3>1
  <2>13. \A j \in x .. y - 1 : Shards!Prompt(j) = Shards!Prompt(x)
    BY <1>5 DEF x, y
  <2> QED
    BY <2>4, <2>12, <2>13 DEF x
<1>20. DOMAIN whole = 1 .. M
  BY <1>12, <1>18
<1>21. Texts(M)
  BY <1>3, <1>8, <1>12, <1>17, <1>18, <1>19, <1>20 DEF Texts, whole
<1> QED
  BY <1>21
\* The shard of a rank: the texts whose number, from 0, is the rank's modulo the ranks.
LEMMA ShardIs ==
  ASSUME NEW m, Texts(m), NEW k \in Shards!Rank
  PROVE  /\ Shards!Shard(k) \in Seq(1 .. m) /\ Len(Shards!Shard(k)) \in Nat
         /\ DOMAIN Shards!Shard(k) = 1 .. Len(Shards!Shard(k))
         /\ \A i, j \in DOMAIN Shards!Shard(k) : Shards!Shard(k)[i] = Shards!Shard(k)[j] => i = j
         /\ \A i \in 1 .. m : (i - 1) % Ranks = k <=> \E pos \in DOMAIN Shards!Shard(k) : Shards!Shard(k)[pos] = i
<1> DEFINE S == {i \in DOMAIN Shards!UniqueTexts : (i - 1) % Ranks = k}
           c == Cardinality(S)
           f == Ascending(S)
<1>1. Shards!Shard(k) = f
  BY ShardsAscending DEF Shards!Shard
<1>2. m \in Nat \ {0} /\ DOMAIN Shards!UniqueTexts = 1 .. m
  BY DEF Texts
<1>3. S \subseteq 1 .. m /\ \A i \in 1 .. m : i \in S <=> (i - 1) % Ranks = k
  BY <1>2
<1> HIDE DEF S
<1>4. IsFiniteSet(S) /\ S \in SUBSET Int
  <2>1. IsFiniteSet(1 .. m) /\ 1 .. m \subseteq Int
    BY <1>2, FS_Interval
  <2>2. IsFiniteSet(S)
    BY <1>3, <2>1, FS_Subset
  <2> QED
    BY <1>3, <2>1, <2>2
<1>5. /\ c \in Nat /\ f \in [1 .. c -> S]
      /\ \A i, j \in 1 .. c : i < j => f[i] < f[j]
      /\ \A x \in S : \E i \in 1 .. c : f[i] = x
  BY <1>4, AscendingIs
<1> HIDE DEF c, f
<1>6. f \in Seq(1 .. m) /\ Len(f) = c /\ DOMAIN f = 1 .. c
  <2>1. f \in [1 .. c -> 1 .. m]
    BY <1>3, <1>5
  <2>2. c \in Nat
    BY <1>5
  <2> DEFINE V == 1 .. m
  <2>3. f \in [1 .. c -> V]
    BY <2>1
  <2> HIDE DEF V
  <2>4. f \in Seq(V) /\ Len(f) = c /\ DOMAIN f = 1 .. c
    BY <2>2, <2>3
  <2> QED
    BY <2>4 DEF V
<1>7. \A i, j \in 1 .. c : f[i] = f[j] => i = j
  <2>1. ASSUME NEW i \in 1 .. c, NEW j \in 1 .. c, f[i] = f[j] PROVE i = j
    <3>1. f[i] \in Int /\ f[j] \in Int
      BY <1>4, <1>5
    <3>2. ~ (f[i] < f[j]) /\ ~ (f[j] < f[i])
      BY <2>1, <3>1
    <3>3. ~ (i < j) /\ ~ (j < i)
      BY <1>5, <3>2
    <3> QED
      BY <1>5, <3>3
  <2> QED
    BY <2>1
<1>8. \A i \in 1 .. m : (i - 1) % Ranks = k <=> \E pos \in 1 .. c : f[pos] = i
  BY <1>3, <1>5
<1> QED
  BY <1>1, <1>5, <1>6, <1>7, <1>8

\* A response: its prompt and its beam.
Beamed == [prompt : Nat, beam : Nat]

\* The responses to a prompt are its beams in order.
LEMMA ResponsesAre ==
  ASSUME batch \in Shards!Batch, NEW p \in Nat
  PROVE  /\ Shards!Responses(p) \in Seq(Beamed) /\ Len(Shards!Responses(p)) = Beams
         /\ \A b \in 1 .. Beams : Shards!Responses(p)[b] = [prompt |-> p, beam |-> b]
<1>1. Beams \in Nat \ {0}
  BY BatchSizes
<1>2. Shards!Responses(p) = [b \in 1 .. Beams |-> [prompt |-> p, beam |-> b]]
  BY DEF Shards!Responses, Beams
<1>3. \A b \in 1 .. Beams : [prompt |-> p, beam |-> b] \in Beamed
  BY <1>1 DEF Beamed
<1> QED
  BY <1>1, <1>2, <1>3

\* A rank has answered the first texts of its shard.
Answered(k) ==
  /\ Len(out[k]) <= Len(Shards!Shard(k))
  /\ \A j \in 1 .. Len(out[k]) : out[k][j] = Shards!Responses(Shards!UniqueTexts[Shards!Shard(k)[j]])

\* Every row has what was generated from its own prompt.
RowsRight ==
  \A r \in Shards!Row :
    rows[r + 1] = [prompt |-> Shards!Prompt(r), beam |-> (r % Shards!BeamWidth) + 1]

\* The inductive invariant of the part "shards".
ShardsInv ==
  /\ batch \in Shards!Batch
  /\ out \in [Shards!Rank -> Seq(Seq(Beamed))]
  /\ mode \in [Shards!Rank -> {"train", "eval"}]
  /\ phase \in {"group", "refused", "raised", "generate", "done"}
  /\ phase = "group" => \A k \in Shards!Rank : out[k] = <<>>
  /\ phase = "refused" => ~ Shards!Divisible
  /\ phase \in {"generate", "done"} => Shards!Divisible
  /\ phase = "raised" /\ batch.hf => Shards!Divisible
  /\ phase = "generate" =>
       \A k \in Shards!Rank :
         Answered(k) /\ (mode[k] = "train" => Len(out[k]) = Len(Shards!Shard(k)))
  /\ phase = "done" => RowsRight

\* One more micro-batch of a shard.
LEMMA MicroBatchAnswers ==
  ASSUME ShardsInv, NEW k \in Shards!Rank, Shards!GenerateMicroBatch(k)
  PROVE  /\ out' \in [Shards!Rank -> Seq(Seq(Beamed))]
         /\ \A l \in Shards!Rank : l # k => out'[l] = out[l]
         /\ Len(out'[k]) <= Len(Shards!Shard(k))
         /\ \A j \in 1 .. Len(out'[k]) :
              out'[k][j] = Shards!Responses(Shards!UniqueTexts[Shards!Shard(k)[j]])
<1> DEFINE shard == Shards!Shard(k)
           l == Len(out[k])
           n == Len(shard)
           top == Shards!Min({n, l + MicroBatch})
           next == SubSeq(shard, l + 1, top)
           U == Shards!UniqueTexts
           more == [j \in DOMAIN next |-> Shards!Responses(U[next[j]])]
<1>1. batch \in Shards!Batch /\ phase = "generate" /\ Shards!Divisible /\ out \in [Shards!Rank -> Seq(Seq(Beamed))]
        /\ Answered(k)
  BY DEF ShardsInv, Shards!GenerateMicroBatch
<1>2. PICK m : Texts(m)
  BY <1>1, TextsAre
<1>3. shard \in Seq(1 .. m) /\ n \in Nat /\ l \in Nat /\ out[k] \in Seq(Seq(Beamed)) /\ m \in Nat
  BY <1>1, <1>2, ShardIs DEF Texts
<1>4. l < n /\ out' = [out EXCEPT ![k] = @ \o more]
  BY DEF Shards!GenerateMicroBatch
<1>5. /\ l <= n /\ \A j \in 1 .. l : out[k][j] = Shards!Responses(U[shard[j]])
  BY <1>1 DEF Answered
<1>6. U \in [1 .. m -> Nat] /\ DOMAIN U = 1 .. m
  BY <1>2 DEF Texts
<1>7. \A i \in 1 .. m : Shards!Responses(U[i]) \in Seq(Beamed)
  BY <1>1, <1>6, ResponsesAre
<1> HIDE DEF shard, U
<1>8. top \in l + 1 .. n
  <2>1. n \in {n, l + MicroBatch} /\ l + MicroBatch \in Nat /\ l + 1 <= l + MicroBatch
    BY <1>3, ShardsConstants
  <2>2. \E x \in {n, l + MicroBatch} : \A y \in {n, l + MicroBatch} : x <= y
    <3>1. n <= l + MicroBatch \/ l + MicroBatch <= n
      BY <1>3, <2>1
    <3> QED
      BY <1>3, <2>1, <3>1
  <2>3. top \in {n, l + MicroBatch} /\ \A y \in {n, l + MicroBatch} : top <= y
    BY <2>2 DEF Shards!Min
  <2> HIDE DEF top
  <2> QED
    BY <1>3, <1>4, <2>1, <2>3
<1> HIDE DEF top
<1>9. /\ next \in Seq(1 .. m) /\ Len(next) = top - l /\ DOMAIN next = 1 .. top - l
      /\ \A j \in 1 .. top - l : next[j] = shard[l + j]
  <2>1. l + 1 \in Int /\ top \in Int /\ l + 1 >= 1 /\ top <= n /\ l + 1 <= top
    BY <1>3, <1>8
  <2>2. \A i \in l + 1 .. top : shard[i] \in 1 .. m
    <3>1. \A i \in l + 1 .. top : i \in 1 .. n
      BY <1>3, <2>1
    <3> QED
      BY <1>3, <3>1
  <2>3. /\ next \in Seq(1 .. m) /\ Len(next) = top - (l + 1) + 1
        /\ \A i \in 1 .. top - (l + 1) + 1 : next[i] = shard[(l + 1) + i - 1]
    <3> DEFINE a == l + 1
               V == 1 .. m
    <3>1. a \in Int /\ top \in Int /\ a <= top /\ next = SubSeq(shard, a, top)
            /\ \A i \in a .. top : shard[i] \in V
      BY <2>1, <2>2 DEF next
    <3> HIDE DEF a, V, next
    <3>2. /\ SubSeq(shard, a, top) \in Seq(V) /\ Len(SubSeq(shard, a, top)) = top - a + 1
          /\ \A i \in 1 .. top - a + 1 : SubSeq(shard, a, top)[i] = shard[a + i - 1]
      BY <3>1, SubSeqProperties
    <3>3. /\ next \in Seq(V) /\ Len(next) = top - a + 1
          /\ \A i \in 1 .. top - a + 1 : next[i] = shard[a + i - 1]
      BY <3>1, <3>2
    <3> QED
      BY <3>3 DEF a, V
  <2>4. top - (l + 1) + 1 = top - l /\ \A i \in 1 .. top - l : (l + 1) + i - 1 = l + i
    BY <1>3, <2>1
  <2> HIDE DEF next
  <2> QED
    BY <2>3, <2>4
<1> HIDE DEF next
<1> DEFINE d == top - l
<1>10. d \in Nat /\ l + d \in Nat /\ l + d <= n
  BY <1>3, <1>8
<1>11. /\ more \in Seq(Seq(Beamed)) /\ Len(more) = d
       /\ \A j \in 1 .. d : more[j] = Shards!Responses(U[shard[l + j]])
  <2>1. more = [j \in 1 .. d |-> Shards!Responses(U[next[j]])] /\ \A j \in 1 .. d : next[j] \in 1 .. m
    <3>1. DOMAIN next = 1 .. d
      BY <1>9
    <3>2. \A j \in DOMAIN next : next[j] \in 1 .. m
      <4> DEFINE V == 1 .. m
      <4>1. next \in Seq(V)
        BY <1>9
      <4> HIDE DEF V
      <4>2. \A j \in DOMAIN next : next[j] \in V
        BY <4>1
      <4> QED
        BY <4>2 DEF V
    <3> HIDE DEF d
    <3> QED
      BY <3>1, <3>2
  <2>2. \A j \in 1 .. d : Shards!Responses(U[next[j]]) \in Seq(Beamed)
    BY <1>7, <2>1
  <2>3. \A j \in 1 .. d : more[j] = Shards!Responses(U[next[j]])
    BY <2>1
  <2> HIDE DEF d, more
  <2>4. more \in [1 .. d -> Seq(Beamed)]
    BY <2>1, <2>2
  <2>5. \A j \in 1 .. d : next[j] = shard[l + j]
    BY <1>9 DEF d
  <2>6. d \in Nat
    BY <1>10
  <2>7. more \in Seq(Seq(Beamed)) /\ Len(more) = d
    BY <2>4, <2>6
  <2>8. \A j \in 1 .. d : more[j] = Shards!Responses(U[shard[l + j]])
    BY <2>3, <2>5
  <2> QED
    BY <2>7, <2>8
<1> HIDE DEF more, d
<1>12. /\ out[k] \o more \in Seq(Seq(Beamed)) /\ Len(out[k] \o more) = l + d
       /\ \A p \in 1 .. l : (out[k] \o more)[p] = out[k][p]
       /\ \A p \in 1 .. d : (out[k] \o more)[l + p] = more[p]
  <2> DEFINE s == out[k]
  <2>1. s \in Seq(Seq(Beamed)) /\ Len(s) = l
    BY <1>3
  <2> HIDE DEF s
  <2>2. s \o more \in Seq(Seq(Beamed)) /\ IsJoin(s \o more, s, more)
    BY <1>11, <2>1, JoinIs
  <2> DEFINE w == s \o more
  <2> HIDE DEF w
  <2>3. /\ w \in Seq(Seq(Beamed)) /\ Len(w) = l + d
        /\ \A p \in 1 .. l : w[p] = s[p]
        /\ \A p \in 1 .. d : w[l + p] = more[p]
    BY <1>11, <2>1, <2>2 DEF IsJoin, w
  <2> QED
    BY <2>3 DEF w, s
<1>13. out'[k] = out[k] \o more /\ \A j \in Shards!Rank : j # k => out'[j] = out[j]
  BY <1>1, <1>4
<1>14. ASSUME NEW j \in 1 .. l + d
       PROVE  out'[k][j] = Shards!Responses(U[shard[j]])
  <2>1. CASE j \in 1 .. l
    BY <1>5, <1>12, <1>13, <2>1
  <2>2. CASE j \notin 1 .. l
    <3> DEFINE i == j - l
    <3>1. i \in 1 .. d /\ l + i = j
      BY <1>3, <1>10, <2>2
    <3> HIDE DEF i
    <3>2. (out[k] \o more)[l + i] = Shards!Responses(U[shard[l + i]])
      BY <1>11, <1>12, <3>1
    <3> QED
      BY <1>13, <3>1, <3>2
  <2> QED
    BY <2>1, <2>2
<1>15. out' \in [Shards!Rank -> Seq(Seq(Beamed))]
  BY <1>1, <1>4, <1>12
<1>16. Len(out'[k]) = l + d
  BY <1>12, <1>13
<1> QED
  BY <1>10, <1>13, <1>14, <1>15, <1>16 DEF shard, U

\* Every rank has answered its shard: put back in their places, the answers are those of
\* the texts in order.
LEMMA GroupsAreOrdered ==
  ASSUME ShardsInv, phase = "generate", \A k \in Shards!Rank : mode[k] = "train",
         NEW m, Texts(m)
  PROVE  Shards!OrderedGroups = [i \in 1 .. m |-> Shards!Responses(Shards!UniqueTexts[i])]
<1>1. DOMAIN Shards!UniqueTexts = 1 .. m /\ m \in Nat
  BY DEF Texts
<1>2. ASSUME NEW i \in 1 .. m
      PROVE  LET k == CHOOSE k \in Shards!Rank : i \in Shards!Range(Shards!Shard(k))
             IN  out[k][CHOOSE pos \in DOMAIN Shards!Shard(k) : Shards!Shard(k)[pos] = i]
                   = Shards!Responses(Shards!UniqueTexts[i])
  <2> DEFINE k == CHOOSE k \in Shards!Rank : i \in Shards!Range(Shards!Shard(k))
             at == CHOOSE pos \in DOMAIN Shards!Shard(k) : Shards!Shard(k)[pos] = i
  <2>1. \A j \in Shards!Rank : i \in Shards!Range(Shards!Shard(j)) <=> (i - 1) % Ranks = j
    <3>1. ASSUME NEW j \in Shards!Rank
          PROVE  i \in Shards!Range(Shards!Shard(j)) <=> (i - 1) % Ranks = j
      <4>1. (i - 1) % Ranks = j <=> \E pos \in DOMAIN Shards!Shard(j) : Shards!Shard(j)[pos] = i
        BY ShardIs
      <4> QED
        BY <4>1 DEF Shards!Range
    <3> QED
      BY <3>1
  <2>2. (i - 1) % Ranks \in Shards!Rank
    BY <1>1, ShardsConstants DEF Shards!Rank
  <2>3. k \in Shards!Rank /\ i \in Shards!Range(Shards!Shard(k))
    BY <2>1, <2>2
  <2> HIDE DEF k
  <2>4. at \in DOMAIN Shards!Shard(k) /\ Shards!Shard(k)[at] = i
    BY <2>3 DEF Shards!Range
  <2> HIDE DEF at
  <2>5. /\ Len(out[k]) = Len(Shards!Shard(k)) /\ DOMAIN Shards!Shard(k) = 1 .. Len(Shards!Shard(k))
        /\ Answered(k)
    BY <2>3, ShardIs DEF ShardsInv
  <2>6. out[k][at] = Shards!Responses(Shards!UniqueTexts[Shards!Shard(k)[at]])
    BY <2>4, <2>5 DEF Answered
  <2> QED
    BY <2>4, <2>6 DEF k, at
<1> QED
  BY <1>1, <1>2 DEF Shards!OrderedGroups

\* The groups put together are the rows of the batch.
LEMMA ReassemblesRight ==
  ASSUME ShardsInv, Shards!Reassemble
  PROVE  /\ phase' = "done" /\ UNCHANGED <<batch, out, mode>>
         /\ \A r \in Shards!Row :
              rows'[r + 1] = [prompt |-> Shards!Prompt(r), beam |-> (r % Shards!BeamWidth) + 1]
<1> DEFINE ss == Shards!OrderedGroups
           all == FlattenSeq(ss)
           n == Shards!Size
<1>1. /\ batch \in Shards!Batch /\ phase = "generate" /\ \A k \in Shards!Rank : mode[k] = "train"
      /\ Shards!Divisible
  BY DEF ShardsInv, Shards!Reassemble
<1>2. PICK m : Texts(m)
  BY <1>1, TextsAre
<1>3. ss = [i \in 1 .. m |-> Shards!Responses(Shards!UniqueTexts[i])]
  BY <1>1, <1>2, GroupsAreOrdered
<1>4. /\ m \in Nat /\ n = Beams * m /\ Beams \in Nat \ {0} /\ n \in Nat \ {0}
      /\ \A i \in 1 .. m : Shards!UniqueTexts[i] \in Nat
  <2>1. /\ m \in Nat \ {0} /\ n = Beams * m /\ Shards!UniqueTexts \in Seq(Nat)
        /\ DOMAIN Shards!UniqueTexts = 1 .. m /\ Len(Shards!UniqueTexts) = m
    BY <1>2 DEF Texts
  <2>2. \A i \in 1 .. m : Shards!UniqueTexts[i] \in Nat
    BY <2>1
  <2>3. Beams \in Nat \ {0} /\ n \in Nat \ {0}
    BY <1>1, BatchSizes
  <2> QED
    BY <2>1, <2>2, <2>3
<1> HIDE DEF ss
<1>5. /\ ss \in [1 .. m -> Seq(Beamed)] /\ \A i \in 1 .. m : Len(ss[i]) = Beams
      /\ \A i \in 1 .. m : \A b \in 1 .. Beams : ss[i][b] = [prompt |-> Shards!UniqueTexts[i], beam |-> b]
  <2>1. \A i \in 1 .. m : /\ Shards!Responses(Shards!UniqueTexts[i]) \in Seq(Beamed)
                          /\ Len(Shards!Responses(Shards!UniqueTexts[i])) = Beams
                          /\ \A b \in 1 .. Beams : Shards!Responses(Shards!UniqueTexts[i])[b]
                                                     = [prompt |-> Shards!UniqueTexts[i], beam |-> b]
    BY <1>1, <1>4, ResponsesAre
  <2> QED
    BY <1>3, <2>1
<1>6. Shards!FlattenSeq(ss) = all
  BY Zenon DEF Shards!FlattenSeq, FlattenSeq
<1>7. /\ Len(all) = Beams * m
      /\ \A i \in 1 .. m : \A b \in 1 .. Beams :
           Beams * (i - 1) + b \in 1 .. Beams * m /\ all[Beams * (i - 1) + b] = ss[i][b]
  <2>1. LaidEvenly(all, ss, m, Beams)
    BY <1>4, <1>5, FlattenEven
  <2> HIDE DEF all
  <2> QED
    BY <2>1 DEF LaidEvenly
<1> HIDE DEF all
<1>8. Len(all) = n
  BY <1>4, <1>7
<1>9. phase' = "done" /\ rows' = all /\ UNCHANGED <<batch, out, mode>>
  BY <1>6, <1>8 DEF Shards!Reassemble, ss, n
<1>10. ASSUME NEW r \in Shards!Row
       PROVE  all[r + 1] = [prompt |-> Shards!Prompt(r), beam |-> (r % Shards!BeamWidth) + 1]
  <2>1. r \in 0 .. n - 1 /\ r \in Nat
    BY <1>4 DEF Shards!Row
  <2> DEFINE q == r \div Beams
             c == r % Beams
  <2>2. q \in Nat /\ c \in 0 .. Beams - 1 /\ r = Beams * q + c
    BY <1>4, <2>1, Division
  <2>3. (r % Shards!BeamWidth) + 1 = c + 1
    BY DEF Beams
  <2> HIDE DEF q, c, n
  <2>4. q < m
    <3>1. q >= m => Beams * q >= Beams * m
      BY <1>4, <2>2
    <3>2. Beams * q \in Int /\ Beams * m \in Int
      BY <1>4, <2>2
    <3> QED
      BY <1>4, <2>1, <2>2, <3>1, <3>2
  <2> DEFINE i == q + 1
             b == c + 1
  <2>5. i \in 1 .. m /\ b \in 1 .. Beams /\ i - 1 = q
    BY <1>4, <2>2, <2>4
  <2>6. Beams * q + b = r + 1 /\ Beams * q + b - 1 = r
    BY <1>4, <2>2
  <2>7. /\ Beams * (i - 1) + b = r + 1 /\ Beams * (i - 1) + b - 1 = r
    BY <2>5, <2>6
  <2> HIDE DEF i, b
  <2>8. all[r + 1] = [prompt |-> Shards!UniqueTexts[i], beam |-> b]
    <3>1. all[Beams * (i - 1) + b] = ss[i][b]
      BY <1>7, <2>5
    <3>2. ss[i][b] = [prompt |-> Shards!UniqueTexts[i], beam |-> b]
      BY <1>5, <2>5
    <3> QED
      BY <2>7, <3>1, <3>2
  <2>9. Shards!Prompt(r) = Shards!UniqueTexts[i]
    BY <1>2, <2>5, <2>7 DEF Texts
  <2> QED
    BY <2>3, <2>8, <2>9 DEF b
<1> QED
  BY <1>9, <1>10

\* Every row has its own response then.
LEMMA OwnResponsesFollow ==
  ASSUME ShardsInv
  PROVE  Shards!OwnResponses /\ Shards!RefusedOnlyForThePadding
<1>1. Shards!OwnResponses
  BY DEF ShardsInv, RowsRight, Shards!OwnResponses
<1>2. Shards!Divisible <=> ~ (batch.validate /\ Shards!Padding % Shards!BeamWidth # 0)
  BY DivisibleIs DEF ShardsInv, Beams
<1> QED
  BY <1>1, <1>2 DEF ShardsInv, Shards!RefusedOnlyForThePadding

\* What depends on the batch alone.
LEMMA BatchDecides ==
  ASSUME UNCHANGED batch
  PROVE  /\ (batch \in Shards!Batch)' <=> batch \in Shards!Batch
         /\ Shards!Divisible' <=> Shards!Divisible
         /\ Shards!UniqueTexts' = Shards!UniqueTexts
         /\ \A k : Shards!Shard(k)' = Shards!Shard(k)
         /\ \A p : Shards!Responses(p)' = Shards!Responses(p)
         /\ Shards!Row' = Shards!Row /\ Shards!BeamWidth' = Shards!BeamWidth
         /\ \A r : Shards!Prompt(r)' = Shards!Prompt(r)
<1>1. Shards!BeamWidth' = Shards!BeamWidth
  BY DEF Shards!BeamWidth
<1>2. Shards!Real' = Shards!Real
  BY <1>1 DEF Shards!Real
<1>3. Shards!Padding' = Shards!Padding
  BY <1>2 DEF Shards!Padding
<1>4. Shards!Size' = Shards!Size
  BY <1>2, <1>3 DEF Shards!Size
<1>5. Shards!Row' = Shards!Row
  BY <1>4 DEF Shards!Row
<1>6. \A r : Shards!Prompt(r)' = Shards!Prompt(r)
  BY <1>1, <1>2 DEF Shards!Prompt
<1>7. Shards!RunStarts' = Shards!RunStarts
  BY <1>5, <1>6 DEF Shards!RunStarts
<1>8. \A i : Shards!RunLength(i)' = Shards!RunLength(i)
  BY <1>4, <1>7 DEF Shards!RunLength
<1>9. Shards!Divisible' <=> Shards!Divisible
  BY <1>1, <1>7, <1>8 DEF Shards!Divisible
<1>10. Shards!UniqueTexts' = Shards!UniqueTexts
  BY <1>1, <1>6, <1>7, <1>8 DEF Shards!UniqueTexts
<1>11. \A k : Shards!Shard(k)' = Shards!Shard(k)
  BY <1>10 DEF Shards!Shard
<1>12. \A p : Shards!Responses(p)' = Shards!Responses(p)
  BY <1>1 DEF Shards!Responses
<1> QED
  BY <1>1, <1>5, <1>6, <1>9, <1>10, <1>11, <1>12 DEF Shards!Batch

\* A step keeps the invariant.
LEMMA ShardsStepKeeps ==
  ASSUME ShardsInv, Shards!Next
  PROVE  ShardsInv'
<1>1. UNCHANGED batch
  BY DEF Shards!Next, Shards!Unrouted, Shards!Refuse, Shards!Submit, Shards!Reassemble,
         Shards!GenerateMicroBatch, Shards!EndShard, Shards!ShardRaises
<1>2. /\ (batch \in Shards!Batch)'
      /\ Shards!Divisible' <=> Shards!Divisible
      /\ Shards!UniqueTexts' = Shards!UniqueTexts
      /\ \A k : Shards!Shard(k)' = Shards!Shard(k)
      /\ \A p : Shards!Responses(p)' = Shards!Responses(p)
      /\ Shards!Row' = Shards!Row /\ Shards!BeamWidth' = Shards!BeamWidth
      /\ \A r : Shards!Prompt(r)' = Shards!Prompt(r)
  BY <1>1, BatchDecides DEF ShardsInv
<1>3. ASSUME NEW k \in Shards!Rank, out'[k] = out[k], Answered(k) PROVE Answered(k)'
  BY <1>2, <1>3 DEF Answered
<1>4. CASE Shards!Unrouted
  BY <1>2, <1>4 DEF Shards!Unrouted, ShardsInv
<1>5. CASE Shards!Refuse
  BY <1>2, <1>5 DEF Shards!Refuse, Shards!Indivisible, ShardsInv
<1>6. CASE Shards!Submit
  <2>1. /\ phase = "group" /\ Shards!Divisible /\ phase' = "generate" /\ out' = out
        /\ mode' = [k \in Shards!Rank |-> "eval"]
    BY <1>6 DEF Shards!Submit, Shards!Indivisible
  <2>2. PICK m : Texts(m)
    BY <2>1, TextsAre DEF ShardsInv
  <2>3. ASSUME NEW k \in Shards!Rank PROVE Answered(k)
    <3>1. Len(Shards!Shard(k)) \in Nat
      BY <2>2, ShardIs
    <3>2. out[k] = <<>>
      BY <2>1 DEF ShardsInv
    <3> QED
      BY <3>1, <3>2 DEF Answered
  <2>4. \A k \in Shards!Rank : Answered(k)' /\ mode'[k] = "eval"
    BY <1>3, <2>1, <2>3
  <2>5. mode' \in [Shards!Rank -> {"train", "eval"}]
    BY <2>1
  <2> QED
    BY <1>2, <2>1, <2>4, <2>5 DEF ShardsInv
<1>7. CASE Shards!Reassemble
  <2>1. /\ phase' = "done" /\ UNCHANGED <<batch, out, mode>>
        /\ \A r \in Shards!Row :
             rows'[r + 1] = [prompt |-> Shards!Prompt(r), beam |-> (r % Shards!BeamWidth) + 1]
    BY <1>7, ReassemblesRight
  <2>2. RowsRight'
    BY <1>2, <2>1 DEF RowsRight
  <2>3. Shards!Divisible
    BY <1>7 DEF ShardsInv, Shards!Reassemble
  <2> QED
    BY <1>2, <2>1, <2>2, <2>3 DEF ShardsInv
<1>8. ASSUME NEW k \in Shards!Rank, Shards!GenerateMicroBatch(k) PROVE ShardsInv'
  <2>1. phase = "generate" /\ mode[k] = "eval" /\ UNCHANGED <<batch, phase, mode, rows>>
    BY <1>8 DEF Shards!GenerateMicroBatch
  <2>2. /\ out' \in [Shards!Rank -> Seq(Seq(Beamed))]
        /\ \A l \in Shards!Rank : l # k => out'[l] = out[l]
        /\ Len(out'[k]) <= Len(Shards!Shard(k))
        /\ \A j \in 1 .. Len(out'[k]) :
             out'[k][j] = Shards!Responses(Shards!UniqueTexts[Shards!Shard(k)[j]])
    BY <1>8, MicroBatchAnswers
  <2>3. Answered(k)'
    BY <1>2, <2>2 DEF Answered
  <2>4. ASSUME NEW l \in Shards!Rank
        PROVE  Answered(l)' /\ (mode'[l] = "train" => Len(out'[l]) = Len(Shards!Shard(l)'))
    <3>1. CASE l = k
      BY <2>1, <2>3, <3>1
    <3>2. CASE l # k
      <4>1. out'[l] = out[l] /\ Answered(l) /\ (mode[l] = "train" => Len(out[l]) = Len(Shards!Shard(l)))
        BY <2>1, <2>2, <3>2 DEF ShardsInv
      <4> QED
        BY <1>2, <1>3, <2>1, <4>1
    <3> QED
      BY <3>1, <3>2
  <2> QED
    BY <1>2, <2>1, <2>2, <2>4 DEF ShardsInv
<1>9. ASSUME NEW k \in Shards!Rank, Shards!EndShard(k) PROVE ShardsInv'
  <2>1. /\ phase = "generate" /\ mode[k] = "eval" /\ Len(out[k]) = Len(Shards!Shard(k))
        /\ mode' = [mode EXCEPT ![k] = "train"] /\ UNCHANGED <<batch, phase, out, rows>>
    BY <1>9 DEF Shards!EndShard
  <2>2. mode' \in [Shards!Rank -> {"train", "eval"}] /\ \A l \in Shards!Rank : l # k => mode'[l] = mode[l]
    BY <2>1 DEF ShardsInv
  <2>3. ASSUME NEW l \in Shards!Rank
        PROVE  Answered(l)' /\ (mode'[l] = "train" => Len(out'[l]) = Len(Shards!Shard(l)'))
    <3>1. out'[l] = out[l] /\ Answered(l) /\ (mode[l] = "train" => Len(out[l]) = Len(Shards!Shard(l)))
      BY <2>1 DEF ShardsInv
    <3>2. Answered(l)'
      BY <1>3, <3>1
    <3> QED
      BY <1>2, <2>1, <2>2, <3>1, <3>2
  <2> QED
    BY <1>2, <2>1, <2>2, <2>3 DEF ShardsInv
<1>10. ASSUME NEW k \in Shards!Rank, Shards!ShardRaises(k) PROVE ShardsInv'
  BY <1>2, <1>10 DEF Shards!ShardRaises, ShardsInv
<1> QED
  BY <1>4, <1>5, <1>6, <1>7, <1>8, <1>9, <1>10 DEF Shards!Next

\* Every row of a batch of MiniOneRec holds a response to its own prompt with its beams in
\* order, none is lost, and a batch is refused as indivisible exactly when it was padded by
\* other than whole groups, whatever the prompts, widths, ranks and micro-batches
\* (constrained_beam_agent_loop.py:291-440, minionerec_trainer.py:138-143).
THEOREM ShardsAlwaysRight ==
  Spec => [](part = "shards" => Shards!OwnResponses /\ Shards!RefusedOnlyForThePadding)
<1>1. Init => (part = "shards" => ShardsInv)
  <2> SUFFICES ASSUME Shards!Init PROVE ShardsInv
    BY DEF Init
  <2>1. <<>> \in Seq(Seq(Beamed))
    OBVIOUS
  <2>2. /\ out \in [Shards!Rank -> Seq(Seq(Beamed))] /\ \A k \in Shards!Rank : out[k] = <<>>
        /\ mode \in [Shards!Rank -> {"train", "eval"}]
    BY <2>1 DEF Shards!Init
  <2> QED
    BY <2>2 DEF Shards!Init, ShardsInv
<1>2. (part = "shards" => ShardsInv) /\ [Next]_vars => (part = "shards" => ShardsInv)'
  <2> SUFFICES ASSUME part = "shards" => ShardsInv, [Next]_vars, part' = "shards"
               PROVE  ShardsInv'
    OBVIOUS
  <2>1. part = "shards" /\ ShardsInv
    BY DEF Next, vars, WavesStep, ServerStep, ShardsStep, DispatchStep, CreditStep, MatchStep
  <2>2. CASE Shards!Next
    BY <2>1, <2>2, ShardsStepKeeps
  <2>3. CASE UNCHANGED shardsVars
    <3>1. UNCHANGED <<batch, phase, out, mode, rows>>
      BY <2>3 DEF shardsVars
    <3>2. /\ (batch \in Shards!Batch)'
          /\ Shards!Divisible' <=> Shards!Divisible
          /\ Shards!UniqueTexts' = Shards!UniqueTexts
          /\ \A k : Shards!Shard(k)' = Shards!Shard(k)
          /\ \A p : Shards!Responses(p)' = Shards!Responses(p)
          /\ Shards!Row' = Shards!Row /\ Shards!BeamWidth' = Shards!BeamWidth
          /\ \A r : Shards!Prompt(r)' = Shards!Prompt(r)
      BY <2>1, <3>1, BatchDecides DEF ShardsInv
    <3>3. \A k \in Shards!Rank : Answered(k)' <=> Answered(k)
      BY <3>1, <3>2 DEF Answered
    <3>4. RowsRight' <=> RowsRight
      BY <3>1, <3>2 DEF RowsRight
    <3> QED
      BY <2>1, <3>1, <3>2, <3>3, <3>4 DEF ShardsInv
  <2> QED
    BY <2>1, <2>2, <2>3 DEF Next, vars, WavesStep, ServerStep, ShardsStep, DispatchStep, CreditStep, MatchStep
<1>3. (part = "shards" => ShardsInv)
        => (part = "shards" => Shards!OwnResponses /\ Shards!RefusedOnlyForThePadding)
  BY OwnResponsesFollow
<1> QED
  BY <1>1, <1>2, <1>3, PTL DEF Spec

-----------------------------------------------------------------------------
(* Both of them.                                                           *)

\* A worker gets whole groups, and a row what was generated from its own prompt
\* (rankgrpo_agent_loop.py:119-146, 279-306, constrained_beam_agent_loop.py:291-440,
\* minionerec_trainer.py:138-143).
THEOREM RowsAlwaysGetTheirOwn == Spec => []RowsGetTheirOwn
<1>1. (part = "dispatch" => Dispatch!GroupsStayWhole)
        /\ (part = "shards" => Shards!OwnResponses /\ Shards!RefusedOnlyForThePadding)
      => RowsGetTheirOwn
  BY DEF RowsGetTheirOwn
<1> QED
  BY <1>1, GroupsAlwaysStayWhole, ShardsAlwaysRight, PTL
===============================================================================
