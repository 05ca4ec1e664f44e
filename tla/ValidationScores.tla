-------------------------- MODULE ValidationScores --------------------------
(***************************************************************************)
(* A validation, from its batches to its metrics: openonerec_validate      *)
(* (onerec_trainer.py), MiniOneRecTrainerAdapter.validate                  *)
(* (minionerec_trainer.py) and rankgrpo_validate (rankgrpo_trainer.py).    *)
(* A batch is repeated, padded to what the workers divide, generated, cut  *)
(* back and lined up with its prompts; the rows of all the batches are     *)
(* then grouped by prompt and scored in the order in which they came.      *)
(*                                                                         *)
(* An output is <<prompt, slot, item>>: the slot-th that was generated for *)
(* the prompt, which tells the properties whose it is, and its item.       *)
(***************************************************************************)
EXTENDS Integers, Sequences, SequencesExt, FiniteSets, Sorting

CONSTANTS
  Source,   \* the data source of a prompt
  Truth,    \* the item a prompt asks for
  Other,    \* an item that answers it wrongly, the truth of another prompt
  Plans,    \* the configured validations
  Cut       \* k of pass@k, 32 in the code

Prompts == DOMAIN Truth

\* Assumed of the constants by RunParts: a validation has a prompt once, no batch is
\* empty, and the engine that searches by itself is a synchronous one.
ScoresAssumption ==
  /\ DOMAIN Source = Prompts /\ DOMAIN Other = Prompts
  /\ \A p \in Prompts : Truth[p] # Other[p]
  /\ Cut \in Nat \ {0}
  /\ \A p \in Plans :
       /\ p.recipe \in {"openonerec", "minionerec", "rankgrpo"}
       /\ p.engine \in {"sync", "async"}
       /\ {p.n, p.width, p.divisor} \subseteq Nat \ {0}
       /\ p.search => ~p.twoStage /\ p.engine = "sync"
       /\ p.batches \in Seq(Seq(Prompts) \ {<<>>}) /\ p.batches # <<>>
       /\ IsInjective(FlattenSeq(p.batches))

VARIABLES
  plan,     \* the recipe, its mode and its batches
  correct,  \* for every prompt, the slot whose item is its truth; 0 for none
  batch,    \* the batch at hand
  rows,     \* its repeated prompts
  padded,   \* these after padding
  outs,     \* what was generated from them
  samples,  \* the rows collected so far: prompt, group key and output
  sums,     \* the length of the list of rank_reward_sum; -1 while there is none
  scores,   \* the score of each group
  at        \* "repeat", "generate", "collect", "score", "done" or "failed"

vars == <<plan, correct, batch, rows, padded, outs, samples, sums, scores, at>>

Repeated(s, n) == FlattenSeq([i \in DOMAIN s |-> [j \in 1 .. n |-> s[i]]])

\* The rows a prompt is repeated to.  Only a validation of OpenOneRec by vLLM's own
\* beam search leaves the repetition to the engine.
Repeats == IF plan.search THEN 1 ELSE plan.n

\* The rows the engine returns for one: a synchronous engine returns all the beams.
EngineRows ==
  CASE plan.engine = "sync" /\ plan.twoStage -> plan.width
    [] plan.engine = "sync" /\ plan.search -> plan.n
    [] OTHER -> 1

\* Mutant: the padding is cut as if every row had one output.
OneEach == 1

\* The outputs of a padded row (n_beams).
BeamsOfRow ==
  CASE plan.twoStage -> IF plan.engine = "async" THEN 1 ELSE plan.width
    [] plan.search -> plan.n
    [] OTHER -> 1

Pad == Len(padded) - Len(rows)

\* pad_dataproto_to_divisor: the rows of the batch once more, from its start.
PaddedTo(s, d) ==
  LET missing == (d - (Len(s) % d)) % d IN s \o [i \in 1 .. missing |-> s[((i - 1) % Len(s)) + 1]]

Init ==
  /\ plan \in Plans
  /\ correct \in [Prompts -> 0 .. 3]
  /\ batch = 1
  /\ rows = <<>> /\ padded = <<>> /\ outs = <<>> /\ samples = <<>>
  /\ sums = -1
  /\ scores = <<>>
  /\ at = "repeat"

Repeat ==
  /\ at = "repeat"
  /\ rows' = Repeated(plan.batches[batch], Repeats)
  /\ padded' = PaddedTo(rows', plan.divisor)
  /\ at' = "generate"
  /\ UNCHANGED <<plan, correct, batch, outs, samples, sums, scores>>

Item(p, slot) == IF correct[p] = slot THEN Truth[p] ELSE Other[p]

Generate ==
  /\ at = "generate"
  /\ LET asked == Repeated(padded, EngineRows)
         Slot(i) == Cardinality({j \in 1 .. i : asked[j] = asked[i]})
     IN outs' = [i \in DOMAIN asked |-> <<asked[i], Slot(i), Item(asked[i], Slot(i))>>]
  /\ at' = "collect"
  /\ UNCHANGED <<plan, correct, batch, rows, padded, samples, sums, scores>>

\* What tells the prompts of a group apart: OpenOneRec groups by the text of the
\* prompt; the others by uid or index, and MiniOneRec by the number of the row in
\* its batch where there is neither.
GroupKey(row, i) == IF plan.recipe = "minionerec" /\ ~plan.keyed THEN i ELSE row

\* unpad_dataproto, and the expansion of the inputs to what was generated.
Unpadded == SubSeq(outs, 1, Len(outs) - Pad * BeamsOfRow)
Inputs ==
  IF Len(Unpadded) > Len(rows) /\ (plan.search \/ plan.twoStage)
  THEN Repeated(rows, Len(Unpadded) \div Len(rows))
  ELSE rows

\* The rank rewards come from the reward function, or else from the advantages of
\* the first batch.
SumsAfter(n) ==
  CASE plan.recipe # "rankgrpo" -> sums
    [] plan.recipe = "rankgrpo" /\ plan.reward -> (IF sums = -1 THEN 0 ELSE sums) + n
    [] plan.recipe = "rankgrpo" /\ ~plan.reward -> IF sums = -1 THEN n ELSE sums

Fail ==
  /\ at' = "failed"
  /\ UNCHANGED <<plan, correct, batch, rows, padded, outs, samples, sums, scores>>

Collect ==
  /\ at = "collect"
  /\ IF Len(Unpadded) # Len(Inputs)
     THEN Fail
     ELSE /\ samples' = samples \o [i \in DOMAIN Inputs |->
               [prompt |-> Inputs[i], key |-> GroupKey(Inputs[i], i), out |-> Unpadded[i]]]
          /\ sums' = SumsAfter(Len(Inputs))
          /\ IF batch < Len(plan.batches)
             THEN batch' = batch + 1 /\ at' = "repeat"
             ELSE UNCHANGED batch /\ at' = "score"
          /\ UNCHANGED <<plan, correct, rows, padded, outs, scores>>

\* The rows of a group, in the order they were collected.
GroupOf(i) == <<Source[samples[i].prompt], samples[i].key>>
Members(g) == Ascending({i \in DOMAIN samples : GroupOf(i) = g})

\* The ground truth of a group is that of its first row.
Hits(members) ==
  {k \in DOMAIN members : samples[members[k]].out[3] = Truth[samples[members[1]].prompt]}
FirstHit(hits) == IF hits = {} THEN 0 ELSE CHOOSE k \in hits : \A l \in hits : k <= l

\* pass@k of OpenOneRec, the rank of the first hit of MiniOneRec, the rows of RankGRPO.
ScoreOf(g) ==
  LET hits == Hits(Members(g)) IN
  CASE plan.recipe = "openonerec" -> hits \cap 1 .. Cut # {}
    [] plan.recipe = "minionerec" -> FirstHit(hits)
    [] plan.recipe = "rankgrpo" -> hits

Score ==
  /\ at = "score"
  /\ IF sums \notin {-1, 0, Len(samples)}
     THEN Fail
     ELSE /\ scores' = [g \in {GroupOf(i) : i \in DOMAIN samples} |-> ScoreOf(g)]
          /\ at' = "done"
          /\ UNCHANGED <<plan, correct, batch, rows, padded, outs, samples, sums>>

Next == Repeat \/ Generate \/ Collect \/ Score

-----------------------------------------------------------------------------
Validated == ToSet(FlattenSeq(plan.batches))
Generated == Repeats * EngineRows

\* What a prompt scores by its own outputs alone.
Deserved(p) ==
  LET found == correct[p] \in 1 .. Generated IN
  CASE plan.recipe = "openonerec" -> found /\ correct[p] <= Cut
    [] plan.recipe = "minionerec" -> IF found THEN correct[p] ELSE 0
    [] plan.recipe = "rankgrpo" -> IF found THEN {correct[p]} ELSE {}

\* Every prompt of a validation is scored by the outputs generated from it, by all
\* of them and in their order, whichever way it was repeated, padded, expanded and
\* split into batches; no other reason than the list of rank_reward_sum stops it.
\* Without uid and index the rows of MiniOneRec are no groups.
ScoresBelongToPrompts ==
  /\ at = "done" /\ (plan.recipe = "minionerec" => plan.keyed) =>
       /\ DOMAIN scores = {<<Source[p], p>> : p \in Validated}
       /\ \A p \in Validated : scores[<<Source[p], p>>] = Deserved(p)
       /\ \A i \in DOMAIN samples : samples[i].out[1] = samples[i].prompt
  /\ at = "failed" => plan.recipe = "rankgrpo" /\ ~plan.reward

\* "Capture rank_reward_sum / rank_reward_mean from the advantage computation as a
\* fallback when extract_reward() didn't provide them" (rankgrpo_trainer.py:166-168):
\* a validation whose reward function gives none has one for every sample.
FallbackCoversEverySample ==
  at \in {"score", "failed"} /\ plan.recipe = "rankgrpo" /\ ~plan.reward =>
    sums = Len(samples)
=============================================================================
