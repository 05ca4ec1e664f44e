---------------------------- MODULE PromptShards ----------------------------
(***************************************************************************)
(* The HuggingFace rollout of MiniOneRec:                                  *)
(*   verl_gr/recipes/minionerec/constrained_beam_agent_loop.py groups the  *)
(*   rows of a batch by prompt and puts the answers back in their rows,    *)
(*   verl_gr/recipes/minionerec/minionerec_fsdp_workers.py gives every     *)
(*   rank a round-robin shard of the prompts,                              *)
(*   verl_gr/recipes/minionerec/hf_constrained_generation.py searches a    *)
(*   shard in micro-batches.                                               *)
(*                                                                         *)
(* A prompt is a number and a response the prompt it was generated from    *)
(* with its place among the beams.                                         *)
(***************************************************************************)
EXTENDS Integers, SequencesExt, FiniteSetsExt, Sorting

CONSTANTS
  MaxPrompts,   \* the most prompts of a batch
  Repeats,      \* the values of num_generations_per_prompt
  TrainWidth,   \* beam_width
  ValWidth,     \* val_beam_width
  Divisors,     \* values of agent.num_workers, to which a validation batch is padded
  Ranks,        \* world_size
  MicroBatch    \* hf_micro_batch_size

\* Assumed of the constants by RolloutLoops.
ShardsAssumption ==
  /\ {MaxPrompts, TrainWidth, ValWidth, Ranks, MicroBatch} \subseteq Nat \ {0}
  /\ Repeats \cup Divisors \subseteq Nat \ {0}

VARIABLES
  batch,      \* what the trainer sends
  phase,      \* where generate_sequences is
  out,        \* the response groups of each rank, in the order of its shard
  mode,       \* is the actor of a rank in eval() or in train() mode?
  rows        \* the responses, row by row

vars == <<batch, phase, out, mode, rows>>

Rank == 0 .. Ranks - 1
Batch == [prompts : 1 .. MaxPrompts, repeats : Repeats, divisor : Divisors,
          validate : BOOLEAN, hf : BOOLEAN]

\* n_beams, and the rows of the batch before and after the trainer's padding.
BeamWidth == IF batch.validate THEN ValWidth ELSE TrainWidth
Real == batch.prompts * batch.repeats * BeamWidth
Padding == IF batch.validate THEN (-Real) % batch.divisor ELSE 0
Size == Real + Padding
Row == 0 .. Size - 1

\* Every prompt is repeated in adjacent rows; the padding copies the first rows.
Prompt(r) == (r % Real) \div (batch.repeats * BeamWidth)

Init ==
  /\ batch \in Batch
  /\ phase = "group"
  /\ out = [k \in Rank |-> <<>>]
  /\ mode = [k \in Rank |-> "train"]
  /\ rows = <<>>

-----------------------------------------------------------------------------
(* _extract_prompt_groups                                                  *)

\* The runs of adjacent rows with one group id, in order: first row and length.
RunStarts == Ascending({r \in Row : r = 0 \/ Prompt(r - 1) # Prompt(r)})
RunLength(i) == (IF i = Len(RunStarts) THEN Size ELSE RunStarts[i + 1]) - RunStarts[i]

Divisible == \A i \in DOMAIN RunStarts : RunLength(i) % BeamWidth = 0

\* unique_texts: the prompt of every group of n_beams rows of a run.
UniqueTexts ==
  FlattenSeq([i \in DOMAIN RunStarts |->
    [k \in 1 .. RunLength(i) \div BeamWidth |-> Prompt(RunStarts[i])]])

\* No worker serves a decode mode that is not one of the HF modes.
Unrouted ==
  /\ phase = "group"
  /\ ~ batch.hf
  /\ phase' = "raised"
  /\ UNCHANGED <<batch, out, mode, rows>>

Indivisible == ~ Divisible

Refuse ==
  /\ phase = "group"
  /\ batch.hf
  /\ Indivisible
  /\ phase' = "refused"
  /\ UNCHANGED <<batch, out, mode, rows>>

Submit ==
  /\ phase = "group"
  /\ batch.hf
  /\ ~ Indivisible
  /\ phase' = "generate"
  /\ mode' = [k \in Rank |-> "eval"]
  /\ UNCHANGED <<batch, out, rows>>

-----------------------------------------------------------------------------
(* hf_constrained_beam_generate, on every rank at its own pace             *)

\* prompt_indices: range(rank, len(prompts), world_size), 1-based here.
Shard(k) == Ascending({i \in DOMAIN UniqueTexts : (i - 1) % Ranks = k})

\* The beams of one prompt, best first.
Responses(p) == [b \in 1 .. BeamWidth |-> [prompt |-> p, beam |-> b]]

GenerateMicroBatch(k) ==
  /\ phase = "generate"
  /\ mode[k] = "eval"
  /\ LET shard == Shard(k)
         next == SubSeq(shard, Len(out[k]) + 1, Min({Len(shard), Len(out[k]) + MicroBatch}))
     IN  /\ Len(out[k]) < Len(shard)
         /\ out' = [out EXCEPT ![k] = @ \o [j \in DOMAIN next |-> Responses(UniqueTexts[next[j]])]]
  /\ UNCHANGED <<batch, phase, mode, rows>>

EndShard(k) ==
  /\ phase = "generate"
  /\ mode[k] = "eval"
  /\ Len(out[k]) = Len(Shard(k))
  /\ mode' = [mode EXCEPT ![k] = "train"]
  /\ UNCHANGED <<batch, phase, out, rows>>

\* A rank raises: its actor stays in eval mode, and the batch is lost.
ShardRaises(k) ==
  /\ phase = "generate"
  /\ mode[k] = "eval"
  /\ phase' = "raised"
  /\ UNCHANGED <<batch, out, mode, rows>>

-----------------------------------------------------------------------------
(* _hf_generate_sequences: the shards go back in the order of the prompts  *)

\* Mutant: the shards are put one after the other, in the order of the ranks.
ConcatenatedGroups == FlattenSeq([k \in 1 .. Ranks |-> out[k - 1]])

\* ordered_response_groups: the group of every prompt index.
OrderedGroups ==
  [i \in DOMAIN UniqueTexts |->
     LET k == CHOOSE k \in Rank : i \in Range(Shard(k))
     IN  out[k][CHOOSE pos \in DOMAIN Shard(k) : Shard(k)[pos] = i]]

Reassemble ==
  /\ phase = "generate"
  /\ \A k \in Rank : mode[k] = "train"
  /\ LET all == FlattenSeq(OrderedGroups) IN
       IF Len(all) = Size THEN phase' = "done" /\ rows' = all
       ELSE phase' = "lost" /\ UNCHANGED rows
  /\ UNCHANGED <<batch, out, mode>>

Next ==
  \/ Unrouted \/ Refuse \/ Submit \/ Reassemble
  \/ \E k \in Rank : GenerateMicroBatch(k) \/ EndShard(k) \/ ShardRaises(k)

Spec == Init /\ [][Next]_vars

-----------------------------------------------------------------------------
\* Every row of the batch, the padding included, holds a response generated
\* from its own prompt, and the rows of a group hold its beams, best first, as
\* the reward ranks them, and no batch is lost for having too few or too many:
\* grouping, round-robin shards, micro-batches and reassembly undo each other
\* (constrained_beam_agent_loop.py:291-440, minionerec_fsdp_workers.py:111-112,
\* hf_constrained_generation.py:90-107).
OwnResponses ==
  /\ phase # "lost"
  /\ phase = "done" =>
       \A r \in Row : rows[r + 1] = [prompt |-> Prompt(r), beam |-> (r % BeamWidth) + 1]

\* A batch is refused as indivisible exactly when the trainer padded it, and
\* not by whole groups: training batches never are, and neither is a batch
\* whose prompt runs the padding merely lengthens
\* (minionerec_trainer.py:138-143, constrained_beam_agent_loop.py:317-322).
RefusedOnlyForThePadding ==
  batch.hf /\ phase # "group" =>
    (phase = "refused" <=> batch.validate /\ Padding % BeamWidth # 0)
=============================================================================
